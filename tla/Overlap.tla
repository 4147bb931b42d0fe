------------------------------ MODULE Overlap ------------------------------
(***************************************************************************)
(* A run of Replication beside another one on the same hosts: nothing in   *)
(* cmd/zsync/main.go keeps two runs apart.  The other run shows in what it *)
(* has done to the target, and in the receive it may be busy with.  Names  *)
(* matter here: the "-old" name was chosen when the target was listed, and *)
(* the other run may have taken it, or renamed the dataset, since.         *)
(***************************************************************************)
EXTENDS Replication

CONSTANT MaxOld     \* bound: the old replicas when a listing shows a receive under way

VARIABLES name,     \* name[d]: the old replicas of d when the target was listed
          otherPc,  \* the phase of the other run
          otherCur  \* and its dataset

NoNames == [d \in Dataset |-> 0]

\* name joins the variables of Replication.
InitOverlap == Init /\ name = NoNames

\* uniqueName chooses from what was listed.
NamesListed ==
    name' = IF pc' = "idle" THEN NoNames ELSE IF pc = "target" THEN old ELSE name

\* The dataset is there and the name chosen for it is still free.
Renamable == exists[cur] /\ old[cur] = name[cur]

\* The other run's first stream for d is on its way: d is there, empty.
Arriving(d) == otherPc = "send" /\ otherCur = d /\ ~exists[d]

OwnStep ==
    /\ Run \/ Crash
    /\ old' # old => Renamable
    /\ NamesListed

\* The listing of the target shows the dataset that is just being received.
ListArriving ==
    /\ pc = "target"
    /\ pc' = "root"
    /\ \E d \in Dataset :
          /\ Arriving(d) /\ old[d] < MaxOld
          /\ plan' = [Build EXCEPT ![d] = buildDatasetPlan(seen[d], TRUE, {})]
    /\ blind' = FALSE
    /\ NamesListed
    /\ UNCHANGED <<source, target, faults, seen, cur, transfer, clean, results>>

Renaming == pc = "dataset" /\ cur <= NDataset /\ plan[cur].action = "reinitialize"

\* The name is taken, or the dataset is gone: zfs rename refuses.
RenameRefused ==
    /\ Renaming
    /\ ~Renamable
    /\ SyncFailed
    /\ UNCHANGED <<source, target, faults, seen, blind, plan, execErr, name>>

\* The dataset the other run is receiving into, or only just creating, is
\* renamed under it.
RenameReceiving ==
    /\ otherPc = "send" /\ otherCur = cur
    /\ Reinitialize
    /\ old[cur] = name[cur]
    /\ UNCHANGED name

\* The other side of RenameReceiving: the stream ends, well or not, in the
\* dataset that was renamed.
Diverted ==
    /\ Delivered \/ NotDelivered
    /\ UNCHANGED <<seen, blind, plan, execErr, name>>

\* zfs refuses to receive into a dataset that is being received into.
Busy ==
    /\ pc = "send" /\ otherPc = "send" /\ otherCur = cur
    /\ NotDelivered
    /\ UNCHANGED <<source, target, faults, seen, blind, plan, execErr, name>>

Step == OwnStep \/ ListArriving \/ RenameRefused \/ Busy
-----------------------------------------------------------------------------
\* Since this run listed the target, the replica of d has been renamed, and
\* not, or not only, by the run itself.
Overtaken(d) ==
    /\ pc \notin {"idle", "target"}
    /\ old[d] # name[d]
    /\ ~(plan[d].action = "reinitialize" /\ old[d] = name[d] + 1)

\* ErrorOrReplicated as far as it survives an overlap: the replica is not
\* behind what this run has listed, unless the run was misled; the other run
\* may have taken it further, and rolled back or cleaned up the very snapshot
\* this run brought.
NoRegression ==
    pc = "done" /\ ~execErr /\ ~Misled =>
        \A d \in Dataset \ syncErr :
            LET matching == FilterSnapshots(seen[d])
            IN  matching # {} => \E x \in snaps[d] : x >= Max(matching)
=============================================================================
