---------------------------- MODULE ReplicaSpec ----------------------------
(***************************************************************************)
(* What replication promises about a dataset and its replica, whatever it  *)
(* discovers, plans and retries: nothing appears on the target that the    *)
(* source does not hold at that moment, nothing is received that is not    *)
(* newer than what the two sides share, a cleanup never takes the newest   *)
(* snapshot, and a replica is put aside only when nothing of it can serve  *)
(* as the base of an incremental send.  Replication implements it.         *)
(***************************************************************************)
EXTENDS Integers

CONSTANTS Dataset, Snapshot

VARIABLES source,       \* source[d]: the snapshots on the source
          replica       \* replica[d]: the snapshots on the target

Common(d) == source[d] \cap replica[d]

Init ==
    /\ source = [d \in Dataset |-> {}]
    /\ replica = [d \in Dataset |-> {}]

\* The source's own changes: a new snapshot, the loss of an old one.
ChangeSource(d) ==
    /\ \E s \in Snapshot :
          source' = [source EXCEPT ![d] = @ \cup {s}] \/ source' = [source EXCEPT ![d] = @ \ {s}]
    /\ UNCHANGED replica

\* The first snapshot of a replica, or one more after a common snapshot b:
\* whatever the replica held beyond b is rolled back.
Receive(d) ==
    /\ \E s \in source[d] :
          \/ replica[d] = {} /\ replica' = [replica EXCEPT ![d] = {s}]
          \/ \E b \in Common(d) :
                /\ b < s /\ s \notin replica[d]
                /\ \A x \in Common(d) : x <= b
                /\ replica' = [replica EXCEPT ![d] = {x \in @ : x <= b} \cup {s}]
    /\ UNCHANGED source

Prune(d) ==
    /\ \E s, x \in replica[d] :
          s < x /\ replica' = [replica EXCEPT ![d] = @ \ {s}]
    /\ UNCHANGED source

PutAside(d) ==
    /\ Common(d) = {}
    /\ replica' = [replica EXCEPT ![d] = {}]
    /\ UNCHANGED source

Next == \E d \in Dataset : ChangeSource(d) \/ Receive(d) \/ Prune(d) \/ PutAside(d)

Spec == Init /\ [][Next]_<<source, replica>>
=============================================================================
