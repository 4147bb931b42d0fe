---------------------------- MODULE Replication ----------------------------
(***************************************************************************)
(* zsync runs, one after another, against a source that keeps taking and   *)
(* rotating snapshots: discovery, the plan, its execution dataset by       *)
(* dataset, snapshot by snapshot and attempt by attempt, and the cleanup   *)
(* (cmd/zsync/main.go, internal/replication, zfs.SendReceive).             *)
(*                                                                         *)
(* The steps of a run act on what discovery saw, while the source goes on  *)
(* changing.  Transfers are interrupted, refused, or complete without      *)
(* zsync hearing of it; the process may die between any two steps and is   *)
(* started again by cron, one run at a time.                               *)
(***************************************************************************)
EXTENDS PlanBuilder, Zfs

CONSTANTS NDataset,     \* the source datasets, in discovery order
          MaxRetries,   \* retry.max_retries after defaults()
          Resumable,    \* retry.resumable
          MaxFaults,    \* bound: the failures and crashes of a behaviour
          Rotation      \* what the source's own rotation may destroy

Dataset == 1 .. NDataset

ASSUME ReplicationAssumption ==
    /\ NDataset \in Nat \ {0}
    /\ MaxRetries \in Nat
    /\ Resumable \in BOOLEAN
    /\ MaxFaults \in Nat
    /\ Rotation \in {"none", "oldest", "interval", "any"}

VARIABLES
    src,        \* src[d]: the snapshots of source dataset d
    taken,      \* taken[d]: how many snapshots d ever had
    root,       \* the target root dataset exists
    exists,     \* exists[d]: the target dataset of d exists
    snaps,      \* snaps[d]: its snapshots
    token,      \* token[d]: its resume token
    old,        \* old[d]: how many former replicas of d were renamed away
    faults,     \* failures left
    pc,         \* the phase of the run, "idle" between runs
    seen,       \* seen[d]: the source snapshots discovery listed
    blind,      \* history: discovery took a target root that is there for absent
    plan,       \* plan[d]: the plan for d
    cur,        \* the dataset Execute's loop is at
    queue,      \* its snapshots still to be sent
    base,       \* the base of the next send, None for a full one
    attempt,    \* the attempt SendReceive's loop is at
    clean,      \* clean[f]: what is left to destroy for filter entry f
    syncErr,    \* the datasets whose sync failed
    cleanErr,   \* the datasets whose cleanup failed
    execErr     \* creating the target root failed

source == <<src, taken>>
target == <<root, exists, snaps, token, old>>
results == <<syncErr, cleanErr, execErr>>
transfer == <<queue, base, attempt>>
run == <<pc, seen, blind, plan, cur, transfer, clean, results>>
vars == <<source, target, faults, run>>

NoPlan == [d \in Dataset |-> SkipPlan]
Nothing == [d \in Dataset |-> {}]

Init ==
    /\ src = Nothing
    /\ taken = [d \in Dataset |-> 0]
    /\ root \in BOOLEAN
    /\ exists = [d \in Dataset |-> FALSE]
    /\ snaps = Nothing
    /\ token = [d \in Dataset |-> NoToken]
    /\ old = [d \in Dataset |-> 0]
    /\ faults = MaxFaults
    /\ pc = "idle" /\ seen = Nothing /\ blind = FALSE /\ plan = NoPlan /\ cur = 1
    /\ queue = {} /\ base = None /\ attempt = 1 /\ clean = NoCleanup
    /\ syncErr = {} /\ cleanErr = {} /\ execErr = FALSE

Fault == faults > 0 /\ faults' = faults - 1

-----------------------------------------------------------------------------
(* The source, which is not zsync's to change.                             *)

TakeSnapshot(d) ==
    /\ taken[d] < MaxSnap
    /\ taken' = [taken EXCEPT ![d] = @ + 1]
    /\ src' = [src EXCEPT ![d] = @ \cup {taken[d] + 1}]
    /\ UNCHANGED <<target, faults, run>>

\* The source's rotation destroys the oldest snapshot of all, or of one
\* interval; an operator may destroy any.
Rotates(d, s) ==
    \/ Rotation = "oldest" /\ \A x \in src[d] : s <= x
    \/ Rotation = "interval" /\ \E f \in Match[s] :
          \A x \in FilterSnapshotsByInterval(src[d], f) : s <= x
    \/ Rotation = "any"

RotateSource(d) ==
    \E s \in src[d] :
        /\ Rotates(d, s)
        /\ src' = [src EXCEPT ![d] = @ \ {s}]
        /\ UNCHANGED <<taken, target, faults, run>>

-----------------------------------------------------------------------------
(* Discovery and the plan.                                                 *)

DiscoverSource ==
    /\ pc = "idle"
    /\ pc' = "target"
    /\ seen' = src
    /\ UNCHANGED <<source, target, faults, blind, plan, cur, transfer, clean, results>>

Build == [d \in Dataset |-> buildDatasetPlan(seen[d], exists[d], snaps[d])]
BuildWithoutTarget == [d \in Dataset |-> buildDatasetPlan(seen[d], FALSE, {})]

\* DatasetExists takes any failure to list the target root for its absence:
\* the run goes on as if nothing were on the target.
DiscoverTargetAndBuild ==
    /\ pc = "target"
    /\ pc' = "root"
    /\ \/ plan' = Build /\ blind' = FALSE /\ UNCHANGED faults
       \/ root /\ Fault /\ plan' = BuildWithoutTarget /\ blind' = TRUE
    /\ UNCHANGED <<source, target, seen, cur, transfer, clean, results>>

CreateRoot ==
    /\ pc = "root"
    /\ pc' = "dataset"
    /\ root' = TRUE
    /\ UNCHANGED <<source, exists, snaps, token, old, faults,
                   seen, blind, plan, cur, transfer, clean, results>>

\* zfs create -p of a root that is there does nothing, unless it fails.
CreateRootFails ==
    /\ pc = "root" /\ (~root \/ blind)
    /\ Fault
    /\ pc' = "done"
    /\ execErr' = TRUE
    /\ UNCHANGED <<source, target, seen, blind, plan, cur, transfer, clean,
                   syncErr, cleanErr>>

-----------------------------------------------------------------------------
(* Execute: the loop over the plan's datasets.                             *)

Attempts == 1 + MaxRetries

SkipDataset ==
    /\ pc = "dataset" /\ cur <= NDataset
    /\ plan[cur].action = "skip"
    /\ cur' = cur + 1
    /\ UNCHANGED <<source, target, faults, pc, seen, blind, plan, transfer, clean, results>>

\* executeInitial starts without a base, executeIncremental from the common
\* snapshot.
StartSync ==
    /\ pc = "dataset" /\ cur <= NDataset
    /\ plan[cur].action \in {"initial", "incremental"}
    /\ pc' = "send"
    /\ queue' = plan[cur].send /\ base' = plan[cur].common /\ attempt' = 1
    /\ UNCHANGED <<source, target, faults, seen, blind, plan, cur, clean, results>>

\* executeReinitialize renames the target to the first free "-old" name.
Reinitialize ==
    /\ pc = "dataset" /\ cur <= NDataset
    /\ plan[cur].action = "reinitialize"
    /\ exists' = [exists EXCEPT ![cur] = FALSE]
    /\ snaps' = [snaps EXCEPT ![cur] = {}]
    /\ token' = [token EXCEPT ![cur] = NoToken]
    /\ old' = [old EXCEPT ![cur] = @ + 1]
    /\ pc' = "send"
    /\ queue' = plan[cur].send /\ base' = None /\ attempt' = 1
    /\ UNCHANGED <<source, root, faults, seen, blind, plan, cur, clean, results>>

\* Mutant: the error is recorded and the cleanup runs all the same.
SyncFailedThenCleanup ==
    /\ syncErr' = syncErr \cup {cur}
    /\ pc' = "cleanup" /\ clean' = plan[cur].cleanup
    /\ queue' = {} /\ base' = None /\ attempt' = 1
    /\ UNCHANGED <<cur, cleanErr>>

\* Mutant: the first error ends the loop.
SyncFailedEndsLoop ==
    /\ syncErr' = syncErr \cup {cur}
    /\ cur' = NDataset + 1
    /\ pc' = "dataset"
    /\ queue' = {} /\ base' = None /\ attempt' = 1
    /\ UNCHANGED <<clean, cleanErr>>

\* What the loop does with a sync error: record it, skip the cleanup.
SyncFailed ==
    /\ syncErr' = syncErr \cup {cur}
    /\ cur' = cur + 1
    /\ pc' = "dataset"
    /\ queue' = {} /\ base' = None /\ attempt' = 1
    /\ UNCHANGED <<clean, cleanErr>>

ReinitializeFails ==
    /\ pc = "dataset" /\ cur <= NDataset
    /\ plan[cur].action = "reinitialize"
    /\ Fault
    /\ SyncFailed
    /\ UNCHANGED <<source, target, seen, blind, plan, execErr>>

FinishPlan ==
    /\ pc = "dataset" /\ cur > NDataset
    /\ pc' = "done"
    /\ UNCHANGED <<source, target, faults, seen, blind, plan, cur, transfer, clean, results>>

-----------------------------------------------------------------------------
(* SendReceive: the attempts at one snapshot.                              *)

Sending == Min(queue)

\* A retry asks for the resume token and, if there is one, sends that.
Resuming == attempt > 1 /\ Resumable /\ token[cur] # NoToken

CurrentStream == IF Resuming THEN token[cur] ELSE Stream(Sending, base)

\* Whether the two zfs processes can bring this attempt to its end.
CanTransfer ==
    /\ Sendable(CurrentStream, src[cur])
    /\ Resuming \/ Receivable(CurrentStream, exists[cur], snaps[cur], token[cur])

\* What an attempt leaves on the target: everything, a partial receive, or
\* nothing.  Without -s a partial receive is discarded.
Complete ==
    /\ exists' = [exists EXCEPT ![cur] = TRUE]
    /\ snaps' = [snaps EXCEPT ![cur] = Received(CurrentStream, @)]
    /\ token' = [token EXCEPT ![cur] = NoToken]

Partial ==
    /\ Resumable
    /\ exists' = [exists EXCEPT ![cur] = TRUE]
    /\ token' = [token EXCEPT ![cur] = CurrentStream]
    /\ UNCHANGED snaps

NoEffect == UNCHANGED <<exists, snaps, token>>

\* Mutant: the base of the next incremental send stays behind.
DeliveredSameBase ==
    /\ queue' = queue \ {Sending}
    /\ attempt' = 1
    /\ IF queue' = {} THEN pc' = "cleanup" /\ clean' = plan[cur].cleanup
                      ELSE UNCHANGED <<pc, clean>>
    /\ UNCHANGED <<cur, base, syncErr, cleanErr>>

\* The attempt was reported as successful: on to the next snapshot, and
\* after the last one to the cleanup.
Delivered ==
    /\ queue' = queue \ {Sending}
    /\ base' = Sending
    /\ attempt' = 1
    /\ IF queue' = {} THEN pc' = "cleanup" /\ clean' = plan[cur].cleanup
                      ELSE UNCHANGED <<pc, clean>>
    /\ UNCHANGED <<cur, syncErr, cleanErr>>

\* Mutant: one attempt too many.
NotDeliveredOneMore ==
    IF attempt <= Attempts
    THEN attempt' = attempt + 1 /\ UNCHANGED <<pc, cur, queue, base, clean, syncErr, cleanErr>>
    ELSE SyncFailed

\* Mutant: giving up is not an error.
NotDeliveredSilently ==
    IF attempt < Attempts
    THEN attempt' = attempt + 1 /\ UNCHANGED <<pc, cur, queue, base, clean, syncErr, cleanErr>>
    ELSE /\ cur' = cur + 1 /\ pc' = "dataset"
         /\ queue' = {} /\ base' = None /\ attempt' = 1
         /\ UNCHANGED <<clean, syncErr, cleanErr>>

\* It was reported as failed: the next attempt, or the error of the sync.
NotDelivered ==
    IF attempt < Attempts
    THEN attempt' = attempt + 1 /\ UNCHANGED <<pc, cur, queue, base, clean, syncErr, cleanErr>>
    ELSE SyncFailed

SendSucceeds ==
    /\ pc = "send"
    /\ \/ CanTransfer /\ Complete
       \/ ~Resuming /\ Sendable(CurrentStream, src[cur])
            /\ AlreadyThere(CurrentStream, snaps[cur], token[cur]) /\ NoEffect
    /\ Delivered
    /\ UNCHANGED <<source, root, old, faults, seen, blind, plan, execErr>>

\* A send or a receive that cannot start, for lack of a snapshot or because
\* of what is on the target.
SendRefused ==
    /\ pc = "send"
    /\ ~CanTransfer
    /\ NotDelivered
    /\ UNCHANGED <<source, target, faults, seen, blind, plan, execErr>>

\* A connection that cannot be made, is lost, or is lost after the stream's
\* last byte: the snapshot has arrived and the sender's exit says it failed.
SendFails ==
    /\ pc = "send"
    /\ Fault
    /\ CanTransfer /\ (NoEffect \/ Partial \/ Complete)
    /\ NotDelivered
    /\ UNCHANGED <<source, root, old, seen, blind, plan, execErr>>

-----------------------------------------------------------------------------
(* executeCleanup: per filter entry, oldest first, up to the first error.  *)

CleanupInterval == Min({f \in Filter : clean[f] # {}})
Destroying == Min(clean[CleanupInterval])

NextDataset ==
    /\ cur' = cur + 1
    /\ pc' = "dataset"
    /\ queue' = {} /\ base' = None /\ attempt' = 1
    /\ clean' = NoCleanup

Destroy ==
    /\ pc = "cleanup" /\ clean # NoCleanup
    /\ Destroyable(Destroying, snaps[cur], token[cur])
    /\ snaps' = [snaps EXCEPT ![cur] = @ \ {Destroying}]
    /\ clean' = [clean EXCEPT ![CleanupInterval] = @ \ {Destroying}]
    /\ UNCHANGED <<source, root, exists, token, old, faults,
                   pc, seen, blind, plan, cur, transfer, results>>

DestroyFails ==
    /\ pc = "cleanup" /\ clean # NoCleanup
    /\ IF Destroyable(Destroying, snaps[cur], token[cur])
       THEN Fault ELSE UNCHANGED faults
    /\ cleanErr' = cleanErr \cup {cur}
    /\ NextDataset
    /\ UNCHANGED <<source, target, seen, blind, plan, syncErr, execErr>>

FinishDataset ==
    /\ pc = "cleanup" /\ clean = NoCleanup
    /\ NextDataset
    /\ UNCHANGED <<source, target, faults, seen, blind, plan, results>>

-----------------------------------------------------------------------------
(* The end of the process.                                                 *)

Ended ==
    /\ pc' = "idle" /\ seen' = Nothing /\ blind' = FALSE /\ plan' = NoPlan /\ cur' = 1
    /\ queue' = {} /\ base' = None /\ attempt' = 1 /\ clean' = NoCleanup
    /\ syncErr' = {} /\ cleanErr' = {} /\ execErr' = FALSE

Exit ==
    /\ pc = "done"
    /\ Ended
    /\ UNCHANGED <<source, target, faults>>

\* The process dies, or it exits because a discovery command other than the
\* one for the target root failed.  A transfer
\* that was under way is interrupted or runs to its end.
Crash ==
    /\ pc # "idle"
    /\ Fault
    /\ Ended
    /\ \/ NoEffect
       \/ pc = "send" /\ CanTransfer /\ (Partial \/ Complete)
    /\ UNCHANGED <<source, root, old>>

-----------------------------------------------------------------------------
Run ==
    \/ DiscoverSource \/ DiscoverTargetAndBuild
    \/ CreateRoot \/ CreateRootFails
    \/ SkipDataset \/ StartSync \/ Reinitialize \/ ReinitializeFails \/ FinishPlan
    \/ SendSucceeds \/ SendRefused \/ SendFails
    \/ Destroy \/ DestroyFails \/ FinishDataset
    \/ Exit

Environment == \E d \in Dataset : TakeSnapshot(d) \/ RotateSource(d)

Next == Run \/ Crash \/ Environment

Spec == Init /\ [][Next]_vars

\* cron starts the next run and a running process keeps taking steps.
\* Nothing makes the source take or destroy a snapshot.
FairSpec == Spec /\ WF_vars(Run)

-----------------------------------------------------------------------------
(* Properties.                                                             *)

\* Every variable keeps its type; the loop over the attempts never goes
\* past the configured number.
TypeOK ==
    /\ src \in [Dataset -> SUBSET Snapshot] /\ taken \in [Dataset -> 0 .. MaxSnap]
    /\ root \in BOOLEAN /\ exists \in [Dataset -> BOOLEAN]
    /\ snaps \in [Dataset -> SUBSET Snapshot]
    /\ token \in [Dataset -> [snap : Snapshot \cup {None}, base : Snapshot \cup {None}]]
    /\ old \in [Dataset -> Nat]
    /\ faults \in 0 .. MaxFaults
    /\ pc \in {"idle", "target", "root", "dataset", "send", "cleanup", "done"}
    /\ seen \in [Dataset -> SUBSET Snapshot] /\ blind \in BOOLEAN
    /\ plan \in [Dataset -> DatasetPlan]
    /\ cur \in 1 .. NDataset + 1
    /\ queue \in SUBSET Snapshot /\ base \in Snapshot \cup {None}
    /\ attempt \in 1 .. Attempts
    /\ clean \in [Filter -> SUBSET Snapshot]
    /\ syncErr \subseteq Dataset /\ cleanErr \subseteq Dataset /\ execErr \in BOOLEAN
    /\ pc \in {"send", "cleanup"} => cur <= NDataset

\* A run that did not see the target sends it full streams; they are refused,
\* but a retry resumes whatever token is there, and its success counts as the
\* delivery of what was planned (discovery.go:76, client.go:233-241).
Misled == blind /\ Resumable

\* When Execute returns (execute.go:46), every dataset without a recorded
\* sync error has the newest matching snapshot that discovery listed:
\* interrupted, resumed and half-reported transfers included, and the
\* cleanup that follows a successful sync has not taken it again.  Only a
\* misled run can promise too much.
ErrorOrReplicated ==
    pc = "done" /\ ~execErr /\ ~Misled =>
        \A d \in Dataset \ syncErr :
            LET matching == FilterSnapshots(seen[d])
            IN  matching # {} => Max(matching) \in snaps[d]

\* Cleanup runs after a successful sync only (execute.go:44, 96-104): at
\* every destroy the newest planned snapshot is on the target and nothing
\* there is newer than it.
CleanupAfterSync ==
    [][Destroy => LET last == Max(plan[cur].send)
                  IN  last \in snaps'[cur] /\ \A x \in snaps'[cur] : x <= last]_vars

\* min_keep is a minimum (config.go:26): no step of a run, short of renaming
\* the whole replica away, leaves fewer snapshots of an interval on the
\* target than min_keep, or than were there if those were fewer.
RetainsMinKeep ==
    [][\A d \in Dataset, f \in Filter :
          LET kept == Cardinality(FilterSnapshotsByInterval(snaps[d], f))
              keeps == Cardinality(FilterSnapshotsByInterval(snaps'[d], f))
          IN  old'[d] = old[d] => keeps >= kept \/ keeps >= MinKeep[f]]_vars

\* A run never ends the possibility of incremental replication: if source
\* and target have a snapshot in common before one of its steps, they have
\* one after it (plan.go:185-191 reinitializes a dataset without one).
KeepsCommon ==
    [][Run \/ Crash =>
         \A d \in Dataset : src[d] \cap snaps[d] # {} => src[d] \cap snaps'[d] # {}]_vars

\* The cleanup destroys what is there (plan.go:219): no planned deletion has
\* been overtaken by the sync that precedes it.
PlannedDeletesExist ==
    pc = "cleanup" => \A f \in Filter : clean[f] \subseteq snaps[cur]

UpToDate(d) ==
    LET matching == FilterSnapshots(src[d])
    IN  matching # {} => Max(matching) \in snaps[d]

\* Once the failures have stopped and the source is quiet, repeated runs
\* bring every replica up to date and it stays so (SendReceive, client.go:200;
\* buildDatasetPlan, plan.go:143).  Nothing but a partial receive whose stream
\* the source can no longer send keeps a replica out of date for ever: not
\* what the source rotates, nor where a transfer or a run was cut short.
ConvergesUnlessStuck ==
    <>[](\A d \in Dataset :
            UpToDate(d) \/ (token[d] # NoToken /\ ~Sendable(token[d], src[d])))

\* The runs implement the promise of ReplicaSpec.
Replica == INSTANCE ReplicaSpec WITH source <- src, replica <- snaps
ImplementsReplica == Replica!Spec
=============================================================================
