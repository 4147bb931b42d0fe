---------------------------- MODULE PlanBuilder ----------------------------
(***************************************************************************)
(* The pure half of zsync: which snapshots a run sends and which ones it   *)
(* destroys on the target (internal/replication/plan.go and state.go).     *)
(*                                                                         *)
(* A snapshot of a dataset is its position in creation order, so a listing *)
(* "sorted by creation, oldest first" is a set of numbers, a sub-slice of  *)
(* it is a range of that set, and two hosts hold the same number exactly   *)
(* when they hold a snapshot with the same GUID.  PlanOnLists checks this  *)
(* reading against the slices of the source.                               *)
(*                                                                         *)
(* What a snapshot's name says is in Match: the entries of snapshot_filter *)
(* whose pattern the name contains.                                        *)
(***************************************************************************)
EXTENDS Integers, FiniteSets, FiniteSetsExt

CONSTANTS MaxSnap,      \* bound: the snapshots a source dataset ever gets
          NFilter,      \* the entries of snapshot_filter, in file order
          MinKeep,      \* MinKeep[f]: min_keep of entry f
          Match         \* Match[s]: the entries whose pattern s's name holds

Snapshot == 1 .. MaxSnap
Filter == 1 .. NFilter

\* config.Validate refuses an empty filter list and a min_keep below 1.
ASSUME PlanAssumption ==
    /\ MaxSnap \in Nat
    /\ NFilter \in Nat \ {0}
    /\ MinKeep \in [Filter -> Nat \ {0}]
    /\ Match \in [Snapshot -> SUBSET Filter]

None == 0               \* no snapshot: the base of a full send

-----------------------------------------------------------------------------
\* The snapshots some filter entry selects; those that entry f selects.
FilterSnapshots(S) == {s \in S : Match[s] # {}}
\* Mutant: every selected snapshot counts for every entry.
FilterSnapshotsAnyInterval(S, f) == {s \in S : Match[s] # {}}
FilterSnapshotsByInterval(S, f) == {s \in S : f \in Match[s]}

\* The k oldest and the k newest members of S: a prefix and a suffix of the
\* listing, the whole listing when it is shorter than k.
OldestOf(S, k) == {s \in S : Cardinality({x \in S : x <= s}) <= k}
NewestOf(S, k) == {s \in S : Cardinality({x \in S : x >= s}) <= k}

\* A first replication takes the newest min_keep snapshots of every entry.
trimForInitial(S) ==
    {s \in S : \E f \in Filter :
                  s \in NewestOf(FilterSnapshotsByInterval(S, f), MinKeep[f])}

\* Mutant: one snapshot too many goes.
buildCleanupOneMore(T, send) ==
    [f \in Filter |->
       LET tgtInterval == FilterSnapshotsByInterval(T, f)
           incoming == Cardinality(FilterSnapshotsByInterval(send, f))
       IN  OldestOf(tgtInterval, Cardinality(tgtInterval) + incoming - MinKeep[f] + 1)]

\* Per entry, the oldest of the target's snapshots that exceed min_keep once
\* the incoming ones are added.
buildCleanup(T, send) ==
    [f \in Filter |->
       LET tgtInterval == FilterSnapshotsByInterval(T, f)
           incoming == Cardinality(FilterSnapshotsByInterval(send, f))
           excess == Cardinality(tgtInterval) + incoming - MinKeep[f]
       IN  OldestOf(tgtInterval, excess)]

NoCleanup == [f \in Filter |-> {}]

DatasetPlan == [action  : {"skip", "initial", "incremental", "reinitialize"},
                common  : Snapshot \cup {None},
                send    : SUBSET Snapshot,
                cleanup : [Filter -> SUBSET Snapshot]]

SkipPlan == [action |-> "skip", common |-> None, send |-> {},
             cleanup |-> NoCleanup]

\* The full send of a dataset that is absent, or that is renamed out of the
\* way first.
FullPlan(action, S) ==
    [action |-> action, common |-> None,
     send |-> trimForInitial(FilterSnapshots(S)), cleanup |-> NoCleanup]

\* Mutant: the search runs from the other end.
FirstCommonSnapshot(S, T) == Min(S \cap T)

\* The newest source snapshot the target also has, whatever its name.
CommonSnapshot(S, T) == Max(S \cap T)

Pending(S, T) ==
    FilterSnapshots({s \in S : s > CommonSnapshot(S, T)})

IncrementalPlan(S, T) ==
    [action |-> "incremental", common |-> CommonSnapshot(S, T),
     send |-> Pending(S, T), cleanup |-> buildCleanup(T, Pending(S, T))]

\* Mutant: a target without a common snapshot is left alone.
buildDatasetPlanNoReinitialize(S, exists, T) ==
    IF FilterSnapshots(S) = {} THEN SkipPlan
    ELSE IF ~exists THEN FullPlan("initial", S)
    ELSE IF S \cap T = {} \/ Pending(S, T) = {} THEN SkipPlan
    ELSE IncrementalPlan(S, T)

\* The plan for one dataset: S its source snapshots, T the target's, exists
\* whether the target dataset is there at all.
buildDatasetPlan(S, exists, T) ==
    IF FilterSnapshots(S) = {} THEN SkipPlan
    ELSE IF ~exists THEN FullPlan("initial", S)
    ELSE IF S \cap T = {} THEN FullPlan("reinitialize", S)
    ELSE IF Pending(S, T) = {} THEN SkipPlan
    ELSE IncrementalPlan(S, T)
=============================================================================
