---------------------------- MODULE PlanOnLists ----------------------------
(***************************************************************************)
(* The plan builder as the source computes it, on slices of snapshots that *)
(* zfs lists by creation, oldest first.  PlanBuilder states the same plan  *)
(* on sets of snapshots; this module shows that nothing is lost by that,   *)
(* and checks what the plan announces to the user.                         *)
(***************************************************************************)
EXTENDS PlanBuilder, SequencesExt

VARIABLES S, T, exists,     \* what discovery saw of a dataset
          dp                \* its DatasetPlan

Listing(X) == SetToSortSeq(X, <)

-----------------------------------------------------------------------------
(* state.go                                                                *)

Filtered(list) == SelectSeq(list, LAMBDA s : Match[s] # {})
OfInterval(list, f) == SelectSeq(list, LAMBDA s : f \in Match[s])

-----------------------------------------------------------------------------
(* plan.go                                                                 *)

\* matched[len(matched)-k:], when it is longer than k.
NewestTail(list, k) ==
    IF Len(list) > k THEN SubSeq(list, Len(list) - k + 1, Len(list)) ELSE list

trimmed(list) ==
    LET keepGUIDs == UNION {ToSet(NewestTail(OfInterval(list, f), MinKeep[f])) : f \in Filter}
    IN  SelectSeq(list, LAMBDA s : s \in keepGUIDs)

\* Mutant: Keep forgets that no more can be deleted than is there.
intervalCleanupKeep(list, send, f) ==
    LET tgtInterval == OfInterval(list, f)
        totalAfterSync == Len(tgtInterval) + Len(OfInterval(send, f))
        excessCount == totalAfterSync - MinKeep[f]
    IN  [Interval |-> f,
         Delete |-> SubSeq(tgtInterval, 1, Min({excessCount, Len(tgtInterval)})),
         Keep |-> totalAfterSync - excessCount]

\* Mutant: one snapshot too many goes.
intervalCleanupOneMore(list, send, f) ==
    LET tgtInterval == OfInterval(list, f)
        totalAfterSync == Len(tgtInterval) + Len(OfInterval(send, f))
        deleteCount == Min({totalAfterSync - MinKeep[f] + 1, Len(tgtInterval)})
    IN  [Interval |-> f, Delete |-> SubSeq(tgtInterval, 1, deleteCount),
         Keep |-> totalAfterSync - deleteCount]

\* Per filter entry; entries with no excess are left out.
intervalCleanup(list, send, f) ==
    LET tgtInterval == OfInterval(list, f)
        totalAfterSync == Len(tgtInterval) + Len(OfInterval(send, f))
        deleteCount == Min({totalAfterSync - MinKeep[f], Len(tgtInterval)})
    IN  [Interval |-> f, Delete |-> SubSeq(tgtInterval, 1, deleteCount),
         Keep |-> totalAfterSync - deleteCount]

cleanupOf(list, send) ==
    LET exceeds(f) == Len(OfInterval(list, f)) + Len(OfInterval(send, f)) > MinKeep[f]
        entries == SelectSeq([f \in Filter |-> f], exceeds)
    IN  [i \in DOMAIN entries |-> intervalCleanup(list, send, entries[i])]

NoDatasetPlan == [Action |-> "none", Common |-> None, Send |-> <<>>, Cleanup |-> <<>>]

\* Mutant: the common snapshot is sent again.
planFromCommon(src, tgt, there) ==
    LET commonIdx == SelectLastInSeq(src, LAMBDA s : s \in ToSet(tgt))
        pending == Filtered(SubSeq(src, commonIdx, Len(src)))
    IN  IF Filtered(src) = <<>> THEN [NoDatasetPlan EXCEPT !.Action = "skip"]
        ELSE IF ~there
        THEN [NoDatasetPlan EXCEPT !.Action = "initial", !.Send = trimmed(Filtered(src))]
        ELSE IF commonIdx = 0
        THEN [NoDatasetPlan EXCEPT !.Action = "reinitialize", !.Send = trimmed(Filtered(src))]
        ELSE IF pending = <<>>
        THEN [NoDatasetPlan EXCEPT !.Action = "skip", !.Common = src[commonIdx]]
        ELSE [Action |-> "incremental", Common |-> src[commonIdx], Send |-> pending,
              Cleanup |-> cleanupOf(tgt, pending)]

\* The index of the common snapshot is searched from the newest to the
\* oldest, among all source snapshots; 0 when there is none.
planOf(src, tgt, there) ==
    LET commonIdx == SelectLastInSeq(src, LAMBDA s : s \in ToSet(tgt))
        pending == Filtered(SubSeq(src, commonIdx + 1, Len(src)))
    IN  IF Filtered(src) = <<>> THEN [NoDatasetPlan EXCEPT !.Action = "skip"]
        ELSE IF ~there
        THEN [NoDatasetPlan EXCEPT !.Action = "initial", !.Send = trimmed(Filtered(src))]
        ELSE IF commonIdx = 0
        THEN [NoDatasetPlan EXCEPT !.Action = "reinitialize", !.Send = trimmed(Filtered(src))]
        ELSE IF pending = <<>>
        THEN [NoDatasetPlan EXCEPT !.Action = "skip", !.Common = src[commonIdx]]
        ELSE [Action |-> "incremental", Common |-> src[commonIdx], Send |-> pending,
              Cleanup |-> cleanupOf(tgt, pending)]

-----------------------------------------------------------------------------
Init ==
    /\ S \in SUBSET Snapshot /\ T \in SUBSET Snapshot
    /\ exists \in BOOLEAN /\ (~exists => T = {})
    /\ dp = NoDatasetPlan

Build ==
    /\ dp = NoDatasetPlan
    /\ dp' = planOf(Listing(S), Listing(T), exists)
    /\ UNCHANGED <<S, T, exists>>

Spec == Init /\ [][Build]_<<S, T, exists, dp>>

-----------------------------------------------------------------------------
(* Properties.                                                             *)

\* What entry f is to have destroyed.
Deleted(f) ==
    UNION {ToSet(dp.Cleanup[i].Delete) : i \in {j \in DOMAIN dp.Cleanup :
                                                  dp.Cleanup[j].Interval = f}}

\* The plan on slices is the plan on sets, sent oldest first and with each
\* entry's deletions oldest first.
SamePlan ==
    dp # NoDatasetPlan =>
        LET p == buildDatasetPlan(S, exists, T)
        IN  /\ dp.Action = p.action
            /\ dp.Send = Listing(p.send)
            /\ p.action = "incremental" => dp.Common = p.common
            /\ \A f \in Filter : Deleted(f) = p.cleanup[f]
            /\ \A i \in DOMAIN dp.Cleanup :
                  dp.Cleanup[i].Delete = Listing(ToSet(dp.Cleanup[i].Delete))

\* What the target has after the sync and the cleanup.
AfterSync ==
    {x \in T : x <= dp.Common} \cup ToSet(dp.Send)
AfterCleanup == AfterSync \ UNION {Deleted(f) : f \in Filter}

\* No name of this dataset's snapshots matches two entries, and the target
\* has nothing newer than the common snapshot.
Orderly ==
    /\ \A x \in S \cup T : Cardinality(Match[x]) <= 1
    /\ \A x \in T : x <= dp.Common

\* Keep is the number of snapshots that will remain after cleanup
\* (plan.go:102), as the dry run prints it.
KeepIsWhatRemains ==
    Orderly =>
        \A i \in DOMAIN dp.Cleanup :
            LET kept == FilterSnapshotsByInterval(AfterCleanup, dp.Cleanup[i].Interval)
            IN  dp.Cleanup[i].Keep = Cardinality(kept)

\* No cleanup goes below an interval's min_keep (config.go:26), and of an
\* interval that has fewer the target loses none.
CleanupLeavesMinKeep ==
    Orderly =>
        \A f \in Filter :
            LET before == Cardinality(FilterSnapshotsByInterval(T, f))
                after == Cardinality(FilterSnapshotsByInterval(AfterCleanup, f))
            IN  after >= MinKeep[f] \/ after >= before
=============================================================================
