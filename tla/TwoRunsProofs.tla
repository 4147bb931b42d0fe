--------------------------- MODULE TwoRunsProofs ---------------------------
(***************************************************************************)
(* Two overlapping runs: each one's steps, by what OverlapProofs says of   *)
(* them, leave the other one's invariant as it was, until one renames a    *)
(* dataset the other has listed or is receiving into.                      *)
(***************************************************************************)
EXTENDS TwoRuns, TLAPS

\* The assumptions under which the lemmas of OverlapProofs hold of A and B.
USE PlanAssumption, TwoRunsAssumption
    DEF Snapshot, Filter, A!Snapshot, A!Filter, B!Snapshot, B!Filter

-----------------------------------------------------------------------------
(* The hosts are the same for both.                                        *)

LEMMA SameDatasets == A!Dataset = B!Dataset
BY DEF A!Dataset, B!Dataset

LEMMA SameHosts == A!HostInv <=> B!HostInv
BY DEF A!HostInv, B!HostInv, A!Dataset, B!Dataset, A!Gapless, B!Gapless,
       A!FilterSnapshots, B!FilterSnapshots, A!NoToken, B!NoToken, A!Stream, B!Stream,
       A!OldestFirst, B!OldestFirst, A!Contiguous, B!Contiguous

LEMMA SameHostTypes == A!HostTyped <=> B!HostTyped
BY DEF A!HostTyped, B!HostTyped, A!Dataset, B!Dataset, A!StreamType, B!StreamType, A!None, B!None

LEMMA SameHostTypesNext == A!HostTyped' <=> B!HostTyped'
BY DEF A!HostTyped, B!HostTyped, A!Dataset, B!Dataset, A!StreamType, B!StreamType, A!None, B!None

LEMMA SameSteps == A!HostStep <=> B!HostStep
BY DEF A!HostStep, B!HostStep, A!Dataset, B!Dataset, A!Moved, B!Moved, A!Renamed, B!Renamed,
       A!SourceMoved, B!SourceMoved, A!NoToken, B!NoToken, A!Stream, B!Stream,
       A!Moves, B!Moves, A!Arrives, B!Arrives, A!DropsOldest, B!DropsOldest,
       A!FilterSnapshots, B!FilterSnapshots,
       A!OldestFirst, B!OldestFirst, A!Contiguous, B!Contiguous

\* As the number of elements of a set is for all.
LEMMA SameCardinality ==
    ASSUME NEW S
    PROVE  A!Cardinality(S) = Cardinality(S) /\ B!Cardinality(S) = Cardinality(S)
BY DEF Cardinality, A!Cardinality, B!Cardinality

-----------------------------------------------------------------------------
(* The types.                                                              *)

Typed == A!Typed /\ B!Typed /\ overtaken \in BOOLEAN

LEMMA TypesStart == Init => Typed
BY A!StartsWell, B!StartsWell DEF Init, Typed, A!Before, B!Before

LEMMA TypesStay ==
    ASSUME Typed, [Next]_vars
    PROVE  Typed'
<1>1. overtaken' \in BOOLEAN
  BY DEF Next, StepA, StepB, RenamesA, RenamesB, Environment, Marked, Typed, vars
<1>2. CASE StepA
  <2>1. A!Typed'
    BY <1>2, A!OwnTypes DEF StepA, Typed
  <2>2. B!Typed'
    BY <1>2, <2>1, A!TypedPartsNext, SameHostTypesNext, B!IdleTypes DEF StepA, Typed, runB
  <2> QED
    BY <1>1, <2>1, <2>2 DEF Typed
<1>3. CASE StepB
  <2>1. B!Typed'
    BY <1>3, B!OwnTypes DEF StepB, Typed
  <2>2. A!Typed'
    BY <1>3, <2>1, B!TypedPartsNext, SameHostTypesNext, A!IdleTypes DEF StepB, Typed, runA
  <2> QED
    BY <1>1, <2>1, <2>2 DEF Typed
<1>4. CASE RenamesA
  <2>1. A!Typed' /\ pcB = "send"
    BY <1>4, A!OwnTypes DEF RenamesA, Typed, A!RenameReceiving
  <2>2. B!Typed'
    BY <1>4, <2>1, A!TypedPartsNext, SameHostTypesNext, B!DivertedTypes DEF RenamesA, Typed
  <2> QED
    BY <1>1, <2>1, <2>2 DEF Typed
<1>5. CASE RenamesB
  <2>1. B!Typed' /\ pcA = "send"
    BY <1>5, B!OwnTypes DEF RenamesB, Typed, B!RenameReceiving
  <2>2. A!Typed'
    BY <1>5, <2>1, B!TypedPartsNext, SameHostTypesNext, A!DivertedTypes DEF RenamesB, Typed
  <2> QED
    BY <1>1, <2>1, <2>2 DEF Typed
<1>6. CASE Environment
  <2>1. A!Environment /\ UNCHANGED <<A!run, nameA>>
    BY <1>6 DEF Environment, runA, A!Environment, A!run, A!transfer, A!results
  <2>2. A!Typed'
    BY <2>1, A!OwnTypes DEF Typed
  <2>3. B!Typed'
    BY <1>6, <2>2, A!TypedPartsNext, SameHostTypesNext, B!IdleTypes DEF Environment, Typed, runB
  <2> QED
    BY <1>1, <2>2, <2>3 DEF Typed
<1>7. CASE UNCHANGED vars
  <2>1. A!HostTyped /\ B!HostTyped
    BY A!TypedParts, B!TypedParts DEF Typed
  <2>2. A!HostTyped' /\ B!HostTyped'
    BY <1>7, <2>1, SameHostTypesNext DEF A!HostTyped, vars, hosts
  <2>3. A!Typed'
    BY <1>7, <2>2, A!IdleTypes DEF Typed, vars, runA
  <2>4. B!Typed'
    BY <1>7, <2>2, B!IdleTypes DEF Typed, vars, runB
  <2> QED
    BY <1>1, <2>3, <2>4 DEF Typed
<1> QED
  BY <1>2, <1>3, <1>4, <1>5, <1>6, <1>7 DEF Next

\* Both runs and the hosts keep their types.
THEOREM TypesKept == Spec => []TypeOK
<1>1. Typed => TypeOK
  BY DEF Typed, TypeOK, A!Typed, B!Typed, A!TypeInv, B!TypeInv
<1> QED
  BY <1>1, TypesStart, TypesStay, PTL DEF Spec

-----------------------------------------------------------------------------
(* Until one is overtaken, each of them keeps its invariant.               *)

Inv == Typed /\ TogetherInv

\* What each run relies on before a step.
LEMMA BothBefore ==
    ASSUME Inv, ~overtaken
    PROVE  A!Before /\ B!Before
BY SameHosts, SameDatasets
   DEF Inv, Typed, TogetherInv, NoneOvertaken, A!Before, B!Before, A!Clear, B!Clear

\* And after a step that does not overtake either.
LEMMA StillClear ==
    ASSUME Marked, ~overtaken'
    PROVE  ~overtaken /\ NoneOvertaken' /\ A!Clear' /\ B!Clear'
<1>1. ~overtaken /\ \A d \in A!Dataset : ~A!Overtaken(d)' /\ ~B!Overtaken(d)'
  BY DEF Marked
<1>2. A!Clear' /\ B!Clear'
  BY <1>1, SameDatasets DEF A!Clear, B!Clear
<1> QED
  BY <1>1, <1>2 DEF NoneOvertaken

\* A step of either run.
LEMMA StepOfA ==
    ASSUME A!Plain, Inv, Typed', StepA, ~overtaken'
    PROVE  TogetherInv'
<1>1. ~overtaken /\ NoneOvertaken' /\ A!Clear' /\ B!Clear'
  BY StillClear DEF StepA
<1>2. A!Before /\ B!Before /\ A!Typed' /\ B!Typed'
  BY <1>1, BothBefore DEF Typed
<1>3. A!HostStep /\ A!RunInv'
  BY <1>1, <1>2, A!StepKeeps DEF StepA
<1>4. A!HostInv'
  BY <1>2, <1>3, A!HostStays DEF A!Before, A!Typed
<1>5. B!RunInv'
  BY <1>1, <1>2, <1>3, SameSteps, B!RunStays DEF StepA, runB
<1> QED
  BY <1>1, <1>3, <1>4, <1>5 DEF TogetherInv

LEMMA StepOfB ==
    ASSUME A!Plain, Inv, Typed', StepB, ~overtaken'
    PROVE  TogetherInv'
<1>1. ~overtaken /\ NoneOvertaken' /\ A!Clear' /\ B!Clear'
  BY StillClear DEF StepB
<1>2. A!Before /\ B!Before /\ A!Typed' /\ B!Typed'
  BY <1>1, BothBefore DEF Typed
<1>3. B!HostStep /\ B!RunInv'
  BY <1>1, <1>2, B!StepKeeps DEF StepB, A!Plain, B!Plain
<1>4. A!HostStep
  BY <1>3, SameSteps
<1>5. A!HostInv'
  BY <1>2, <1>4, A!HostStays DEF A!Before, A!Typed
<1>6. A!RunInv'
  BY <1>1, <1>2, <1>4, A!RunStays DEF StepB, runA
<1> QED
  BY <1>1, <1>3, <1>5, <1>6 DEF TogetherInv

\* The rename of a dataset that is being received into overtakes the receiver.
LEMMA RenamesOvertake ==
    ASSUME Inv, RenamesA \/ RenamesB
    PROVE  overtaken'
<1> SUFFICES ASSUME ~overtaken' PROVE FALSE
  BY DEF RenamesA, RenamesB, Marked
<1>1. ~overtaken /\ NoneOvertaken' /\ A!Clear' /\ B!Clear'
  BY StillClear DEF RenamesA, RenamesB
<1>2. A!Before /\ B!Before
  BY <1>1, BothBefore
<1>3. CASE RenamesA
  <2>1. /\ pcB = "send" /\ curB = curA /\ curA \in A!Dataset
        /\ old' = [old EXCEPT ![curA] = @ + 1]
    BY <1>2, <1>3 DEF RenamesA, A!RenameReceiving, A!Reinitialize,
                      A!Before, A!Typed, A!TypeInv, A!TypeOK, A!Dataset
  <2>2. old'[curB] = old[curB] + 1
    BY <1>2, <2>1 DEF A!Before, A!Typed, A!TypeInv, A!TypeOK
  <2>3. pcB' \notin {"idle", "target"} /\ UNCHANGED <<planB, nameB>>
    BY <1>3, <2>1 DEF RenamesA, B!Diverted, B!Delivered, B!NotDelivered, B!SyncFailed
  <2> QED
    BY <1>1, <1>2, <2>1, <2>2, <2>3, SameDatasets, B!DivertedIsOvertaken DEF B!Clear
<1>4. CASE RenamesB
  <2>1. /\ pcA = "send" /\ curA = curB /\ curB \in B!Dataset
        /\ old' = [old EXCEPT ![curB] = @ + 1]
    BY <1>2, <1>4 DEF RenamesB, B!RenameReceiving, B!Reinitialize,
                      B!Before, B!Typed, B!TypeInv, B!TypeOK, B!Dataset
  <2>2. old'[curA] = old[curA] + 1
    BY <1>2, <2>1 DEF B!Before, B!Typed, B!TypeInv, B!TypeOK
  <2>3. pcA' \notin {"idle", "target"} /\ UNCHANGED <<planA, nameA>>
    BY <1>4, <2>1 DEF RenamesB, A!Diverted, A!Delivered, A!NotDelivered, A!SyncFailed
  <2> QED
    BY <1>1, <1>2, <2>1, <2>2, <2>3, SameDatasets, A!DivertedIsOvertaken DEF A!Clear
<1> QED
  BY <1>3, <1>4

\* The runs stay where they are, and are not overtaken, while the source
\* changes.
LEMMA SourceStep ==
    ASSUME Inv, Typed', ~overtaken, A!HostStep, UNCHANGED <<old, runA, runB, overtaken>>
    PROVE  TogetherInv'
<1>1. A!Before /\ B!Before /\ A!Typed' /\ B!Typed'
  BY BothBefore DEF Typed
<1>2. A!HostInv'
  BY <1>1, A!HostStays DEF A!Before, A!Typed
<1>3. /\ \A d \in A!Dataset : A!Overtaken(d)' => A!Overtaken(d)
      /\ \A d \in A!Dataset : B!Overtaken(d)' => B!Overtaken(d)
  BY DEF A!Overtaken, B!Overtaken, runA, runB
<1>4. NoneOvertaken' /\ A!Clear' /\ B!Clear'
  BY <1>1, <1>3, SameDatasets DEF A!Clear, B!Clear, A!Before, B!Before, NoneOvertaken
<1>5. A!RunInv'
  BY <1>1, <1>4, A!RunStays DEF runA
<1>6. B!RunInv'
  BY <1>1, <1>4, SameSteps, B!RunStays DEF runB
<1> QED
  BY <1>2, <1>4, <1>5, <1>6 DEF TogetherInv

LEMMA InvStep ==
    ASSUME A!Plain, Inv, [Next]_vars
    PROVE  Inv'
<1>1. Typed'
  BY TypesStay DEF Inv
<1> SUFFICES ASSUME ~overtaken' PROVE TogetherInv'
  BY <1>1 DEF Inv, TogetherInv
<1>2. CASE StepA \/ StepB
  BY <1>1, <1>2, StepOfA, StepOfB
<1>3. CASE RenamesA \/ RenamesB
  BY <1>3, RenamesOvertake
<1>4. CASE Environment
  <2>1. ~overtaken /\ UNCHANGED <<runA, runB, overtaken>>
    BY <1>4 DEF Environment
  <2>2. A!HostStep /\ old' = old
    BY <1>4, <2>1, BothBefore, A!SourceMoves
       DEF Environment, A!Before, A!Typed, A!TakeSnapshot, A!RotateSource, A!target
  <2> QED
    BY <1>1, <2>1, <2>2, SourceStep
<1>5. CASE UNCHANGED vars
  <2>1. ~overtaken /\ UNCHANGED <<old, runA, runB, overtaken>>
    BY <1>5 DEF vars, hosts
  <2>2. A!HostStep
    BY <1>5, <2>1, BothBefore, A!Untouched DEF vars, hosts, A!Before, A!Typed
  <2> QED
    BY <1>1, <2>1, <2>2, SourceStep
<1> QED
  BY <1>2, <1>3, <1>4, <1>5 DEF Next

LEMMA InvStart == Init => Inv
<1> SUFFICES ASSUME Init PROVE Inv
  OBVIOUS
<1>1. A!Before /\ B!Before
  BY A!StartsWell, B!StartsWell DEF Init
<1> QED
  BY <1>1, TypesStart, SameDatasets
     DEF Inv, TogetherInv, NoneOvertaken, A!Before, B!Before, A!Clear, B!Clear

LEMMA Together ==
    ASSUME A!Plain
    PROVE  Spec => []Inv
BY InvStart, InvStep, PTL DEF Spec

\* With one filter entry and no resumed transfers, what a run means to do fits
\* the hosts whatever the other one has done since it listed them, until a
\* rename comes between.
THEOREM RunsFitTogether ==
    ASSUME A!Plain
    PROVE  Spec => []TogetherInv
<1>1. Inv => TogetherInv
  BY DEF Inv
<1> QED
  BY <1>1, Together, PTL

\* A run that ends without an error for a dataset has left it no further
\* behind than what it listed, or the other one has renamed it.
THEOREM NeitherBehind ==
    ASSUME A!Plain
    PROVE  Spec => []NotBehind
<1>1. Inv => NotBehind
  BY BothBefore, A!WhatIsReported, B!WhatIsReported DEF NotBehind
<1> QED
  BY <1>1, Together, PTL

-----------------------------------------------------------------------------
(* What the replicas go through.                                           *)

\* The abstract replica is the same for both.
LEMMA SameReplica == A!Replica!Next <=> B!Replica!Next
BY DEF A!Replica!Next, B!Replica!Next, A!Dataset, B!Dataset,
       A!Replica!ChangeSource, B!Replica!ChangeSource, A!Replica!Receive, B!Replica!Receive,
       A!Replica!Prune, B!Replica!Prune, A!Replica!PutAside, B!Replica!PutAside,
       A!Replica!Common, B!Replica!Common

\* One dataset is renamed, the others stay.
LEMMA OneRenamed ==
    ASSUME Typed, RenamesA \/ RenamesB
    PROVE  \E c \in A!Dataset : /\ old'[c] # old[c]
                                /\ \A d \in A!Dataset : d # c => snaps'[d] = snaps[d]
<1>1. /\ old \in [A!Dataset -> Nat] /\ snaps \in [A!Dataset -> SUBSET A!Snapshot]
      /\ curA \in 1 .. NDataset + 1 /\ curB \in 1 .. NDataset + 1
  BY DEF Typed, A!Typed, A!TypeInv, A!TypeOK, B!Typed, B!TypeInv, B!TypeOK
<1>2. PICK c \in A!Dataset : /\ old' = [old EXCEPT ![c] = @ + 1]
                             /\ snaps' = [snaps EXCEPT ![c] = {}]
  <2>1. CASE RenamesA
    <3>1. curA \in A!Dataset
      BY <1>1, <2>1 DEF RenamesA, A!RenameReceiving, A!Reinitialize, A!Dataset
    <3> QED
      BY <2>1, <3>1 DEF RenamesA, A!RenameReceiving, A!Reinitialize
  <2>2. CASE RenamesB
    <3>1. curB \in A!Dataset
      BY <1>1, <2>2 DEF RenamesB, B!RenameReceiving, B!Reinitialize, A!Dataset
    <3> QED
      BY <2>2, <3>1 DEF RenamesB, B!RenameReceiving, B!Reinitialize
  <2> QED
    BY <2>1, <2>2
<1> QED
  BY <1>1, <1>2

\* Until a rename overtakes one of them, the steps of both are steps of
\* ReplicaSpec, but for the rename itself.
THEOREM TogetherReplicate ==
    ASSUME A!Plain
    PROVE  Spec => TogetherImplementReplica
<1>1. ASSUME Inv, Typed', [Next]_vars, ~overtaken, old' = old
      PROVE  A!Replica!Next \/ UNCHANGED <<src, snaps>>
  <2>1. A!Before /\ B!Before /\ A!Typed' /\ B!Typed'
    BY <1>1, BothBefore DEF Typed
  <2>2. CASE StepA
    BY <1>1, <2>1, <2>2, A!ReplicaSteps DEF StepA
  <2>3. CASE StepB
    BY <1>1, <2>1, <2>3, SameReplica, B!ReplicaSteps DEF StepB, A!Plain, B!Plain
  <2>4. CASE RenamesA \/ RenamesB
    BY <1>1, <2>4, OneRenamed DEF Inv
  <2>5. CASE Environment
    BY <2>1, <2>5, A!SourceReplicaSteps DEF Environment, A!Before, A!Typed
  <2>6. CASE UNCHANGED vars
    BY <2>6 DEF vars, hosts
  <2> QED
    BY <1>1, <2>2, <2>3, <2>4, <2>5, <2>6 DEF Next
<1>2. Inv /\ Inv' /\ [Next]_vars => [~overtaken /\ old' = old => A!Replica!Next]_<<src, snaps>>
  BY <1>1 DEF Inv
<1> QED
  BY <1>2, Together, PTL DEF Spec, TogetherImplementReplica

\* While the source loses its oldest first, neither run takes the last common
\* snapshot of a dataset that is not renamed.
THEOREM CommonSurvivesBoth ==
    ASSUME A!Plain, A!OldestFirst
    PROVE  Spec => TogetherKeepCommon
<1>1. ASSUME Inv, Typed', Next, ~overtaken, NEW d \in A!Dataset,
             old'[d] = old[d], src'[d] = src[d], src[d] \cap snaps[d] # {}
      PROVE  src[d] \cap snaps'[d] # {}
  <2>1. A!Before /\ B!Before /\ A!Typed' /\ B!Typed' /\ old[d] \in Nat
    BY <1>1, BothBefore DEF Typed, A!Before, A!Typed, A!TypeInv, A!TypeOK
  <2>2. ASSUME A!HostStep PROVE src[d] \cap snaps'[d] # {}
    <3>1. A!Moved(d) \/ A!SourceMoved(d)
      BY <1>1, <2>1, <2>2 DEF A!HostStep, A!Renamed
    <3> QED
      BY <1>1, <2>1, <3>1, A!CommonRemains DEF A!Before, A!Typed
  <2>3. CASE StepA
    BY <2>1, <2>2, <2>3, A!OwnClear, A!StepKeeps DEF StepA
  <2>4. CASE StepB
    <3>1. B!HostStep
      BY <2>1, <2>4, B!OwnClear, B!StepKeeps DEF StepB, A!Plain, B!Plain
    <3> QED
      BY <2>2, <3>1, SameSteps
  <2>5. CASE RenamesA \/ RenamesB
    BY <1>1, <2>5, OneRenamed DEF Inv
  <2>6. CASE Environment
    BY <2>1, <2>2, <2>6, A!SourceMoves DEF Environment, A!Before, A!Typed
  <2> QED
    BY <1>1, <2>3, <2>4, <2>5, <2>6 DEF Next
<1>2. Inv /\ Inv' /\ [Next]_vars =>
        [~overtaken =>
           \A d \in A!Dataset :
              old'[d] = old[d] /\ src'[d] = src[d] /\ src[d] \cap snaps[d] # {}
              => src[d] \cap snaps'[d] # {}]_vars
  BY <1>1 DEF Inv
<1> QED
  BY <1>2, Together, PTL DEF Spec, TogetherKeepCommon

\* Nor do the cleanups of both leave less than min_keep of what was there.
THEOREM MinKeepSurvivesBoth ==
    ASSUME A!Plain, A!OldestFirst
    PROVE  Spec => TogetherRetainMinKeep
<1> DEFINE Kept(d, f) == Cardinality(A!FilterSnapshotsByInterval(snaps[d], f))
           Keeps(d, f) == Cardinality(A!FilterSnapshotsByInterval(snaps'[d], f))
<1>1. ASSUME Inv, Typed', Next, ~overtaken, NEW d \in A!Dataset, NEW f \in A!Filter,
             old'[d] = old[d]
      PROVE  Keeps(d, f) >= Kept(d, f) \/ Keeps(d, f) >= MinKeep[f]
  <2>1. A!Before /\ B!Before /\ A!Typed' /\ B!Typed'
    BY <1>1, BothBefore DEF Typed
  <2>2. ASSUME snaps'[d] = snaps[d] PROVE Keeps(d, f) >= Kept(d, f)
    <3>1. snaps[d] \in SUBSET A!Snapshot
      BY <2>1 DEF A!Before, A!Typed, A!TypeInv, A!TypeOK
    <3>2. A!FilterSnapshotsByInterval(snaps[d], f) \in SUBSET A!Snapshot
      BY <3>1 DEF A!FilterSnapshotsByInterval
    <3>3. Kept(d, f) \in Nat
      BY <3>2, A!SnapshotsFinite, SameCardinality
    <3> QED
      BY <2>2, <3>3
  <2>3. CASE StepA
    <3>1. LET kept == A!Cardinality(A!FilterSnapshotsByInterval(snaps[d], f))
              keeps == A!Cardinality(A!FilterSnapshotsByInterval(snaps'[d], f))
          IN  keeps >= kept \/ keeps >= MinKeep[f]
      BY <1>1, <2>1, <2>3, A!MinKeepRemains DEF StepA
    <3> QED
      BY <3>1, SameCardinality
  <2>4. CASE StepB
    <3>1. LET kept == B!Cardinality(B!FilterSnapshotsByInterval(snaps[d], f))
              keeps == B!Cardinality(B!FilterSnapshotsByInterval(snaps'[d], f))
          IN  keeps >= kept \/ keeps >= MinKeep[f]
      BY <1>1, <2>1, <2>4, SameDatasets, B!MinKeepRemains
         DEF StepB, A!Plain, B!Plain, A!OldestFirst, B!OldestFirst
    <3> QED
      BY <3>1, SameCardinality DEF A!FilterSnapshotsByInterval, B!FilterSnapshotsByInterval
  <2>5. CASE RenamesA \/ RenamesB
    BY <1>1, <2>2, <2>5, OneRenamed DEF Inv
  <2>6. CASE Environment
    BY <2>2, <2>6 DEF Environment, A!TakeSnapshot, A!RotateSource, A!target
  <2> QED
    BY <1>1, <2>3, <2>4, <2>5, <2>6 DEF Next
<1>2. Inv /\ Inv' /\ [Next]_vars =>
        [~overtaken =>
           \A d \in A!Dataset, f \in A!Filter :
              old'[d] = old[d] => Keeps(d, f) >= Kept(d, f) \/ Keeps(d, f) >= MinKeep[f]]_vars
  BY <1>1 DEF Inv
<1> QED
  BY <1>2, Together, PTL DEF Spec, TogetherRetainMinKeep
=============================================================================
