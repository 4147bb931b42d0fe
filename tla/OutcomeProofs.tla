--------------------------- MODULE OutcomeProofs ---------------------------
(***************************************************************************)
(* What the runs of zsync add up to: they implement the promise of         *)
(* ReplicaSpec, every step maps to one of its steps or to a stutter; the   *)
(* report at the end of a run tells the truth; and what a cleanup leaves   *)
(* on the target: the newest snapshot, always; a common one, as long as    *)
(* the source destroys its oldest ones; min_keep of every filter entry,    *)
(* when moreover a resumed transfer is the one the plan wants next and no  *)
(* name matches two entries.                                               *)
(***************************************************************************)
EXTENDS ReplicationProofs, Status

USE DEF None

-----------------------------------------------------------------------------
(* The abstract replica.                                                   *)

\* One more snapshot on the target: it is the first one, or it follows on
\* the newest common snapshot.
LEMMA CompleteReceives ==
    ASSUME TypeInv, IInv, pc = "send", CanTransfer, Complete, UNCHANGED src
    PROVE  Replica!Receive(cur)
<1> DEFINE b == CurrentStream.base
           s == CurrentStream.snap
<1>1. cur \in Dataset
  BY SendFacts
<1>2. /\ s \in src[cur] /\ s \in Snapshot /\ s \notin snaps[cur]
      /\ b < s /\ b \in Snapshot \cup {None}
      /\ b = None => snaps[cur] = {}
      /\ b # None => b \in snaps[cur]
  BY StreamFacts
<1>3. b # None => b \in src[cur]
  BY DEF CanTransfer, Sendable
<1>4. snaps' = [snaps EXCEPT ![cur] = {x \in @ : x <= b} \cup {s}]
  BY DEF Complete, Received
<1>5. \A x \in src[cur] \cap snaps[cur] : x <= b
  BY FollowsOnCommon DEF Shared
<1> HIDE DEF b, s
<1>6. CASE b = None
  <2>1. snaps' = [snaps EXCEPT ![cur] = {s}]
    BY <1>2, <1>4, <1>6
  <2>2. QED
    BY <1>2, <1>6, <2>1 DEF Replica!Receive
<1>7. CASE b # None
  <2>1. b \in Replica!Common(cur)
    BY <1>2, <1>3, <1>7 DEF Replica!Common
  <2>2. \A x \in Replica!Common(cur) : x <= b
    BY <1>5 DEF Replica!Common
  <2>3. QED
    BY <1>2, <1>4, <2>1, <2>2 DEF Replica!Receive
<1>8. QED
  BY <1>6, <1>7

\* A destroy takes a snapshot that is not the newest.
LEMMA DestroyPrunes ==
    ASSUME TypeInv, IInv, IInv', Destroy
    PROVE  Replica!Prune(cur) /\ cur \in Dataset
<1>1. /\ cur \in Dataset /\ pc = "cleanup" /\ pc' = "cleanup" /\ cur' = cur /\ seen' = seen
      /\ Destroying \in snaps[cur] /\ src' = src
      /\ snaps' = [snaps EXCEPT ![cur] = @ \ {Destroying}]
      /\ Misled = FALSE /\ Misled' = FALSE
  BY DEF Destroy, Destroyable, TypeInv, TypeOK, Dataset, source, IInv, BlindSpares, Misled
<1>2. Goal(cur)' = Goal(cur)
  BY <1>1 DEF Goal
<1>3. Goal(cur) \in snaps'[cur] /\ snaps'[cur] = snaps[cur] \ {Destroying}
  BY <1>1, <1>2 DEF IInv, CleanOK, TypeInv, TypeOK
<1>4. Destroying # Goal(cur) /\ Goal(cur) \in snaps[cur]
  BY <1>3
<1>5. Destroying <= Goal(cur)
  BY <1>1 DEF IInv, CleanOK
<1>6. Destroying \in Snapshot /\ Goal(cur) \in Snapshot
  BY <1>1, <1>4 DEF TypeInv, TypeOK
<1> HIDE DEF Destroying, Goal
<1>7. Destroying < Goal(cur)
  BY <1>4, <1>5, <1>6 DEF Snapshot
<1>8. QED
  BY <1>1, <1>4, <1>7 DEF Replica!Prune

\* A dataset is renamed away only while it has nothing in common with the
\* source, although the plan that says so is older.
LEMMA ReinitializePutsAside ==
    ASSUME TypeInv, IInv, Reinitialize
    PROVE  Replica!PutAside(cur) /\ cur \in Dataset
<1>1. /\ cur \in Dataset /\ pc = "dataset" /\ plan[cur].action = "reinitialize"
      /\ snaps' = [snaps EXCEPT ![cur] = {}] /\ src' = src
  BY DEF Reinitialize, TypeInv, TypeOK, Dataset, source
<1>2. plan[cur] = PlanNow(cur)
  BY <1>1 DEF IInv, PlanFresh, Dataset
<1>3. plan[cur].action # "skip" /\ plan[cur].action # "initial"
  BY <1>1
<1>4. Starts(plan[cur], seen[cur], snaps[cur], exists[cur])
  BY <1>1, <1>2, <1>3, PlannedOnStart
<1>5. seen[cur] \cap snaps[cur] = {}
  BY <1>1, <1>4 DEF Starts
<1>6. \A x \in src[cur] \ seen[cur] : x \notin snaps[cur]
  BY <1>1 DEF IInv, Discovered
<1>7. QED
  BY <1>1, <1>5, <1>6 DEF Replica!PutAside, Replica!Common

\* Every step of the system is a step of the abstract one, or none.
LEMMA StepRefines ==
    ASSUME NoGaps, TypeInv, TypeInv', IInv, IInv', [Next]_vars
    PROVE  [Replica!Next]_<<src, snaps>>
<1>1. CASE Environment
  <2>1. PICK d \in Dataset : TakeSnapshot(d) \/ RotateSource(d)
    BY <1>1 DEF Environment
  <2>2. snaps' = snaps
    BY <2>1 DEF TakeSnapshot, RotateSource, target
  <2>3. \E s \in Snapshot :
           \/ src' = [src EXCEPT ![d] = @ \cup {s}]
           \/ src' = [src EXCEPT ![d] = @ \ {s}]
    <3>1. CASE TakeSnapshot(d)
      <4>1. taken[d] + 1 \in Snapshot
        BY <3>1, PlanAssumption DEF TakeSnapshot, TypeInv, TypeOK, Snapshot
      <4>2. QED
        BY <3>1, <4>1 DEF TakeSnapshot
    <3>2. CASE RotateSource(d)
      BY <3>2 DEF RotateSource, TypeInv, TypeOK
    <3>3. QED
      BY <2>1, <3>1, <3>2
  <2>4. Replica!ChangeSource(d)
    BY <2>2, <2>3 DEF Replica!ChangeSource
  <2>5. QED
    BY <2>4 DEF Replica!Next
<1>2. CASE SendSucceeds \/ SendFails \/ (Crash /\ pc = "send")
  <2>1. src' = src /\ pc = "send"
    BY <1>2 DEF SendSucceeds, SendFails, Crash, source
  <2>2. snaps' = snaps \/ (CanTransfer /\ Complete)
    BY <1>2 DEF SendSucceeds, SendFails, Crash, NoEffect, Partial
  <2>3. cur \in Dataset
    BY <2>1, SendFacts
  <2>4. QED
    BY <2>1, <2>2, <2>3, CompleteReceives DEF Replica!Next
<1>3. CASE Destroy
  BY <1>3, DestroyPrunes DEF Replica!Next
<1>4. CASE Reinitialize
  BY <1>4, ReinitializePutsAside DEF Replica!Next
<1>5. CASE \/ DiscoverSource \/ DiscoverTargetAndBuild \/ CreateRoot \/ CreateRootFails
           \/ SkipDataset \/ StartSync \/ ReinitializeFails \/ FinishPlan
           \/ SendRefused \/ DestroyFails \/ FinishDataset \/ Exit
           \/ (Crash /\ pc # "send") \/ UNCHANGED vars
  BY <1>5 DEF DiscoverSource, DiscoverTargetAndBuild, CreateRoot, CreateRootFails,
     SkipDataset, StartSync, ReinitializeFails, FinishPlan, SendRefused, DestroyFails,
     FinishDataset, Exit, Crash, NoEffect, vars, source, target
<1>6. QED
  BY <1>1, <1>2, <1>3, <1>4, <1>5 DEF Next, Run

\* The runs of zsync implement ReplicaSpec.
THEOREM Refinement ==
    ASSUME NoGaps
    PROVE  Spec => ImplementsReplica
<1>1. Init => Replica!Init
  BY DEF Init, Replica!Init, Nothing
<1>2. TypeInv /\ IInv /\ (TypeInv /\ IInv)' /\ [Next]_vars =>
        [Replica!Next]_<<src, snaps>>
  BY StepRefines
<1>3. QED
  BY <1>1, <1>2, Invariants, PTL DEF Spec, ImplementsReplica, Replica!Spec

-----------------------------------------------------------------------------
(* The report.                                                             *)

\* The newest member of a set, when it is also in a subset, is the newest of
\* the subset.
LEMMA LatestOfSubset ==
    ASSUME NEW S \in SUBSET Snapshot, NEW T \in SUBSET S, S # {}, Max(S) \in T
    PROVE  Latest(T) = Max(S) /\ Latest(S) = Max(S) /\ Max(S) \in Snapshot
<1>1. /\ Max(S) \in S /\ \A x \in S : x <= Max(S)
      /\ Max(T) \in T /\ \A x \in T : x <= Max(T)
  BY MaxOfSnapshots
<1>2. Max(T) <= Max(S) /\ Max(S) <= Max(T)
  BY <1>1
<1>3. Max(S) \in Snapshot /\ Max(T) \in Snapshot
  BY <1>1
<1>4. Max(T) = Max(S)
  BY <1>2, <1>3, PlanAssumption DEF Snapshot
<1>5. QED
  BY <1>3, <1>4 DEF Latest

\* A dataset without a failure, and with something to replicate, is reported
\* with its newest matching snapshot, unless the run is misled.
LEMMA GoalReported ==
    ASSUME TypeInv, IInv, pc = "done", ~execErr, ~Misled,
           NEW d \in Dataset, d \notin syncErr, FilterSnapshots(seen[d]) # {},
           NEW failed \in SUBSET Dataset, d \notin failed
    PROVE  /\ datasetStatus(d, failed).CommonSnapshot = Goal(d)
           /\ datasetStatus(d, failed).LatestSourceSnapshot = Goal(d)
           /\ Goal(d) \in snaps[d] /\ Goal(d) # None
<1> DEFINE srcSnaps == FilterSnapshots(seen[d])
           tgtSnaps == FilterSnapshots(snaps[d])
<1>1. Goal(d) \in snaps[d] /\ Goal(d) = Max(srcSnaps)
  BY DEF IInv, DoneOK, Goal
<1>2. srcSnaps \in SUBSET Snapshot /\ srcSnaps # {}
  BY DEF TypeInv, TypeOK, FilterSnapshots
<1>3. Max(srcSnaps) \in srcSnaps
  BY <1>2, MaxOfSnapshots
<1>4. Max(srcSnaps) \in srcSnaps \cap tgtSnaps
  BY <1>1, <1>3 DEF FilterSnapshots
<1>5. /\ Latest(srcSnaps \cap tgtSnaps) = Goal(d) /\ Latest(srcSnaps) = Goal(d)
      /\ Goal(d) \in Snapshot
  <2> HIDE DEF srcSnaps, tgtSnaps
  <2> QED BY <1>1, <1>2, <1>4, LatestOfSubset
<1>6. QED
  BY <1>1, <1>5 DEF datasetStatus, None, Snapshot

\* The report is OK exactly when nothing failed and there was something to
\* replicate, and the snapshot it names as common is the newest and is on
\* the target: for every number of datasets, failures and retries, in every
\* run that is not misled.
THEOREM ReportTrue ==
    ASSUME NoGaps
    PROVE  Spec => []ReportIsRight
<1>1. ASSUME TypeInv, IInv PROVE ReportIsRight
  <2> SUFFICES ASSUME pc = "done", ~Misled, NEW failed \in SUBSET Dataset
               PROVE  /\ OK(failed) <=>
                            /\ ~execErr /\ syncErr \cup cleanErr \cup failed = {}
                            /\ \A d \in Dataset : FilterSnapshots(seen[d]) # {}
                      /\ OK(failed) => \A d \in Dataset :
                            /\ Datasets(failed)[d].CommonSnapshot
                                 = Datasets(failed)[d].LatestSourceSnapshot
                            /\ Datasets(failed)[d].CommonSnapshot \in snaps[d]
    BY DEF ReportIsRight
  <2>1. ASSUME OK(failed)
        PROVE  /\ ~execErr /\ syncErr \cup cleanErr \cup failed = {}
               /\ \A d \in Dataset : FilterSnapshots(seen[d]) # {}
    <3>1. /\ ~execErr
          /\ \A d \in Dataset : /\ d \notin syncErr \cup cleanErr \cup failed
                                /\ datasetStatus(d, failed).CommonSnapshot # None
      BY <2>1 DEF OK, Datasets, datasetStatus, datasetProblem
    <3>2. syncErr \cup cleanErr \cup failed \subseteq Dataset
      BY <1>1 DEF TypeInv, TypeOK
    <3>3. ASSUME NEW d \in Dataset, FilterSnapshots(seen[d]) = {} PROVE FALSE
      BY <3>1, <3>3 DEF datasetStatus, Latest
    <3>4. QED
      BY <3>1, <3>2, <3>3
  <2>2. ASSUME ~execErr, syncErr \cup cleanErr \cup failed = {},
               \A d \in Dataset : FilterSnapshots(seen[d]) # {}
        PROVE  /\ OK(failed)
               /\ \A d \in Dataset :
                     /\ Datasets(failed)[d].CommonSnapshot
                          = Datasets(failed)[d].LatestSourceSnapshot
                     /\ Datasets(failed)[d].CommonSnapshot \in snaps[d]
    <3>1. ASSUME NEW d \in Dataset
          PROVE  /\ datasetStatus(d, failed).CommonSnapshot = Goal(d)
                 /\ datasetStatus(d, failed).LatestSourceSnapshot = Goal(d)
                 /\ Goal(d) \in snaps[d] /\ Goal(d) # None
      BY <1>1, <2>2, GoalReported
    <3>2. ASSUME NEW d \in Dataset PROVE ~datasetStatus(d, failed).Error
      <4>1. ~datasetProblem(d, failed)
        BY <2>2 DEF datasetProblem
      <4>2. QED
        BY <4>1 DEF datasetStatus
    <3>3. \A d \in Dataset : Datasets(failed)[d] = datasetStatus(d, failed)
      BY DEF Datasets
    <3>4. QED
      BY <2>2, <3>1, <3>2, <3>3 DEF OK
  <2>3. QED
    BY <2>1, <2>2
<1>2. QED
  BY <1>1, Invariants, PTL

-----------------------------------------------------------------------------
(* The attempts, without the assumption that a token is of the snapshot    *)
(* being sent.                                                             *)

\* While a dataset is sent: the next snapshot and the stream of the attempt.
LEMMA NextToSend ==
    ASSUME TypeInv, KeepInv, pc = "send"
    PROVE  /\ cur \in Dataset
           /\ Sending \in queue /\ Sending \in Snapshot
           /\ \A q \in queue : Sending <= q /\ q \in Snapshot
           /\ Sending \in FilterSnapshots(seen[cur])
           /\ CurrentStream \in StreamType
<1>1. queue # {} /\ queue \in SUBSET Snapshot /\ cur \in Dataset
  BY DEF TypeInv, WorkLeft, TypeOK, Dataset
<1>2. CurrentStream \in StreamType /\ Sending \in queue /\ Sending \in Snapshot
  BY <1>1, SendType DEF TypeInv
<1>3. \A q \in queue : Sending <= q /\ q \in Snapshot
  BY <1>1, MinOfSnapshots DEF Sending
<1>4. queue \subseteq FilterSnapshots(seen[cur])
  BY DEF KeepInv, SendSpares
<1>5. QED
  BY <1>1, <1>2, <1>3, <1>4

\* A stream that can be sent and received carries a matching snapshot of the
\* source that the target lacks and that is not to be destroyed, also when it
\* is resumed.
LEMMA WhatArrives ==
    ASSUME TypeInv, KeepInv, pc = "send", CanTransfer
    PROVE  LET s == CurrentStream.snap
           IN  /\ s \in src[cur] /\ s \in Snapshot /\ Match[s] # {}
               /\ s \notin snaps[cur] /\ s \in 1 .. taken[cur]
               /\ CurrentStream.base < s /\ CurrentStream.base \in Snapshot \cup {None}
               /\ \A x \in src[cur] \ seen[cur] : x # s
               /\ \A f \in Filter : s \notin plan[cur].cleanup[f]
<1> DEFINE s == CurrentStream.snap
<1>1. /\ cur \in Dataset /\ Sending \in queue /\ Sending \in Snapshot
      /\ Sending \in FilterSnapshots(seen[cur]) /\ CurrentStream \in StreamType
  BY NextToSend
<1>2. s \in src[cur] /\ s \in Snapshot /\ CurrentStream.base \in Snapshot \cup {None}
  BY <1>1 DEF CanTransfer, Sendable, TypeInv, TypeOK, StreamType
<1>3. s \in 1 .. taken[cur]
  BY <1>1, <1>2 DEF KeepInv, Numbered
<1>4. CASE Resuming
  <2>1. CurrentStream = token[cur] /\ token[cur] # NoToken
    BY <1>4 DEF CurrentStream, Resuming
  <2>2. Match[s] # {} /\ CurrentStream.base < s /\ s \notin snaps[cur]
    BY <1>1, <2>1 DEF KeepInv, TokenAhead
  <2>3. \A x \in src[cur] \ seen[cur] : x # s
    BY <1>1, <2>1 DEF KeepInv, Discovered
  <2>4. \A f \in Filter : s \notin plan[cur].cleanup[f]
    BY <2>1 DEF KeepInv, SendSpares
  <2>5. QED
    BY <1>2, <1>3, <2>2, <2>3, <2>4
<1>5. CASE ~Resuming
  <2>1. CurrentStream = Stream(Sending, base) /\ s = Sending /\ CurrentStream.base = base
    BY <1>5 DEF CurrentStream, Stream
  <2>2. Receivable(CurrentStream, exists[cur], snaps[cur], token[cur])
    BY <1>5 DEF CanTransfer
  <2>3. s \notin snaps[cur]
    <3>1. CASE CurrentStream.base = 0
      BY <1>1, <2>2, <3>1 DEF Receivable, KeepInv, TargetOK
    <3>2. CASE CurrentStream.base # 0
      BY <2>2, <3>2 DEF Receivable
    <3>3. QED
      BY <3>1, <3>2
  <2>4. Match[s] # {} /\ s \in seen[cur]
    BY <1>1, <2>1 DEF FilterSnapshots
  <2>5. CurrentStream.base < s
    BY <1>1, <2>1 DEF KeepInv, SendSpares
  <2>6. \A f \in Filter : s \notin plan[cur].cleanup[f]
    BY <1>1, <2>1 DEF KeepInv, SendSpares
  <2>7. QED
    BY <1>2, <1>3, <2>3, <2>4, <2>5, <2>6
<1>6. QED
  BY <1>4, <1>5

\* What an attempt may leave on the target of the current dataset.
Leaves ==
    /\ snaps'[cur] \subseteq 1 .. taken[cur] /\ token'[cur].snap <= taken[cur]
    /\ ~exists'[cur] => snaps'[cur] = {} /\ token'[cur] = NoToken
    /\ \A x \in snaps'[cur] : Match[x] # {}
    /\ \A x \in src[cur] \ seen[cur] : x \notin snaps'[cur] /\ x # token'[cur].snap
    /\ token'[cur] # NoToken =>
         /\ Match[token'[cur].snap] # {}
         /\ token'[cur].base < token'[cur].snap /\ token'[cur].snap \notin snaps'[cur]
         /\ \A f \in Filter : token'[cur].snap \notin plan[cur].cleanup[f]
    /\ \/ snaps'[cur] = snaps[cur]
       \/ \E n \in snaps'[cur] : /\ \A x \in snaps'[cur] : x <= n
                                 /\ \A f \in Filter : n \notin plan[cur].cleanup[f]
    /\ \A d \in Dataset : d # cur =>
         exists'[d] = exists[d] /\ snaps'[d] = snaps[d] /\ token'[d] = token[d]

LEMMA AttemptLeaves ==
    ASSUME TypeInv, KeepInv, pc = "send",
           NoEffect \/ (CanTransfer /\ (Partial \/ Complete))
    PROVE  Leaves
<1>1. /\ cur \in Dataset /\ CurrentStream \in StreamType
  BY NextToSend
<1>2. /\ snaps[cur] \subseteq 1 .. taken[cur] /\ token[cur].snap <= taken[cur]
      /\ ~exists[cur] => snaps[cur] = {} /\ token[cur] = NoToken
      /\ \A x \in snaps[cur] : Match[x] # {}
      /\ \A x \in src[cur] \ seen[cur] : x \notin snaps[cur] /\ x # token[cur].snap
      /\ token[cur] # NoToken =>
           /\ Match[token[cur].snap] # {}
           /\ token[cur].base < token[cur].snap /\ token[cur].snap \notin snaps[cur]
           /\ \A f \in Filter : token[cur].snap \notin plan[cur].cleanup[f]
  BY <1>1 DEF KeepInv, Numbered, TargetOK, Discovered, TokenAhead, SendSpares
<1>3. snaps[cur] \in SUBSET Snapshot /\ taken[cur] \in Nat
  BY <1>1 DEF TypeInv, TypeOK
<1>4. CASE NoEffect
  BY <1>2, <1>4 DEF Leaves, NoEffect
<1> DEFINE s == CurrentStream.snap
           b == CurrentStream.base
<1>5. ASSUME CanTransfer
      PROVE  /\ s \in src[cur] /\ s \in Snapshot /\ Match[s] # {}
             /\ s \notin snaps[cur] /\ s \in 1 .. taken[cur]
             /\ b < s /\ b \in Snapshot \cup {None}
             /\ \A x \in src[cur] \ seen[cur] : x # s
             /\ \A f \in Filter : s \notin plan[cur].cleanup[f]
  BY <1>5, WhatArrives
<1>6. CASE CanTransfer /\ Partial
  <2>1. /\ exists'[cur] = TRUE /\ snaps' = snaps /\ token'[cur] = CurrentStream
        /\ \A d \in Dataset : d # cur => exists'[d] = exists[d] /\ token'[d] = token[d]
    BY <1>1, <1>6 DEF Partial, TypeInv, TypeOK
  <2>2. s <= taken[cur]
    BY <1>3, <1>5, <1>6
  <2> HIDE DEF s, b
  <2>3. token'[cur].snap = s /\ token'[cur].base = b
    BY <2>1 DEF s, b
  <2>4. QED
    BY <1>2, <1>5, <1>6, <2>1, <2>2, <2>3 DEF Leaves
<1>7. CASE CanTransfer /\ Complete
  <2>1. /\ snaps'[cur] = {x \in snaps[cur] : x <= b} \cup {s}
        /\ token'[cur] = NoToken /\ exists'[cur] = TRUE
        /\ \A d \in Dataset : d # cur =>
             exists'[d] = exists[d] /\ snaps'[d] = snaps[d] /\ token'[d] = token[d]
    BY <1>1, <1>7 DEF Complete, Received, TypeInv, TypeOK
  <2> HIDE DEF s, b
  <2>2. NoToken.snap = 0
    BY DEF NoToken, Stream
  <2>3. ASSUME NEW x \in snaps'[cur] PROVE x <= s
    <3>1. x = s \/ (x \in snaps[cur] /\ x <= b)
      BY <2>1
    <3>2. s \in Int /\ b \in Int /\ b < s /\ (x \in snaps[cur] => x \in Int)
      BY <1>3, <1>5, <1>7 DEF Snapshot
    <3>3. QED
      BY <3>1, <3>2
  <2>4. s \in snaps'[cur] /\ \A f \in Filter : s \notin plan[cur].cleanup[f]
    BY <1>5, <1>7, <2>1
  <2>5. snaps'[cur] \subseteq 1 .. taken[cur] /\ token'[cur].snap <= taken[cur]
    BY <1>2, <1>3, <1>5, <1>7, <2>1, <2>2
  <2>6. \A x \in src[cur] \ seen[cur] : x \notin snaps'[cur] /\ x # token'[cur].snap
    <3>1. src[cur] \in SUBSET Snapshot
      BY <1>1 DEF TypeInv, TypeOK
    <3>2. QED
      BY <1>2, <1>5, <1>7, <2>1, <2>2, <3>1 DEF Snapshot
  <2>7. \A x \in snaps'[cur] : Match[x] # {}
    BY <1>2, <1>5, <1>7, <2>1
  <2>8. QED
    BY <2>1, <2>3, <2>4, <2>5, <2>6, <2>7 DEF Leaves
<1>8. QED
  BY <1>4, <1>6, <1>7

-----------------------------------------------------------------------------
(* KeepInv, step by step.                                                  *)

Hosts == Numbered /\ TargetOK /\ Discovered /\ TokenAhead

\* The plans of the datasets after the current one stay fresh while it is
\* worked on and when the loop leaves it.
LEMMA StaysFresh ==
    ASSUME TypeInv, PlanFresh, cur \in Dataset, pc \in {"dataset", "send", "cleanup"},
           UNCHANGED <<seen, blind, plan>>,
           \/ pc' = "dataset" /\ cur' = cur + 1
           \/ pc' \in {"send", "cleanup"} /\ cur' = cur,
           \A d \in Dataset : d # cur => exists'[d] = exists[d] /\ snaps'[d] = snaps[d]
    PROVE  PlanFresh'
<1>1. \A d \in Dataset : d \in Int /\ cur \in Int
  BY DEF Dataset
<1>2. ASSUME NEW d \in Dataset, cur < d
      PROVE  plan'[d] = PlanNow(d)'
  <2>1. d # cur /\ cur <= d
    BY <1>1, <1>2
  <2>2. plan[d] = PlanNow(d)
    BY <1>2, <2>1 DEF PlanFresh
  <2>3. QED
    BY <2>1, <2>2 DEF PlanNow
<1>3. CASE pc' = "dataset" /\ cur' = cur + 1
  <2>1. \A d \in Dataset : cur' <= d => cur < d
    BY <1>1, <1>3
  <2>2. QED
    BY <1>2, <1>3, <2>1 DEF PlanFresh
<1>4. CASE pc' \in {"send", "cleanup"} /\ cur' = cur
  BY <1>2, <1>4 DEF PlanFresh
<1>5. QED
  BY <1>3, <1>4

\* A step that leaves source, target and listing alone.
LEMMA HostsUnchanged ==
    ASSUME Hosts, UNCHANGED <<src, taken, exists, snaps, token, seen>>,
           pc' # "idle" => pc # "idle"
    PROVE  Hosts'
BY DEF Hosts, Numbered, TargetOK, Discovered, TokenAhead

\* An attempt, in a run that goes on or in one that dies.
LEMMA HostsAfterAttempt ==
    ASSUME TypeInv, Hosts, cur \in Dataset, Leaves, UNCHANGED <<src, taken>>, pc # "idle",
           seen' = seen \/ (pc' = "idle" /\ seen' = Nothing)
    PROVE  Hosts'
<1>1. \A d \in Dataset : seen'[d] \subseteq seen[d]
  BY DEF Nothing
<1>2. \A d \in Dataset : /\ src[d] \cup seen[d] \subseteq 1 .. taken[d]
                         /\ snaps'[d] \subseteq 1 .. taken[d] /\ token'[d].snap <= taken[d]
  BY DEF Hosts, Numbered, Leaves
<1>3. Numbered'
  BY <1>1, <1>2 DEF Numbered
<1>4. TargetOK' /\ TokenAhead'
  BY DEF Hosts, TargetOK, TokenAhead, Leaves
<1>5. Discovered'
  BY DEF Hosts, Discovered, Leaves
<1>6. QED
  BY <1>3, <1>4, <1>5 DEF Hosts

\* The source: what it takes is newer than all that is known; losing its
\* oldest leaves what it has contiguous.
LEMMA KeepSource ==
    ASSUME TypeInv, TypeInv', KeepInv, Environment
    PROVE  KeepInv'
<1> USE DEF target, run, transfer, results
<1>1. PICK d \in Dataset : TakeSnapshot(d) \/ RotateSource(d)
  BY DEF Environment
<1>2. UNCHANGED <<target, faults, run>>
  BY <1>1 DEF TakeSnapshot, RotateSource
<1>3. /\ taken[d] \in Nat /\ taken'[d] \in Nat /\ taken[d] <= taken'[d]
      /\ \A e \in Dataset : e # d => src'[e] = src[e] /\ taken'[e] = taken[e]
      /\ \A x \in src'[d] : x \in src[d] \/ (x = taken[d] + 1 /\ taken'[d] = x)
  BY <1>1 DEF TakeSnapshot, RotateSource, TypeInv, TypeOK
<1>4. /\ src[d] \cup seen[d] \cup snaps[d] \subseteq 1 .. taken[d]
      /\ token[d].snap <= taken[d] /\ token[d].snap \in Nat
  BY DEF KeepInv, Numbered, TypeInv, TypeOK, Snapshot
<1>5. ASSUME NEW x \in src'[d], x \notin src[d]
      PROVE  /\ x \notin snaps[d] /\ x # token[d].snap /\ x \in 1 .. taken'[d]
             /\ \A y \in seen[d] : y < x
  BY <1>3, <1>4, <1>5
<1>6. Numbered'
  <2>1. src'[d] \cup seen[d] \cup snaps[d] \subseteq 1 .. taken'[d] /\ token[d].snap <= taken'[d]
    BY <1>3, <1>4, <1>5
  <2>2. QED
    BY <1>2, <1>3, <2>1 DEF KeepInv, Numbered
<1>7. Discovered'
  BY <1>2, <1>3, <1>5 DEF KeepInv, Discovered
<1>8. /\ TargetOK' /\ TokenAhead' /\ PlanFresh' /\ BlindSpares'
      /\ SendSpares' /\ CleanSpares'
  BY <1>2 DEF KeepInv, TargetOK, TokenAhead, PlanFresh, PlanNow, BlindSpares,
     SendSpares, CleanSpares, NewestSpared, FilterSnapshots
<1>9. ASSUME OldestFirst PROVE Contiguous'
  <2>1. \A e \in Dataset : \A x \in src[e] : x .. taken[e] \subseteq src[e]
    BY <1>9 DEF KeepInv, Contiguous
  <2>2. ASSUME NEW x \in src'[d], NEW y \in x .. taken'[d] PROVE y \in src'[d]
    <3>1. CASE TakeSnapshot(d)
      <4>1. src'[d] = src[d] \cup {taken[d] + 1} /\ taken'[d] = taken[d] + 1
        BY <3>1 DEF TakeSnapshot, TypeInv, TypeOK
      <4>2. QED
        BY <1>3, <1>4, <2>1, <2>2, <4>1
    <3>2. CASE RotateSource(d)
      <4>1. PICK s \in src[d] : Rotates(d, s) /\ src' = [src EXCEPT ![d] = @ \ {s}]
        BY <3>2 DEF RotateSource
      <4>2. src'[d] = src[d] \ {s} /\ taken' = taken /\ \A z \in src[d] : s <= z
        BY <1>9, <3>2, <4>1 DEF RotateSource, Rotates, OldestFirst, TypeInv, TypeOK
      <4>3. s <= x /\ x # s /\ s \in 1 .. taken[d] /\ x \in 1 .. taken[d]
        BY <1>4, <2>2, <4>2
      <4>4. y # s
        BY <2>2, <4>2, <4>3
      <4>5. QED
        BY <2>1, <2>2, <4>2, <4>4
    <3>3. QED
      BY <1>1, <3>1, <3>2
  <2>3. QED
    BY <1>3, <2>1, <2>2 DEF Contiguous
<1>10. QED
  BY <1>6, <1>7, <1>8, <1>9 DEF KeepInv

\* Discovery and the plan; the root.
LEMMA KeepPlan ==
    ASSUME TypeInv, KeepInv,
           DiscoverSource \/ DiscoverTargetAndBuild \/ CreateRoot \/ CreateRootFails
    PROVE  KeepInv'
<1>1. /\ UNCHANGED <<src, taken, exists, snaps, token>>
      /\ pc' \in {"target", "root", "dataset", "done"}
  BY DEF DiscoverSource, DiscoverTargetAndBuild, CreateRoot, CreateRootFails, source, target
<1>2. SendSpares' /\ CleanSpares' /\ (OldestFirst => Contiguous')
  BY <1>1 DEF KeepInv, SendSpares, CleanSpares, Contiguous
<1>3. Hosts'
  <2>1. CASE DiscoverSource
    <3>1. \A d \in Dataset : seen'[d] = src[d]
      BY <2>1 DEF DiscoverSource
    <3>2. QED
      BY <1>1, <3>1 DEF KeepInv, Hosts, Numbered, TargetOK, Discovered, TokenAhead
  <2>2. CASE DiscoverTargetAndBuild \/ CreateRoot \/ CreateRootFails
    <3>1. seen' = seen /\ pc # "idle"
      BY <2>2 DEF DiscoverTargetAndBuild, CreateRoot, CreateRootFails
    <3>2. QED
      BY <1>1, <3>1, HostsUnchanged DEF KeepInv, Hosts
  <2>3. QED
    BY <2>1, <2>2
<1>4. PlanFresh'
  <2>1. CASE DiscoverSource \/ CreateRootFails
    BY <2>1 DEF PlanFresh, DiscoverSource, CreateRootFails
  <2>2. CASE DiscoverTargetAndBuild
    BY <2>2 DEF PlanFresh, PlanNow, DiscoverTargetAndBuild, Build, BuildWithoutTarget, target
  <2>3. CASE CreateRoot
    BY <2>3 DEF KeepInv, PlanFresh, PlanNow, CreateRoot
  <2>4. QED
    BY <2>1, <2>2, <2>3
<1>5. BlindSpares'
  <2>1. CASE DiscoverSource
    BY <2>1 DEF KeepInv, BlindSpares, DiscoverSource
  <2>2. CASE DiscoverTargetAndBuild
    <3>1. ASSUME NEW d \in Dataset
          PROVE  buildDatasetPlan(seen[d], FALSE, {}).cleanup = NoCleanup
      BY DEF buildDatasetPlan, SkipPlan, FullPlan
    <3>2. QED
      BY <2>2, <3>1 DEF BlindSpares, DiscoverTargetAndBuild, BuildWithoutTarget
  <2>3. CASE CreateRoot \/ CreateRootFails
    BY <2>3 DEF KeepInv, BlindSpares, CreateRoot, CreateRootFails
  <2>4. QED
    BY <2>1, <2>2, <2>3
<1>6. QED
  BY <1>2, <1>3, <1>4, <1>5 DEF KeepInv, Hosts

\* The loop of Execute: nothing on the target changes.
LEMMA KeepLoop ==
    ASSUME TypeInv, KeepInv,
           SkipDataset \/ ReinitializeFails \/ FinishPlan \/ DestroyFails \/ FinishDataset
    PROVE  KeepInv'
<1>1. /\ UNCHANGED <<src, taken, exists, snaps, token, seen, blind, plan>>
      /\ pc \in {"dataset", "cleanup"} /\ pc' \in {"dataset", "done"}
  BY DEF SkipDataset, ReinitializeFails, FinishPlan, DestroyFails, FinishDataset,
     SyncFailed, NextDataset, source, target
<1>2. Hosts'
  BY <1>1, HostsUnchanged DEF KeepInv, Hosts
<1>3. PlanFresh'
  <2>1. CASE FinishPlan
    BY <2>1 DEF PlanFresh, FinishPlan
  <2>2. CASE SkipDataset \/ ReinitializeFails \/ DestroyFails \/ FinishDataset
    <3>1. cur \in Dataset /\ cur' = cur + 1 /\ pc' = "dataset"
      BY <2>2 DEF TypeInv, TypeOK, Dataset, SkipDataset, ReinitializeFails, DestroyFails,
         FinishDataset, SyncFailed, NextDataset
    <3>2. QED
      BY <1>1, <3>1, StaysFresh DEF KeepInv
  <2>3. QED
    BY <2>1, <2>2
<1>4. SendSpares' /\ CleanSpares' /\ BlindSpares' /\ (OldestFirst => Contiguous')
  BY <1>1 DEF KeepInv, BlindSpares, SendSpares, CleanSpares, Contiguous
<1>5. QED
  BY <1>2, <1>3, <1>4 DEF KeepInv, Hosts

\* No plan destroys what it sends, or what is not on the target.
LEMMA CleanupOfTarget ==
    ASSUME NEW S \in SUBSET Snapshot, NEW T \in SUBSET Snapshot, NEW e,
           buildDatasetPlan(S, e, T).action # "skip", NEW f \in Filter
    PROVE  /\ buildDatasetPlan(S, e, T).cleanup[f] \subseteq T
           /\ buildDatasetPlan(S, e, T).cleanup[f] \cap buildDatasetPlan(S, e, T).send = {}
<1> DEFINE p == buildDatasetPlan(S, e, T)
<1>1. \/ p = FullPlan("initial", S) \/ p = FullPlan("reinitialize", S)
      \/ S \cap T # {} /\ p = IncrementalPlan(S, T)
  BY DEF buildDatasetPlan, SkipPlan
<1>2. CASE p = FullPlan("initial", S) \/ p = FullPlan("reinitialize", S)
  BY <1>2 DEF FullPlan, NoCleanup
<1>3. CASE S \cap T # {} /\ p = IncrementalPlan(S, T)
  <2>1. p.send = Pending(S, T) /\ p.cleanup[f] \subseteq T
    BY <1>3 DEF IncrementalPlan, buildCleanup, OldestOf, FilterSnapshotsByInterval
  <2>2. QED
    BY <1>3, <2>1, PendingIsNew
<1>4. QED
  BY <1>1, <1>2, <1>3

\* The sends begin, after a rename or without one: nothing has arrived yet.
LEMMA KeepStart ==
    ASSUME TypeInv, KeepInv, StartSync \/ Reinitialize
    PROVE  KeepInv'
<1>1. /\ cur \in Dataset /\ plan[cur].action # "skip" /\ pc = "dataset" /\ cur <= NDataset
      /\ UNCHANGED <<src, taken, cur, seen, blind, plan>>
      /\ queue' = plan[cur].send /\ pc' = "send"
  BY DEF TypeInv, TypeOK, StartSync, Reinitialize, Dataset, source
<1>2. /\ plan[cur] = PlanNow(cur)
      /\ seen[cur] \in SUBSET Snapshot /\ snaps[cur] \in SUBSET Snapshot
  BY <1>1 DEF KeepInv, PlanFresh, TypeInv, TypeOK, Dataset
<1>3. /\ plan[cur].send \subseteq FilterSnapshots(seen[cur])
      /\ plan[cur].action \in {"initial", "reinitialize"} => plan[cur].common = None
      /\ \A q \in plan[cur].send :
            /\ None < q
            /\ plan[cur].action = "incremental" => plan[cur].common < q
      /\ plan[cur].action = "initial" /\ ~blind => ~exists[cur]
      /\ plan[cur].action = "incremental" => plan[cur].send \cap snaps[cur] = {}
      /\ blind => plan[cur].action = "initial" /\ plan[cur].cleanup = NoCleanup
      /\ \A f \in Filter : /\ plan[cur].cleanup[f] \subseteq snaps[cur]
                           /\ plan[cur].cleanup[f] \cap plan[cur].send = {}
  <2>0. \A q \in plan[cur].send : q \in Snapshot
    BY <1>1 DEF TypeInv, TypeOK, DatasetPlan
  <2>1. CASE blind
    <3>1. plan[cur].action = "initial" /\ Starts(plan[cur], seen[cur], {}, FALSE)
      BY <1>1, <1>2, <2>1, PlannedOnStart
    <3>2. plan[cur].cleanup = NoCleanup
      BY <1>1, <2>1 DEF KeepInv, BlindSpares
    <3>3. \A f \in Filter : plan[cur].cleanup[f] = {}
      BY <3>2 DEF NoCleanup
    <3>4. /\ plan[cur].send \subseteq FilterSnapshots(seen[cur])
          /\ plan[cur].common = None
      BY <1>1, <1>2, <3>1, PlannedOnStart DEF Starts
    <3>5. \A q \in plan[cur].send : None < q
      BY <2>0 DEF Snapshot
    <3>6. QED
      BY <2>1, <3>1, <3>2, <3>3, <3>4, <3>5
  <2>2. CASE ~blind
    <3>1. Starts(plan[cur], seen[cur], snaps[cur], exists[cur])
      BY <1>1, <1>2, <2>2, PlannedOnStart
    <3>2. plan[cur] = buildDatasetPlan(seen[cur], exists[cur], snaps[cur])
      BY <1>2, <2>2 DEF PlanNow
    <3>3. \A f \in Filter : /\ plan[cur].cleanup[f] \subseteq snaps[cur]
                            /\ plan[cur].cleanup[f] \cap plan[cur].send = {}
      BY <1>1, <1>2, <3>2, CleanupOfTarget
    <3>4. QED
      BY <2>0, <2>2, <3>1, <3>3 DEF Starts, Snapshot
  <2>3. QED
    BY <2>1, <2>2
<1>4. CASE StartSync
  <2>1. /\ UNCHANGED <<exists, snaps, token>> /\ base' = plan[cur].common
        /\ plan[cur].action \in {"initial", "incremental"}
    BY <1>4 DEF StartSync, target
  <2>2. Hosts'
    BY <1>1, <2>1, HostsUnchanged DEF KeepInv, Hosts
  <2>3. queue' \cap snaps[cur] = {} \/ NewestSpared(cur, plan[cur].cleanup)
    <3>1. CASE blind
      <4>1. \A f \in Filter : plan[cur].cleanup[f] = {}
        BY <1>3, <3>1 DEF NoCleanup
      <4>2. snaps[cur] # {} => Max(snaps[cur]) \in snaps[cur] /\ \A x \in snaps[cur] : x <= Max(snaps[cur])
        BY <1>2, MaxOfSnapshots
      <4>3. QED
        BY <4>1, <4>2 DEF NewestSpared
    <3>2. CASE ~blind
      BY <1>1, <1>3, <2>1, <3>2 DEF KeepInv, TargetOK
    <3>3. QED
      BY <3>1, <3>2
  <2>4. token[cur] # NoToken => \A f \in Filter : token[cur].snap \notin plan[cur].cleanup[f]
    BY <1>1, <1>3 DEF KeepInv, TokenAhead
  <2>5. SendSpares'
    BY <1>1, <1>3, <2>1, <2>3, <2>4 DEF SendSpares, NewestSpared, FilterSnapshots
  <2>6. PlanFresh'
    BY <1>1, <2>1, StaysFresh DEF KeepInv
  <2>7. QED
    BY <1>1, <2>2, <2>5, <2>6 DEF KeepInv, Hosts, BlindSpares, CleanSpares, Contiguous
<1>5. CASE Reinitialize
  <2>1. /\ ~exists'[cur] /\ snaps'[cur] = {} /\ token'[cur] = NoToken /\ base' = None
        /\ plan[cur].action = "reinitialize"
        /\ \A d \in Dataset : d # cur =>
             exists'[d] = exists[d] /\ snaps'[d] = snaps[d] /\ token'[d] = token[d]
    BY <1>1, <1>5 DEF Reinitialize, TypeInv, TypeOK
  <2>2. NoToken.snap = 0 /\ taken[cur] \in Nat /\ src[cur] \in SUBSET Snapshot
    BY <1>1 DEF NoToken, Stream, TypeInv, TypeOK
  <2>3. Numbered' /\ TargetOK' /\ Discovered' /\ TokenAhead'
    BY <1>1, <2>1, <2>2 DEF KeepInv, Numbered, TargetOK, Discovered, TokenAhead, Snapshot
  <2>4. SendSpares'
    BY <1>1, <1>3, <2>1 DEF SendSpares, FilterSnapshots
  <2>5. PlanFresh'
    BY <1>1, <2>1, StaysFresh DEF KeepInv
  <2>6. QED
    BY <1>1, <2>3, <2>4, <2>5 DEF KeepInv, BlindSpares, CleanSpares, Contiguous
<1>6. QED
  BY <1>4, <1>5

\* An attempt is reported, truthfully or not: if it is reported as successful
\* something has arrived, in it or in an earlier one.
LEMMA KeepAttempt ==
    ASSUME TypeInv, KeepInv, SendSucceeds \/ SendRefused \/ SendFails
    PROVE  KeepInv'
<1>1. pc = "send" /\ UNCHANGED <<src, taken, seen, blind, plan>>
  BY DEF SendSucceeds, SendRefused, SendFails, source
<1>2. cur \in Dataset /\ Sending \in queue /\ \A q \in queue : Sending <= q /\ q \in Snapshot
  BY <1>1, NextToSend
<1>3. Leaves
  <2>1. NoEffect \/ (CanTransfer /\ (Partial \/ Complete))
    BY DEF SendSucceeds, SendRefused, SendFails, NoEffect, target
  <2>2. QED
    BY <1>1, <2>1, AttemptLeaves
<1>4. Hosts'
  BY <1>1, <1>2, <1>3, HostsAfterAttempt DEF KeepInv, Hosts
<1>5. \A d \in Dataset : d # cur => exists'[d] = exists[d] /\ snaps'[d] = snaps[d]
  BY <1>3 DEF Leaves
<1> DEFINE spared == \E n \in snaps'[cur] : /\ \A x \in snaps'[cur] : x <= n
                                           /\ \A f \in Filter : n \notin plan[cur].cleanup[f]
<1>6. /\ queue \subseteq FilterSnapshots(seen[cur])
      /\ \A f \in Filter : plan[cur].cleanup[f] \cap queue = {}
      /\ queue \cap snaps'[cur] = {} \/ spared
      /\ token'[cur] # NoToken =>
             \A f \in Filter : token'[cur].snap \notin plan[cur].cleanup[f]
  BY <1>1, <1>3 DEF KeepInv, SendSpares, NewestSpared, Leaves
<1>7. CASE SendSucceeds
  <2>1. /\ queue' = queue \ {Sending} /\ base' = Sending /\ cur' = cur
        /\ IF queue' = {} THEN pc' = "cleanup" /\ clean' = plan[cur].cleanup
           ELSE pc' = "send"
    BY <1>1, <1>7 DEF SendSucceeds, Delivered
  <2>2. spared
    <3>1. CASE CanTransfer /\ Complete
      <4>1. CurrentStream.snap \in snaps'[cur] /\ CurrentStream.snap \notin snaps[cur]
        BY <1>1, <1>2, <3>1, WhatArrives DEF Complete, Received, TypeInv, TypeOK
      <4>2. QED
        BY <1>3, <4>1 DEF Leaves
    <3>2. CASE ~Resuming /\ AlreadyThere(CurrentStream, snaps[cur], token[cur]) /\ NoEffect
      <4>1. Sending \in snaps'[cur]
        BY <3>2 DEF CurrentStream, Stream, AlreadyThere, NoEffect
      <4>2. QED
        BY <1>2, <1>6, <4>1
    <3>3. QED
      BY <1>7, <3>1, <3>2 DEF SendSucceeds
  <2>3. \A q \in queue' : Sending < q
    BY <1>2, <2>1 DEF Snapshot
  <2>4. SendSpares' /\ CleanSpares'
    BY <1>1, <1>6, <2>1, <2>2, <2>3 DEF SendSpares, CleanSpares, NewestSpared, FilterSnapshots
  <2>5. PlanFresh' /\ BlindSpares'
    BY <1>1, <1>2, <1>5, <2>1, StaysFresh DEF KeepInv, BlindSpares
  <2>6. QED
    BY <1>1, <1>4, <2>4, <2>5 DEF KeepInv, Hosts, Contiguous
<1>8. CASE SendRefused \/ SendFails
  <2>1. NotDelivered
    BY <1>8 DEF SendRefused, SendFails
  <2>2. \/ UNCHANGED <<pc, cur, queue, base>>
        \/ pc' = "dataset" /\ cur' = cur + 1
    BY <2>1 DEF NotDelivered, SyncFailed
  <2>3. SendSpares' /\ CleanSpares'
    <3>1. CASE UNCHANGED <<pc, cur, queue, base>>
      <4>1. \A q \in queue : base < q
        BY <1>1 DEF KeepInv, SendSpares
      <4>2. QED
        BY <1>1, <1>6, <3>1, <4>1 DEF SendSpares, CleanSpares, NewestSpared, FilterSnapshots
    <3>2. CASE pc' = "dataset"
      BY <3>2 DEF SendSpares, CleanSpares
    <3>3. QED
      BY <2>2, <3>1, <3>2
  <2>4. PlanFresh' /\ BlindSpares'
    BY <1>1, <1>2, <1>5, <2>2, StaysFresh DEF KeepInv, BlindSpares
  <2>5. QED
    BY <1>1, <1>4, <2>3, <2>4 DEF KeepInv, Hosts, Contiguous
<1>9. QED
  BY <1>7, <1>8

\* A destroy takes what is planned and there, hence not the newest.
LEMMA DestroyTakesOlder ==
    ASSUME TypeInv, KeepInv, Destroy
    PROVE  /\ pc = "cleanup" /\ cur \in Dataset /\ CleanupInterval \in Filter
           /\ Destroying \in clean[CleanupInterval] /\ Destroying \in snaps[cur]
           /\ snaps'[cur] = snaps[cur] \ {Destroying}
           /\ \A d \in Dataset : d # cur => snaps'[d] = snaps[d]
           /\ \E n \in snaps'[cur] : /\ \A x \in snaps[cur] : x <= n
                                     /\ Destroying < n
                                     /\ \A f \in Filter : n \notin clean[f]
<1>1. /\ pc = "cleanup" /\ cur \in Dataset /\ clean # NoCleanup
      /\ Destroying \in snaps[cur]
      /\ snaps'[cur] = snaps[cur] \ {Destroying}
      /\ \A d \in Dataset : d # cur => snaps'[d] = snaps[d]
  BY DEF Destroy, Destroyable, TypeInv, TypeOK, Dataset
<1>2. {f \in Filter : clean[f] # {}} # {}
  BY <1>1 DEF TypeInv, TypeOK, NoCleanup
<1>3. CleanupInterval \in {f \in Filter : clean[f] # {}}
  BY <1>2, MinOfNaturals DEF CleanupInterval, Filter
<1>4. clean[CleanupInterval] # {} /\ clean[CleanupInterval] \in SUBSET Snapshot
  BY <1>3 DEF TypeInv, TypeOK
<1>5. Destroying \in clean[CleanupInterval]
  BY <1>4, MinOfSnapshots DEF Destroying
<1>6. PICK n \in snaps[cur] : /\ \A x \in snaps[cur] : x <= n
                              /\ \A f \in Filter : n \notin clean[f]
  BY <1>1 DEF KeepInv, CleanSpares, NewestSpared
<1>7. Destroying # n /\ Destroying <= n /\ Destroying \in Snapshot /\ n \in Snapshot
  BY <1>1, <1>3, <1>5, <1>6 DEF TypeInv, TypeOK
<1> HIDE DEF Destroying
<1>8. Destroying < n
  BY <1>7 DEF Snapshot
<1>9. QED
  BY <1>1, <1>3, <1>5, <1>6, <1>7, <1>8

LEMMA KeepDestroy ==
    ASSUME TypeInv, KeepInv, Destroy
    PROVE  KeepInv'
<1>1. /\ pc = "cleanup" /\ cur \in Dataset
      /\ snaps'[cur] = snaps[cur] \ {Destroying}
      /\ \A d \in Dataset : d # cur => snaps'[d] = snaps[d]
      /\ \E n \in snaps'[cur] : /\ \A x \in snaps[cur] : x <= n
                                /\ \A f \in Filter : n \notin clean[f]
  BY DestroyTakesOlder
<1>2. /\ UNCHANGED <<src, taken, exists, token, seen, blind, plan, pc, cur>>
      /\ \A f \in Filter : clean'[f] \subseteq clean[f]
  BY DEF Destroy, source, TypeInv, TypeOK
<1>3. \A d \in Dataset : snaps'[d] \subseteq snaps[d]
  BY <1>1
<1>4. Numbered' /\ TargetOK' /\ Discovered' /\ TokenAhead'
  BY <1>1, <1>2, <1>3 DEF KeepInv, Numbered, TargetOK, Discovered, TokenAhead
<1>5. CleanSpares' /\ SendSpares'
  <2>1. PICK n \in snaps'[cur] : /\ \A x \in snaps[cur] : x <= n
                                 /\ \A f \in Filter : n \notin clean[f]
    BY <1>1
  <2>2. NewestSpared(cur, clean)'
    BY <1>1, <1>2, <1>3, <2>1 DEF NewestSpared
  <2>3. QED
    BY <1>1, <1>2, <2>2 DEF CleanSpares, SendSpares
<1>6. PlanFresh' /\ BlindSpares'
  <2>1. ~blind
    BY <1>1 DEF KeepInv, BlindSpares, Destroy
  <2>2. QED
    BY <1>1, <1>2, <2>1, StaysFresh DEF KeepInv, BlindSpares
<1>7. QED
  BY <1>2, <1>4, <1>5, <1>6 DEF KeepInv, Contiguous

\* The process ends, in good order or anywhere.
LEMMA KeepEnd ==
    ASSUME TypeInv, KeepInv, Exit \/ Crash
    PROVE  KeepInv'
<1>1. /\ pc' = "idle" /\ seen' = Nothing /\ blind' = FALSE /\ UNCHANGED <<src, taken>> /\ pc # "idle"
  BY DEF Exit, Crash, Ended, source
<1>2. Hosts'
  <2>1. CASE UNCHANGED <<exists, snaps, token>>
    <3>1. \A d \in Dataset : seen'[d] = {}
      BY <1>1 DEF Nothing
    <3>2. QED
      BY <1>1, <2>1, <3>1 DEF KeepInv, Hosts, Numbered, TargetOK, Discovered, TokenAhead
  <2>2. CASE pc = "send" /\ CanTransfer /\ (Partial \/ Complete)
    <3>1. Leaves /\ cur \in Dataset
      BY <2>2, AttemptLeaves, NextToSend
    <3>2. QED
      BY <1>1, <3>1, HostsAfterAttempt DEF KeepInv, Hosts
  <2>3. QED
    BY <2>1, <2>2 DEF Exit, Crash, NoEffect, target
<1>3. /\ PlanFresh' /\ BlindSpares' /\ SendSpares' /\ CleanSpares'
      /\ OldestFirst => Contiguous'
  BY <1>1 DEF KeepInv, PlanFresh, BlindSpares, SendSpares, CleanSpares, Contiguous
<1>4. QED
  BY <1>2, <1>3 DEF KeepInv, Hosts

LEMMA InitKeepInv == Init => KeepInv
<1> SUFFICES ASSUME Init PROVE KeepInv
  OBVIOUS
<1>1. /\ \A d \in Dataset : /\ src[d] = {} /\ seen[d] = {} /\ snaps[d] = {} /\ taken[d] = 0
                            /\ token[d] = NoToken /\ ~exists[d]
      /\ pc = "idle" /\ ~blind
  BY DEF Init, Nothing
<1>2. NoToken.snap = 0
  BY DEF NoToken, Stream
<1>3. QED
  BY <1>1, <1>2 DEF KeepInv, Numbered, TargetOK, Discovered, PlanFresh, BlindSpares,
     TokenAhead, SendSpares, CleanSpares, Contiguous

LEMMA KeepStep ==
    ASSUME TypeInv, TypeInv', KeepInv, [Next]_vars
    PROVE  KeepInv'
<1>1. CASE Environment
  BY <1>1, KeepSource
<1>2. CASE Run
  BY <1>2, KeepPlan, KeepLoop, KeepStart, KeepAttempt, KeepDestroy, KeepEnd DEF Run
<1>3. CASE Crash
  BY <1>3, KeepEnd
<1>4. CASE UNCHANGED vars
  BY <1>4 DEF vars, source, target, run, transfer, results, KeepInv, Numbered, TargetOK,
     Discovered, PlanFresh, PlanNow, BlindSpares, TokenAhead, SendSpares, CleanSpares, Contiguous, NewestSpared,
     FilterSnapshots
<1>5. QED
  BY <1>1, <1>2, <1>3, <1>4 DEF Next

LEMMA TypedAndKept == Spec => [](TypeInv /\ KeepInv)
<1>1. Init => TypeInv /\ KeepInv
  BY InitType, InitKeepInv
<1>2. TypeInv /\ KeepInv /\ [Next]_vars => (TypeInv /\ KeepInv)'
  BY TypeStep, KeepStep
<1>3. QED
  BY <1>1, <1>2, PTL DEF Spec

\* Whatever the filter, the rotation and the failures, and also when a wrong
\* transfer is resumed: no cleanup destroys the newest snapshot the target
\* has.
THEOREM NewestIsKept == Spec => []KeepInv
BY TypedAndKept, PTL

-----------------------------------------------------------------------------
\* As long as the source loses only its oldest snapshots, no step of a run
\* ends the possibility of incremental replication.
THEOREM CommonIsKept ==
    ASSUME OldestFirst
    PROVE  Spec => KeepsCommon
<1>1. ASSUME TypeInv, KeepInv, Run \/ Crash,
             NEW d \in Dataset, src[d] \cap snaps[d] # {}
      PROVE  src[d] \cap snaps'[d] # {}
  <2>1. CASE snaps'[d] = snaps[d]
    BY <1>1, <2>1
  <2>2. CASE SendSucceeds \/ SendFails \/ (Crash /\ pc = "send")
    <3>1. pc = "send" /\ (snaps' = snaps \/ (CanTransfer /\ Complete))
      BY <2>2 DEF SendSucceeds, SendFails, Crash, NoEffect, Partial
    <3>2. CASE CanTransfer /\ Complete /\ d = cur
      <4>1. CurrentStream.snap \in src[cur] /\ CurrentStream.snap \in snaps'[cur]
        BY <1>1, <3>1, <3>2, WhatArrives DEF Complete, Received, TypeInv, TypeOK
      <4>2. QED
        BY <3>2, <4>1
    <3>3. CASE CanTransfer /\ Complete /\ d # cur
      BY <1>1, <3>3 DEF Complete, TypeInv, TypeOK
    <3>4. QED
      BY <1>1, <3>1, <3>2, <3>3
  <2>3. CASE Reinitialize
    <3>1. /\ cur \in Dataset /\ pc = "dataset" /\ plan[cur].action = "reinitialize"
          /\ plan[cur].action # "skip"
          /\ d # cur => snaps'[d] = snaps[d]
      BY <1>1, <2>3 DEF Reinitialize, TypeInv, TypeOK, Dataset
    <3>2. plan[cur] = PlanNow(cur)
      BY <1>1, <3>1 DEF KeepInv, PlanFresh, Dataset
    <3>3. Starts(plan[cur], seen[cur], snaps[cur], exists[cur])
      BY <1>1, <3>1, <3>2, PlannedOnStart
    <3>4. seen[cur] \cap snaps[cur] = {}
      BY <3>1, <3>3 DEF Starts
    <3>5. src[cur] \cap snaps[cur] = {}
      BY <1>1, <3>1, <3>4 DEF KeepInv, Discovered
    <3>6. QED
      BY <1>1, <3>1, <3>5
  <2>4. CASE Destroy
    <3>1. /\ cur \in Dataset /\ snaps'[cur] = snaps[cur] \ {Destroying}
          /\ d # cur => snaps'[d] = snaps[d]
      BY <1>1, <2>4, DestroyTakesOlder
    <3>2. PICK n \in snaps'[cur] : \A x \in snaps[cur] : x <= n
      BY <1>1, <2>4, DestroyTakesOlder
    <3>3. CASE d = cur
      <4>1. PICK c \in src[d] : c \in snaps[d]
        BY <1>1
      <4>2. c <= n /\ n \in 1 .. taken[d] /\ c \in 1 .. taken[d] /\ taken[d] \in Nat
        BY <1>1, <3>1, <3>2, <3>3, <4>1 DEF KeepInv, Numbered, TypeInv, TypeOK
      <4>3. n \in c .. taken[d]
        BY <4>2
      <4>4. n \in src[d]
        BY <1>1, <4>1, <4>3 DEF KeepInv, Contiguous
      <4>5. QED
        BY <3>2, <3>3, <4>4
    <3>4. QED
      BY <1>1, <3>1, <3>3
  <2>5. CASE \/ DiscoverSource \/ DiscoverTargetAndBuild \/ CreateRoot \/ CreateRootFails
             \/ SkipDataset \/ StartSync \/ ReinitializeFails \/ FinishPlan
             \/ SendRefused \/ DestroyFails \/ FinishDataset \/ Exit \/ (Crash /\ pc # "send")
    <3>1. snaps' = snaps
      BY <2>5 DEF DiscoverSource, DiscoverTargetAndBuild, CreateRoot, CreateRootFails,
         SkipDataset, StartSync, ReinitializeFails, FinishPlan, SendRefused, DestroyFails,
         FinishDataset, Exit, Crash, NoEffect, target
    <3>2. QED
      BY <1>1, <3>1
  <2>6. QED
    BY <1>1, <2>2, <2>3, <2>4, <2>5 DEF Run
<1>2. TypeInv /\ KeepInv =>
        [Run \/ Crash =>
           \A d \in Dataset : src[d] \cap snaps[d] # {} => src[d] \cap snaps'[d] # {}]_vars
  BY <1>1
<1>3. QED
  BY <1>2, TypedAndKept, PTL DEF KeepsCommon

-----------------------------------------------------------------------------
(* What a cleanup leaves of every filter entry.                            *)

\* Where the source has everything since the common snapshot, a transfer
\* that completes takes nothing away: receive -F has nothing to roll back.
LEMMA NothingRolledBack ==
    ASSUME TypeInv, IInv, KeepInv, OldestFirst, pc = "send", CanTransfer, Complete
    PROVE  /\ snaps'[cur] = snaps[cur] \cup {CurrentStream.snap}
           /\ ~blind => CurrentStream.snap = Sending
<1> DEFINE b == CurrentStream.base
<1>1. cur \in Dataset /\ b \in Snapshot \cup {None}
  BY SendFacts, StreamFacts
<1>2. /\ b = None => snaps[cur] = {}
      /\ b # None => b \in snaps[cur]
      /\ \A x \in src[cur] \cap snaps[cur] : x <= b
  BY StreamFacts, FollowsOnCommon DEF Shared
<1>3. b # None => b \in src[cur]
  BY DEF CanTransfer, Sendable
<1>4. snaps'[cur] = {x \in snaps[cur] : x <= b} \cup {CurrentStream.snap}
  BY <1>1 DEF Complete, Received, TypeInv, TypeOK
<1> HIDE DEF b
<1>5. ASSUME NEW x \in snaps[cur] PROVE x <= b
  <2>1. b # None /\ b \in src[cur]
    BY <1>2, <1>3, <1>5
  <2>2. /\ x \in 1 .. taken[cur] /\ b \in 1 .. taken[cur] /\ taken[cur] \in Nat
        /\ b .. taken[cur] \subseteq src[cur]
    BY <1>1, <1>5, <2>1 DEF KeepInv, Numbered, Contiguous, TypeInv, TypeOK
  <2>3. CASE x < b
    BY <2>2, <2>3
  <2>4. CASE b <= x
    <3>1. x \in b .. taken[cur]
      BY <2>2, <2>4
    <3>2. QED
      BY <1>2, <1>5, <2>2, <3>1
  <2>5. QED
    BY <2>2, <2>3, <2>4
<1>6. QED
  BY <1>4, <1>5, CarriesNext DEF Misled

\* What has arrived and what is still to arrive, together, are the same
\* after an attempt that was reported as delivered, or that is repeated, when
\* the run has seen the target.
LEMMA AttemptKeepsTogether ==
    ASSUME TypeInv, IInv, KeepInv, OldestFirst, SendSucceeds \/ SendRefused \/ SendFails
    PROVE  /\ pc = "send" /\ cur \in Dataset /\ plan' = plan
           /\ snaps[cur] \subseteq snaps'[cur]
           /\ \A d \in Dataset : d # cur => snaps'[d] = snaps[d]
           /\ \/ pc' = "dataset"
              \/ /\ cur' = cur
                 /\ ~blind => snaps'[cur] \cup queue' = snaps[cur] \cup queue
                 /\ \/ pc' = "send"
                    \/ pc' = "cleanup" /\ queue' = {} /\ clean' = plan[cur].cleanup
<1>1. pc = "send" /\ plan' = plan
  BY DEF SendSucceeds, SendRefused, SendFails
<1>2. cur \in Dataset /\ Sending \in queue
  BY <1>1, SendFacts
<1>3. \/ CanTransfer /\ Complete
      \/ snaps' = snaps
  BY DEF SendSucceeds, SendRefused, SendFails, NoEffect, Partial, target
<1>4. /\ snaps[cur] \subseteq snaps'[cur]
      /\ ~blind => snaps'[cur] = snaps[cur] \/ snaps'[cur] = snaps[cur] \cup {Sending}
      /\ \A d \in Dataset : d # cur => snaps'[d] = snaps[d]
  <2>1. CASE CanTransfer /\ Complete
    <3>1. \A d \in Dataset : d # cur => snaps'[d] = snaps[d]
      BY <1>2, <2>1 DEF Complete, TypeInv, TypeOK
    <3>2. QED
      BY <1>1, <2>1, <3>1, NothingRolledBack
  <2>2. QED
    BY <1>3, <2>1
<1>5. CASE SendSucceeds
  <2>1. /\ queue' = queue \ {Sending} /\ cur' = cur
        /\ \/ pc' = "send"
           \/ pc' = "cleanup" /\ queue' = {} /\ clean' = plan[cur].cleanup
    BY <1>1, <1>5 DEF SendSucceeds, Delivered
  <2>2. ~blind => Sending \in snaps'[cur]
    <3>1. CASE CanTransfer /\ Complete
      BY <1>1, <3>1, NothingRolledBack
    <3>2. CASE ~Resuming /\ AlreadyThere(CurrentStream, snaps[cur], token[cur]) /\ NoEffect
      BY <3>2 DEF CurrentStream, Stream, AlreadyThere, NoEffect
    <3>3. QED
      BY <1>5, <3>1, <3>2 DEF SendSucceeds
  <2>3. ~blind => snaps'[cur] \cup queue' = snaps[cur] \cup queue
    BY <1>2, <1>4, <2>1, <2>2
  <2>4. QED
    BY <1>1, <1>2, <1>4, <2>1, <2>3
<1>6. CASE SendRefused \/ SendFails
  <2>1. pc' = "dataset" \/ (pc' = "send" /\ cur' = cur /\ queue' = queue)
    BY <1>1, <1>6 DEF SendRefused, SendFails, NotDelivered, SyncFailed
  <2>2. QED
    BY <1>1, <1>2, <1>4, <2>1
<1>7. QED
  BY <1>5, <1>6

LEMMA RetainAttempt ==
    ASSUME TypeInv, IInv, KeepInv, OldestFirst, RetainInv,
           SendSucceeds \/ SendRefused \/ SendFails
    PROVE  RetainInv'
<1>1. /\ pc = "send" /\ cur \in Dataset /\ plan' = plan
      /\ snaps[cur] \subseteq snaps'[cur]
      /\ \/ pc' = "dataset"
         \/ /\ cur' = cur
            /\ ~blind => snaps'[cur] \cup queue' = snaps[cur] \cup queue
            /\ \/ pc' = "send"
               \/ pc' = "cleanup" /\ queue' = {} /\ clean' = plan[cur].cleanup
  BY AttemptKeepsTogether
<1>2. ASSUME NEW f \in Filter, cur' = cur, pc' \in {"send", "cleanup"}
      PROVE  /\ plan[cur].cleanup[f] \subseteq FilterSnapshotsByInterval(snaps'[cur], f)
             /\ Dispensable(plan[cur].cleanup[f], snaps'[cur] \cup queue', f)
  <2>1. /\ plan[cur].cleanup[f] \subseteq FilterSnapshotsByInterval(snaps'[cur], f)
        /\ Dispensable(plan[cur].cleanup[f], snaps[cur] \cup queue, f)
    BY <1>1 DEF RetainInv, FilterSnapshotsByInterval
  <2>2. blind => plan[cur].cleanup[f] = {}
    BY <1>1 DEF KeepInv, BlindSpares, NoCleanup
  <2>3. snaps'[cur] \cup queue' = snaps[cur] \cup queue \/ plan[cur].cleanup[f] = {}
    BY <1>1, <1>2, <2>2
  <2>4. QED
    BY <2>1, <2>3 DEF Dispensable
<1>3. CASE pc' = "dataset"
  BY <1>3 DEF RetainInv
<1>4. CASE pc' = "send" /\ cur' = cur
  <2>1. ASSUME NEW f \in Filter
        PROVE  /\ plan'[cur'].cleanup[f] \subseteq FilterSnapshotsByInterval(snaps'[cur'], f)
               /\ Dispensable(plan'[cur'].cleanup[f], snaps'[cur'] \cup queue', f)
    BY <1>1, <1>2, <1>4
  <2>2. QED
    BY <1>4, <2>1 DEF RetainInv, Dispensable, FilterSnapshotsByInterval
<1>5. CASE pc' = "cleanup" /\ cur' = cur /\ queue' = {} /\ clean' = plan[cur].cleanup
  <2>1. snaps'[cur'] = snaps'[cur] \cup queue'
    BY <1>5
  <2>2. ASSUME NEW f \in Filter
        PROVE  /\ clean'[f] \subseteq FilterSnapshotsByInterval(snaps'[cur'], f)
               /\ Dispensable(clean'[f], snaps'[cur'], f)
    <3>1. /\ plan[cur].cleanup[f] \subseteq FilterSnapshotsByInterval(snaps'[cur], f)
          /\ Dispensable(plan[cur].cleanup[f], snaps'[cur] \cup queue', f)
      BY <1>2, <1>5
    <3>2. clean'[f] = plan[cur].cleanup[f] /\ snaps'[cur] \cup queue' = snaps'[cur'] /\ cur' = cur
      BY <1>5
    <3>3. QED
      BY <3>1, <3>2
  <2>3. QED
    BY <1>5, <2>2 DEF RetainInv, Dispensable, FilterSnapshotsByInterval
<1>6. \/ pc' = "dataset"
      \/ pc' = "send" /\ cur' = cur
      \/ pc' = "cleanup" /\ cur' = cur /\ queue' = {} /\ clean' = plan[cur].cleanup
  BY <1>1
<1>7. QED
  BY <1>3, <1>4, <1>5, <1>6

\* The sends begin: the plan is fresh, so what it destroys is there and can
\* be done without; a full replication destroys nothing.
LEMMA RetainStart ==
    ASSUME TypeInv, KeepInv, StartSync \/ Reinitialize
    PROVE  RetainInv'
<1>1. /\ cur \in Dataset /\ plan[cur].action # "skip" /\ pc = "dataset" /\ cur <= NDataset
      /\ plan' = plan /\ cur' = cur /\ queue' = plan[cur].send /\ pc' = "send"
  BY DEF TypeInv, TypeOK, StartSync, Reinitialize, Dataset
<1>2. /\ blind => plan[cur].cleanup = NoCleanup
      /\ ~blind => plan[cur] = buildDatasetPlan(seen[cur], exists[cur], snaps[cur])
      /\ seen[cur] \in SUBSET Snapshot /\ snaps[cur] \in SUBSET Snapshot
  <2>1. plan[cur] = PlanNow(cur) /\ (blind => plan[cur].cleanup = NoCleanup)
    BY <1>1 DEF KeepInv, PlanFresh, BlindSpares, Dataset
  <2>2. QED
    BY <1>1, <2>1 DEF PlanNow, TypeInv, TypeOK
<1>3. ASSUME NEW f \in Filter
      PROVE  \/ plan[cur].cleanup[f] = {}
             \/ /\ snaps'[cur] = snaps[cur]
                /\ plan[cur].cleanup[f] \subseteq FilterSnapshotsByInterval(snaps[cur], f)
                /\ Dispensable(plan[cur].cleanup[f], snaps[cur] \cup plan[cur].send, f)
  <2>1. CASE StartSync
    <3>1. snaps' = snaps
      BY <2>1 DEF StartSync, target
    <3>2. CASE blind
      BY <1>2, <3>2 DEF NoCleanup
    <3>3. CASE ~blind
      BY <1>1, <1>2, <3>1, <3>3, CleanupLeavesEnough DEF Dispensable
    <3>4. QED
      BY <3>2, <3>3
  <2>2. CASE Reinitialize
    <3>1. plan[cur].action = "reinitialize"
      BY <2>2 DEF Reinitialize
    <3>2. plan[cur].cleanup = NoCleanup
      BY <1>2, <3>1 DEF buildDatasetPlan, SkipPlan, FullPlan, IncrementalPlan
    <3>3. QED
      BY <3>2 DEF NoCleanup
  <2>3. QED
    BY <2>1, <2>2
<1>4. ASSUME NEW f \in Filter
      PROVE  /\ plan'[cur'].cleanup[f] \subseteq FilterSnapshotsByInterval(snaps'[cur'], f)
             /\ Dispensable(plan'[cur'].cleanup[f], snaps'[cur'] \cup queue', f)
  BY <1>1, <1>3 DEF Dispensable
<1>5. QED
  BY <1>1, <1>4 DEF RetainInv, Dispensable, FilterSnapshotsByInterval

\* Where no name matches two entries, what is destroyed for one entry is
\* none of another's.
LEMMA DestroyTakesPlanned ==
    ASSUME TypeInv, KeepInv, Disjoint, RetainInv, Destroy, NEW f \in Filter
    PROVE  /\ FilterSnapshotsByInterval(snaps'[cur], f) \ clean'[f]
                = FilterSnapshotsByInterval(snaps[cur], f) \ clean[f]
           /\ clean'[f] \subseteq FilterSnapshotsByInterval(snaps'[cur], f)
           /\ clean'[f] \subseteq clean[f]
           /\ \/ clean[f] # {}
              \/ FilterSnapshotsByInterval(snaps'[cur], f)
                   = FilterSnapshotsByInterval(snaps[cur], f)
<1>1. /\ pc = "cleanup" /\ cur \in Dataset /\ CleanupInterval \in Filter
      /\ Destroying \in clean[CleanupInterval] /\ Destroying \in snaps[cur]
      /\ snaps'[cur] = snaps[cur] \ {Destroying}
  BY DestroyTakesOlder
<1>2. clean' = [clean EXCEPT ![CleanupInterval] = @ \ {Destroying}]
  BY DEF Destroy
<1>3. \A g \in Filter : clean[g] \subseteq FilterSnapshotsByInterval(snaps[cur], g)
  BY <1>1 DEF RetainInv
<1> HIDE DEF Destroying, CleanupInterval
<1>4. CASE f = CleanupInterval
  <2>1. clean'[f] = clean[f] \ {Destroying}
    BY <1>2, <1>4 DEF TypeInv, TypeOK
  <2>2. QED
    BY <1>1, <1>3, <1>4, <2>1 DEF FilterSnapshotsByInterval
<1>5. CASE f # CleanupInterval
  <2>1. clean'[f] = clean[f]
    BY <1>2, <1>5 DEF TypeInv, TypeOK
  <2>2. CleanupInterval \in Match[Destroying] /\ Destroying \in Snapshot
    BY <1>1, <1>3 DEF FilterSnapshotsByInterval, TypeInv, TypeOK
  <2>3. f \notin Match[Destroying]
    BY <1>5, <2>2 DEF Disjoint
  <2>4. FilterSnapshotsByInterval(snaps'[cur], f) = FilterSnapshotsByInterval(snaps[cur], f)
    BY <1>1, <2>3 DEF FilterSnapshotsByInterval
  <2>5. QED
    BY <1>3, <2>1, <2>4
<1>6. QED
  BY <1>4, <1>5

LEMMA RetainDestroy ==
    ASSUME TypeInv, KeepInv, Disjoint, RetainInv, Destroy
    PROVE  RetainInv'
<1>1. /\ pc = "cleanup" /\ pc' = pc /\ cur' = cur
  BY DEF Destroy
<1>2. ASSUME NEW f \in Filter
      PROVE  /\ clean'[f] \subseteq FilterSnapshotsByInterval(snaps'[cur'], f)
             /\ Dispensable(clean'[f], snaps'[cur'], f)
  <2>1. Dispensable(clean[f], snaps[cur], f)
    BY <1>1 DEF RetainInv
  <2>2. QED
    BY <1>1, <2>1, DestroyTakesPlanned DEF Dispensable
<1>3. QED
  BY <1>1, <1>2 DEF RetainInv, Dispensable, FilterSnapshotsByInterval

LEMMA RetainStep ==
    ASSUME OldestFirst, Disjoint, TypeInv, IInv, KeepInv, RetainInv, [Next]_vars
    PROVE  RetainInv'
<1>1. CASE Environment \/ UNCHANGED vars
  <2>1. UNCHANGED <<snaps, plan, pc, cur, queue, clean>>
    BY <1>1 DEF Environment, TakeSnapshot, RotateSource, vars, target, run, transfer
  <2>2. QED
    BY <2>1 DEF RetainInv, Dispensable, FilterSnapshotsByInterval
<1>2. CASE \/ DiscoverSource \/ DiscoverTargetAndBuild \/ CreateRoot \/ CreateRootFails
           \/ SkipDataset \/ ReinitializeFails \/ FinishPlan
           \/ DestroyFails \/ FinishDataset \/ Exit \/ Crash
  <2>1. pc' \notin {"send", "cleanup"}
    BY <1>2 DEF DiscoverSource, DiscoverTargetAndBuild, CreateRoot, CreateRootFails,
       SkipDataset, ReinitializeFails, SyncFailed, FinishPlan, DestroyFails,
       FinishDataset, NextDataset, Exit, Crash, Ended
  <2>2. QED
    BY <2>1 DEF RetainInv
<1>3. CASE StartSync \/ Reinitialize
  BY <1>3, RetainStart
<1>4. CASE SendSucceeds \/ SendRefused \/ SendFails
  BY <1>4, RetainAttempt
<1>5. CASE Destroy
  BY <1>5, RetainDestroy
<1>6. QED
  BY <1>1, <1>2, <1>3, <1>4, <1>5 DEF Next, Run

\* The planned cleanup stays dispensable: what it destroys is there, and
\* without it min_keep of the entry remain, once all has arrived.
THEOREM CleanupStaysDispensable ==
    ASSUME NoGaps, OldestFirst, Disjoint
    PROVE  Spec => []RetainInv
<1>1. Init => RetainInv
  BY DEF Init, RetainInv
<1>2. TypeInv /\ IInv /\ KeepInv /\ RetainInv /\ [Next]_vars => RetainInv'
  BY RetainStep
<1>3. QED
  BY <1>1, <1>2, Invariants, TypedAndKept, PTL DEF Spec

\* No planned deletion has been overtaken by the sync that precedes it.
THEOREM PlannedDeletes ==
    ASSUME NoGaps, OldestFirst, Disjoint
    PROVE  Spec => []PlannedDeletesExist
<1>1. RetainInv => PlannedDeletesExist
  BY DEF RetainInv, PlannedDeletesExist, FilterSnapshotsByInterval
<1>2. QED
  BY <1>1, CleanupStaysDispensable, PTL

\* min_keep is a minimum: no step of a run, in whatever order transfers fail
\* and repeat, leaves less of an entry than that, or than there was.
THEOREM MinKeepRetained ==
    ASSUME NoGaps, OldestFirst, Disjoint
    PROVE  Spec => RetainsMinKeep
<1> DEFINE Kept(T, f) == Cardinality(FilterSnapshotsByInterval(T, f))
<1>1. ASSUME TypeInv, TypeInv', IInv, KeepInv, RetainInv, Next,
             NEW d \in Dataset, NEW f \in Filter, old'[d] = old[d]
      PROVE  Kept(snaps'[d], f) >= Kept(snaps[d], f) \/ Kept(snaps'[d], f) >= MinKeep[f]
  <2>1. /\ snaps[d] \in SUBSET Snapshot /\ snaps'[d] \in SUBSET Snapshot
        /\ Kept(snaps[d], f) \in Nat /\ Kept(snaps'[d], f) \in Nat
    <3>1. snaps[d] \in SUBSET Snapshot /\ snaps'[d] \in SUBSET Snapshot
      BY <1>1 DEF TypeInv, TypeOK
    <3>2. /\ FilterSnapshotsByInterval(snaps[d], f) \in SUBSET Snapshot
          /\ FilterSnapshotsByInterval(snaps'[d], f) \in SUBSET Snapshot
      BY <3>1 DEF FilterSnapshotsByInterval
    <3>3. QED
      BY <3>1, <3>2, SnapshotsFinite
  <2>2. ASSUME snaps[d] \subseteq snaps'[d]
        PROVE  Kept(snaps'[d], f) >= Kept(snaps[d], f)
    <3>1. /\ FilterSnapshotsByInterval(snaps[d], f)
               \in SUBSET FilterSnapshotsByInterval(snaps'[d], f)
          /\ FilterSnapshotsByInterval(snaps'[d], f) \in SUBSET Snapshot
      BY <2>1, <2>2 DEF FilterSnapshotsByInterval
    <3>2. QED
      BY <2>1, <3>1, MoreSnapshots
  <2>3. CASE Environment
    BY <2>2, <2>3 DEF Environment, TakeSnapshot, RotateSource, target
  <2>4. CASE SendSucceeds \/ SendRefused \/ SendFails
    <3>1. /\ snaps[cur] \subseteq snaps'[cur]
          /\ \A e \in Dataset : e # cur => snaps'[e] = snaps[e]
      BY <1>1, <2>4, AttemptKeepsTogether
    <3>2. QED
      BY <2>2, <3>1
  <2>5. CASE Crash
    <3>1. \/ snaps' = snaps
          \/ pc = "send" /\ CanTransfer /\ Complete
      BY <2>5 DEF Crash, NoEffect, Partial
    <3>2. CASE pc = "send" /\ CanTransfer /\ Complete
      <4>1. snaps[cur] \subseteq snaps'[cur]
        BY <1>1, <3>2, NothingRolledBack
      <4>2. d # cur => snaps'[d] = snaps[d]
        BY <1>1, <3>2 DEF Complete, TypeInv, TypeOK
      <4>3. QED
        BY <2>2, <4>1, <4>2
    <3>3. QED
      BY <2>2, <3>1, <3>2
  <2>6. CASE Reinitialize
    <3>1. d # cur
      BY <1>1, <2>6 DEF Reinitialize, TypeInv, TypeOK
    <3>2. snaps'[d] = snaps[d]
      BY <1>1, <2>6, <3>1 DEF Reinitialize, TypeInv, TypeOK
    <3>3. QED
      BY <2>2, <3>2
  <2>7. CASE Destroy
    <3>1. CASE d # cur
      BY <1>1, <2>2, <2>7, <3>1, DestroyTakesOlder
    <3>2. CASE d = cur /\ clean[f] # {}
      <4>1. Dispensable(clean[f], snaps[d], f)
        BY <1>1, <2>7, <3>2 DEF RetainInv, Destroy
      <4> DEFINE K == FilterSnapshotsByInterval(snaps[d], f) \ clean[f]
      <4>2. Cardinality(K) >= MinKeep[f]
        BY <3>2, <4>1 DEF Dispensable
      <4>3. /\ K \in SUBSET FilterSnapshotsByInterval(snaps'[d], f)
            /\ FilterSnapshotsByInterval(snaps'[d], f) \in SUBSET Snapshot
            /\ K \in SUBSET Snapshot
        <5>1. FilterSnapshotsByInterval(snaps'[d], f) \ clean'[f] = K
          BY <1>1, <2>7, <3>2, DestroyTakesPlanned
        <5>2. QED
          BY <2>1, <5>1 DEF FilterSnapshotsByInterval
      <4> HIDE DEF K
      <4>4. Cardinality(K) <= Kept(snaps'[d], f) /\ Cardinality(K) \in Nat
        BY <4>3, MoreSnapshots, SnapshotsFinite
      <4>5. MinKeep[f] \in Nat
        BY PlanAssumption
      <4>6. QED
        BY <2>1, <4>2, <4>4, <4>5
    <3>3. CASE d = cur /\ clean[f] = {}
      <4>1. FilterSnapshotsByInterval(snaps'[d], f) = FilterSnapshotsByInterval(snaps[d], f)
        BY <1>1, <2>7, <3>3, DestroyTakesPlanned
      <4>2. QED
        BY <2>1, <4>1
    <3>4. QED
      BY <3>1, <3>2, <3>3
  <2>8. CASE \/ DiscoverSource \/ DiscoverTargetAndBuild \/ CreateRoot \/ CreateRootFails
             \/ SkipDataset \/ StartSync \/ ReinitializeFails \/ FinishPlan
             \/ DestroyFails \/ FinishDataset \/ Exit
    <3>1. snaps' = snaps
      BY <2>8 DEF DiscoverSource, DiscoverTargetAndBuild, CreateRoot, CreateRootFails,
         SkipDataset, StartSync, ReinitializeFails, FinishPlan, DestroyFails,
         FinishDataset, Exit, target
    <3>2. QED
      BY <2>2, <3>1
  <2>9. QED
    BY <1>1, <2>3, <2>4, <2>5, <2>6, <2>7, <2>8 DEF Next, Run
<1>2. TypeInv /\ TypeInv' /\ IInv /\ KeepInv /\ RetainInv /\ [Next]_vars =>
        [\A d \in Dataset, f \in Filter :
            LET kept == Cardinality(FilterSnapshotsByInterval(snaps[d], f))
                keeps == Cardinality(FilterSnapshotsByInterval(snaps'[d], f))
            IN  old'[d] = old[d] => keeps >= kept \/ keeps >= MinKeep[f]]_vars
  BY <1>1
<1>3. QED
  BY <1>2, Invariants, TypedAndKept, CleanupStaysDispensable, PTL DEF Spec, RetainsMinKeep
=============================================================================
