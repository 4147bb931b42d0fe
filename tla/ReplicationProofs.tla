------------------------- MODULE ReplicationProofs -------------------------
(***************************************************************************)
(* Replication is type correct, and it delivers what it reports as         *)
(* delivered: the inductive invariant of ReplicationInvariant, and the     *)
(* properties that follow from it, for every number of datasets and        *)
(* snapshots, every filter, schedule and rotation, and every number of     *)
(* failures and retries; all but the types when transfers are not resumed  *)
(* or snapshot_filter has one entry.                                       *)
(***************************************************************************)
EXTENDS ReplicationInvariant, PlanProofs

USE DEF None

-----------------------------------------------------------------------------
(* The types.                                                              *)

\* What the type correctness rests on: a plan that sends has something to
\* send, and the send loop is left with the last snapshot.
WorkLeft ==
    /\ pc = "send" => queue # {}
    /\ \A d \in Dataset : plan[d].action # "skip" => plan[d].send # {}

TypeInv == TypeOK /\ WorkLeft

\* The initial state has the types.
LEMMA InitType == Init => TypeInv
<1> SUFFICES ASSUME Init PROVE TypeInv
  OBVIOUS
<1>1. NoCleanup \in [Filter -> SUBSET Snapshot]
  BY DEF NoCleanup
<1>2. SkipPlan \in DatasetPlan /\ SkipPlan.action = "skip"
  BY <1>1 DEF SkipPlan, DatasetPlan
<1>3. NoPlan \in [Dataset -> DatasetPlan] /\ \A d \in Dataset : NoPlan[d] = SkipPlan
  BY <1>2 DEF NoPlan
<1>4. Nothing \in [Dataset -> SUBSET Snapshot]
  BY DEF Nothing
<1>5. NoToken \in [snap : Snapshot \cup {None}, base : Snapshot \cup {None}]
  BY DEF NoToken, Stream
<1>6. 1 \in 1 .. NDataset + 1 /\ 1 \in 1 .. Attempts /\ MaxFaults \in 0 .. MaxFaults
      /\ 0 \in 0 .. MaxSnap
  BY PlanAssumption, ReplicationAssumption DEF Attempts
<1>7. TypeOK
  BY <1>1, <1>3, <1>4, <1>5, <1>6 DEF Init, TypeOK
<1>8. WorkLeft
  BY <1>2, <1>3 DEF Init, WorkLeft
<1>9. QED
  BY <1>7, <1>8 DEF TypeInv

\* The loop of Execute moves on with the types intact.
LEMMA SyncFailedType ==
    ASSUME TypeOK, SyncFailed, cur <= NDataset
    PROVE  /\ syncErr' \subseteq Dataset /\ cleanErr' \subseteq Dataset
           /\ cur' \in 1 .. NDataset + 1 /\ pc' = "dataset"
           /\ queue' \in SUBSET Snapshot /\ base' \in Snapshot \cup {None}
           /\ attempt' \in 1 .. Attempts
           /\ clean' \in [Filter -> SUBSET Snapshot]
BY ReplicationAssumption DEF TypeOK, SyncFailed, Dataset, Attempts

LEMMA NextDatasetType ==
    ASSUME TypeOK, NextDataset, cur <= NDataset
    PROVE  /\ cur' \in 1 .. NDataset + 1 /\ pc' = "dataset"
           /\ queue' \in SUBSET Snapshot /\ base' \in Snapshot \cup {None}
           /\ attempt' \in 1 .. Attempts
           /\ clean' \in [Filter -> SUBSET Snapshot]
BY ReplicationAssumption DEF TypeOK, NextDataset, NoCleanup, Dataset, Attempts

\* A failure is taken from the budget.
LEMMA FaultType ==
    ASSUME faults \in 0 .. MaxFaults, Fault
    PROVE  faults' \in 0 .. MaxFaults
BY ReplicationAssumption DEF Fault

StreamType == [snap : Snapshot \cup {None}, base : Snapshot \cup {None}]

LEMMA SendType ==
    ASSUME TypeOK, pc = "send", queue # {}
    PROVE  /\ cur \in Dataset
           /\ Sending \in queue /\ Sending \in Snapshot
           /\ CurrentStream \in StreamType
<1>1. cur \in Dataset
  BY DEF TypeOK, Dataset
<1>2. Sending \in queue /\ Sending \in Snapshot
  BY MinOfSnapshots DEF TypeOK, Sending
<1>3. QED
  BY <1>1, <1>2 DEF TypeOK, CurrentStream, Stream, StreamType

\* Whatever an attempt leaves behind has the types of a target.
LEMMA EffectType ==
    ASSUME TypeOK, pc = "send", queue # {}, CanTransfer,
           NoEffect \/ Partial \/ Complete
    PROVE  /\ exists' \in [Dataset -> BOOLEAN]
           /\ snaps' \in [Dataset -> SUBSET Snapshot]
           /\ token' \in [Dataset -> StreamType]
<1>1. /\ cur \in Dataset /\ CurrentStream \in StreamType
  BY SendType
<1>2. CASE NoEffect
  BY <1>2 DEF NoEffect, TypeOK, StreamType
<1>3. CASE Partial
  BY <1>1, <1>3 DEF Partial, TypeOK, StreamType
<1>4. CASE Complete
  <2>1. CurrentStream.snap \in Snapshot
    BY <1>1 DEF CanTransfer, Sendable, TypeOK
  <2>2. Received(CurrentStream, snaps[cur]) \in SUBSET Snapshot
    BY <1>1, <2>1 DEF Received, TypeOK
  <2>3. NoToken \in StreamType
    BY DEF NoToken, Stream, StreamType
  <2>4. QED
    BY <1>1, <1>4, <2>2, <2>3 DEF Complete, TypeOK, StreamType
<1>5. QED
  BY <1>2, <1>3, <1>4


\* Every step keeps the types: one case per action.
LEMMA TypeStep == TypeInv /\ [Next]_vars => TypeInv'
<1> SUFFICES ASSUME TypeInv, [Next]_vars PROVE TypeInv'
  OBVIOUS
<1> USE PlanAssumption, ReplicationAssumption DEF TypeInv, WorkLeft
<1>1. CASE UNCHANGED vars
  BY <1>1 DEF vars, source, target, run, transfer, results, TypeOK
<1>2. ASSUME NEW d \in Dataset, TakeSnapshot(d) PROVE TypeInv'
  <2>1. taken[d] + 1 \in Snapshot /\ taken[d] + 1 \in 0 .. MaxSnap
    BY <1>2 DEF TakeSnapshot, TypeOK, Snapshot
  <2>2. QED
    BY <1>2, <2>1 DEF TakeSnapshot, target, run, transfer, results, TypeOK
<1>3. ASSUME NEW d \in Dataset, RotateSource(d) PROVE TypeInv'
  BY <1>3 DEF RotateSource, target, run, transfer, results, TypeOK
<1>4. CASE DiscoverSource
  BY <1>4 DEF DiscoverSource, source, target, transfer, results, TypeOK
<1>5. CASE DiscoverTargetAndBuild
  <2>1. /\ plan' = Build \/ plan' = BuildWithoutTarget
        /\ faults' \in 0 .. MaxFaults /\ blind' \in BOOLEAN
    BY <1>5, FaultType DEF DiscoverTargetAndBuild, TypeOK
  <2>2. /\ plan' \in [Dataset -> DatasetPlan]
        /\ \A d \in Dataset : plan'[d].action # "skip" => plan'[d].send # {}
    <3>1. ASSUME NEW d \in Dataset
          PROVE  /\ plan'[d] \in DatasetPlan
                 /\ plan'[d].action # "skip" => plan'[d].send # {}
      <4>1. seen[d] \in SUBSET Snapshot /\ snaps[d] \in SUBSET Snapshot
        BY DEF TypeOK
      <4>2. PICK T \in SUBSET Snapshot, e \in {exists[d], FALSE} :
              plan'[d] = buildDatasetPlan(seen[d], e, T)
        BY <2>1, <4>1 DEF Build, BuildWithoutTarget
      <4>3. QED
        BY <4>1, <4>2, PlanType, PlanSends
    <3>2. plan' = [d \in Dataset |-> plan'[d]]
      BY <2>1 DEF Build, BuildWithoutTarget
    <3>3. QED
      BY <3>1, <3>2
  <2>3. QED
    BY <1>5, <2>1, <2>2 DEF DiscoverTargetAndBuild, source, target, transfer, results, TypeOK
<1>6. CASE CreateRoot
  BY <1>6 DEF CreateRoot, source, transfer, results, TypeOK
<1>7. CASE CreateRootFails
  BY <1>7, FaultType DEF CreateRootFails, source, target, transfer, TypeOK
<1>8. CASE SkipDataset
  <2>1. cur' \in 1 .. NDataset + 1
    BY <1>8 DEF SkipDataset, TypeOK
  <2>2. QED
    BY <1>8, <2>1 DEF SkipDataset, source, target, transfer, results, TypeOK
<1>9. CASE StartSync
  <2>1. cur \in Dataset
    BY <1>9 DEF StartSync, TypeOK, Dataset
  <2>2. plan[cur] \in DatasetPlan
    BY <2>1 DEF TypeOK
  <2>3. 1 \in 1 .. Attempts
    BY DEF Attempts
  <2>4. /\ plan[cur].send \in SUBSET Snapshot /\ plan[cur].send # {}
        /\ plan[cur].common \in Snapshot \cup {None}
    BY <1>9, <2>1, <2>2 DEF StartSync, DatasetPlan
  <2>5. QED
    BY <1>9, <2>1, <2>3, <2>4 DEF StartSync, source, target, results, TypeOK
<1>10. CASE Reinitialize
  <2>1. cur \in Dataset /\ plan[cur] \in DatasetPlan /\ 1 \in 1 .. Attempts
    BY <1>10 DEF Reinitialize, TypeOK, Dataset, Attempts
  <2>2. plan[cur].send \in SUBSET Snapshot /\ plan[cur].send # {}
    BY <1>10, <2>1 DEF Reinitialize, DatasetPlan
  <2>3. /\ exists' \in [Dataset -> BOOLEAN] /\ snaps' \in [Dataset -> SUBSET Snapshot]
        /\ token' \in [Dataset -> StreamType] /\ old' \in [Dataset -> Nat]
    BY <1>10, <2>1 DEF Reinitialize, TypeOK, StreamType, NoToken, Stream
  <2>4. QED
    BY <1>10, <2>1, <2>2, <2>3 DEF Reinitialize, source, results, TypeOK, StreamType
<1>11. CASE ReinitializeFails
  BY <1>11, FaultType, SyncFailedType DEF ReinitializeFails, source, target, TypeOK
<1>12. CASE FinishPlan
  BY <1>12 DEF FinishPlan, source, target, transfer, results, TypeOK
<1>13. CASE SendSucceeds
  <2>1. cur \in Dataset /\ Sending \in queue /\ Sending \in Snapshot
    BY <1>13, SendType DEF SendSucceeds
  <2>2. /\ exists' \in [Dataset -> BOOLEAN] /\ snaps' \in [Dataset -> SUBSET Snapshot]
        /\ token' \in [Dataset -> StreamType]
    <3>1. CASE CanTransfer /\ Complete
      BY <1>13, <3>1, EffectType DEF SendSucceeds
    <3>2. CASE NoEffect
      BY <3>2 DEF NoEffect, TypeOK, StreamType
    <3>3. QED
      BY <1>13, <3>1, <3>2 DEF SendSucceeds
  <2>3. 1 \in 1 .. Attempts
    BY DEF Attempts
  <2>4. plan[cur].cleanup \in [Filter -> SUBSET Snapshot]
    BY <2>1 DEF TypeOK, DatasetPlan
  <2>5. /\ queue' \in SUBSET Snapshot /\ base' \in Snapshot /\ attempt' \in 1 .. Attempts
        /\ clean' \in [Filter -> SUBSET Snapshot]
        /\ pc' \in {"send", "cleanup"} /\ (pc' = "send" => queue' # {})
        /\ UNCHANGED <<cur, syncErr, cleanErr>>
    BY <1>13, <2>1, <2>3, <2>4 DEF SendSucceeds, Delivered, TypeOK
  <2>6. QED
    BY <1>13, <2>1, <2>2, <2>5 DEF SendSucceeds, source, TypeOK, StreamType, Dataset
<1>14. CASE SendRefused
  <2>1. CASE attempt < Attempts
    BY <1>14, <2>1 DEF SendRefused, NotDelivered, source, target, TypeOK, Attempts
  <2>2. CASE ~(attempt < Attempts)
    BY <1>14, <2>2, SyncFailedType DEF SendRefused, NotDelivered, source, target, TypeOK
  <2>3. QED
    BY <2>1, <2>2
<1>15. CASE SendFails
  <2>1. /\ exists' \in [Dataset -> BOOLEAN] /\ snaps' \in [Dataset -> SUBSET Snapshot]
        /\ token' \in [Dataset -> StreamType] /\ faults' \in 0 .. MaxFaults
    BY <1>15, EffectType, FaultType DEF SendFails, TypeOK
  <2>2. CASE attempt < Attempts
    BY <1>15, <2>1, <2>2 DEF SendFails, NotDelivered, source, TypeOK, StreamType, Attempts
  <2>3. CASE ~(attempt < Attempts)
    BY <1>15, <2>1, <2>3, SyncFailedType DEF SendFails, NotDelivered, source, TypeOK, StreamType
  <2>4. QED
    BY <2>2, <2>3
<1>16. CASE Destroy
  <2>1. cur \in Dataset
    BY <1>16 DEF Destroy, TypeOK, Dataset
  <2>2. /\ snaps' \in [Dataset -> SUBSET Snapshot]
        /\ clean' \in [Filter -> SUBSET Snapshot]
    BY <1>16, <2>1 DEF Destroy, TypeOK
  <2>3. QED
    BY <1>16, <2>1, <2>2 DEF Destroy, source, transfer, results, TypeOK
<1>17. CASE DestroyFails
  <2>1. cur \in Dataset /\ faults' \in 0 .. MaxFaults
    BY <1>17, FaultType DEF DestroyFails, TypeOK, Dataset
  <2>2. QED
    BY <1>17, <2>1, NextDatasetType DEF DestroyFails, source, target, TypeOK
<1>18. CASE FinishDataset
  BY <1>18, NextDatasetType DEF FinishDataset, source, target, results, TypeOK
<1>19. ASSUME Ended
       PROVE  /\ pc' = "idle" /\ seen' \in [Dataset -> SUBSET Snapshot]
              /\ plan' \in [Dataset -> DatasetPlan]
              /\ \A d \in Dataset : plan'[d].action = "skip"
              /\ cur' \in 1 .. NDataset + 1 /\ queue' \in SUBSET Snapshot
              /\ base' \in Snapshot \cup {None} /\ attempt' \in 1 .. Attempts
              /\ clean' \in [Filter -> SUBSET Snapshot]
              /\ syncErr' \subseteq Dataset /\ cleanErr' \subseteq Dataset
              /\ execErr' \in BOOLEAN /\ blind' \in BOOLEAN
  <2>1. SkipPlan \in DatasetPlan /\ SkipPlan.action = "skip"
    BY DEF SkipPlan, DatasetPlan, NoCleanup
  <2>2. NoPlan \in [Dataset -> DatasetPlan] /\ \A d \in Dataset : NoPlan[d].action = "skip"
    BY <2>1 DEF NoPlan
  <2>3. NoCleanup \in [Filter -> SUBSET Snapshot] /\ Nothing \in [Dataset -> SUBSET Snapshot]
    BY DEF NoCleanup, Nothing
  <2>4. 1 \in 1 .. Attempts /\ 1 \in 1 .. NDataset + 1
    BY DEF Attempts
  <2>5. QED
    BY <1>19, <2>2, <2>3, <2>4 DEF Ended
<1>20. CASE Exit
  BY <1>19, <1>20 DEF Exit, source, target, TypeOK
<1>21. CASE Crash
  <2>1. /\ exists' \in [Dataset -> BOOLEAN] /\ snaps' \in [Dataset -> SUBSET Snapshot]
        /\ token' \in [Dataset -> StreamType] /\ faults' \in 0 .. MaxFaults
    <3>1. CASE NoEffect
      BY <1>21, <3>1, FaultType DEF Crash, NoEffect, TypeOK, StreamType
    <3>2. CASE pc = "send" /\ CanTransfer /\ (Partial \/ Complete)
      BY <1>21, <3>2, FaultType, EffectType DEF Crash, TypeOK
    <3>3. QED
      BY <1>21, <3>1, <3>2 DEF Crash
  <2>2. QED
    BY <1>19, <1>21, <2>1 DEF Crash, source, TypeOK, StreamType
<1>22. QED
  BY <1>1, <1>2, <1>3, <1>4, <1>5, <1>6, <1>7, <1>8, <1>9, <1>10, <1>11, <1>12,
     <1>13, <1>14, <1>15, <1>16, <1>17, <1>18, <1>20, <1>21
  DEF Next, Run, Environment

\* Every reachable state is well typed; in particular the attempts at a
\* snapshot never exceed the configured number.
THEOREM TypeCorrect == Spec => []TypeOK
<1>1. Spec => []TypeInv
  BY InitType, TypeStep, PTL DEF Spec
<1>2. TypeInv => TypeOK
  BY DEF TypeInv
<1>3. QED
  BY <1>1, <1>2, PTL

-----------------------------------------------------------------------------
(* The attempts, when a token that can be resumed is of the snapshot being *)
(* sent, or the run is misled.                                             *)

\* While a dataset is sent: the next snapshot, where it comes from, and the
\* stream of the current attempt.
LEMMA SendFacts ==
    ASSUME TypeInv, IInv, pc = "send"
    PROVE  /\ cur \in Dataset
           /\ Sending \in queue /\ Sending \in Snapshot
           /\ Sending \in FilterSnapshots(seen[cur])
           /\ \A q \in queue : Sending <= q
           /\ Sending <= Goal(cur)
           /\ FilterSnapshots(seen[cur]) \in SUBSET Snapshot
           /\ \A x \in FilterSnapshots(seen[cur]) : x <= Goal(cur)
           /\ CurrentStream \in StreamType
<1>1. queue # {} /\ queue \in SUBSET Snapshot /\ seen[cur] \in SUBSET Snapshot /\ cur \in Dataset
  BY DEF TypeInv, WorkLeft, TypeOK, Dataset
<1>2. CurrentStream \in StreamType /\ Sending \in queue /\ Sending \in Snapshot
  BY <1>1, SendType DEF TypeInv
<1>3. \A q \in queue : Sending <= q
  BY <1>1, MinOfSnapshots DEF Sending
<1>4. Goal(cur) \in queue /\ queue \subseteq FilterSnapshots(seen[cur])
  BY DEF IInv, SendOK
<1>5. FilterSnapshots(seen[cur]) \in SUBSET Snapshot
  BY <1>1 DEF FilterSnapshots
<1>6. \A x \in FilterSnapshots(seen[cur]) : x <= Goal(cur)
  BY <1>4, <1>5, MaxOfSnapshots DEF Goal
<1>7. QED
  BY <1>1, <1>2, <1>3, <1>4, <1>5, <1>6

\* An attempt that can be made carries a matching snapshot that discovery
\* listed and the target lacks: the next one to send, unless it resumes.
LEMMA StreamFacts ==
    ASSUME TypeInv, IInv, pc = "send", CanTransfer
    PROVE  LET s == CurrentStream.snap
               b == CurrentStream.base
           IN  /\ s \in seen[cur] /\ s \in src[cur] /\ s \in Snapshot /\ Match[s] # {}
               /\ s \notin snaps[cur]
               /\ b < s /\ b \in Snapshot \cup {None}
               /\ b = None => snaps[cur] = {}
               /\ b # None => b \in snaps[cur]
               /\ Resuming => CurrentStream = token[cur] /\ token[cur] # NoToken
               /\ ~Resuming => /\ CurrentStream = Stream(Sending, base) /\ s = Sending
                               /\ b = base /\ token[cur] = NoToken /\ ~Refused
<1> DEFINE s == CurrentStream.snap
           b == CurrentStream.base
<1>1. /\ cur \in Dataset /\ Sending \in queue /\ Sending \in Snapshot
      /\ Sending \in FilterSnapshots(seen[cur])
      /\ CurrentStream \in StreamType /\ Sendable(CurrentStream, src[cur])
  BY SendFacts DEF CanTransfer
<1>2. b \in Snapshot \cup {None} /\ s \in src[cur] /\ s \in Snapshot
  BY <1>1 DEF StreamType, Sendable, TypeInv, TypeOK
<1>3. CASE Resuming
  <2>1. CurrentStream = token[cur] /\ token[cur] # NoToken
    BY <1>3 DEF CurrentStream, Resuming
  <2>2. ResumeOK(token[cur], snaps[cur], src[cur] \cup seen[cur])
    BY <1>1, <2>1 DEF IInv, TokenOK
  <2>3. s \in seen[cur]
    BY <1>1, <1>2, <2>1 DEF IInv, Discovered
  <2>4. QED
    BY <1>2, <1>3, <2>1, <2>2, <2>3 DEF ResumeOK
<1>4. CASE ~Resuming
  <2>1. CurrentStream = Stream(Sending, base) /\ s = Sending /\ b = base
    BY <1>4 DEF CurrentStream, Stream
  <2>2. Receivable(CurrentStream, exists[cur], snaps[cur], token[cur])
    BY <1>4 DEF CanTransfer
  <2>3. /\ token[cur] = NoToken
        /\ b = None => ~exists[cur]
        /\ b # None => b \in snaps[cur] /\ s \notin snaps[cur]
    BY <2>2 DEF Receivable
  <2>4. b = None => snaps[cur] = {}
    BY <1>1, <2>3 DEF IInv, TargetOK
  <2>5. base < Sending
    BY <1>1 DEF IInv, SendOK
  <2>6. ~Refused
    BY <2>1, <2>3 DEF Refused
  <2>7. Sending \in seen[cur] /\ Match[Sending] # {}
    BY <1>1 DEF FilterSnapshots
  <2>8. QED
    BY <1>2, <1>4, <2>1, <2>3, <2>4, <2>5, <2>6, <2>7
<1>5. QED
  BY <1>3, <1>4

\* In a run that is not misled it is the next one also when it resumes.
LEMMA CarriesNext ==
    ASSUME TypeInv, IInv, pc = "send", CanTransfer, ~Misled
    PROVE  CurrentStream.snap = Sending
<1>1. CASE Resuming
  <2>1. CurrentStream = token[cur] /\ token[cur] # NoToken
    BY <1>1, StreamFacts
  <2>2. Sendable(token[cur], src[cur])
    BY <2>1 DEF CanTransfer
  <2>3. QED
    BY <2>1, <2>2 DEF IInv, SendOK, NextOK
<1>2. QED
  BY <1>1, StreamFacts

\* The source has no matching snapshot between the base and what is carried.
LEMMA NothingBetween ==
    ASSUME TypeInv, IInv, pc = "send", CanTransfer, Resumable, CurrentStream.base # None,
           NEW y \in FilterSnapshots(src[cur] \cup seen[cur])
    PROVE  y <= CurrentStream.base \/ CurrentStream.snap <= y
<1>1. /\ cur \in Dataset /\ Sending \in queue /\ Sending \in Snapshot
      /\ Sending \in FilterSnapshots(seen[cur]) /\ \A q \in queue : Sending <= q
  BY SendFacts
<1>2. CASE Resuming
  <2>1. CurrentStream = token[cur] /\ token[cur] # NoToken
    BY <1>2, StreamFacts
  <2>2. ResumeOK(token[cur], snaps[cur], src[cur] \cup seen[cur])
    BY <1>1, <2>1 DEF IInv, TokenOK
  <2>3. QED
    BY <2>1, <2>2 DEF ResumeOK
<1>3. CASE ~Resuming
  <2>1. CurrentStream.snap = Sending /\ CurrentStream.base = base /\ base \in Snapshot
    BY <1>3, StreamFacts
  <2>2. y \in Snapshot
    BY <1>1 DEF FilterSnapshots, TypeInv, TypeOK
  <2>3. CASE y \in seen[cur]
    <3>1. y \in FilterSnapshots(seen[cur])
      BY <2>3 DEF FilterSnapshots
    <3>2. y > base => y \in queue
      BY <2>1, <3>1 DEF IInv, SendOK
    <3>3. QED
      BY <1>1, <2>1, <2>2, <3>2 DEF Snapshot
  <2>4. CASE y \notin seen[cur]
    <3>1. y \in src[cur] \ seen[cur] /\ Sending \in seen[cur]
      BY <1>1, <2>4 DEF FilterSnapshots
    <3>2. Sending < y
      BY <1>1, <3>1 DEF IInv, Discovered
    <3>3. QED
      BY <1>1, <2>1, <2>2, <3>2 DEF Snapshot
  <2>5. QED
    BY <2>3, <2>4
<1>4. QED
  BY <1>2, <1>3

\* It follows on the newest snapshot that source and target have in common.
LEMMA FollowsOnCommon ==
    ASSUME TypeInv, IInv, pc = "send", CanTransfer
    PROVE  \A x \in Shared(cur) : x <= CurrentStream.base
<1> DEFINE s == CurrentStream.snap
           b == CurrentStream.base
<1>1. /\ s \in seen[cur] /\ s \notin snaps[cur] /\ s \in Snapshot /\ Match[s] # {}
      /\ b < s /\ b \in Snapshot \cup {None}
      /\ b = None => snaps[cur] = {}
      /\ b # None => b \in snaps[cur]
      /\ ~Resuming => s = Sending /\ b = base /\ ~Refused
      /\ Resuming => CurrentStream = token[cur] /\ token[cur] # NoToken
  BY StreamFacts
<1>2. cur \in Dataset /\ snaps[cur] \in SUBSET Snapshot
  BY SendFacts DEF TypeInv, TypeOK
<1>3. CASE b = None
  BY <1>1, <1>3 DEF Shared
<1>4. CASE b # None /\ Resumable
  <2> SUFFICES ASSUME NEW x \in Shared(cur), ~(x <= b) PROVE FALSE
    OBVIOUS
  <2>1. x \in snaps[cur] /\ x \in src[cur] \cup seen[cur] /\ x \in Snapshot
    BY <1>2 DEF Shared
  <2>2. x \in FilterSnapshots(src[cur] \cup seen[cur])
    BY <1>2, <2>1 DEF IInv, TargetOK, FilterSnapshots
  <2>3. s <= x
    BY <1>4, <2>2, NothingBetween
  <2>4. b < s /\ s < x
    BY <1>1, <2>1, <2>3 DEF Snapshot
  <2>5. s \in FilterSnapshots(src[cur] \cup seen[cur])
    BY <1>1 DEF FilterSnapshots
  <2>6. s \in snaps[cur]
    BY <1>1, <1>2, <1>4, <2>1, <2>4, <2>5 DEF IInv, GapFree
  <2>7. QED
    BY <1>1, <2>6
<1>5. CASE b # None /\ ~Resumable
  <2>1. ~Resuming /\ ~Misled
    BY <1>5 DEF Resuming, Misled
  <2>2. base # None /\ Sending \notin snaps[cur] /\ ~Refused
    BY <1>1, <1>5, <2>1
  <2>3. \A x \in Shared(cur) : x <= base
    BY <2>1, <2>2 DEF IInv, SendOK, NextOK
  <2>4. QED
    BY <1>1, <2>1, <2>3
<1>6. QED
  BY <1>3, <1>4, <1>5

\* What the two sides hold of the current dataset.
LEMMA CurrentHosts ==
    ASSUME TypeInv, IInv, pc = "send", cur \in Dataset
    PROVE  /\ src[cur] \cup snaps[cur] \subseteq 1 .. taken[cur] /\ taken[cur] \in Nat
           /\ \A x \in snaps[cur] : Match[x] # {}
           /\ \A x \in src[cur] \ seen[cur] : x \notin snaps[cur]
<1>1. src[cur] \cup snaps[cur] \subseteq 1 .. taken[cur]
  BY DEF IInv, Numbered
<1>2. taken[cur] \in Nat
  BY PlanAssumption DEF TypeInv, TypeOK
<1>3. QED
  BY <1>1, <1>2 DEF IInv, TargetOK, Discovered

\* What an attempt may leave on the target of the current dataset.
Effect ==
    /\ snaps'[cur] \subseteq 1 .. taken[cur] /\ token'[cur].snap <= taken[cur]
    /\ ~exists'[cur] => ~exists[cur] /\ snaps'[cur] = {} /\ token'[cur] = NoToken
    /\ \A x \in snaps'[cur] : Match[x] # {}
    /\ \A x \in src[cur] \ seen[cur] : x \notin snaps'[cur] /\ x # token'[cur].snap
    /\ token'[cur] # NoToken => ResumeOK(token'[cur], snaps'[cur], src[cur] \cup seen[cur])
    /\ Resumable =>
         \A y \in FilterSnapshots(src[cur] \cup seen[cur]) : \A x, z \in snaps'[cur] :
            x < y /\ y < z => y \in snaps'[cur]
    /\ ~Misled =>
         /\ \A x \in snaps'[cur] : x \in snaps[cur] \/ x = Sending
         /\ Sending \in snaps'[cur] =>
              snaps'[cur] = snaps[cur] \/ \A x \in snaps'[cur] : x <= Sending
         /\ Sending \notin snaps'[cur] => snaps'[cur] = snaps[cur]
         /\ token'[cur] # NoToken /\ Sendable(token'[cur], src[cur]) =>
              token'[cur].snap = Sending
    /\ \A d \in Dataset : d # cur =>
         exists'[d] = exists[d] /\ snaps'[d] = snaps[d] /\ token'[d] = token[d]

LEMMA NoEffectIsEffect ==
    ASSUME TypeInv, IInv, pc = "send", NoEffect
    PROVE  Effect
<1>1. cur \in Dataset
  BY SendFacts
<1>2. exists' = exists /\ snaps' = snaps /\ token' = token
  BY DEF NoEffect
<1>3. /\ snaps[cur] \subseteq 1 .. taken[cur] /\ token[cur].snap <= taken[cur]
      /\ ~exists[cur] => snaps[cur] = {} /\ token[cur] = NoToken
      /\ \A x \in snaps[cur] : Match[x] # {}
      /\ \A x \in src[cur] \ seen[cur] : x \notin snaps[cur] /\ x # token[cur].snap
  BY <1>1 DEF IInv, Numbered, TargetOK, Discovered
<1>4. /\ token[cur] # NoToken => ResumeOK(token[cur], snaps[cur], src[cur] \cup seen[cur])
      /\ Resumable =>
           \A y \in FilterSnapshots(src[cur] \cup seen[cur]) : \A x, z \in snaps[cur] :
              x < y /\ y < z => y \in snaps[cur]
  BY <1>1 DEF IInv, TokenOK, GapFree
<1>5. ~Misled =>
        (token[cur] # NoToken /\ Sendable(token[cur], src[cur]) => token[cur].snap = Sending)
  BY DEF IInv, SendOK, NextOK
<1>6. QED
  BY <1>2, <1>3, <1>4, <1>5 DEF Effect

LEMMA CompleteIsEffect ==
    ASSUME TypeInv, IInv, pc = "send", CanTransfer, Complete
    PROVE  /\ Effect /\ token'[cur] = NoToken
           /\ ~Misled => Sending \in snaps'[cur] /\ \A x \in snaps'[cur] : x <= Sending
<1> DEFINE s == CurrentStream.snap
           b == CurrentStream.base
<1>1. /\ s \in seen[cur] /\ s \in src[cur] /\ s \in Snapshot /\ Match[s] # {}
      /\ s \notin snaps[cur]
      /\ b < s /\ b \in Snapshot \cup {None}
      /\ b = None => snaps[cur] = {}
      /\ b # None => b \in snaps[cur]
  BY StreamFacts
<1>2. Resumable /\ b # None =>
        \A y \in FilterSnapshots(src[cur] \cup seen[cur]) : y <= b \/ s <= y
  BY NothingBetween
<1>3. ~Misled => s = Sending
  BY CarriesNext
<1>4. cur \in Dataset /\ Sending \in Snapshot
  BY SendFacts
<1>5. /\ snaps'[cur] = {x \in snaps[cur] : x <= b} \cup {s}
      /\ token'[cur] = NoToken /\ exists'[cur] = TRUE
      /\ \A d \in Dataset : d # cur =>
           exists'[d] = exists[d] /\ snaps'[d] = snaps[d] /\ token'[d] = token[d]
  BY <1>4 DEF Complete, Received, TypeInv, TypeOK
<1>6. /\ src[cur] \cup snaps[cur] \subseteq 1 .. taken[cur] /\ taken[cur] \in Nat
      /\ \A x \in snaps[cur] : Match[x] # {}
      /\ \A x \in src[cur] \ seen[cur] : x \notin snaps[cur]
  BY <1>4, CurrentHosts
<1>7. snaps[cur] \in SUBSET Snapshot /\ src[cur] \in SUBSET Snapshot
      /\ seen[cur] \in SUBSET Snapshot
  BY <1>4 DEF TypeInv, TypeOK
<1>8. Resumable =>
        \A y \in FilterSnapshots(src[cur] \cup seen[cur]) : \A x, z \in snaps[cur] :
           x < y /\ y < z => y \in snaps[cur]
  BY <1>4 DEF IInv, GapFree
<1>9. NoToken.snap = 0
  BY DEF NoToken, Stream
<1> HIDE DEF s, b
<1>10. snaps'[cur] \subseteq 1 .. taken[cur] /\ token'[cur].snap <= taken[cur]
  BY <1>1, <1>5, <1>6, <1>9
<1>11. \A x \in src[cur] \ seen[cur] : x \notin snaps'[cur] /\ x # token'[cur].snap
  BY <1>1, <1>5, <1>6, <1>7, <1>9 DEF Snapshot
<1>12. ASSUME NEW x \in snaps'[cur] PROVE x <= s
  <2>1. x = s \/ (x \in snaps[cur] /\ x <= b)
    BY <1>5
  <2>2. s \in Int /\ b \in Int /\ (x \in snaps[cur] => x \in Int)
    BY <1>1, <1>7 DEF Snapshot
  <2>3. QED
    BY <1>1, <2>1, <2>2
<1>13. ASSUME Resumable, NEW y \in FilterSnapshots(src[cur] \cup seen[cur]),
              NEW x \in snaps'[cur], NEW z \in snaps'[cur], x < y, y < z
       PROVE  y \in snaps'[cur]
  <2>1. y \in Snapshot /\ x \in Snapshot /\ z \in Snapshot
    BY <1>1, <1>5, <1>7 DEF FilterSnapshots
  <2>2. y < s /\ x # s
    BY <1>1, <1>12, <1>13, <2>1 DEF Snapshot
  <2>3. x \in snaps[cur] /\ x <= b
    BY <1>5, <2>2
  <2>4. b # None /\ b \in snaps[cur] /\ y <= b
    <3>1. b # None
      BY <1>1, <2>3
    <3>2. y <= b \/ s <= y
      BY <1>2, <1>13, <3>1
    <3>3. QED
      BY <1>1, <2>1, <2>2, <3>1, <3>2 DEF Snapshot
  <2>5. y \in snaps[cur]
    <3>1. CASE y = b
      BY <2>4, <3>1
    <3>2. CASE y # b
      <4>1. y < b
        BY <1>1, <2>1, <2>4, <3>2 DEF Snapshot
      <4>2. QED
        BY <1>8, <1>13, <2>3, <2>4, <4>1
    <3>3. QED
      BY <3>1, <3>2
  <2>6. QED
    BY <1>5, <2>4, <2>5
<1>14. ~Misled => Sending \in snaps'[cur] /\ \A x \in snaps'[cur] : x <= Sending
  BY <1>3, <1>5, <1>12
<1>15. \A x \in snaps'[cur] : Match[x] # {} /\ (x \in snaps[cur] \/ x = s)
  BY <1>1, <1>5, <1>6
<1>16. QED
  BY <1>3, <1>5, <1>10, <1>11, <1>13, <1>14, <1>15 DEF Effect

LEMMA PartialIsEffect ==
    ASSUME TypeInv, IInv, pc = "send", CanTransfer, Partial
    PROVE  Effect
<1> DEFINE s == CurrentStream.snap
           b == CurrentStream.base
<1>1. /\ s \in seen[cur] /\ s \in src[cur] /\ s \in Snapshot /\ Match[s] # {}
      /\ s \notin snaps[cur] /\ b < s
      /\ b = None => snaps[cur] = {}
      /\ b # None => b \in snaps[cur]
  BY StreamFacts
<1>2. Resumable
  BY DEF Partial
<1>3. b # None => \A y \in FilterSnapshots(src[cur] \cup seen[cur]) : y <= b \/ s <= y
  BY <1>2, NothingBetween
<1>4. \A x \in (src[cur] \cup seen[cur]) \cap snaps[cur] : x <= b
  BY FollowsOnCommon DEF Shared
<1>5. ~Misled => s = Sending
  BY CarriesNext
<1>6. cur \in Dataset
  BY SendFacts
<1>7. /\ exists'[cur] = TRUE /\ snaps' = snaps /\ token'[cur] = CurrentStream
      /\ \A d \in Dataset : d # cur => exists'[d] = exists[d] /\ token'[d] = token[d]
  BY <1>6 DEF Partial, TypeInv, TypeOK
<1>8. /\ src[cur] \cup snaps[cur] \subseteq 1 .. taken[cur] /\ taken[cur] \in Nat
      /\ \A x \in snaps[cur] : Match[x] # {}
      /\ \A x \in src[cur] \ seen[cur] : x \notin snaps[cur]
  BY <1>6, CurrentHosts
<1>8a. s <= taken[cur]
  BY <1>1, <1>8
<1>8b. \A y \in FilterSnapshots(src[cur] \cup seen[cur]) : \A x, z \in snaps[cur] :
         x < y /\ y < z => y \in snaps[cur]
  BY <1>2, <1>6 DEF IInv, GapFree
<1> HIDE DEF s, b
<1>9. token'[cur].snap = s /\ token'[cur].base = b
  BY <1>7 DEF s, b
<1>10. ResumeOK(token'[cur], snaps'[cur], src[cur] \cup seen[cur])
  BY <1>1, <1>2, <1>3, <1>4, <1>7, <1>9 DEF ResumeOK
<1>11. QED
  BY <1>1, <1>5, <1>7, <1>8, <1>8a, <1>8b, <1>9, <1>10 DEF Effect

-----------------------------------------------------------------------------
(* What the invariant says of source and target, step by step.             *)

World == Numbered /\ TargetOK /\ Discovered /\ TokenOK /\ GapFree
\* And of the run.
Loop ==
    /\ CurOK /\ PlanFresh /\ BlindSpares
    /\ Planned /\ SendOK /\ CleanOK /\ CleansOldest /\ DoneOK

\* A partial receive stays resumable when less is known of the source.
LEMMA ResumeAntitone ==
    ASSUME NEW t, NEW T, NEW K, NEW L \in SUBSET K, ResumeOK(t, T, K)
    PROVE  ResumeOK(t, T, L)
BY DEF ResumeOK, FilterSnapshots

\* The initial state satisfies the invariant.
LEMMA InitIInv == Init => IInv
<1> SUFFICES ASSUME Init PROVE IInv
  OBVIOUS
<1>1. /\ \A d \in Dataset : /\ src[d] = {} /\ seen[d] = {} /\ snaps[d] = {} /\ taken[d] = 0
                            /\ token[d] = NoToken /\ ~exists[d]
      /\ pc = "idle" /\ cur = 1
  BY DEF Init, Nothing
<1>2. NoToken.snap = 0
  BY DEF NoToken, Stream
<1>3. World
  BY <1>1, <1>2 DEF World, Numbered, TargetOK, Discovered, TokenOK, GapFree
<1>4. ~blind
  BY DEF Init
<1>5. Loop
  BY <1>1, <1>4 DEF Loop, CurOK, PlanFresh, BlindSpares, Planned, SendOK, CleanOK,
     CleansOldest, DoneOK
<1>6. QED
  BY <1>3, <1>5 DEF IInv, World, Loop

\* A step that changes neither source, target nor what was listed.
LEMMA WorldUnchanged ==
    ASSUME World, UNCHANGED <<src, taken, seen, exists, snaps, token>>,
           pc' # "idle" => pc # "idle"
    PROVE  World'
BY DEF World, Numbered, TargetOK, Discovered, TokenOK, GapFree, ResumeOK, FilterSnapshots

\* A run that ends or dies forgets what it listed.
LEMMA WorldForgotten ==
    ASSUME TypeInv, World, UNCHANGED <<src, taken, exists, snaps, token>>,
           pc' = "idle", seen' = Nothing
    PROVE  World'
<1>1. \A d \in Dataset : seen'[d] = {}
  BY DEF Nothing
<1>2. Numbered' /\ TargetOK' /\ Discovered'
  BY <1>1 DEF World, Numbered, TargetOK, Discovered
<1>3. ASSUME NEW d \in Dataset, token[d] # NoToken
      PROVE  ResumeOK(token[d], snaps[d], src[d] \cup seen'[d])
  BY <1>1, <1>3, ResumeAntitone DEF World, TokenOK
<1>4. TokenOK'
  BY <1>3 DEF TokenOK, ResumeOK, FilterSnapshots
<1>5. GapFree'
  BY <1>1 DEF World, GapFree, FilterSnapshots
<1>6. QED
  BY <1>2, <1>4, <1>5 DEF World

\* An attempt that leaves something on the target, in a run that goes on or
\* in one that dies.
LEMMA WorldAfterEffect ==
    ASSUME TypeInv, TypeInv', World, cur \in Dataset, Effect, UNCHANGED <<src, taken>>,
           pc # "idle",
           seen' = seen \/ (pc' = "idle" /\ seen' = Nothing)
    PROVE  World'
<1>1. \A d \in Dataset : seen'[d] \subseteq seen[d]
  BY DEF Nothing
<1>2. \A d \in Dataset : /\ src[d] \cup seen[d] \subseteq 1 .. taken[d]
                         /\ snaps'[d] \subseteq 1 .. taken[d] /\ token'[d].snap <= taken[d]
  BY DEF World, Numbered, Effect
<1>3. Numbered'
  BY <1>1, <1>2 DEF Numbered
<1>4. TargetOK'
  BY DEF World, TargetOK, Effect
<1>5. Discovered'
  BY DEF World, Discovered, Effect
<1>6. ASSUME NEW d \in Dataset, token'[d] # NoToken
      PROVE  ResumeOK(token'[d], snaps'[d], src[d] \cup seen'[d])
  <2>1. ResumeOK(token'[d], snaps'[d], src[d] \cup seen[d])
    BY <1>6 DEF World, TokenOK, Effect
  <2>2. QED
    BY <1>1, <2>1, ResumeAntitone
<1>7. TokenOK'
  BY <1>6 DEF TokenOK, ResumeOK, FilterSnapshots
<1>8. ASSUME Resumable, NEW d \in Dataset, NEW y \in FilterSnapshots(src[d] \cup seen[d]),
             NEW x \in snaps'[d], NEW z \in snaps'[d], x < y, y < z
      PROVE  y \in snaps'[d]
  BY <1>8 DEF World, GapFree, Effect
<1>9. GapFree'
  BY <1>1, <1>8 DEF GapFree, FilterSnapshots
<1>10. QED
  BY <1>3, <1>4, <1>5, <1>7, <1>9 DEF World

-----------------------------------------------------------------------------
(* The steps of the source.                                                *)

\* Whatever the source does, a snapshot it did not have is newer than all.
LEMMA SourceSteps ==
    ASSUME TypeInv, TypeInv', IInv, UNCHANGED <<target, faults, run>>,
           \A d \in Dataset : taken[d] <= taken'[d],
           \A d \in Dataset : \A x \in src'[d] :
               x \in src[d] \/ (taken[d] < x /\ x <= taken'[d])
    PROVE  IInv'
<1> USE DEF target, run, transfer, results
<1>1. \A d \in Dataset : /\ taken[d] \in Nat /\ taken'[d] \in Nat
                         /\ src[d] \in SUBSET Nat /\ src'[d] \in SUBSET Nat
                         /\ seen[d] \in SUBSET Nat /\ snaps[d] \in SUBSET Nat
                         /\ token[d].snap \in Nat /\ token[d].base \in Nat
  BY DEF TypeInv, TypeOK, Snapshot
<1>2. \A d \in Dataset : /\ src[d] \cup seen[d] \cup snaps[d] \subseteq 1 .. taken[d]
                         /\ token[d].snap <= taken[d]
  BY DEF IInv, Numbered
<1>3. ASSUME NEW d \in Dataset, NEW x \in src'[d], x \notin src[d]
      PROVE  /\ taken[d] < x /\ x \notin snaps[d] /\ x \notin seen[d] /\ x # token[d].snap
             /\ \A y \in seen[d] : y < x
  BY <1>1, <1>2, <1>3
<1>4. Numbered'
  <2>1. ASSUME NEW d \in Dataset, NEW x \in src'[d] PROVE x \in 1 .. taken'[d]
    BY <1>1, <1>2
  <2>2. \A d \in Dataset : seen[d] \cup snaps[d] \subseteq 1 .. taken'[d]
    BY <1>1, <1>2
  <2>3. \A d \in Dataset : token[d].snap <= taken'[d]
    BY <1>1, <1>2
  <2>4. QED
    BY <2>1, <2>2, <2>3 DEF Numbered
<1>5. TargetOK'
  BY DEF IInv, TargetOK
<1>6. Discovered'
  BY <1>3 DEF IInv, Discovered
<1>7. ASSUME NEW d \in Dataset, token[d] # NoToken
      PROVE  ResumeOK(token[d], snaps[d], src'[d] \cup seen[d])
  <2>1. ResumeOK(token[d], snaps[d], src[d] \cup seen[d])
    BY <1>7 DEF IInv, TokenOK
  <2>2. \A x \in (src'[d] \cup seen[d]) \cap snaps[d] : x <= token[d].base
    BY <1>3, <2>1 DEF ResumeOK
  <2>3. ASSUME token[d].base # None, NEW y \in FilterSnapshots(src'[d] \cup seen[d])
        PROVE  y <= token[d].base \/ token[d].snap <= y
    <3>1. CASE y \in src[d] \cup seen[d]
      BY <2>1, <2>3, <3>1 DEF ResumeOK, FilterSnapshots
    <3>2. CASE y \notin src[d] \cup seen[d]
      <4>1. y \in src'[d] /\ taken[d] < y
        BY <1>3, <2>3, <3>2 DEF FilterSnapshots
      <4>2. QED
        BY <1>1, <1>2, <4>1
    <3>3. QED
      BY <3>1, <3>2
  <2>4. QED
    BY <2>1, <2>2, <2>3 DEF ResumeOK
<1>8. TokenOK'
  BY <1>7 DEF TokenOK, ResumeOK, FilterSnapshots
<1>9. GapFree'
  <2>1. ASSUME NEW d \in Dataset, NEW y \in FilterSnapshots(src'[d] \cup seen[d]),
               NEW z \in snaps[d], y < z
        PROVE  y \in FilterSnapshots(src[d] \cup seen[d])
    BY <1>1, <1>2, <1>3, <2>1 DEF FilterSnapshots
  <2>2. QED
    BY <2>1 DEF IInv, GapFree, FilterSnapshots
<1>10. /\ CurOK' /\ PlanFresh' /\ BlindSpares' /\ Planned' /\ CleanOK'
       /\ CleansOldest' /\ DoneOK'
  BY DEF IInv, CurOK, PlanFresh, PlanNow, BlindSpares, Planned, CleanOK, CleansOldest,
     DoneOK, Goal, Misled
<1>11. SendOK'
  <2> SUFFICES ASSUME pc = "send" PROVE SendOK'
    BY DEF SendOK
  <2>1. cur \in Dataset
    BY SendFacts
  <2>2. Shared(cur)' \subseteq Shared(cur)
    BY <1>3, <2>1 DEF Shared
  <2>3. ASSUME token[cur] # NoToken, Sendable(token[cur], src'[cur])
        PROVE  Sendable(token[cur], src[cur])
    <3>1. token[cur].base < token[cur].snap
      BY <2>1, <2>3 DEF IInv, TokenOK, ResumeOK
    <3>2. \A x \in src'[cur] : x <= taken[cur] => x \in src[cur]
      BY <1>1, <2>1
    <3>3. token[cur].snap <= taken[cur] /\ token[cur].base <= taken[cur]
      BY <1>1, <1>2, <2>1, <3>1
    <3>4. QED
      BY <2>3, <3>2, <3>3 DEF Sendable
  <2>4. Sending' = Sending /\ Refused' = Refused /\ Misled' = Misled /\ \A d : Goal(d)' = Goal(d)
    BY DEF Sending, Refused, Misled, Goal
  <2>5. ASSUME ~Misled PROVE NextOK'
    <3>1. NextOK
      BY <2>5 DEF IInv, SendOK
    <3> HIDE DEF Sending, Shared, Refused
    <3>2. Sending \notin snaps[cur] /\ ~Refused =>
            IF base = None THEN snaps[cur] = {} ELSE \A x \in Shared(cur)' : x <= base
      BY <2>2, <3>1 DEF NextOK
    <3>3. token[cur] # NoToken /\ Sendable(token[cur], src'[cur]) => token[cur].snap = Sending
      BY <2>3, <3>1 DEF NextOK
    <3>4. QED
      BY <2>4, <3>1, <3>2, <3>3 DEF NextOK, Sendable
  <2>6. /\ Goal(cur) \in queue /\ queue \subseteq FilterSnapshots(seen[cur])
        /\ \A q \in queue : base < q
        /\ Resumable =>
             \A y \in FilterSnapshots(seen[cur]) :
                y >= Sending \/ (base # None /\ y > base) => y \in queue
    BY DEF IInv, SendOK
  <2>7. cur' = cur /\ queue' = queue /\ base' = base /\ seen' = seen
    OBVIOUS
  <2> HIDE DEF Sending, Goal, Misled
  <2>8. QED
    BY <2>4, <2>5, <2>6, <2>7 DEF SendOK, FilterSnapshots
<1>12. QED
  BY <1>4, <1>5, <1>6, <1>8, <1>9, <1>10, <1>11 DEF IInv

-----------------------------------------------------------------------------
(* The steps of a run.                                                     *)

\* The loop of Execute at, and past, a dataset: the plans that are left stay
\* fresh, and the dataset it leaves is failed or replicated.
LEMMA LoopMovesOn ==
    ASSUME TypeInv, IInv, cur \in Dataset, pc \in {"dataset", "send", "cleanup"},
           pc' = "dataset", cur' = cur + 1, seen' = seen, blind' = blind, plan' = plan,
           \A d \in Dataset : d # cur =>
               exists'[d] = exists[d] /\ snaps'[d] = snaps[d] /\ token'[d] = token[d],
           syncErr \subseteq syncErr',
           \/ cur \in syncErr' \/ FilterSnapshots(seen[cur]) = {} \/ Misled
           \/ Goal(cur) \in snaps'[cur]
    PROVE  Loop'
<1>1. CurOK' /\ BlindSpares' /\ Planned' /\ SendOK' /\ CleanOK' /\ CleansOldest'
  BY DEF IInv, CurOK, BlindSpares, Planned, SendOK, CleanOK, CleansOldest
<1>2. \A d \in Dataset : /\ d \in Int /\ cur \in Int
                         /\ cur + 1 <= d => cur < d
                         /\ d < cur + 1 => d < cur \/ d = cur
  BY DEF Dataset
<1>3. ASSUME NEW d \in Dataset, cur + 1 <= d
      PROVE  plan'[d] = PlanNow(d)'
  <2>1. cur < d /\ cur <= d /\ d # cur
    BY <1>2, <1>3
  <2>2. plan[d] = PlanNow(d)
    BY <2>1 DEF IInv, PlanFresh
  <2>3. QED
    BY <2>1, <2>2 DEF PlanNow
<1>4. PlanFresh'
  BY <1>3 DEF PlanFresh
<1>5. ASSUME NEW d \in Dataset, d < cur + 1, ~Misled
      PROVE  d \in syncErr' \/ FilterSnapshots(seen[d]) = {} \/ Goal(d) \in snaps'[d]
  <2>1. CASE d = cur
    BY <1>5, <2>1
  <2>2. CASE d < cur
    <3>1. d # cur
      BY <1>2, <2>2
    <3>2. QED
      BY <1>5, <2>2, <3>1 DEF IInv, DoneOK
  <2>3. QED
    BY <1>2, <1>5, <2>1, <2>2
<1>6. DoneOK'
  BY <1>5 DEF DoneOK, Goal, FilterSnapshots, Misled
<1>7. QED
  BY <1>1, <1>4, <1>6 DEF Loop

\* Discovery and the plan: everything is fresh.
LEMMA PlanSteps ==
    ASSUME TypeInv, TypeInv', IInv,
           DiscoverSource \/ DiscoverTargetAndBuild \/ CreateRoot \/ CreateRootFails
    PROVE  IInv'
<1>1. CASE DiscoverSource
  <2>1. \A d \in Dataset : seen'[d] = src[d]
    BY <1>1 DEF DiscoverSource
  <2>2. UNCHANGED <<source, target>> /\ pc = "idle" /\ pc' = "target" /\ cur' = cur
    BY <1>1 DEF DiscoverSource
  <2>3. Numbered' /\ TargetOK' /\ Discovered'
    BY <2>1, <2>2 DEF IInv, Numbered, TargetOK, Discovered, source, target
  <2>4. ASSUME NEW d \in Dataset, token[d] # NoToken
        PROVE  ResumeOK(token[d], snaps[d], src[d] \cup seen'[d])
    <3>1. src[d] \cup seen'[d] \in SUBSET (src[d] \cup seen[d])
      BY <2>1
    <3>2. QED
      BY <2>4, <3>1, ResumeAntitone DEF IInv, TokenOK
  <2>5. TokenOK' /\ GapFree'
    BY <2>1, <2>2, <2>4 DEF IInv, TokenOK, GapFree, ResumeOK, FilterSnapshots, source, target
  <2>6. Loop'
    BY <1>1, <2>2 DEF DiscoverSource, IInv, Loop, CurOK, PlanFresh, BlindSpares, Planned,
       SendOK, CleanOK, CleansOldest, DoneOK
  <2>7. QED
    BY <2>3, <2>5, <2>6 DEF IInv, Loop
<1>2. CASE DiscoverTargetAndBuild
  <2>1. /\ pc = "target" /\ pc' = "root" /\ UNCHANGED <<src, taken, exists, snaps, token, seen, cur>>
        /\ \/ plan' = Build /\ blind' = FALSE
           \/ plan' = BuildWithoutTarget /\ blind' = TRUE
    BY <1>2 DEF DiscoverTargetAndBuild, source, target
  <2>2. World'
    BY <2>1, WorldUnchanged DEF IInv, World
  <2>3. PlanFresh'
    BY <2>1 DEF PlanFresh, PlanNow, Build, BuildWithoutTarget
  <2>4. BlindSpares'
    BY <2>1 DEF BlindSpares, BuildWithoutTarget, buildDatasetPlan, SkipPlan, FullPlan
  <2>5. CurOK' /\ Planned' /\ SendOK' /\ CleanOK' /\ CleansOldest' /\ DoneOK'
    BY <2>1 DEF IInv, CurOK, Planned, SendOK, CleanOK, CleansOldest, DoneOK
  <2>6. QED
    BY <2>2, <2>3, <2>4, <2>5 DEF IInv, World
<1>3. CASE CreateRoot
  <2>1. World'
    BY <1>3, WorldUnchanged DEF IInv, World, CreateRoot, source
  <2>2. PlanFresh' /\ BlindSpares'
    BY <1>3 DEF IInv, PlanFresh, PlanNow, BlindSpares, CreateRoot
  <2>3. ASSUME NEW d \in Dataset PROVE ~(d < cur')
    BY <1>3 DEF IInv, CurOK, CreateRoot, Dataset
  <2>4. DoneOK'
    BY <1>3, <2>3 DEF DoneOK, CreateRoot
  <2>5. CurOK' /\ Planned' /\ SendOK' /\ CleanOK' /\ CleansOldest'
    BY <1>3 DEF CurOK, Planned, SendOK, CleanOK, CleansOldest, CreateRoot
  <2>6. QED
    BY <2>1, <2>2, <2>4, <2>5 DEF IInv, World
<1>4. CASE CreateRootFails
  <2>1. World'
    BY <1>4, WorldUnchanged DEF IInv, World, CreateRootFails, source, target
  <2>2. Loop'
    BY <1>4 DEF IInv, Loop, CurOK, PlanFresh, BlindSpares, Planned, SendOK, CleanOK,
       CleansOldest, DoneOK, CreateRootFails
  <2>3. QED
    BY <2>1, <2>2 DEF IInv, World, Loop
<1>5. QED
  BY <1>1, <1>2, <1>3, <1>4

\* A dataset there is nothing to do for, one that cannot be renamed, and the
\* end of the loop.
LEMMA LoopSteps ==
    ASSUME TypeInv, TypeInv', IInv,
           SkipDataset \/ ReinitializeFails \/ FinishPlan
    PROVE  IInv'
<1>1. CASE SkipDataset
  <2>1. cur \in Dataset
    BY <1>1 DEF TypeInv, TypeOK, SkipDataset, Dataset
  <2>2. World'
    BY <1>1, WorldUnchanged DEF IInv, World, SkipDataset, source, target
  <2>3. plan[cur] = PlanNow(cur) /\ plan[cur].action = "skip"
    BY <1>1, <2>1 DEF IInv, PlanFresh, SkipDataset, Dataset
  <2>4. FilterSnapshots(seen[cur]) = {} \/ Goal(cur) \in snaps[cur]
    <3>1. /\ seen[cur] \in SUBSET Snapshot /\ snaps[cur] \in SUBSET Snapshot
          /\ exists[cur] \in BOOLEAN
      BY <2>1 DEF TypeInv, TypeOK
    <3>2. \A x \in snaps[cur] : Match[x] # {}
      BY <2>1 DEF IInv, TargetOK
    <3>3. CASE blind
      <4>1. buildDatasetPlan(seen[cur], FALSE, {}).action = "skip"
        BY <2>3, <3>3 DEF PlanNow
      <4>2. QED
        BY <3>1, <4>1, SkipMeansUpToDate
    <3>4. CASE ~blind
      <4>1. buildDatasetPlan(seen[cur], exists[cur], snaps[cur]).action = "skip"
        BY <2>3, <3>4 DEF PlanNow
      <4>2. QED
        BY <3>1, <3>2, <4>1, SkipMeansUpToDate DEF Goal
    <3>5. QED
      BY <3>3, <3>4
  <2>5. Loop'
    BY <1>1, <2>1, <2>4, LoopMovesOn DEF SkipDataset, target, results
  <2>6. QED
    BY <2>2, <2>5 DEF IInv, World, Loop
<1>2. CASE ReinitializeFails
  <2>1. cur \in Dataset
    BY <1>2 DEF TypeInv, TypeOK, ReinitializeFails, Dataset
  <2>2. World'
    BY <1>2, WorldUnchanged DEF IInv, World, ReinitializeFails, source, target
  <2>3. Loop'
    BY <1>2, <2>1, LoopMovesOn DEF ReinitializeFails, SyncFailed, target
  <2>4. QED
    BY <2>2, <2>3 DEF IInv, World, Loop
<1>3. CASE FinishPlan
  <2>1. World'
    BY <1>3, WorldUnchanged DEF IInv, World, FinishPlan, source, target
  <2>2. ASSUME NEW d \in Dataset PROVE d < cur
    <3>1. cur \in Nat /\ cur > NDataset /\ d <= NDataset /\ d \in Nat /\ NDataset \in Nat
      BY <1>3, ReplicationAssumption DEF FinishPlan, TypeInv, TypeOK, Dataset
    <3>2. QED
      BY <3>1
  <2>3. DoneOK'
    BY <1>3, <2>2 DEF IInv, DoneOK, FinishPlan, target, results, Goal, Misled
  <2>4. CurOK' /\ PlanFresh' /\ BlindSpares' /\ Planned' /\ SendOK' /\ CleanOK' /\ CleansOldest'
    BY <1>3 DEF IInv, CurOK, PlanFresh, BlindSpares, Planned, SendOK, CleanOK, CleansOldest,
       FinishPlan
  <2>5. QED
    BY <2>1, <2>3, <2>4 DEF IInv, World
<1>4. QED
  BY <1>1, <1>2, <1>3

\* What a plan p that sends starts from.  S, T, e: as for buildDatasetPlan.
Starts(p, S, T, e) ==
    /\ p.send # {} /\ p.send \subseteq FilterSnapshots(S)
    /\ p.action # "incremental" => p.common = None /\ p.cleanup = NoCleanup
    /\ p.action = "initial" => ~e
    /\ p.action = "reinitialize" => e /\ S \cap T = {}
    /\ p.action = "incremental" =>
         /\ p.common \in S \cap T /\ \A x \in S \cap T : x <= p.common
         /\ p.send = Pending(S, T) /\ p.send \cap T = {}
         /\ p.common = CommonSnapshot(S, T) /\ p.cleanup = buildCleanup(T, p.send)
    /\ \A q \in p.send : p.common < q
    /\ NFilter = 1 =>
         \A y \in FilterSnapshots(S) :
            y >= Min(p.send) \/ (p.common # None /\ y > p.common) => y \in p.send

LEMMA PlanStarts ==
    ASSUME NEW S \in SUBSET Snapshot, NEW T \in SUBSET Snapshot, NEW e,
           buildDatasetPlan(S, e, T).action # "skip"
    PROVE  Starts(buildDatasetPlan(S, e, T), S, T, e)
<1> DEFINE p == buildDatasetPlan(S, e, T)
<1>1. /\ FilterSnapshots(S) # {} /\ p.send \subseteq FilterSnapshots(S)
      /\ Max(FilterSnapshots(S)) \in p.send
  BY PlanSends
<1>2. p.send # {} /\ p.send \in SUBSET Snapshot
  BY <1>1 DEF FilterSnapshots
<1>3. Min(p.send) \in p.send /\ \A q \in p.send : Min(p.send) <= q
  BY <1>2, MinOfSnapshots
<1>4. \/ p = FullPlan("initial", S) /\ ~e
      \/ p = FullPlan("reinitialize", S) /\ e /\ S \cap T = {}
      \/ Pending(S, T) # {} /\ S \cap T # {} /\ p = IncrementalPlan(S, T)
  BY DEF buildDatasetPlan, SkipPlan
<1> HIDE DEF p
<1>5. ASSUME p = FullPlan("initial", S) \/ p = FullPlan("reinitialize", S)
      PROVE  Starts(p, S, T, e)
  <2>1. /\ p.common = None /\ p.send = trimForInitial(FilterSnapshots(S))
        /\ p.cleanup = NoCleanup
    BY <1>5 DEF FullPlan
  <2>2. \A q \in p.send : p.common < q
    BY <1>2, <2>1 DEF Snapshot
  <2>3. ASSUME NFilter = 1, NEW y \in FilterSnapshots(S), y >= Min(p.send)
        PROVE  y \in p.send
    <3>1. CASE y = Min(p.send)
      BY <1>3, <3>1
    <3>2. CASE y # Min(p.send)
      <4>1. Min(p.send) < y
        BY <1>2, <1>3, <2>3, <3>2 DEF FilterSnapshots, Snapshot
      <4>2. QED
        BY <1>3, <2>1, <2>3, <4>1, TrimIsSuffix
    <3>3. QED
      BY <3>1, <3>2
  <2>4. p.action # "incremental"
    BY <1>5 DEF FullPlan
  <2>5. /\ p.action = "initial" => ~e
        /\ p.action = "reinitialize" => e /\ S \cap T = {}
    BY <1>4, <1>5 DEF FullPlan, IncrementalPlan
  <2>6. QED
    BY <1>1, <1>2, <2>1, <2>2, <2>3, <2>4, <2>5 DEF Starts
<1>6. ASSUME Pending(S, T) # {} /\ S \cap T # {} /\ p = IncrementalPlan(S, T)
      PROVE  Starts(p, S, T, e)
  <2>1. /\ p.common = CommonSnapshot(S, T) /\ p.send = Pending(S, T)
        /\ p.action = "incremental" /\ p.cleanup = buildCleanup(T, p.send)
    BY <1>6 DEF IncrementalPlan
  <2>2. /\ \A q \in p.send : p.common < q
        /\ p.common \in Snapshot /\ p.common \in S \cap T
        /\ \A x \in S \cap T : x <= p.common
        /\ p.send \cap T = {}
    <3>1. /\ CommonSnapshot(S, T) \in S \cap T
          /\ \A x \in S \cap T : x <= CommonSnapshot(S, T)
          /\ Pending(S, T) \cap T = {}
          /\ \A q \in Pending(S, T) : CommonSnapshot(S, T) < q
      BY <1>6, PendingIsNew
    <3>2. QED
      BY <2>1, <3>1
  <2>3. ASSUME NEW y \in FilterSnapshots(S), y >= Min(p.send) \/ y > p.common
        PROVE  y \in p.send
    <3>1. y > p.common
      <4>1. y \in Snapshot /\ Min(p.send) \in Snapshot /\ p.common < Min(p.send)
        BY <1>2, <1>3, <2>2 DEF FilterSnapshots
      <4>2. QED
        BY <2>2, <2>3, <4>1 DEF Snapshot
    <3>2. QED
      BY <2>1, <3>1 DEF Pending, FilterSnapshots
  <2>4. QED
    BY <1>1, <1>2, <1>6, <2>1, <2>2, <2>3 DEF Starts
<1>7. Starts(p, S, T, e)
  BY <1>4, <1>5, <1>6
<1>8. QED
  BY <1>7 DEF p

\* What a plan that sends leaves the send loop and the cleanup with.
LEMMA PlannedOnStart ==
    ASSUME TypeInv, NEW d \in Dataset, plan[d] = PlanNow(d), plan[d].action # "skip"
    PROVE  /\ plan[d].send \subseteq FilterSnapshots(seen[d])
           /\ Goal(d) \in plan[d].send
           /\ \A f \in Filter : Goal(d) \notin plan[d].cleanup[f]
           /\ IF blind THEN plan[d].action = "initial" /\ Starts(plan[d], seen[d], {}, FALSE)
                       ELSE Starts(plan[d], seen[d], snaps[d], exists[d])
<1>1. seen[d] \in SUBSET Snapshot /\ snaps[d] \in SUBSET Snapshot
  BY DEF TypeInv, TypeOK
<1>2. CASE blind
  <2>1. plan[d] = buildDatasetPlan(seen[d], FALSE, {})
    BY <1>2 DEF PlanNow
  <2>2. plan[d].action = "initial"
    <3>1. plan[d] = SkipPlan \/ plan[d] = FullPlan("initial", seen[d])
      BY <2>1 DEF buildDatasetPlan
    <3>2. SkipPlan.action = "skip" /\ FullPlan("initial", seen[d]).action = "initial"
      BY DEF SkipPlan, FullPlan
    <3> QED BY <3>1, <3>2
  <2>3. {} \in SUBSET Snapshot /\ buildDatasetPlan(seen[d], FALSE, {}).action # "skip"
    BY <2>1
  <2>4. /\ plan[d].send \subseteq FilterSnapshots(seen[d])
        /\ Goal(d) \in plan[d].send
    BY <1>1, <2>1, <2>3, PlanSends DEF Goal
  <2>5. \A f \in Filter : Goal(d) \notin plan[d].cleanup[f]
    BY <1>1, <2>1, <2>3, CleanupSparesGoal DEF Goal
  <2>6. Starts(plan[d], seen[d], {}, FALSE)
    BY <1>1, <2>1, <2>3, PlanStarts
  <2>7. QED
    BY <1>2, <2>2, <2>4, <2>5, <2>6
<1>3. CASE ~blind
  <2>1. plan[d] = buildDatasetPlan(seen[d], exists[d], snaps[d])
    BY <1>3 DEF PlanNow
  <2>2. QED
    BY <1>1, <1>3, <2>1, PlanSends, CleanupSparesGoal, PlanStarts DEF Goal
<1>4. QED
  BY <1>2, <1>3

\* A transfer that was interrupted in an earlier run and that can be resumed
\* carries the first snapshot of the plan.
LEMMA TokenIsNext ==
    ASSUME TypeInv, IInv, NEW d \in Dataset, pc # "idle", ~blind, plan[d] = PlanNow(d),
           plan[d].action \in {"initial", "incremental"},
           token[d] # NoToken, Sendable(token[d], src[d])
    PROVE  token[d].snap = Min(plan[d].send)
<1> DEFINE t == token[d]
           c == plan[d].common
<1>1. /\ seen[d] \in SUBSET Snapshot /\ snaps[d] \in SUBSET Snapshot
      /\ exists[d] \in BOOLEAN /\ src[d] \in SUBSET Snapshot
      /\ t.base \in Snapshot \cup {None} /\ t.snap \in Snapshot \cup {None}
  BY DEF TypeInv, TypeOK
<1>2. ResumeOK(t, snaps[d], src[d] \cup seen[d])
  BY DEF IInv, TokenOK
<1>2a. Starts(plan[d], seen[d], snaps[d], exists[d])
  BY PlannedOnStart
<1>3. plan[d].action = "incremental"
  <2>1. exists[d]
    BY DEF IInv, TargetOK
  <2>2. plan[d].action = "initial" => ~exists[d]
    BY <1>2a DEF Starts
  <2>3. QED
    BY <2>1, <2>2
<1>4. /\ c = CommonSnapshot(seen[d], snaps[d])
      /\ plan[d].send = Pending(seen[d], snaps[d]) /\ plan[d].send # {}
  BY <1>2a, <1>3 DEF Starts
<1>5. /\ c \in seen[d] \cap snaps[d] /\ \A x \in seen[d] \cap snaps[d] : x <= c
      /\ \A q \in plan[d].send : c < q
  BY <1>2a, <1>3 DEF Starts
<1>6. t.base # None /\ t.base \in snaps[d]
  BY <1>2, <1>5 DEF ResumeOK
<1>7. t.base \in seen[d] /\ t.snap \in seen[d]
  BY <1>6 DEF IInv, Discovered, Sendable
<1>8. t.base = c
  <2>1. t.base <= c
    BY <1>5, <1>6, <1>7
  <2>2. c <= t.base
    BY <1>2, <1>5 DEF ResumeOK
  <2>3. QED
    BY <1>1, <1>5, <2>1, <2>2 DEF Snapshot
<1>9. t.snap \in plan[d].send
  <2>1. Match[t.snap] # {} /\ t.base < t.snap
    BY <1>2 DEF ResumeOK
  <2>2. t.snap > c
    BY <1>1, <1>5, <1>8, <2>1 DEF Snapshot
  <2>3. QED
    BY <1>4, <1>7, <2>1, <2>2 DEF Pending, FilterSnapshots
<1>10. ASSUME NEW q \in plan[d].send PROVE t.snap <= q
  <2>1. q \in FilterSnapshots(src[d] \cup seen[d]) /\ q \in Snapshot
    BY <1>1, <1>4 DEF Pending, FilterSnapshots
  <2>2. q <= t.base \/ t.snap <= q
    BY <1>2, <1>6, <2>1 DEF ResumeOK
  <2>3. c < q
    BY <1>5
  <2>4. QED
    BY <1>1, <1>5, <1>8, <2>1, <2>2, <2>3 DEF Snapshot
<1>11. plan[d].send \in SUBSET Snapshot
  BY <1>1, <1>4 DEF Pending, FilterSnapshots
<1>12. Min(plan[d].send) \in plan[d].send /\ \A q \in plan[d].send : Min(plan[d].send) <= q
  BY <1>4, <1>11, MinOfSnapshots
<1>13. t.snap <= Min(plan[d].send) /\ Min(plan[d].send) <= t.snap
  BY <1>9, <1>10, <1>12
<1>14. t.snap \in Int /\ Min(plan[d].send) \in Int
  BY <1>9, <1>11, <1>12 DEF Snapshot
<1>15. QED
  BY <1>13, <1>14

\* The send loop begins, after a rename or without one.
LEMMA SendBegins ==
    ASSUME NoGaps, TypeInv, TypeInv', IInv, StartSync \/ Reinitialize
    PROVE  SendOK'
<1>1. /\ cur \in Dataset /\ plan[cur].action # "skip" /\ pc = "dataset"
      /\ queue' = plan[cur].send /\ cur' = cur /\ seen' = seen /\ src' = src
      /\ blind' = blind
  BY DEF TypeInv, TypeOK, StartSync, Reinitialize, Dataset, source
<1>2. plan[cur] = PlanNow(cur)
  BY <1>1 DEF IInv, PlanFresh, Dataset
<1>3. /\ seen[cur] \in SUBSET Snapshot /\ snaps[cur] \in SUBSET Snapshot
      /\ exists[cur] \in BOOLEAN /\ src[cur] \in SUBSET Snapshot
  BY <1>1 DEF TypeInv, TypeOK
<1>4. IF blind THEN plan[cur].action = "initial" /\ Starts(plan[cur], seen[cur], {}, FALSE)
               ELSE Starts(plan[cur], seen[cur], snaps[cur], exists[cur])
  BY <1>1, <1>2, PlannedOnStart
<1>5. /\ queue' # {} /\ queue' \subseteq FilterSnapshots(seen[cur])
      /\ Goal(cur) \in queue' /\ Goal(cur)' = Goal(cur)
  BY <1>1, <1>2, <1>4, PlannedOnStart DEF Goal, Starts
<1>6. Sending' \in queue'
  BY <1>3, <1>5, MinOfSnapshots DEF Sending, FilterSnapshots
<1>7. /\ base' = IF plan[cur].action = "reinitialize" THEN None ELSE plan[cur].common
      /\ plan[cur].action = "reinitialize" => base' = plan[cur].common
  BY <1>4 DEF StartSync, Reinitialize, Starts
<1>8. \A q \in queue' : base' < q
  BY <1>1, <1>4, <1>7 DEF Starts
<1>9. Resumable => \A y \in FilterSnapshots(seen[cur]) :
        y >= Sending' \/ (base' # None /\ y > base') => y \in queue'
  BY <1>1, <1>4, <1>7 DEF NoGaps, Sending, Starts
<1>10. CASE StartSync
  <2>1. base' = plan[cur].common /\ snaps' = snaps /\ token' = token /\ exists' = exists
        /\ plan[cur].action \in {"initial", "incremental"}
    BY <1>10 DEF StartSync, target
  <2>2. ASSUME ~exists[cur], base' = None
        PROVE  Sending' \notin snaps[cur] /\ snaps[cur] = {}
    BY <1>1, <2>2 DEF IInv, TargetOK
  <2>3. ASSUME ~blind, plan[cur].action = "incremental"
        PROVE  /\ Sending' \notin snaps[cur] /\ base' # None
               /\ \A x \in seen[cur] \cap snaps[cur] : x <= base'
    <3>1. /\ base' \in seen[cur] \cap snaps[cur]
          /\ \A x \in seen[cur] \cap snaps[cur] : x <= base'
          /\ queue' \cap snaps[cur] = {}
      BY <1>1, <1>4, <2>1, <2>3 DEF Starts
    <3>2. base' # None
      BY <1>3, <3>1 DEF Snapshot
    <3>3. QED
      BY <1>6, <3>1, <3>2
  <2>4. plan[cur].action = "initial" => base' = None /\ (blind \/ ~exists[cur])
    BY <1>4, <2>1 DEF Starts
  <2>5. Shared(cur) \subseteq seen[cur] \cap snaps[cur] /\ Shared(cur)' = Shared(cur)
    BY <1>1, <2>1 DEF Shared, IInv, Discovered
  <2>6. ASSUME ~Misled, token[cur] # NoToken, Sendable(token[cur], src[cur])
        PROVE  token[cur].snap = Sending'
    <3>1. Resumable
      BY <1>1, <2>6 DEF IInv, TokenOK, ResumeOK
    <3>2. ~blind
      BY <2>6, <3>1 DEF Misled
    <3>3. QED
      BY <1>1, <1>2, <2>1, <2>6, <3>2, TokenIsNext DEF Sending
  <2>7. Refused' = (blind /\ base' = None /\ exists[cur]) /\ Misled' = Misled
    BY <1>1, <2>1 DEF Refused, Misled
  <2> HIDE DEF Sending, Goal, Shared, Refused, Misled
  <2>8. ASSUME ~Refused'
        PROVE  /\ Sending' \notin snaps'[cur]
               /\ IF base' = None THEN snaps'[cur] = {} ELSE \A x \in Shared(cur)' : x <= base'
    <3>1. CASE plan[cur].action = "initial"
      BY <2>1, <2>2, <2>4, <2>7, <2>8, <3>1
    <3>2. CASE plan[cur].action = "incremental"
      BY <1>4, <2>1, <2>3, <2>5, <3>2
    <3>3. QED
      BY <2>1, <3>1, <3>2
  <2>9. ~Misled => NextOK'
    BY <1>1, <2>1, <2>6, <2>8 DEF NextOK, Sendable
  <2>10. QED
    BY <1>1, <1>5, <1>8, <1>9, <2>7, <2>9 DEF SendOK, FilterSnapshots
<1>11. CASE Reinitialize
  <2>1. base' = None /\ snaps'[cur] = {} /\ token'[cur] = NoToken
    BY <1>1, <1>11 DEF Reinitialize, TypeInv, TypeOK
  <2>2. NextOK'
    BY <1>1, <2>1 DEF NextOK
  <2> HIDE DEF Sending, Goal
  <2>3. QED
    BY <1>1, <1>5, <1>8, <1>9, <2>2 DEF SendOK, FilterSnapshots
<1>12. QED
  BY <1>10, <1>11

\* A cleanup that is planned now takes the oldest of the target, none newer
\* than what is to be sent.
LEMMA PlansOldest ==
    ASSUME NoGaps, Resumable, TypeInv, IInv, NEW d \in Dataset,
           plan[d] = PlanNow(d), plan[d].action # "skip",
           NEW f \in Filter, NEW z \in plan[d].cleanup[f]
    PROVE  /\ \A q \in plan[d].send : z < q
           /\ \A y \in snaps[d] : y < z => y \in plan[d].cleanup[f]
<1>1. /\ seen[d] \in SUBSET Snapshot /\ snaps[d] \in SUBSET Snapshot
      /\ \A x \in snaps[d] : Match[x] # {}
  BY DEF TypeInv, TypeOK, IInv, TargetOK
<1>2. plan[d].cleanup # NoCleanup
  BY DEF NoCleanup
<1>3. /\ plan[d].action = "incremental"
      /\ Starts(plan[d], seen[d], snaps[d], exists[d])
  BY <1>2, PlannedOnStart DEF Starts
<1> DEFINE c == plan[d].common
           T == FilterSnapshotsByInterval(snaps[d], f)
           k == Cardinality(T) + Cardinality(FilterSnapshotsByInterval(plan[d].send, f)) - MinKeep[f]
<1>4. /\ c \in seen[d] \cap snaps[d] /\ plan[d].send \cap snaps[d] = {}
      /\ plan[d].send \subseteq FilterSnapshots(seen[d])
      /\ \A q \in plan[d].send : c < q
  BY <1>3 DEF Starts
<1>5. plan[d].cleanup[f] = OldestOf(T, k)
  BY <1>3 DEF Starts, buildCleanup
<1>6. T \in SUBSET Snapshot /\ plan[d].send \in SUBSET Snapshot
  BY <1>1, <1>4 DEF FilterSnapshotsByInterval, FilterSnapshots
<1>7. k \in Int
  <2>1. FilterSnapshotsByInterval(plan[d].send, f) \in SUBSET Snapshot
    BY <1>6 DEF FilterSnapshotsByInterval
  <2>2. QED
    BY <1>6, <2>1, SnapshotsFinite, PlanAssumption
<1>8. z \in T /\ z \in snaps[d] /\ z \in Snapshot
  BY <1>1, <1>5 DEF OldestOf, FilterSnapshotsByInterval
<1>9. ASSUME NEW q \in plan[d].send, ~(z < q) PROVE FALSE
  <2>1. q \in Snapshot /\ q # z
    BY <1>4, <1>6, <1>8
  <2>2. c < q /\ q < z
    BY <1>4, <1>8, <1>9, <2>1 DEF Snapshot
  <2>3. q \in FilterSnapshots(src[d] \cup seen[d])
    BY <1>4 DEF FilterSnapshots
  <2>4. q \in snaps[d]
    BY <1>4, <1>8, <2>2, <2>3 DEF IInv, GapFree
  <2>5. QED
    BY <1>4, <2>4
<1>10. ASSUME NEW y \in snaps[d], y < z PROVE y \in plan[d].cleanup[f]
  <2>1. Match[y] \in SUBSET Filter /\ Match[y] # {} /\ Filter = {f}
    BY <1>1, PlanAssumption DEF NoGaps, Filter
  <2>2. y \in T
    BY <2>1 DEF FilterSnapshotsByInterval
  <2> HIDE DEF T, k
  <2>3. QED
    BY <1>5, <1>6, <1>7, <1>10, <2>2, OldestIsPrefix
<1>11. QED
  BY <1>9, <1>10

LEMMA StartSteps ==
    ASSUME NoGaps, TypeInv, TypeInv', IInv, StartSync \/ Reinitialize
    PROVE  IInv'
<1>1. /\ cur \in Dataset /\ plan[cur].action # "skip" /\ pc = "dataset" /\ pc' = "send"
      /\ cur' = cur /\ plan' = plan /\ seen' = seen /\ src' = src /\ taken' = taken
      /\ blind' = blind /\ syncErr' = syncErr /\ queue' = plan[cur].send
  BY DEF TypeInv, TypeOK, StartSync, Reinitialize, Dataset, source, results
<1>2. plan[cur] = PlanNow(cur)
  BY <1>1 DEF IInv, PlanFresh, Dataset
<1>3. \A d \in Dataset : d # cur =>
        exists'[d] = exists[d] /\ snaps'[d] = snaps[d] /\ token'[d] = token[d]
  BY DEF TypeInv, TypeOK, StartSync, Reinitialize, target
<1>4. \/ exists'[cur] = exists[cur] /\ snaps'[cur] = snaps[cur] /\ token'[cur] = token[cur]
      \/ ~exists'[cur] /\ snaps'[cur] = {} /\ token'[cur] = NoToken
  BY <1>1 DEF TypeInv, TypeOK, StartSync, Reinitialize, target
<1>5. NoToken.snap = 0 /\ \A d \in Dataset : taken[d] \in Nat /\ seen[d] \in SUBSET Snapshot
  BY DEF NoToken, Stream, TypeInv, TypeOK
<1>6. Numbered' /\ TargetOK'
  BY <1>1, <1>3, <1>4, <1>5 DEF IInv, Numbered, TargetOK
<1>7. Discovered'
  <2>1. \A d \in Dataset : /\ snaps'[d] \subseteq snaps[d]
                           /\ token'[d].snap = token[d].snap \/ token'[d].snap = 0
    BY <1>3, <1>4, <1>5
  <2>2. \A d \in Dataset : src[d] \in SUBSET Snapshot
    BY DEF TypeInv, TypeOK
  <2>3. QED
    BY <1>1, <2>1, <2>2 DEF IInv, Discovered, Snapshot
<1>8. \A d \in Dataset : /\ token'[d] # NoToken => token'[d] = token[d] /\ snaps'[d] = snaps[d]
                         /\ snaps'[d] = {} \/ snaps'[d] = snaps[d]
  BY <1>3, <1>4
<1>9. TokenOK' /\ GapFree'
  <2>1. TokenOK'
    BY <1>1, <1>8 DEF IInv, TokenOK, ResumeOK, FilterSnapshots
  <2>2. ASSUME Resumable, NEW d \in Dataset, NEW y \in FilterSnapshots(src[d] \cup seen[d]),
               NEW x \in snaps'[d], NEW z \in snaps'[d], x < y, y < z
        PROVE  y \in snaps'[d]
    <3>1. snaps'[d] = snaps[d]
      BY <1>8, <2>2
    <3>2. QED
      BY <2>2, <3>1 DEF IInv, GapFree
  <2>3. GapFree'
    BY <1>1, <2>2 DEF GapFree, FilterSnapshots
  <2>4. QED
    BY <2>1, <2>3
<1>10. PlanFresh' /\ BlindSpares'
  <2>1. ASSUME NEW d \in Dataset, cur < d PROVE plan'[d] = PlanNow(d)'
    <3>1. d # cur /\ cur <= d
      BY <1>1, <2>1 DEF Dataset
    <3>2. plan[d] = PlanNow(d)
      BY <1>1, <2>1, <3>1 DEF IInv, PlanFresh
    <3>3. QED
      BY <1>1, <1>3, <3>1, <3>2 DEF PlanNow
  <2>2. PlanFresh'
    BY <1>1, <2>1 DEF PlanFresh
  <2>3. BlindSpares'
    BY <1>1 DEF IInv, BlindSpares
  <2>4. QED
    BY <2>2, <2>3
<1>11. Planned'
  BY <1>1, <1>2, PlannedOnStart DEF Planned, Goal, FilterSnapshots
<1>12. CleansOldest'
  <2>1. ASSUME Resumable, NEW f \in Filter, NEW z \in plan[cur].cleanup[f]
        PROVE  /\ \A q \in plan[cur].send : z < q
               /\ \A y \in snaps'[cur] : y < z => y \in plan[cur].cleanup[f]
    BY <1>1, <1>2, <1>8, <2>1, PlansOldest
  <2>2. QED
    BY <1>1, <2>1 DEF CleansOldest
<1>13. ASSUME NEW d \in Dataset, d < cur, ~Misled
       PROVE  d \in syncErr \/ FilterSnapshots(seen[d]) = {} \/ Goal(d) \in snaps'[d]
  <2>1. d # cur
    BY <1>13 DEF Dataset
  <2>2. QED
    BY <1>1, <1>3, <1>13, <2>1 DEF IInv, DoneOK
<1>14. DoneOK'
  BY <1>1, <1>13 DEF DoneOK, Goal, FilterSnapshots, Misled
<1>15. SendOK' /\ CurOK' /\ CleanOK'
  BY <1>1, SendBegins DEF CurOK, CleanOK
<1>16. QED
  BY <1>6, <1>7, <1>9, <1>10, <1>11, <1>12, <1>14, <1>15 DEF IInv

\* While a dataset is sent, the plans of those still to come stay fresh.
LEMMA PlansStayFresh ==
    ASSUME IInv, cur \in Dataset, pc \in {"send", "cleanup"}, pc' \in {"send", "cleanup"},
           cur' = cur, UNCHANGED <<seen, blind, plan>>,
           \A d \in Dataset : d # cur => exists'[d] = exists[d] /\ snaps'[d] = snaps[d]
    PROVE  CurOK' /\ PlanFresh'
<1>1. ASSUME NEW d \in Dataset, cur < d PROVE plan'[d] = PlanNow(d)'
  <2>1. d # cur
    BY <1>1 DEF Dataset
  <2>2. plan[d] = PlanNow(d)
    BY <1>1 DEF IInv, PlanFresh
  <2>3. QED
    BY <2>1, <2>2 DEF PlanNow
<1>2. QED
  BY <1>1 DEF CurOK, PlanFresh

\* And the outcome of those it is through with stays what it was.
LEMMA OutcomesStay ==
    ASSUME IInv, cur \in Dataset, pc \in {"send", "cleanup"}, pc' \in {"send", "cleanup"},
           cur' = cur, UNCHANGED <<seen, blind, syncErr>>,
           \A d \in Dataset : d # cur => snaps'[d] = snaps[d]
    PROVE  DoneOK'
<1>1. ASSUME NEW d \in Dataset, d < cur, ~Misled
      PROVE  d \in syncErr \/ FilterSnapshots(seen[d]) = {} \/ Goal(d) \in snaps'[d]
  <2>1. d # cur
    BY <1>1 DEF Dataset
  <2>2. QED
    BY <1>1, <2>1 DEF IInv, DoneOK
<1>2. QED
  BY <1>1 DEF DoneOK, Goal, FilterSnapshots, Misled

\* An attempt leaves nothing that is older than what is to be destroyed.
LEMMA EffectCleansOldest ==
    ASSUME TypeInv, IInv, pc = "send", Effect, Resumable,
           NEW f \in Filter, NEW z \in plan[cur].cleanup[f],
           NEW y \in snaps'[cur], y < z
    PROVE  y \in plan[cur].cleanup[f]
<1>1. cur \in Dataset /\ Sending \in queue /\ Sending \in Snapshot
  BY SendFacts
<1>2. z \in Snapshot
  BY <1>1 DEF TypeInv, TypeOK, DatasetPlan
<1>3. ~Misled
  BY <1>1 DEF Misled, IInv, BlindSpares, NoCleanup
<1>4. z < Sending
  BY <1>1 DEF IInv, CleansOldest
<1>5. y # Sending
  BY <1>1, <1>2, <1>4 DEF Snapshot
<1>6. y \in snaps[cur]
  BY <1>3, <1>5 DEF Effect
<1>7. QED
  BY <1>6 DEF IInv, CleansOldest

\* A snapshot is reported as delivered: unless the run is misled, it has
\* arrived, and the next one follows on it.
LEMMA SendSucceedsStep ==
    ASSUME NoGaps, TypeInv, TypeInv', IInv, SendSucceeds
    PROVE  IInv'
<1>1. /\ pc = "send" /\ cur' = cur /\ seen' = seen /\ src' = src /\ taken' = taken
      /\ blind' = blind /\ plan' = plan /\ syncErr' = syncErr
      /\ queue' = queue \ {Sending} /\ base' = Sending
      /\ IF queue' = {} THEN pc' = "cleanup" /\ clean' = plan[cur].cleanup
                        ELSE pc' = pc /\ clean' = clean
  BY DEF SendSucceeds, Delivered, source
<1>2. /\ cur \in Dataset /\ Sending \in queue /\ Sending \in Snapshot
      /\ \A q \in queue : Sending <= q
      /\ Sending <= Goal(cur)
      /\ \A x \in FilterSnapshots(seen[cur]) : x <= Goal(cur)
      /\ FilterSnapshots(seen[cur]) \in SUBSET Snapshot
  BY <1>1, SendFacts
<1>3. /\ Effect
      /\ ~Misled => /\ Sending \in snaps'[cur] /\ token'[cur] = NoToken
                    /\ \A x \in snaps'[cur] : x <= Sending
  <2>1. CASE CanTransfer /\ Complete
    BY <1>1, <2>1, CompleteIsEffect
  <2>2. CASE /\ ~Resuming /\ NoEffect
             /\ AlreadyThere(CurrentStream, snaps[cur], token[cur])
    <3>1. Effect
      BY <1>1, <2>2, NoEffectIsEffect
    <3>2. CurrentStream.snap = Sending /\ CurrentStream.base = base
      BY <2>2 DEF CurrentStream, Stream
    <3>3. /\ Sending \in snaps'[cur] /\ token'[cur] = NoToken
          /\ snaps'[cur] = snaps[cur] /\ base # None
      BY <2>2, <3>2 DEF AlreadyThere, NoEffect
    <3>4. ~Misled => \A x \in snaps[cur] : x <= Sending
      BY <1>1, <3>3 DEF IInv, SendOK, NextOK, Refused
    <3>5. QED
      BY <3>1, <3>3, <3>4
  <2>3. QED
    BY <2>1, <2>2 DEF SendSucceeds
<1>4. World'
  <2>1. World
    BY DEF IInv, World
  <2>2. UNCHANGED <<src, taken>> /\ pc # "idle"
    BY <1>1
  <2>3. QED
    BY <1>1, <1>2, <1>3, <2>1, <2>2, WorldAfterEffect
<1>5. /\ \A d \in Dataset : d # cur => exists'[d] = exists[d] /\ snaps'[d] = snaps[d]
      /\ Misled' = Misled
  BY <1>1, <1>3 DEF Effect, Misled
<1>6. Goal(cur)' = Goal(cur) /\ Goal(cur) \in queue /\ queue \in SUBSET Snapshot
  BY <1>1, <1>2 DEF IInv, SendOK, Goal
<1>7. CurOK' /\ PlanFresh' /\ Planned' /\ DoneOK' /\ BlindSpares'
  <2>1. pc' \in {"send", "cleanup"}
    BY <1>1
  <2>2. Planned'
    BY <1>1, <2>1 DEF IInv, Planned, Goal, FilterSnapshots
  <2>3. CurOK' /\ PlanFresh' /\ DoneOK'
    BY <1>1, <1>2, <1>5, <2>1, PlansStayFresh, OutcomesStay
  <2>4. BlindSpares'
    BY <1>1, <1>2 DEF IInv, BlindSpares
  <2>5. QED
    BY <2>2, <2>3, <2>4
<1>8. ASSUME Resumable, NEW f \in Filter, NEW z \in plan[cur].cleanup[f]
      PROVE  /\ \A q \in queue' : z < q
             /\ \A y \in snaps'[cur] : y < z => y \in plan[cur].cleanup[f]
  <2>1. \A q \in queue : z < q
    BY <1>1, <1>8 DEF IInv, CleansOldest
  <2>2. QED
    BY <1>1, <1>3, <1>8, <2>1, EffectCleansOldest
<1>9. CleansOldest'
  BY <1>1, <1>8 DEF CleansOldest
<1>10. CASE queue' = {}
  <2>1. Goal(cur) = Sending
    BY <1>1, <1>2, <1>6, <1>10
  <2>2. pc' = "cleanup" /\ clean' = plan[cur].cleanup
    BY <1>1, <1>10
  <2>3. \A f \in Filter : Goal(cur) \notin plan[cur].cleanup[f]
    BY <1>1 DEF IInv, Planned
  <2>4. CleanOK'
    BY <1>1, <1>3, <1>5, <1>6, <2>1, <2>2, <2>3 DEF CleanOK
  <2>5. SendOK'
    BY <2>2 DEF SendOK
  <2>6. QED
    BY <1>4, <1>7, <1>9, <2>4, <2>5 DEF IInv, World
<1>11. CASE queue' # {}
  <2>1. pc' = "send"
    BY <1>1, <1>11
  <2>2. Sending' \in queue' /\ \A q \in queue' : q \in queue /\ q # Sending
    BY <1>1, <1>6, <1>11, MinOfSnapshots DEF Sending
  <2>3. \A q \in queue' : Sending < q
    <3>1. \A q \in queue' : Sending <= q /\ q \in Snapshot /\ q # Sending
      BY <1>2, <1>6, <2>2
    <3>2. QED
      BY <1>2, <3>1 DEF Snapshot
  <2>4. Goal(cur) \in queue'
    <3>1. Goal(cur) # Sending
      <4>1. Sending' \in FilterSnapshots(seen[cur])
        BY <1>1, <2>2 DEF IInv, SendOK
      <4>2. Sending' <= Goal(cur) /\ Sending < Sending' /\ Sending' \in Snapshot
        BY <1>2, <2>2, <2>3, <4>1
      <4>3. QED
        BY <1>2, <4>2 DEF Snapshot
    <3>2. QED
      BY <1>1, <1>6, <3>1
  <2>5. ASSUME Resumable, NEW y \in FilterSnapshots(seen[cur]), y >= Sending' \/ y > Sending
        PROVE  y \in queue'
    <3>1. y > Sending
      <4>1. Sending < Sending' /\ Sending' \in Snapshot /\ y \in Snapshot
        BY <1>2, <1>6, <2>2, <2>3
      <4>2. QED
        BY <1>2, <2>5, <4>1 DEF Snapshot
    <3>2. y \in queue
      <4>1. y >= Sending
        BY <1>2, <2>5, <3>1 DEF Snapshot
      <4>2. QED
        BY <1>1, <2>5, <4>1 DEF IInv, SendOK
    <3>3. QED
      BY <1>1, <1>2, <3>1, <3>2 DEF Snapshot
  <2>6. base' # None
    BY <1>1, <1>2 DEF Snapshot
  <2>7. ASSUME ~Misled
        PROVE  /\ Sending' \notin snaps'[cur] /\ token'[cur] = NoToken
               /\ \A x \in Shared(cur)' : x <= base'
    <3>1. Sending < Sending' /\ Sending' \in Snapshot
      BY <1>2, <1>6, <2>2, <2>3
    <3>2. Sending' \notin snaps'[cur]
      BY <1>2, <1>3, <2>7, <3>1 DEF Snapshot
    <3>3. QED
      BY <1>1, <1>3, <2>7, <3>2 DEF Shared
  <2>8. queue' \subseteq FilterSnapshots(seen[cur])
    BY <1>1 DEF IInv, SendOK
  <2> HIDE DEF Sending, Goal, Shared
  <2>9. ~Misled => NextOK'
    BY <1>1, <2>6, <2>7 DEF NextOK
  <2>10. SendOK'
    BY <1>1, <1>5, <1>6, <2>3, <2>4, <2>5, <2>8, <2>9 DEF SendOK, FilterSnapshots
  <2>11. CleanOK'
    BY <2>1 DEF CleanOK
  <2>12. QED
    BY <1>4, <1>7, <1>9, <2>10, <2>11 DEF IInv, World
<1>12. QED
  BY <1>10, <1>11

\* An attempt is reported as failed, whatever it has left on the target.
LEMMA NotDeliveredStep ==
    ASSUME TypeInv, TypeInv', IInv, pc = "send", Effect, NotDelivered,
           UNCHANGED <<source, seen, blind, plan, execErr>>
    PROVE  IInv'
<1>1. cur \in Dataset
  BY SendFacts
<1>2. World'
  <2>1. World
    BY DEF IInv, World
  <2>2. UNCHANGED <<src, taken>> /\ pc # "idle" /\ seen' = seen
    BY DEF source
  <2>3. QED
    BY <1>1, <2>1, <2>2, WorldAfterEffect
<1>3. \A d \in Dataset : d # cur =>
        exists'[d] = exists[d] /\ snaps'[d] = snaps[d] /\ token'[d] = token[d]
  BY DEF Effect
<1>4. CASE attempt < Attempts
  <2>1. /\ pc' = pc /\ cur' = cur /\ queue' = queue /\ base' = base /\ clean' = clean
        /\ syncErr' = syncErr /\ src' = src /\ seen' = seen /\ plan' = plan
        /\ blind' = blind /\ Misled' = Misled
    BY <1>4 DEF NotDelivered, source, Misled
  <2>2. CleanOK' /\ Planned' /\ BlindSpares'
    BY <2>1 DEF IInv, CleanOK, Planned, BlindSpares, Goal, FilterSnapshots
  <2>3. CurOK' /\ PlanFresh' /\ DoneOK'
    BY <1>1, <1>3, <2>1, PlansStayFresh, OutcomesStay
  <2>4. CleansOldest'
    <3>1. ASSUME Resumable, NEW f \in Filter, NEW z \in plan[cur].cleanup[f]
          PROVE  /\ \A q \in queue : z < q
                 /\ \A y \in snaps'[cur] : y < z => y \in plan[cur].cleanup[f]
      <4>1. \A q \in queue : z < q
        BY <3>1 DEF IInv, CleansOldest
      <4>2. QED
        BY <3>1, <4>1, EffectCleansOldest
    <3>2. QED
      BY <2>1, <3>1 DEF CleansOldest
  <2>5. Sending' = Sending /\ Goal(cur)' = Goal(cur)
    BY <2>1 DEF Sending, Goal
  <2>6. ~Refused' => ~Refused
    BY <1>1, <2>1 DEF Effect, Refused
  <2>7. ASSUME ~Misled, ~Refused, Sending \notin snaps'[cur]
        PROVE  IF base = None THEN snaps'[cur] = {} ELSE \A x \in Shared(cur)' : x <= base
    <3>1. snaps'[cur] = snaps[cur]
      BY <2>7 DEF Effect
    <3>2. QED
      BY <2>1, <2>7, <3>1 DEF IInv, SendOK, NextOK, Shared
  <2>8. ASSUME ~Misled, ~Refused, Sending \in snaps'[cur]
        PROVE  \A x \in snaps'[cur] : x <= Sending
    <3>1. snaps'[cur] = snaps[cur] \/ \A x \in snaps'[cur] : x <= Sending
      BY <2>8 DEF Effect
    <3>2. QED
      BY <2>8, <3>1 DEF IInv, SendOK, NextOK
  <2>9. ~Misled /\ token'[cur] # NoToken /\ Sendable(token'[cur], src[cur]) =>
          token'[cur].snap = Sending
    BY DEF Effect
  <2>10. /\ Goal(cur) \in queue /\ queue \subseteq FilterSnapshots(seen[cur])
         /\ \A q \in queue : base < q
         /\ Resumable =>
              \A y \in FilterSnapshots(seen[cur]) :
                 y >= Sending \/ (base # None /\ y > base) => y \in queue
    BY DEF IInv, SendOK
  <2> HIDE DEF Sending, Goal, Shared, Refused, Misled
  <2>11. ~Misled => NextOK'
    BY <2>1, <2>5, <2>6, <2>7, <2>8, <2>9 DEF NextOK, Sendable
  <2>12. SendOK'
    BY <2>1, <2>5, <2>10, <2>11 DEF SendOK, FilterSnapshots
  <2>13. QED
    BY <1>2, <2>2, <2>3, <2>4, <2>12 DEF IInv, World
<1>5. CASE ~(attempt < Attempts)
  <2>1. SyncFailed
    BY <1>5 DEF NotDelivered
  <2>2. Loop'
    BY <1>1, <1>3, <2>1, LoopMovesOn DEF SyncFailed
  <2>3. QED
    BY <1>2, <2>2 DEF IInv, World, Loop
<1>6. QED
  BY <1>4, <1>5

LEMMA FailureSteps ==
    ASSUME NoGaps, TypeInv, TypeInv', IInv, SendRefused \/ SendFails
    PROVE  IInv'
<1>1. pc = "send" /\ NotDelivered /\ UNCHANGED <<source, seen, blind, plan, execErr>>
  BY DEF SendRefused, SendFails
<1>2. CASE SendRefused
  <2>1. NoEffect
    BY <1>2 DEF SendRefused, NoEffect, target
  <2>2. QED
    BY <1>1, <2>1, NoEffectIsEffect, NotDeliveredStep
<1>3. CASE SendFails
  <2>1. CanTransfer /\ (NoEffect \/ Partial \/ Complete)
    BY <1>3 DEF SendFails
  <2>2. Effect
    BY <1>1, <2>1, NoEffectIsEffect, PartialIsEffect, CompleteIsEffect
  <2>3. QED
    BY <1>1, <2>2, NotDeliveredStep
<1>4. QED
  BY <1>2, <1>3

\* The cleanup destroys neither the goal nor what a transfer can be resumed
\* from.
LEMMA CleanupSteps ==
    ASSUME NoGaps, TypeInv, TypeInv', IInv, Destroy \/ DestroyFails \/ FinishDataset
    PROVE  IInv'
<1>1. /\ pc = "cleanup" /\ cur \in Dataset
      /\ src' = src /\ taken' = taken /\ seen' = seen /\ plan' = plan
      /\ syncErr' = syncErr /\ exists' = exists /\ token' = token /\ blind' = blind
  BY DEF TypeInv, TypeOK, Destroy, DestroyFails, FinishDataset, Dataset, source,
         target, results
<1>2. CASE Destroy
  <2>1. /\ Destroying \in snaps[cur] /\ token[cur] # NoToken => Destroying # token[cur].base
        /\ snaps'[cur] = snaps[cur] \ {Destroying}
        /\ clean' = [clean EXCEPT ![CleanupInterval] = @ \ {Destroying}]
        /\ pc' = pc /\ cur' = cur /\ clean # NoCleanup
        /\ \A d \in Dataset : d # cur => snaps'[d] = snaps[d]
        /\ blind = FALSE /\ Misled = FALSE
    BY <1>1, <1>2 DEF Destroy, Destroyable, TypeInv, TypeOK, IInv, BlindSpares, Misled
  <2>2. CleanupInterval \in Filter /\ Destroying \in clean[CleanupInterval]
    <3>1. {f \in Filter : clean[f] # {}} # {}
      BY <2>1 DEF TypeInv, TypeOK, NoCleanup
    <3>2. CleanupInterval \in {f \in Filter : clean[f] # {}}
      BY <3>1, MinOfNaturals DEF CleanupInterval, Filter
    <3>3. clean[CleanupInterval] # {} /\ clean[CleanupInterval] \in SUBSET Snapshot
      BY <3>2 DEF TypeInv, TypeOK
    <3>4. QED
      BY <3>2, <3>3, MinOfSnapshots DEF Destroying
  <2>3. Destroying # Goal(cur)
    BY <1>1, <2>1, <2>2 DEF IInv, CleanOK
  <2>4. \A d \in Dataset : snaps'[d] \subseteq snaps[d]
    BY <2>1
  <2>5. Numbered' /\ TargetOK' /\ Discovered'
    BY <1>1, <2>1, <2>4 DEF IInv, Numbered, TargetOK, Discovered
  <2>6. ASSUME NEW d \in Dataset, token[d] # NoToken
        PROVE  ResumeOK(token[d], snaps'[d], src[d] \cup seen[d])
    <3>1. ResumeOK(token[d], snaps[d], src[d] \cup seen[d])
      BY <2>6 DEF IInv, TokenOK
    <3>2. token[d].base # None => token[d].base \in snaps'[d]
      BY <2>1, <2>6, <3>1 DEF ResumeOK
    <3>3. QED
      BY <2>4, <3>1, <3>2 DEF ResumeOK
  <2>7. TokenOK'
    BY <1>1, <2>6 DEF TokenOK, ResumeOK, FilterSnapshots
  <2>8. CurOK' /\ PlanFresh' /\ DoneOK'
    BY <1>1, <2>1, PlansStayFresh, OutcomesStay
  <2>9. Planned' /\ SendOK' /\ BlindSpares'
    BY <1>1, <2>1 DEF IInv, Planned, SendOK, BlindSpares, Goal, FilterSnapshots
  <2>10. Goal(cur)' = Goal(cur)
    BY <1>1, <2>1 DEF Goal
  <2>11. CleanOK'
    <3>1. \A f \in Filter : clean'[f] \subseteq clean[f]
      BY <2>1 DEF TypeInv, TypeOK
    <3>2. /\ Goal(cur) \in snaps[cur] /\ \A x \in snaps[cur] : x <= Goal(cur)
          /\ \A f \in Filter : Goal(cur) \notin clean[f]
      BY <1>1, <2>1 DEF IInv, CleanOK
    <3> HIDE DEF Goal
    <3>3. QED
      BY <2>1, <2>3, <2>10, <3>1, <3>2 DEF CleanOK
  <2>12. ASSUME Resumable, NEW f \in Filter, NEW z \in clean[f], NEW y \in snaps[cur], y < z
         PROVE  y \in clean[f]
    BY <1>1, <2>12 DEF IInv, CleansOldest
  <2>13. CleansOldest'
    <3>1. ASSUME Resumable, NEW f \in Filter, NEW z \in clean'[f], NEW y \in snaps'[cur], y < z
          PROVE  y \in clean'[f]
      <4>1. z \in clean[f] /\ y \in snaps[cur] /\ y # Destroying
        BY <2>1, <3>1 DEF TypeInv, TypeOK
      <4>2. y \in clean[f]
        BY <2>12, <3>1, <4>1
      <4>3. QED
        BY <2>1, <4>1, <4>2 DEF TypeInv, TypeOK
    <3>2. QED
      BY <1>1, <2>1, <3>1 DEF CleansOldest
  <2>14. ASSUME Resumable, NEW d \in Dataset, NEW y \in FilterSnapshots(src[d] \cup seen[d]),
                NEW x \in snaps'[d], NEW z \in snaps'[d], x < y, y < z
         PROVE  y \in snaps'[d]
    <3>1. y \in snaps[d]
      BY <2>4, <2>14 DEF IInv, GapFree
    <3>2. CASE d # cur \/ y # Destroying
      BY <2>1, <3>1, <3>2
    <3>3. CASE d = cur /\ y = Destroying
      <4>1. x \in snaps[cur] /\ x # Destroying /\ x \in Snapshot
        BY <1>1, <2>1, <2>14, <3>3 DEF TypeInv, TypeOK
      <4>2. x \in clean[CleanupInterval]
        BY <2>2, <2>12, <2>14, <3>3, <4>1
      <4>3. clean[CleanupInterval] \in SUBSET Snapshot /\ clean[CleanupInterval] # {}
        BY <2>2 DEF TypeInv, TypeOK
      <4>4. Destroying <= x /\ Destroying \in Snapshot
        BY <2>2, <4>2, <4>3, MinOfSnapshots DEF Destroying
      <4>5. QED
        BY <2>14, <3>3, <4>1, <4>4 DEF Snapshot
    <3>4. QED
      BY <3>2, <3>3
  <2>15. GapFree'
    BY <1>1, <2>14 DEF GapFree, FilterSnapshots
  <2>16. QED
    BY <2>5, <2>7, <2>8, <2>9, <2>11, <2>13, <2>15 DEF IInv
<1>3. CASE DestroyFails \/ FinishDataset
  <2>1. snaps' = snaps /\ pc' = "dataset" /\ cur' = cur + 1
    BY <1>3 DEF DestroyFails, FinishDataset, NextDataset, target
  <2>2. World
    BY DEF IInv, World
  <2>3. World'
    BY <1>1, <2>1, <2>2, WorldUnchanged
  <2>4. Misled \/ Goal(cur) \in snaps[cur]
    BY <1>1 DEF IInv, CleanOK
  <2>5. Loop'
    BY <1>1, <2>1, <2>4, LoopMovesOn
  <2>6. QED
    BY <2>3, <2>5 DEF IInv, World, Loop
<1>4. QED
  BY <1>2, <1>3

\* The process ends, in good order or anywhere.
LEMMA EndSteps ==
    ASSUME NoGaps, TypeInv, TypeInv', IInv, Exit \/ Crash
    PROVE  IInv'
<1>1. Ended /\ src' = src /\ taken' = taken /\ pc # "idle" /\ World
  BY DEF Exit, Crash, source, IInv, World
<1>2. pc' = "idle" /\ seen' = Nothing /\ cur' = 1 /\ blind' = FALSE
  BY <1>1 DEF Ended
<1>3. World'
  <2>1. CASE UNCHANGED <<exists, snaps, token>>
    BY <1>1, <1>2, <2>1, WorldForgotten
  <2>2. CASE pc = "send" /\ CanTransfer /\ (Partial \/ Complete)
    <3>1. Effect /\ cur \in Dataset
      BY <2>2, SendFacts, PartialIsEffect, CompleteIsEffect
    <3>2. QED
      BY <1>1, <1>2, <3>1, WorldAfterEffect
  <2>3. QED
    BY <2>1, <2>2 DEF Exit, Crash, NoEffect, target
<1>4. Loop'
  BY <1>2 DEF Loop, CurOK, PlanFresh, BlindSpares, Planned, SendOK, CleanOK, CleansOldest, DoneOK
<1>5. QED
  BY <1>3, <1>4 DEF IInv, World, Loop

-----------------------------------------------------------------------------
\* Every step preserves the invariant.
LEMMA IStep ==
    ASSUME NoGaps, TypeInv, TypeInv', IInv, [Next]_vars
    PROVE  IInv'
<1>1. CASE Environment
  <2>1. PICK d \in Dataset : TakeSnapshot(d) \/ RotateSource(d)
    BY <1>1 DEF Environment
  <2>2. /\ UNCHANGED <<target, faults, run>>
        /\ \A e \in Dataset : taken[e] \in Nat
    BY <2>1 DEF TakeSnapshot, RotateSource, TypeInv, TypeOK, source
  <2>3. /\ \A e \in Dataset : taken[e] <= taken'[e]
        /\ \A e \in Dataset : \A x \in src'[e] :
             x \in src[e] \/ (taken[e] < x /\ x <= taken'[e])
    <3>1. CASE TakeSnapshot(d)
      BY <2>2, <3>1 DEF TakeSnapshot, TypeInv, TypeOK
    <3>2. CASE RotateSource(d)
      <4>1. taken' = taken /\ \A e \in Dataset : src'[e] \subseteq src[e]
        BY <3>2 DEF RotateSource, TypeInv, TypeOK
      <4>2. QED
        BY <2>2, <4>1
    <3>3. QED
      BY <2>1, <3>1, <3>2
  <2>4. QED
    BY <2>2, <2>3, SourceSteps
<1>2. CASE Run
  BY <1>2, PlanSteps, LoopSteps, StartSteps, SendSucceedsStep, FailureSteps,
     CleanupSteps, EndSteps DEF Run
<1>3. CASE Crash
  BY <1>3, EndSteps
<1>4. CASE UNCHANGED vars
  <2>1. /\ UNCHANGED <<target, faults, run>> /\ src' = src /\ taken' = taken
        /\ \A e \in Dataset : taken[e] \in Nat
    BY <1>4 DEF vars, source, TypeInv, TypeOK
  <2>2. QED
    BY <2>1, SourceSteps
<1>5. QED
  BY <1>1, <1>2, <1>3, <1>4 DEF Next

\* Both invariants hold in every reachable state.
LEMMA Invariants ==
    ASSUME NoGaps
    PROVE  Spec => [](TypeInv /\ IInv)
<1>1. Init => TypeInv /\ IInv
  BY InitType, InitIInv
<1>2. TypeInv /\ IInv /\ [Next]_vars => (TypeInv /\ IInv)'
  BY TypeStep, IStep
<1>3. QED
  BY <1>1, <1>2, PTL DEF Spec

-----------------------------------------------------------------------------
(* The theorems.                                                           *)

\* The invariant behind the others: what is on either side, what a token
\* continues, and what a run still means to send fit together in every state
\* of every run, however stale its listings are; of a misled run, what it
\* leaves on the target for the next.
THEOREM AlwaysIInv ==
    ASSUME NoGaps
    PROVE  Spec => []IInv
BY Invariants, PTL

\* Whatever fails, is retried, is resumed or changes meanwhile: when Execute
\* returns, the newest snapshot discovery listed is on the target of every
\* dataset it reports no sync error for.  The exception is a misled run: one
\* with resumable receives whose listing of the target root failed.
THEOREM ErrorOrDelivered ==
    ASSUME NoGaps
    PROVE  Spec => []ErrorOrReplicated
<1>1. TypeInv /\ IInv => ErrorOrReplicated
  BY DEF IInv, DoneOK, ErrorOrReplicated, Goal
<1>2. QED
  BY <1>1, Invariants, PTL

\* The cleanup never destroys before the sync it belongs to is complete, and
\* never takes the snapshot the sync was for.  A misled run destroys nothing.
THEOREM CleanupOnlyAfterSync ==
    ASSUME NoGaps
    PROVE  Spec => CleanupAfterSync
<1>1. ASSUME TypeInv, IInv, TypeInv', IInv', Destroy
      PROVE  LET last == Max(plan[cur].send)
             IN  last \in snaps'[cur] /\ \A x \in snaps'[cur] : x <= last
  <2>1. /\ pc = "cleanup" /\ pc' = pc /\ cur' = cur /\ cur \in Dataset
        /\ seen' = seen /\ Misled' = FALSE
    BY <1>1 DEF Destroy, TypeInv, TypeOK, Dataset, IInv, BlindSpares, Misled
  <2>2. /\ plan[cur].send \subseteq FilterSnapshots(seen[cur])
        /\ Goal(cur) \in plan[cur].send
        /\ FilterSnapshots(seen[cur]) \in SUBSET Snapshot
    BY <1>1, <2>1 DEF IInv, Planned, FilterSnapshots, TypeInv, TypeOK
  <2>3. \A x \in FilterSnapshots(seen[cur]) : x <= Goal(cur)
    BY <2>2, MaxOfSnapshots DEF Goal
  <2>4. plan[cur].send \in SUBSET Snapshot /\ plan[cur].send # {}
    BY <2>2
  <2>5. /\ Max(plan[cur].send) \in plan[cur].send
        /\ Goal(cur) <= Max(plan[cur].send)
    BY <2>2, <2>4, MaxOfSnapshots
  <2>6. Max(plan[cur].send) <= Goal(cur)
    BY <2>2, <2>3, <2>5
  <2>7. Max(plan[cur].send) \in Int /\ Goal(cur) \in Int
    BY <2>2, <2>4, <2>5 DEF Snapshot
  <2>8. Max(plan[cur].send) = Goal(cur)
    BY <2>5, <2>6, <2>7
  <2>9. Goal(cur)' = Goal(cur)
    BY <2>1 DEF Goal
  <2>10. Goal(cur) \in snaps'[cur] /\ \A x \in snaps'[cur] : x <= Goal(cur)
    BY <1>1, <2>1, <2>9 DEF IInv, CleanOK
  <2>11. QED
    BY <2>8, <2>10
<1>2. TypeInv /\ IInv /\ (TypeInv /\ IInv)' =>
        [Destroy => LET last == Max(plan[cur].send)
                    IN  last \in snaps'[cur] /\ \A x \in snaps'[cur] : x <= last]_vars
  BY <1>1
<1>3. QED
  BY <1>2, Invariants, PTL DEF CleanupAfterSync
=============================================================================
