-------------------------- MODULE HierarchyProofs ---------------------------
(***************************************************************************)
(* A run over a tree of datasets, for every tree, every choice of tags and *)
(* roots and any number of failures: HInv is an invariant, and with it the *)
(* safety properties of Hierarchy, which are about resumable: false.  And  *)
(* what every accepted configuration file guarantees of the names in that  *)
(* tree, and of the numbers that this and the other modules take for       *)
(* granted.                                                                *)
(***************************************************************************)
EXTENDS HierarchyInvariant, PlanProofs, Config

-----------------------------------------------------------------------------
(* What is listed, and what the loop is at.                                *)

\* A root lists datasets.
LEMMA ListedDatasets ==
    ASSUME setup \in Setups
    PROVE  /\ DOMAIN Listed \subseteq Nat
           /\ \A i \in DOMAIN Listed : Listed[i] \subseteq Dataset
<1>1. Listed = [i \in DOMAIN setup.roots |->
                   ({setup.roots[i]} \cup Below[setup.roots[i]]) \cap Selected(setup.tag)]
  BY DEF Listed, ListedIn
<1>2. setup.roots \in Seq(Dataset)
  BY HierarchyAssumption
<1>3. DOMAIN setup.roots \subseteq Nat
  BY <1>2
<1>4. Selected(setup.tag) \subseteq Dataset
  BY DEF Selected
<1>5. QED
  BY <1>1, <1>3, <1>4

\* What is below a dataset are datasets.
LEMMA BelowDatasets == ASSUME NEW d \in Dataset PROVE Below[d] \subseteq Dataset
BY DEF Below

\* The loop is at one of the plans.
LEMMA CurrentIsPlanned ==
    ASSUME todo \in SUBSET Planned, todo # {}
    PROVE  /\ Current \in todo /\ Current \in Planned
           /\ ds \in Dataset /\ do \in DatasetPlan
<1> DEFINE Roots == {p.root : p \in todo}
           r == Min(Roots)
           There == {p.ds : p \in {q \in todo : q.root = r}}
           d == Min(There)
<1>1. \A p \in todo : p.root \in Nat /\ p.ds \in Nat /\ p.ds \in Dataset
  BY HierarchyAssumption DEF Planned, Dataset
<1>2. Roots \in SUBSET Nat /\ Roots # {}
  BY <1>1
<1>3. r \in Roots /\ \A x \in Roots : r <= x
  BY <1>2, MinOfNaturals
<1>4. There \in SUBSET Nat /\ There # {}
  BY <1>1, <1>3
<1>5. d \in There /\ \A x \in There : d <= x
  BY <1>4, MinOfNaturals
<1>6. PICK p \in todo : p.root = r /\ p.ds = d
  BY <1>5
<1>7. \A q \in todo : r <= q.root /\ (q.root = r => d <= q.ds)
  BY <1>3, <1>5
<1> HIDE DEF Roots, r, There, d
<1>8. \A q \in todo : Order(p, q)
  BY <1>1, <1>6, <1>7 DEF Order
<1>9. Current \in todo
  BY <1>8 DEF Current
<1>10. QED
  BY <1>9 DEF Planned, ds, do

\* What is left when the loop moves on is done with one more dataset.
LEMMA OneMoreProcessed ==
    ASSUME TypeOK, OnePlanEach, todo # {}, todo' = Rest, setup' = setup
    PROVE  /\ Processed \subseteq Processed'
           /\ Processed' \subseteq Processed \cup {ds}
           /\ ds \in Processed'
<1>1. Current \in todo /\ Current \in Planned /\ ds \in Dataset
  BY CurrentIsPlanned DEF TypeOK
<1>2. Listed' = Listed
  BY DEF Listed
<1>3. Processed \subseteq Processed'
  BY <1>2 DEF Processed, Rest
<1>4. Processed' \subseteq Processed \cup {ds}
  BY <1>1, <1>2 DEF Processed, Rest, ds
<1>5. Current.root \in DOMAIN Listed /\ ds \in Listed[Current.root]
  BY <1>1 DEF OnePlanEach, ds
<1>6. ASSUME NEW p \in Rest, p.root = Current.root, p.ds = ds
      PROVE  FALSE
  <2>1. p \in todo /\ p # Current /\ p \in Planned
    BY DEF Rest, TypeOK
  <2>2. p.name = Current.name /\ p.do = Current.do
    BY <1>1, <1>6, <2>1 DEF OnePlanEach, ds
  <2>3. p = Current
    BY <1>1, <1>6, <2>1, <2>2 DEF Planned, ds
  <2>4. QED
    BY <2>1, <2>3
<1>7. ds \in Processed'
  BY <1>1, <1>2, <1>5, <1>6 DEF Processed
<1>8. QED
  BY <1>3, <1>4, <1>7

\* What a plan p that sends has to do with the listing it was made from: e,
\* whether the dataset was there, and T, its snapshots.
Fits(p, e, T) ==
    /\ p.action = "initial" => ~e
    /\ p.action = "reinitialize" => e
    /\ p.action \in {"initial", "reinitialize"} => p.common = None
    /\ p.action = "incremental" =>
          e /\ p.common # None /\ p.common \in T /\ p.send \cap T = {}

LEMMA PlanFits ==
    ASSUME NEW S \in SUBSET Snapshot, NEW T \in SUBSET Snapshot, NEW e \in BOOLEAN,
           buildDatasetPlan(S, e, T).action # "skip"
    PROVE  Fits(buildDatasetPlan(S, e, T), e, T)
<1> DEFINE p == buildDatasetPlan(S, e, T)
<1>1. \/ p = FullPlan("initial", S) /\ ~e
      \/ p = FullPlan("reinitialize", S) /\ e
      \/ S \cap T # {} /\ e /\ p = IncrementalPlan(S, T)
  BY DEF buildDatasetPlan, SkipPlan
<1> HIDE DEF p
<1>2. ASSUME p = FullPlan("initial", S) /\ ~e
      PROVE  Fits(p, e, T)
  <2>1. p.action = "initial" /\ p.common = None
    BY <1>2 DEF FullPlan
  <2>2. QED
    BY <1>2, <2>1 DEF Fits
<1>3. ASSUME p = FullPlan("reinitialize", S) /\ e
      PROVE  Fits(p, e, T)
  <2>1. p.action = "reinitialize" /\ p.common = None
    BY <1>3 DEF FullPlan
  <2>2. QED
    BY <1>3, <2>1 DEF Fits
<1>4. ASSUME S \cap T # {} /\ e /\ p = IncrementalPlan(S, T)
      PROVE  Fits(p, e, T)
  <2>1. p.action = "incremental" /\ p.common = CommonSnapshot(S, T) /\ p.send = Pending(S, T)
    BY <1>4 DEF IncrementalPlan
  <2>2. CommonSnapshot(S, T) \in S \cap T /\ Pending(S, T) \cap T = {}
    BY <1>4, PendingIsNew
  <2>3. CommonSnapshot(S, T) # None
    BY <2>2 DEF Snapshot, None
  <2>4. QED
    BY <1>4, <2>1, <2>2, <2>3 DEF Fits
<1>5. Fits(p, e, T)
  BY <1>1, <1>2, <1>3, <1>4
<1>6. QED
  BY <1>5 DEF p

-----------------------------------------------------------------------------
(* Types.                                                                  *)

\* The plan of a listed dataset is a plan.
LEMMA PlanForType ==
    ASSUME TypeOK, NEW i \in Nat, NEW d \in Dataset, NEW there
    PROVE  PlanFor(i, d, there) \in Planned
<1>1. src[d] \in SUBSET Snapshot /\ (IF there THEN snaps[d] ELSE {}) \in SUBSET Snapshot
  BY DEF TypeOK
<1>2. buildDatasetPlan(src[d], there, IF there THEN snaps[d] ELSE {}) \in DatasetPlan
  BY <1>1, PlanType
<1>3. old[d] + 1 \in Nat
  BY DEF TypeOK
<1>4. QED
  BY <1>2, <1>3 DEF PlanFor, Planned

\* Receiving some of the planned snapshots leaves snapshots there, of which
\* only the planned ones are new.
LEMMA Delivered ==
    ASSUME TypeOK, todo # {}, NEW S \in SUBSET do.send, Deliver(S)
    PROVE  /\ exists' \in [Dataset -> BOOLEAN] /\ snaps' \in [Dataset -> SUBSET Snapshot]
           /\ exists'[ds] = TRUE
           /\ snaps'[ds] \subseteq snaps[ds] \cup do.send
           /\ S \subseteq snaps'[ds]
           /\ snaps[ds] \cap do.send \subseteq snaps'[ds]
           /\ \A d \in Dataset : d # ds => exists'[d] = exists[d] /\ snaps'[d] = snaps[d]
<1>1. ds \in Dataset /\ do \in DatasetPlan
  BY CurrentIsPlanned DEF TypeOK
<1>2. do.send \in SUBSET Snapshot
  BY <1>1 DEF DatasetPlan
<1> DEFINE N == IF S = {} THEN snaps[ds]
                ELSE {x \in snaps[ds] : x <= do.common \/ x \in do.send} \cup S
<1>3. exists' = [exists EXCEPT ![ds] = TRUE] /\ snaps' = [snaps EXCEPT ![ds] = N]
  BY DEF Deliver
<1>4. /\ N \in SUBSET Snapshot /\ N \subseteq snaps[ds] \cup do.send /\ S \subseteq N
      /\ snaps[ds] \cap do.send \subseteq N
  BY <1>1, <1>2 DEF TypeOK
<1> HIDE DEF N
<1>5. QED
  BY <1>1, <1>3, <1>4 DEF TypeOK

\* Every step keeps the types.
LEMMA TypeStep == TypeOK /\ [Next]_vars => TypeOK'
<1> SUFFICES ASSUME TypeOK, [Next]_vars PROVE TypeOK'
  OBVIOUS
<1> USE DEF source, target, run
<1>a. \A S \in SUBSET Planned : S \ {Current} \in SUBSET Planned
  OBVIOUS
<1>b. Rest \in SUBSET Planned
  BY DEF TypeOK, Rest
<1>c. todo # {} => ds \in Dataset /\ do \in DatasetPlan
  BY CurrentIsPlanned DEF TypeOK
<1>d. Fault => faults' \in 0 .. MaxFaults
  BY HierarchyAssumption DEF TypeOK, Fault
<1>1. ASSUME NEW d \in Dataset, TakeSnapshot(d) PROVE TypeOK'
  <2>1. taken[d] \in 0 .. MaxSnap /\ taken[d] < MaxSnap
    BY <1>1 DEF TypeOK, TakeSnapshot
  <2>2. taken[d] + 1 \in Snapshot /\ taken[d] + 1 \in 0 .. MaxSnap
    BY <2>1, PlanAssumption DEF Snapshot
  <2>3. QED
    BY <1>1, <2>2 DEF TypeOK, TakeSnapshot
<1>2. ASSUME NEW d \in Dataset, RotateSource(d) PROVE TypeOK'
  <2>1. src[d] \ {Min(src[d])} \in SUBSET Snapshot
    BY DEF TypeOK
  <2>2. QED
    BY <1>2, <2>1 DEF TypeOK, RotateSource
<1>3. CASE DiscoverAndBuild
  <2>1. todo' \in SUBSET Planned
    <3>1. ASSUME NEW p \in todo' PROVE p \in Planned
      <4>1. PICK i \in DOMAIN Listed : \E d \in Listed[i] :
                p = PlanFor(i, d, exists[d] /\ ~blind')
        BY <1>3 DEF DiscoverAndBuild
      <4>2. PICK d \in Listed[i] : p = PlanFor(i, d, exists[d] /\ ~blind')
        BY <4>1
      <4>3. i \in Nat /\ d \in Dataset
        BY ListedDatasets DEF TypeOK
      <4>4. QED
        BY <4>2, <4>3, PlanForType
    <3>2. QED
      BY <3>1
  <2>2. faults' \in 0 .. MaxFaults /\ blind' \in BOOLEAN
    BY <1>3, <1>d DEF DiscoverAndBuild, TypeOK
  <2>3. QED
    BY <1>3, <2>1, <2>2 DEF DiscoverAndBuild, TypeOK
<1>4. CASE SkipDataset
  BY <1>4, <1>b DEF SkipDataset, TypeOK
<1>5. CASE StartSync
  BY <1>5 DEF StartSync, TypeOK
<1>6. CASE Reinitialize
  <2>1. old[ds] + 1 \in Nat
    BY <1>6, <1>c DEF Reinitialize, TypeOK
  <2>2. carried' \subseteq Dataset
    BY <1>6, <1>c, BelowDatasets DEF Reinitialize, Renamed, TypeOK
  <2>3. /\ exists' \in [Dataset -> BOOLEAN] /\ snaps' \in [Dataset -> SUBSET Snapshot]
        /\ old' \in [Dataset -> Nat]
    BY <1>6, <2>1 DEF Reinitialize, Renamed, TypeOK
  <2>4. QED
    BY <1>6, <2>2, <2>3 DEF Reinitialize, TypeOK
<1>7. ASSUME SyncFailed, ds \in Dataset, pc # "idle"
      PROVE  /\ pc' = "dataset" /\ todo' \in SUBSET Planned /\ seen' = seen
             /\ blind' = blind /\ syncErr' \subseteq Dataset /\ cleanErr' = cleanErr
  BY <1>7, <1>b DEF SyncFailed, TypeOK
<1>8. CASE ReinitializeFails
  <2>1. faults' \in 0 .. MaxFaults
    BY <1>8, <1>d DEF ReinitializeFails, TypeOK
  <2>2. /\ pc = "dataset" /\ ds \in Dataset /\ SyncFailed
        /\ UNCHANGED <<source, target, carried>>
    BY <1>8, <1>c DEF ReinitializeFails
  <2>3. QED
    BY <1>7, <2>1, <2>2 DEF TypeOK
<1>9. CASE SendSucceeds
  <2>1. /\ exists' \in [Dataset -> BOOLEAN] /\ snaps' \in [Dataset -> SUBSET Snapshot]
    BY <1>9, Delivered DEF SendSucceeds, TypeOK
  <2>2. /\ pc' \in {"dataset", "cleanup"} /\ todo' \in SUBSET Planned
        /\ pc' = "cleanup" => todo' # {}
    BY <1>9, <1>b DEF SendSucceeds, Synced, TypeOK
  <2>3. QED
    BY <1>9, <2>1, <2>2 DEF SendSucceeds, TypeOK
<1>10. Deliverable \subseteq do.send
  BY DEF Deliverable
<1>11. CASE SendRefused
  <2>1. /\ exists' \in [Dataset -> BOOLEAN] /\ snaps' \in [Dataset -> SUBSET Snapshot]
    BY <1>10, <1>11, Delivered DEF SendRefused, TypeOK
  <2>2. QED
    BY <1>7, <1>11, <1>c, <2>1 DEF SendRefused, TypeOK
<1>12. CASE SendFails
  <2>1. \A n : OldestOf(Deliverable, n) \subseteq do.send
    BY <1>10 DEF OldestOf
  <2>2. /\ exists' \in [Dataset -> BOOLEAN] /\ snaps' \in [Dataset -> SUBSET Snapshot]
    BY <1>12, <2>1, Delivered DEF SendFails, TypeOK
  <2>3. QED
    BY <1>7, <1>12, <1>c, <1>d, <2>2 DEF SendFails, TypeOK
<1>13. CASE Cleanup
  <2>1. snaps[ds] \ Doomed \in SUBSET Snapshot
    BY <1>13, <1>c DEF Cleanup, TypeOK
  <2>2. QED
    BY <1>13, <1>b, <2>1 DEF Cleanup, TypeOK
<1>14. CASE CleanupFails
  <2>1. \A n : snaps[ds] \ OldestOf(Doomed, n) \in SUBSET Snapshot
    BY <1>14, <1>c DEF CleanupFails, TypeOK
  <2>2. snaps' \in [Dataset -> SUBSET Snapshot] /\ faults' \in 0 .. MaxFaults
    BY <1>14, <1>d, <2>1 DEF CleanupFails, TypeOK
  <2>3. QED
    BY <1>14, <1>b, <1>c, <2>2 DEF CleanupFails, TypeOK
<1>15. ASSUME Ended PROVE TypeOK' \/ ~(UNCHANGED <<source, target>> /\ faults' \in 0 .. MaxFaults)
  BY <1>15 DEF Ended, TypeOK
<1>16. CASE Exit
  BY <1>15, <1>16 DEF Exit, TypeOK
<1>17. CASE Crash
  BY <1>15, <1>17, <1>d DEF Crash, TypeOK
<1>18. CASE UNCHANGED vars
  BY <1>18 DEF TypeOK, vars
<1>19. QED
  BY <1>1, <1>2, <1>3, <1>4, <1>5, <1>6, <1>8, <1>9, <1>11, <1>12, <1>13, <1>14,
     <1>16, <1>17, <1>18 DEF Next, Run, Environment

-----------------------------------------------------------------------------
(* The invariant, kind of step by kind of step.                            *)

\* The source's own steps change nothing the invariant looks at.
LEMMA Untouched ==
    ASSUME HInv, TypeOK',
           UNCHANGED <<setup, exists, snaps, old, pc, todo, seen, blind, carried, syncErr>>
    PROVE  HInv'
<1>1. Current' = Current
  BY DEF Current, Order
<1>2. /\ ds' = ds /\ do' = do /\ Listed' = Listed
      /\ \A d : Goal(d)' = Goal(d)
  BY <1>1 DEF ds, do, Listed, Goal
<1>3. Processed' = Processed
  BY <1>2 DEF Processed
<1>4. \A d : Settled(d)' = Settled(d)
  BY <1>2 DEF Settled
<1>5. TargetSound' /\ OnePlanEach' /\ PlansReachGoal'
  BY <1>2 DEF HInv, TargetSound, OnePlanEach, PlansReachGoal
<1>6. DoneIsSettled' /\ AtWork'
  BY <1>2, <1>3, <1>4 DEF HInv, DoneIsSettled, AtWork
<1>7. PlansAreFresh' /\ SendIsFresh'
  BY <1>2, <1>3 DEF HInv, PlansAreFresh, SendIsFresh, AsListed, Busy
<1>8. QED
  BY <1>5, <1>6, <1>7 DEF HInv

\* Between runs nothing is planned.
LEMMA RunOver ==
    ASSUME HInv, TypeOK', Ended, UNCHANGED <<setup, target>>
    PROVE  HInv'
BY DEF Ended, target, HInv, TargetSound, OnePlanEach, PlansReachGoal, DoneIsSettled,
       AtWork, PlansAreFresh, SendIsFresh, AsListed, Busy

\* Discovery: every plan is the one for what is there.
LEMMA Discovery ==
    ASSUME HInv, TypeOK', DiscoverAndBuild
    PROVE  HInv'
<1>1. /\ pc' = "dataset" /\ seen' = src /\ blind' \in BOOLEAN
      /\ UNCHANGED <<setup, exists, snaps, old>>
  BY DEF DiscoverAndBuild, source, target, TypeOK
<1>2. /\ TypeOK /\ TargetSound
      /\ src \in [Dataset -> SUBSET Snapshot] /\ snaps \in [Dataset -> SUBSET Snapshot]
      /\ exists \in [Dataset -> BOOLEAN]
  BY DEF HInv, TypeOK
<1>3. Listed' = Listed
  BY <1>1 DEF Listed
<1> DEFINE Plan(d) == buildDatasetPlan(src[d], exists[d] /\ ~blind',
                                       IF exists[d] /\ ~blind' THEN snaps[d] ELSE {})
<1>4. ASSUME NEW p \in todo'
      PROVE  /\ p.root \in DOMAIN Listed /\ p.ds \in Listed[p.root] /\ p.ds \in Dataset
             /\ p.name = old[p.ds] + 1 /\ p.do = Plan(p.ds)
  <2>1. PICK i \in DOMAIN Listed : \E d \in Listed[i] :
            p = PlanFor(i, d, exists[d] /\ ~blind')
    BY DEF DiscoverAndBuild
  <2>2. PICK d \in Listed[i] : p = PlanFor(i, d, exists[d] /\ ~blind')
    BY <2>1
  <2>3. d \in Dataset
    BY <1>2, ListedDatasets DEF TypeOK
  <2>4. p.root = i /\ p.ds = d /\ p.name = old[d] + 1 /\ p.do = Plan(d)
    BY <2>2 DEF PlanFor
  <2>5. QED
    BY <2>2, <2>3, <2>4
<1>5. \A d \in Dataset :
          /\ src[d] \in SUBSET Snapshot /\ (exists[d] /\ ~blind') \in BOOLEAN
          /\ (IF exists[d] /\ ~blind' THEN snaps[d] ELSE {}) \in SUBSET Snapshot
          /\ \A x \in (IF exists[d] /\ ~blind' THEN snaps[d] ELSE {}) :
                x \in snaps[d] /\ Match[x] # {}
  BY <1>2 DEF TargetSound
<1>6. \A d \in Dataset : Plan(d).action # "skip" =>
          /\ FilterSnapshots(src[d]) # {}
          /\ Plan(d).send \subseteq FilterSnapshots(src[d])
          /\ Max(FilterSnapshots(src[d])) \in Plan(d).send
          /\ \A f \in Filter : Max(FilterSnapshots(src[d])) \notin Plan(d).cleanup[f]
  BY <1>5, PlanSends, CleanupSparesGoal
<1>7. \A d \in Dataset : Plan(d).action = "skip" =>
          FilterSnapshots(src[d]) = {} \/ Max(FilterSnapshots(src[d])) \in snaps[d]
  BY <1>5, SkipMeansUpToDate
<1>8. \A d \in Dataset : ~blind' => Plan(d) = buildDatasetPlan(src[d], exists[d], snaps[d])
  BY <1>2 DEF TargetSound
<1> HIDE DEF Plan
<1>9. \A d : ~(d \in Processed')
  <2>1. SUFFICES ASSUME NEW d \in Dataset, NEW i \in DOMAIN Listed, d \in Listed[i]
                 PROVE  \E p \in todo' : p.root = i /\ p.ds = d
    BY <1>3 DEF Processed
  <2> DEFINE Of(r) == {PlanFor(r, c, exists[c] /\ ~blind') : c \in Listed[r]}
  <2>2. todo' = UNION {Of(r) : r \in DOMAIN Listed}
    BY DEF DiscoverAndBuild
  <2>3. PlanFor(i, d, exists[d] /\ ~blind') \in Of(i)
    BY <2>1
  <2> HIDE DEF Of
  <2>4. PlanFor(i, d, exists[d] /\ ~blind') \in todo'
    BY <2>2, <2>3
  <2>5. QED
    BY <2>4 DEF PlanFor
<1>10. TargetSound'
  BY <1>1, <1>2 DEF TargetSound
<1>11. OnePlanEach'
  BY <1>3, <1>4 DEF OnePlanEach
<1>12. PlansReachGoal'
  BY <1>1, <1>4, <1>6 DEF PlansReachGoal, Goal
<1>13. DoneIsSettled'
  BY <1>1, <1>4, <1>7, <1>9 DEF DoneIsSettled, Settled, Goal
<1>14. AtWork' /\ SendIsFresh'
  BY <1>1 DEF AtWork, SendIsFresh
<1>15. PlansAreFresh'
  BY <1>1, <1>4, <1>8 DEF PlansAreFresh, AsListed
<1>16. QED
  BY <1>10, <1>11, <1>12, <1>13, <1>14, <1>15 DEF HInv

\* The loop moves on from a dataset that is settled and leaves the others
\* alone.
LEMMA MoveOn ==
    ASSUME HInv, TypeOK', TargetSound', todo # {}, pc # "idle",
           pc' = "dataset", todo' = Rest,
           UNCHANGED <<setup, old, seen, blind, carried>>, syncErr \subseteq syncErr',
           NEW c \in Dataset, c = ds, Settled(c)',
           \A d \in Dataset : d # c => exists'[d] = exists[d] /\ snaps'[d] = snaps[d]
    PROVE  HInv'
<1>1. TypeOK /\ OnePlanEach /\ todo \in SUBSET Planned /\ Rest \subseteq todo
  BY DEF HInv, TypeOK, Rest
<1>2. /\ Processed \subseteq Processed' /\ Processed' \subseteq Processed \cup {c}
      /\ c \in Processed'
  BY <1>1, OneMoreProcessed
<1>3. Listed' = Listed /\ \A d : Goal(d)' = Goal(d)
  BY DEF Listed, Goal
<1>4. ASSUME NEW d \in Dataset, d # c, Settled(d) PROVE Settled(d)'
  BY <1>3, <1>4 DEF Settled
<1>5. \A p \in todo : p \in Planned /\ p.ds \in Dataset
  BY <1>1 DEF Planned
<1>6. OnePlanEach'
  BY <1>1, <1>3 DEF OnePlanEach
<1>7. PlansReachGoal'
  BY <1>1, <1>3 DEF HInv, PlansReachGoal
<1>8. DoneIsSettled'
  <2>1. ASSUME NEW p \in Rest, p.do.action = "skip" PROVE Settled(p.ds)'
    <3>1. Settled(p.ds) /\ p.ds \in Dataset
      BY <1>1, <1>5, <2>1 DEF HInv, DoneIsSettled
    <3>2. QED
      BY <1>4, <3>1
  <2>2. ASSUME NEW d \in Processed' PROVE Settled(d)'
    <3>1. CASE d = c
      BY <3>1
    <3>2. CASE d # c
      <4>1. d \in Processed /\ d \in Dataset
        BY <1>2, <3>2 DEF Processed
      <4>2. Settled(d)
        BY <3>2, <4>1 DEF HInv, DoneIsSettled
      <4>3. QED
        BY <1>4, <3>2, <4>1, <4>2
    <3>3. QED
      BY <3>1, <3>2
  <2>3. QED
    BY <2>1, <2>2 DEF DoneIsSettled
<1>9. AtWork' /\ SendIsFresh'
  BY DEF AtWork, SendIsFresh
<1>10. PlansAreFresh'
  <2>1. SUFFICES ASSUME NEW p \in Rest, AsListed(p.ds)'
                 PROVE  /\ p.do = buildDatasetPlan(seen'[p.ds], exists'[p.ds], snaps'[p.ds])
                        /\ exists'[p.ds] => p.name = old'[p.ds] + 1
    BY DEF PlansAreFresh
  <2>2. p.ds \in Dataset /\ p.ds # c /\ AsListed(p.ds) /\ ~Busy(p.ds)
    BY <1>1, <1>2, <1>5, <2>1 DEF AsListed, Busy
  <2>3. /\ p.do = buildDatasetPlan(seen[p.ds], exists[p.ds], snaps[p.ds])
        /\ exists[p.ds] => p.name = old[p.ds] + 1
    BY <1>1, <2>2 DEF HInv, PlansAreFresh
  <2>4. exists'[p.ds] = exists[p.ds] /\ snaps'[p.ds] = snaps[p.ds]
    BY <2>2
  <2>5. QED
    BY <2>3, <2>4
<1>11. QED
  BY <1>6, <1>7, <1>8, <1>9, <1>10 DEF HInv

\* What the loop stays with: the plans, and what they are for.
LEMMA SamePlans ==
    ASSUME todo' = todo, setup' = setup, seen' = seen
    PROVE  /\ ds' = ds /\ do' = do /\ Processed' = Processed
           /\ \A d : Goal(d)' = Goal(d)
           /\ OnePlanEach => OnePlanEach' /\ (PlansReachGoal => PlansReachGoal')
<1>1. Current' = Current
  BY DEF Current, Order
<1>2. /\ ds' = ds /\ do' = do /\ Listed' = Listed
      /\ \A d : Goal(d)' = Goal(d)
  BY <1>1 DEF ds, do, Listed, Goal
<1>3. Processed' = Processed
  BY <1>2 DEF Processed
<1>4. QED
  BY <1>2, <1>3 DEF OnePlanEach, PlansReachGoal

\* A sync that needs no rename finds the target as it was planned for.
LEMMA SyncStarts ==
    ASSUME HInv, TypeOK', StartSync
    PROVE  HInv'
<1>1. /\ todo # {} /\ pc = "dataset" /\ do.action \in {"initial", "incremental"}
      /\ pc' = "send"
      /\ UNCHANGED <<setup, exists, snaps, old, todo, seen, blind, carried, syncErr>>
  BY DEF StartSync, source, target
<1>2. /\ ds' = ds /\ do' = do /\ Processed' = Processed
      /\ \A d : Goal(d)' = Goal(d)
      /\ OnePlanEach' /\ PlansReachGoal'
  BY <1>1, SamePlans DEF HInv
<1>3. Current \in todo /\ ds \in Dataset
  BY <1>1, CurrentIsPlanned DEF HInv, TypeOK
<1>4. \A d : Settled(d)' = Settled(d)
  BY <1>1, <1>2 DEF Settled
<1>5. TargetSound' /\ DoneIsSettled' /\ AtWork'
  BY <1>1, <1>2, <1>4 DEF HInv, TargetSound, DoneIsSettled, AtWork
<1>6. PlansAreFresh'
  BY <1>1, <1>2 DEF HInv, PlansAreFresh, AsListed, Busy
<1>7. SendIsFresh'
  <2>1. SUFFICES ASSUME AsListed(ds)
                 PROVE  /\ do.send \cap snaps[ds] = {}
                        /\ IF do.common = None THEN ~exists[ds]
                                               ELSE exists[ds] /\ do.common \in snaps[ds]
    BY <1>1, <1>2 DEF SendIsFresh, AsListed
  <2>2. do = buildDatasetPlan(seen[ds], exists[ds], snaps[ds])
    BY <1>1, <1>3, <2>1 DEF HInv, PlansAreFresh, Busy, ds, do
  <2>3. /\ seen[ds] \in SUBSET Snapshot /\ snaps[ds] \in SUBSET Snapshot
        /\ exists[ds] \in BOOLEAN
    BY <1>3 DEF HInv, TypeOK
  <2>4. Fits(do, exists[ds], snaps[ds])
    BY <1>1, <2>2, <2>3, PlanFits
  <2>5. ~exists[ds] => snaps[ds] = {}
    BY <1>3 DEF HInv, TargetSound
  <2>6. QED
    BY <1>1, <2>4, <2>5 DEF Fits
<1>8. QED
  BY <1>2, <1>5, <1>6, <1>7 DEF HInv

\* The rename: what was below is carried away and no longer counted on; a
\* dataset that was absent below it still is.
LEMMA RenameAway ==
    ASSUME HInv, TypeOK', Reinitialize
    PROVE  HInv'
<1>1. /\ todo # {} /\ pc = "dataset" /\ do.action = "reinitialize"
      /\ pc' = "send" /\ Renamed
      /\ UNCHANGED <<setup, todo, seen, blind, syncErr>>
  BY DEF Reinitialize, source
<1>2. /\ ds' = ds /\ do' = do /\ Processed' = Processed
      /\ \A d : Goal(d)' = Goal(d)
      /\ OnePlanEach' /\ PlansReachGoal'
  BY <1>1, SamePlans DEF HInv
<1>3. Current \in todo /\ Current \in Planned /\ ds \in Dataset
  BY <1>1, CurrentIsPlanned DEF HInv, TypeOK
<1>4. Below[ds] \subseteq Dataset
  BY <1>3, BelowDatasets
<1>5. \A d \in Dataset :
          /\ exists'[d] = (exists[d] /\ d # ds /\ d \notin Below[ds])
          /\ snaps'[d] = IF d = ds \/ d \in Below[ds] THEN {} ELSE snaps[d]
          /\ d # ds /\ d \notin Below[ds] => old'[d] = old[d]
          /\ d \in Below[ds] /\ exists[d] => d \in carried'
  BY <1>1, <1>4 DEF Renamed
<1>6. carried \subseteq carried'
  BY <1>1 DEF Renamed
<1>7. TargetSound'
  BY <1>5 DEF HInv, TargetSound
<1>8. ASSUME NEW d \in Dataset, d # ds, Settled(d) PROVE Settled(d)'
  <2>1. CASE d \notin Below[ds]
    <3>1. snaps'[d] = snaps[d]
      BY <1>5, <1>8, <2>1
    <3>2. QED
      BY <1>1, <1>2, <1>6, <1>8, <3>1 DEF Settled
  <2>2. CASE d \in Below[ds] /\ exists[d]
    BY <1>5, <2>2 DEF Settled
  <2>3. CASE ~exists[d]
    <3>1. snaps[d] = {} /\ snaps'[d] = {}
      BY <1>5, <2>3 DEF HInv, TargetSound
    <3>2. QED
      BY <1>1, <1>2, <1>6, <1>8, <3>1 DEF Settled
  <2>4. QED
    BY <2>1, <2>2, <2>3
<1>9. \A p \in todo : p \in Planned /\ p.ds \in Dataset
  BY DEF HInv, TypeOK, Planned
<1>10. DoneIsSettled'
  <2>1. ASSUME NEW p \in todo, p.do.action = "skip" PROVE Settled(p.ds)'
    <3>1. p.ds # ds
      BY <1>1, <1>3, <2>1 DEF HInv, OnePlanEach, ds, do
    <3>2. Settled(p.ds)
      BY <2>1 DEF HInv, DoneIsSettled
    <3>3. QED
      BY <1>8, <1>9, <3>1, <3>2
  <2>2. ASSUME NEW d \in Processed, d # ds PROVE Settled(d)'
    <3>1. Settled(d) /\ d \in Dataset
      BY <1>1, <2>2 DEF HInv, DoneIsSettled, Processed
    <3>2. QED
      BY <1>8, <2>2, <3>1
  <2>3. QED
    BY <1>1, <1>2, <2>1, <2>2 DEF DoneIsSettled
<1>11. AtWork'
  BY <1>1, <1>2 DEF AtWork
<1>12. PlansAreFresh'
  <2>1. SUFFICES ASSUME NEW p \in todo, AsListed(p.ds)', p.ds # ds
                 PROVE  /\ p.do = buildDatasetPlan(seen[p.ds], exists'[p.ds], snaps'[p.ds])
                        /\ exists'[p.ds] => p.name = old'[p.ds] + 1
    BY <1>1, <1>2 DEF PlansAreFresh, Busy
  <2>2. AsListed(p.ds) /\ ~Busy(p.ds) /\ p.ds \in Dataset
    BY <1>1, <1>2, <1>6, <1>9, <2>1 DEF AsListed, Busy
  <2>3. /\ p.do = buildDatasetPlan(seen[p.ds], exists[p.ds], snaps[p.ds])
        /\ exists[p.ds] => p.name = old[p.ds] + 1
    BY <2>2 DEF HInv, PlansAreFresh
  <2>4. CASE p.ds \notin Below[ds]
    <3>1. /\ exists'[p.ds] = exists[p.ds] /\ snaps'[p.ds] = snaps[p.ds]
          /\ old'[p.ds] = old[p.ds]
      BY <1>5, <2>1, <2>2, <2>4 DEF HInv, TypeOK
    <3>2. QED
      BY <2>3, <3>1
  <2>5. CASE p.ds \in Below[ds]
    <3>1. ~exists[p.ds]
      BY <1>5, <2>1, <2>2, <2>5 DEF AsListed
    <3>2. exists[p.ds] = FALSE /\ exists'[p.ds] = FALSE
      BY <1>5, <2>2, <3>1 DEF HInv, TypeOK
    <3>3. snaps[p.ds] = {} /\ snaps'[p.ds] = {}
      BY <1>5, <2>2, <2>5, <3>1 DEF HInv, TargetSound
    <3>4. QED
      BY <2>3, <3>2, <3>3
  <2>6. QED
    BY <2>4, <2>5
<1>13. SendIsFresh'
  <2>1. snaps'[ds] = {} /\ ~exists'[ds]
    BY <1>3, <1>5
  <2>2. SUFFICES ASSUME AsListed(ds)' PROVE do.common = None
    BY <1>1, <1>2, <2>1 DEF SendIsFresh
  <2>3. AsListed(ds)
    BY <1>1, <1>2, <1>6, <2>2 DEF AsListed
  <2>4. do = buildDatasetPlan(seen[ds], exists[ds], snaps[ds])
    BY <1>1, <1>3, <2>3 DEF HInv, PlansAreFresh, Busy, ds, do
  <2>5. /\ seen[ds] \in SUBSET Snapshot /\ snaps[ds] \in SUBSET Snapshot
        /\ exists[ds] \in BOOLEAN
    BY <1>3 DEF HInv, TypeOK
  <2>6. Fits(do, exists[ds], snaps[ds])
    BY <1>1, <2>4, <2>5, PlanFits
  <2>7. QED
    BY <1>1, <2>6 DEF Fits
<1>14. QED
  BY <1>2, <1>7, <1>10, <1>11, <1>12, <1>13 DEF HInv

\* While a dataset is worked on it has a plan that sends its newest snapshot
\* and spares it afterwards.
LEMMA WorkingPlan ==
    ASSUME HInv, todo # {}, do.action # "skip"
    PROVE  /\ ds \in Dataset /\ Goal(ds) \in do.send
           /\ do.send \subseteq FilterSnapshots(seen[ds])
           /\ \A x \in do.send : Match[x] # {}
           /\ Goal(ds) \notin Doomed
<1>1. Current \in todo /\ ds \in Dataset
  BY CurrentIsPlanned DEF HInv, TypeOK
<1>2. /\ Goal(ds) \in do.send /\ do.send \subseteq FilterSnapshots(seen[ds])
      /\ \A f \in Filter : Goal(ds) \notin do.cleanup[f]
  BY <1>1 DEF HInv, PlansReachGoal, ds, do
<1>3. Goal(ds) \notin Doomed
  BY <1>2 DEF Doomed
<1>4. QED
  BY <1>1, <1>2, <1>3 DEF FilterSnapshots

\* Whatever has arrived, the target stays sound.
LEMMA DeliveredSound ==
    ASSUME HInv, todo # {}, do.action # "skip", NEW S \in SUBSET do.send, Deliver(S)
    PROVE  TargetSound'
<1>1. /\ exists'[ds] = TRUE /\ snaps'[ds] \subseteq snaps[ds] \cup do.send
      /\ \A d \in Dataset : d # ds => exists'[d] = exists[d] /\ snaps'[d] = snaps[d]
  BY Delivered DEF HInv
<1>2. \A x \in do.send : Match[x] # {}
  BY WorkingPlan
<1>3. QED
  BY <1>1, <1>2 DEF HInv, TargetSound

\* A skipped dataset.
LEMMA Skipped ==
    ASSUME HInv, TypeOK', SkipDataset
    PROVE  HInv'
<1>1. /\ todo # {} /\ pc = "dataset" /\ do.action = "skip" /\ todo' = Rest
      /\ UNCHANGED <<setup, exists, snaps, old, pc, seen, blind, carried, syncErr>>
  BY DEF SkipDataset, source, target
<1>2. PICK c \in Dataset : c = ds
  BY <1>1, CurrentIsPlanned DEF HInv, TypeOK
<1>3. Current \in todo
  BY <1>1, CurrentIsPlanned DEF HInv, TypeOK
<1>4. Settled(c)
  BY <1>1, <1>2, <1>3 DEF HInv, DoneIsSettled, ds, do
<1>5. Settled(c)' /\ TargetSound'
  BY <1>1, <1>4 DEF Settled, Goal, HInv, TargetSound
<1>6. QED
  BY <1>1, <1>2, <1>5, MoveOn

\* A failed sync is recorded, whatever it has left on the target.
LEMMA SyncFails ==
    ASSUME HInv, TypeOK', ReinitializeFails \/ SendRefused \/ SendFails
    PROVE  HInv'
<1>1. pc \in {"dataset", "send"} /\ todo # {} /\ do.action # "skip"
  BY DEF ReinitializeFails, SendRefused, SendFails, HInv, TypeOK, AtWork
<1>2. /\ SyncFailed /\ UNCHANGED <<setup, old, carried>>
  BY DEF ReinitializeFails, SendRefused, SendFails, source, target
<1>3. /\ pc' = "dataset" /\ todo' = Rest /\ UNCHANGED <<seen, blind>>
      /\ syncErr' = syncErr \cup {ds}
  BY <1>2 DEF SyncFailed
<1>4. PICK c \in Dataset : c = ds
  BY <1>1, CurrentIsPlanned DEF HInv, TypeOK
<1>5. Settled(c)'
  BY <1>3, <1>4 DEF Settled
<1>6. Deliverable \subseteq do.send /\ \A n : OldestOf(Deliverable, n) \subseteq do.send
  BY DEF Deliverable, OldestOf
<1>7. UNCHANGED <<exists, snaps>> \/ \E S \in SUBSET do.send : Deliver(S)
  BY <1>6 DEF ReinitializeFails, SendRefused, SendFails, target
<1>8. /\ TargetSound'
      /\ \A d \in Dataset : d # c => exists'[d] = exists[d] /\ snaps'[d] = snaps[d]
  <2>1. CASE UNCHANGED <<exists, snaps>>
    BY <2>1 DEF HInv, TargetSound
  <2>2. ASSUME NEW S \in SUBSET do.send, Deliver(S)
        PROVE  /\ TargetSound'
               /\ \A d \in Dataset : d # c => exists'[d] = exists[d] /\ snaps'[d] = snaps[d]
    BY <1>1, <1>4, <2>2, Delivered, DeliveredSound DEF HInv
  <2>3. QED
    BY <1>7, <2>1, <2>2
<1>9. QED
  BY <1>1, <1>2, <1>3, <1>4, <1>5, <1>8, MoveOn

\* A complete send: the newest snapshot is there.
LEMMA SendArrives ==
    ASSUME HInv, TypeOK', SendSucceeds
    PROVE  HInv'
<1>1. /\ pc = "send" /\ todo # {} /\ do.action # "skip" /\ Deliver(do.send) /\ Synced
      /\ UNCHANGED <<setup, old, seen, blind, carried, syncErr>>
  BY DEF SendSucceeds, HInv, TypeOK, AtWork, source
<1>2. PICK c \in Dataset : c = ds
  BY <1>1, CurrentIsPlanned DEF HInv, TypeOK
<1>3. /\ do.send \subseteq snaps'[ds]
      /\ \A d \in Dataset : d # ds => exists'[d] = exists[d] /\ snaps'[d] = snaps[d]
  BY <1>1, Delivered DEF HInv
<1>4. Goal(c)' = Goal(c) /\ Goal(c) \in snaps'[c]
  BY <1>1, <1>2, <1>3, WorkingPlan DEF Goal
<1>5. TargetSound' /\ Settled(c)'
  BY <1>1, <1>4, DeliveredSound DEF Settled
<1>6. CASE Doomed = {}
  BY <1>1, <1>2, <1>3, <1>5, <1>6, MoveOn DEF Synced
<1>7. CASE Doomed # {}
  <2>1. pc' = "cleanup" /\ todo' = todo
    BY <1>1, <1>7 DEF Synced
  <2>2. /\ ds' = ds /\ do' = do /\ Processed' = Processed
        /\ \A d : Goal(d)' = Goal(d)
        /\ OnePlanEach' /\ PlansReachGoal'
    BY <1>1, <2>1, SamePlans DEF HInv
  <2>3. ASSUME NEW d \in Dataset, d # c, Settled(d) PROVE Settled(d)'
    BY <1>1, <1>2, <1>3, <2>2, <2>3 DEF Settled
  <2>4. \A p \in todo : p \in Planned /\ p.ds \in Dataset
    BY DEF HInv, TypeOK, Planned
  <2>5. DoneIsSettled'
    <3>1. ASSUME NEW p \in todo, p.do.action = "skip" PROVE Settled(p.ds)'
      <4>1. Settled(p.ds)
        BY <3>1 DEF HInv, DoneIsSettled
      <4>2. QED
        BY <1>5, <2>3, <2>4, <4>1
    <3>2. ASSUME NEW d \in Processed PROVE Settled(d)'
      <4>1. d \in Dataset /\ (Settled(d) \/ d = c)
        BY <1>1, <1>2, <3>2 DEF HInv, DoneIsSettled, Processed
      <4>2. QED
        BY <1>5, <2>3, <4>1
    <3>3. QED
      BY <2>1, <2>2, <3>1, <3>2 DEF DoneIsSettled
  <2>6. AtWork' /\ SendIsFresh'
    BY <1>1, <1>2, <1>4, <2>1, <2>2 DEF AtWork, SendIsFresh
  <2>7. PlansAreFresh'
    <3>1. SUFFICES ASSUME NEW p \in todo, AsListed(p.ds), p.ds # ds
                   PROVE  /\ p.do = buildDatasetPlan(seen[p.ds], exists'[p.ds], snaps'[p.ds])
                          /\ exists'[p.ds] => p.name = old[p.ds] + 1
      BY <1>1, <2>1, <2>2 DEF PlansAreFresh, Busy, AsListed
    <3>2. /\ p.do = buildDatasetPlan(seen[p.ds], exists[p.ds], snaps[p.ds])
          /\ exists[p.ds] => p.name = old[p.ds] + 1
      BY <3>1 DEF HInv, PlansAreFresh, Busy
    <3>3. QED
      BY <1>3, <2>4, <3>1, <3>2
  <2>8. QED
    BY <1>5, <2>2, <2>5, <2>6, <2>7 DEF HInv
<1>8. QED
  BY <1>6, <1>7

\* A cleanup, complete or not, spares the newest snapshot.
LEMMA CleanupEnds ==
    ASSUME HInv, TypeOK', Cleanup \/ CleanupFails
    PROVE  HInv'
<1>1. /\ pc = "cleanup" /\ todo # {} /\ do.action # "skip"
      /\ pc' = "dataset" /\ todo' = Rest
      /\ UNCHANGED <<setup, exists, old, seen, blind, carried, syncErr>>
  BY DEF Cleanup, CleanupFails, HInv, TypeOK, AtWork, source
<1>2. PICK c \in Dataset : c = ds
  BY <1>1, CurrentIsPlanned DEF HInv, TypeOK
<1>3. PICK D \in SUBSET Doomed : snaps' = [snaps EXCEPT ![c] = @ \ D]
  BY <1>2 DEF Cleanup, CleanupFails, OldestOf
<1>4. /\ snaps'[c] = snaps[c] \ D
      /\ \A d \in Dataset : d # c => snaps'[d] = snaps[d]
  BY <1>3 DEF HInv, TypeOK
<1>5. Goal(c)' = Goal(c) /\ Goal(c) \in snaps'[c]
  <2>1. Goal(c) \in snaps[c]
    BY <1>1, <1>2 DEF HInv, AtWork
  <2>2. Goal(c) \notin Doomed
    BY <1>1, <1>2, WorkingPlan
  <2>3. QED
    BY <1>1, <1>4, <2>1, <2>2 DEF Goal
<1>6. Settled(c)'
  BY <1>5 DEF Settled
<1>7. TargetSound'
  BY <1>1, <1>4 DEF HInv, TargetSound
<1>8. QED
  BY <1>1, <1>2, <1>4, <1>6, <1>7, MoveOn

\* Every step keeps the invariant.
LEMMA HInvStep == HInv /\ [Next]_vars => HInv'
<1> SUFFICES ASSUME HInv, [Next]_vars PROVE HInv'
  OBVIOUS
<1>1. TypeOK'
  BY TypeStep DEF HInv
<1>2. CASE Environment
  BY <1>1, <1>2, Untouched DEF Environment, TakeSnapshot, RotateSource, target, run
<1>3. CASE DiscoverAndBuild
  BY <1>1, <1>3, Discovery
<1>4. CASE SkipDataset \/ StartSync \/ Reinitialize
  BY <1>1, <1>4, Skipped, SyncStarts, RenameAway
<1>5. CASE ReinitializeFails \/ SendRefused \/ SendFails
  BY <1>1, <1>5, SyncFails
<1>6. CASE SendSucceeds
  BY <1>1, <1>6, SendArrives
<1>7. CASE Cleanup \/ CleanupFails
  BY <1>1, <1>7, CleanupEnds
<1>8. CASE Exit \/ Crash
  BY <1>1, <1>8, RunOver DEF Exit, Crash, source
<1>9. CASE UNCHANGED vars
  BY <1>1, <1>9, Untouched DEF vars, source, target, run
<1>10. QED
  BY <1>2, <1>3, <1>4, <1>5, <1>6, <1>7, <1>8, <1>9 DEF Next, Run

-----------------------------------------------------------------------------
(* The theorems.                                                           *)

\* HInv holds in every reachable state: what a run plans for a dataset stays
\* true of it until the loop is there, or the dataset is one that a rename has
\* carried away, that was processed before, or that was never really listed
\* (execute.go:66-113, plan.go:120-205).  Of runs with resumable: false
\* (HierarchyAssumption), whose every attempt sends what was planned.
THEOREM AlwaysHInv == Spec => []HInv
<1>1. Init => HInv
  <2>1. SUFFICES ASSUME Init PROVE HInv
    OBVIOUS
  <2>2. TypeOK
    <3>1. 0 \in 0 .. MaxSnap /\ faults \in 0 .. MaxFaults
      BY <2>1, HierarchyAssumption, PlanAssumption DEF Init
    <3>2. exists \in [Dataset -> BOOLEAN]
      BY <2>1 DEF Init
    <3>3. QED
      BY <2>1, <3>1, <3>2 DEF Init, TypeOK
  <2>3. QED
    BY <2>1, <2>2 DEF Init, HInv, TargetSound, OnePlanEach, PlansReachGoal, DoneIsSettled,
                      AtWork, PlansAreFresh, SendIsFresh
<1>2. HInv /\ [Next]_vars => HInv'
  BY HInvStep
<1>3. QED
  BY <1>1, <1>2, PTL DEF Spec

\* Every reachable state is well typed, and the loop is at a plan whenever it
\* sends or cleans up.
THEOREM HierarchyTypeCorrect == Spec => []TypeOK
<1>1. HInv => TypeOK
  BY DEF HInv
<1>2. QED
  BY <1>1, AlwaysHInv, PTL

\* With resumable: false a run leaves no dataset behind silently but those a
\* rename carried away (execute.go:46-47).
THEOREM NoneForgotten == Spec => []CarriedOrReplicated
<1>1. HInv => CarriedOrReplicated
  <2>1. SUFFICES ASSUME HInv, Executed, NEW d \in Discovered
                 PROVE  d \in syncErr \cup carried \/ FilterSnapshots(seen[d]) = {}
                           \/ Goal(d) \in snaps[d]
    BY DEF CarriedOrReplicated
  <2>2. pc = "dataset" /\ todo = {} /\ setup \in Setups
    BY <2>1 DEF Executed, HInv, TypeOK
  <2>3. d \in Processed
    BY <2>2, ListedDatasets DEF Discovered, Processed
  <2>4. Settled(d)
    BY <2>1, <2>2, <2>3 DEF HInv, DoneIsSettled
  <2>5. QED
    BY <2>4 DEF Settled
<1>2. QED
  BY <1>1, AlwaysHInv, PTL

\* The Zabbix report notices those too: with resumable: false, when it is OK
\* nothing is missing (status.go:45-46).
THEOREM ReportNoticesAll == Spec => []ReportNotices
<1>1. HInv => ReportNotices
  <2>1. SUFFICES ASSUME HInv, Executed, ReportOK, NEW d \in Discovered
                 PROVE  Goal(d) \in snaps[d]
    BY DEF ReportNotices
  <2>2. pc = "dataset" /\ todo = {} /\ setup \in Setups
    BY <2>1 DEF Executed, HInv, TypeOK
  <2>3. d \in Processed
    BY <2>2, ListedDatasets DEF Discovered, Processed
  <2>4. Settled(d)
    BY <2>1, <2>2, <2>3 DEF HInv, DoneIsSettled
  <2>5. d \notin syncErr /\ FilterSnapshots(seen[d]) \cap snaps[d] # {}
    BY <2>1 DEF ReportOK
  <2>6. QED
    BY <2>4, <2>5 DEF Settled
<1>2. QED
  BY <1>1, AlwaysHInv, PTL

\* A refusal that no failure explains has one of the five causes that datasets
\* can give each other, or that discovery was blind: nothing else couples them
\* (plan.go:185-191, discovery.go:24, 77).  With resumable: false and a source
\* that rotates its oldest snapshot.
THEOREM RefusalsExplained == Spec => RefusalExplained
<1> DEFINE Explained ==
        \/ ~(do.send \cup ({do.common} \ {None}) \subseteq src[ds])
        \/ Parent[ds] # Top /\ ~exists[Parent[ds]]
        \/ ds \in carried \/ Repeated \/ blind
<1>1. ASSUME HInv, SendRefused PROVE Explained
  <2>1. SUFFICES ASSUME do.send \cup ({do.common} \ {None}) \subseteq src[ds],
                        Parent[ds] = Top \/ exists[Parent[ds]], AsListed(ds)
                 PROVE  FALSE
    BY DEF AsListed, Repeated
  <2>2. /\ do.send \cap snaps[ds] = {}
        /\ IF do.common = None THEN ~exists[ds]
                               ELSE exists[ds] /\ do.common \in snaps[ds]
    BY <1>1, <2>1 DEF SendRefused, HInv, SendIsFresh
  <2>3. Receivable
    BY <2>1, <2>2 DEF Receivable
  <2>4. Deliverable = do.send
    BY <2>1 DEF Deliverable
  <2>5. QED
    BY <1>1, <2>2, <2>3, <2>4 DEF SendRefused
<1>2. ASSUME HInv, ReinitializeFails, faults' = faults PROVE Explained
  <2>1. pc = "dataset" /\ todo # {} /\ do.action = "reinitialize"
    BY <1>2 DEF ReinitializeFails
  <2>2. faults \in Nat
    BY <1>2, HierarchyAssumption DEF HInv, TypeOK
  <2>3. ~Renamable
    BY <1>2, <2>2 DEF ReinitializeFails, Fault
  <2>4. SUFFICES ASSUME AsListed(ds) PROVE FALSE
    BY DEF AsListed, Repeated
  <2>5. Current \in todo /\ ds \in Dataset
    BY <1>2, <2>1, CurrentIsPlanned DEF HInv, TypeOK
  <2>6. /\ do = buildDatasetPlan(seen[ds], exists[ds], snaps[ds])
        /\ exists[ds] => Current.name = old[ds] + 1
    BY <1>2, <2>1, <2>4, <2>5 DEF HInv, PlansAreFresh, Busy, ds, do
  <2>7. /\ seen[ds] \in SUBSET Snapshot /\ snaps[ds] \in SUBSET Snapshot
        /\ exists[ds] \in BOOLEAN
    BY <1>2, <2>5 DEF HInv, TypeOK
  <2>8. Fits(do, exists[ds], snaps[ds])
    BY <2>1, <2>6, <2>7, PlanFits
  <2>9. exists[ds]
    BY <2>1, <2>8 DEF Fits
  <2>10. QED
    BY <2>3, <2>6, <2>9 DEF Renamable
<1>3. HInv => [(SendRefused \/ ReinitializeFails) /\ faults' = faults => Explained]_vars
  BY <1>1, <1>2
<1> HIDE DEF Explained
<1>4. Spec => [][(SendRefused \/ ReinitializeFails) /\ faults' = faults => Explained]_vars
  BY <1>3, AlwaysHInv, PTL
<1>5. QED
  BY <1>4 DEF RefusalExplained, Explained

-----------------------------------------------------------------------------
(* The configuration.                                                      *)

\* An entry is what Kept makes of a pattern and a number.
LEMMA KeptType ==
    ASSUME NEW pattern \in Pattern, NEW keep \in Int
    PROVE  Kept(pattern, keep) \in Entry
BY DEF Kept, Entry

LEMMA EntryParts ==
    ASSUME NEW e \in Entry
    PROVE  e.filter \in Pattern /\ e.min_keep \in Int
BY DEF Entry

\* The default filter has four entries.
LEMMA DefaultFilterType == DefaultFilter \in Seq(Entry) /\ Len(DefaultFilter) = 4
<1>0. /\ "hourly" \in Pattern /\ "daily" \in Pattern
      /\ "weekly" \in Pattern /\ "monthly" \in Pattern
  BY DEF Pattern
<1>1. /\ Kept("hourly", 3) \in Entry /\ Kept("daily", 3) \in Entry
      /\ Kept("weekly", 3) \in Entry /\ Kept("monthly", 3) \in Entry
  BY <1>0, KeptType
<1> QED
  BY <1>1 DEF DefaultFilter

\* Filling in the numbers changes neither how many entries there are nor
\* that they are entries.
LEMMA FilterType ==
    ASSUME NEW filter \in Seq(Entry)
    PROVE  /\ defaultFilter(filter) \in Seq(Entry)
           /\ filter # <<>> => Len(defaultFilter(filter)) = Len(filter)
<1>1. CASE filter = <<>>
  BY <1>1, DefaultFilterType DEF defaultFilter
<1>2. CASE filter # <<>>
  <2> DEFINE filled == [i \in 1 .. Len(filter) |->
                           Kept(filter[i].filter, Or(filter[i].min_keep, 0, 3))]
  <2>1. \A i \in 1 .. Len(filter) : filled[i] \in Entry
    <3> TAKE i \in 1 .. Len(filter)
    <3>1. filter[i] \in Entry
      OBVIOUS
    <3>2. filter[i].filter \in Pattern /\ Or(filter[i].min_keep, 0, 3) \in Int
      BY <3>1, EntryParts DEF Or
    <3> QED
      BY <3>2, KeptType
  <2>2. filled \in Seq(Entry) /\ Len(filled) = Len(filter)
    BY <2>1
  <2>3. defaultFilter(filter) = filled
    BY <1>2 DEF defaultFilter
  <2> QED
    BY <2>2, <2>3
<1> QED
  BY <1>1, <1>2

\* defaults changes neither the target nor the source datasets.
LEMMA DefaultsKeepNames ==
    ASSUME NEW file \in File
    PROVE  /\ defaults(file).target = file.target
           /\ defaults(file).datasets = file.datasets
           /\ defaults(file).filter = defaultFilter(file.filter)
           /\ defaults(file).max_retries = Or(file.max_retries, 0, 3)
BY DEF defaults, File

\* An accepted file gives the plan builder at least one filter entry and a
\* positive min_keep for each (defaults, Validate: config.go:147-241): the
\* assumption PlanAssumption that the modules about replication make.
THEOREM AcceptedFilter ==
    ASSUME NEW file \in File, Accepted(file)
    PROVE  /\ NFilterOf(file) \in Nat \ {0}
           /\ MinKeepOf(file) \in [1 .. NFilterOf(file) -> Nat \ {0}]
<1> DEFINE filter == defaults(file).filter
<1>1. filter \in Seq(Entry)
  BY FilterType, DefaultsKeepNames DEF File
<1>2. filter # <<>> /\ \A i \in 1 .. Len(filter) : filter[i].min_keep >= 1
  BY DEF Accepted, Validate
<1>3. Len(filter) \in Nat \ {0}
  BY <1>1, <1>2
<1>4. \A i \in 1 .. Len(filter) : filter[i].min_keep \in Nat \ {0}
  <2> SUFFICES ASSUME NEW i \in 1 .. Len(filter) PROVE filter[i].min_keep \in Nat \ {0}
    OBVIOUS
  <2>1. filter[i] \in Entry
    BY <1>1
  <2> QED
    BY <1>2, <2>1 DEF Entry
<1> QED
  BY <1>3, <1>4 DEF NFilterOf, MinKeepOf

\* Of two datasets within which a third one lies, one lies within the other.
LEMMA WithinComparable ==
    ASSUME NEW s \in Path, NEW t \in Path, NEW x \in Path, Within(s, x), Within(t, x)
    PROVE  Within(s, t) \/ Within(t, s)
<1>1. CASE Len(s) <= Len(t)
  BY <1>1 DEF Within, Path
<1>2. CASE Len(t) <= Len(s)
  BY <1>2 DEF Within, Path
<1> QED
  BY <1>1, <1>2 DEF Path

\* Everything zsync creates, renames or receives lies within the target.
LEMMA TargetNameWritten ==
    ASSUME NEW file \in File, NEW y \in Path
    PROVE  TargetName(file, y) \in Path /\ Written(file, TargetName(file, y))
<1>1. file.target \in Path
  BY DEF File
<1> QED
  BY <1>1 DEF TargetName, Written, Within, Path

\* What a run writes is never what it reads, also when source and target are
\* one host: no dataset within a root of an accepted file lies within its
\* target, nor has the name of a replica (Validate, config.go:214-220).
THEOREM TargetApart ==
    ASSUME NEW file \in File, Accepted(file), NEW x \in Path, Read(file, x)
    PROVE  ~Written(file, x) /\ \A y \in Path : x # TargetName(file, y)
<1>1. PICK i \in 1 .. Len(file.datasets) : Within(file.datasets[i], x)
  BY DEF Read
<1>2. file.target \in Path /\ file.datasets[i] \in Path
  BY DEF File
<1>3. ~Overlaps(file.target, file.datasets[i])
  BY DefaultsKeepNames DEF Accepted, Validate
<1>4. ~Written(file, x)
  BY <1>1, <1>2, <1>3, WithinComparable DEF Overlaps, Written
<1> QED
  BY <1>4, TargetNameWritten

\* No file asks for a single attempt: max_retries 0, which config.go:93
\* documents as "no retries", means three, and only a negative number, which
\* nothing refuses, makes fewer than two attempts (client.go:210).
THEOREM NeverOneAttempt ==
    ASSUME NEW file \in File
    PROVE  /\ MaxRetriesOf(file) # 0
           /\ file.max_retries = 0 => MaxRetriesOf(file) = 3
           /\ file.max_retries >= 0 => MaxRetriesOf(file) \in Nat \ {0}
           /\ file.max_retries < 0 => 1 + MaxRetriesOf(file) <= 0
BY DefaultsKeepNames DEF MaxRetriesOf, Or, File
=============================================================================
