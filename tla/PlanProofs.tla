---------------------------- MODULE PlanProofs -----------------------------
(***************************************************************************)
(* Facts about the plan of one dataset, for every schedule of snapshots    *)
(* and every snapshot_filter.                                              *)
(***************************************************************************)
EXTENDS PlanBuilder, FiniteSetTheorems, WellFoundedInduction, TLAPS

-----------------------------------------------------------------------------
(* The newest and the oldest member of a set of snapshots.                 *)

\* Every non-empty set of numbers has a least member.
LEMMA LeastExists ==
    ASSUME NEW T \in SUBSET Nat, T # {}
    PROVE  \E m \in T : \A x \in T : m <= x
<1> DEFINE R == OpToRel(<, Nat)
<1>1. IsWellFoundedOn(R, Nat)
  BY NatLessThanWellFounded
<1>2. R = {ss \in Nat \X Nat : ss[1] < ss[2]}
  BY DEF OpToRel
<1>3. \A x, y \in Nat : x < y => <<x, y>> \in R
  BY <1>2
<1> HIDE DEF R
<1>4. \E m \in T : \A y \in T : ~(<<y, m>> \in R)
  BY <1>1, WFMin
<1>5. PICK m \in T : \A y \in T : ~(<<y, m>> \in R)
  BY <1>4
<1>6. \A y \in T : ~(y < m)
  BY <1>3, <1>5
<1>7. QED
  BY <1>6

\* Every non-empty set of snapshots has a newest member.
LEMMA NewestExists ==
    ASSUME NEW T \in SUBSET Snapshot, T # {}
    PROVE  \E m \in T : \A x \in T : m >= x
<1> DEFINE U == {MaxSnap - x : x \in T}
<1>1. U \in SUBSET Nat
  <2>1. \A x \in T : MaxSnap - x \in Nat
    BY PlanAssumption DEF Snapshot
  <2>2. QED
    BY <2>1
<1>2. U # {}
  BY T # {}
<1>3. PICK u \in U : \A x \in U : u <= x
  BY <1>1, <1>2, LeastExists
<1>4. PICK m \in T : u = MaxSnap - m
  OBVIOUS
<1>5. \A x \in T : MaxSnap - m <= MaxSnap - x
  BY <1>3, <1>4
<1>6. QED
  BY <1>5, PlanAssumption DEF Snapshot

\* Max and Min of the community modules are that newest and oldest member.
LEMMA MaxOfSnapshots ==
    ASSUME NEW T \in SUBSET Snapshot, T # {}
    PROVE  Max(T) \in T /\ \A x \in T : x <= Max(T)
<1>1. PICK m \in T : \A x \in T : m >= x
  BY NewestExists
<1>2. QED
  BY <1>1 DEF Max

\* The same for Min, of numbers and of snapshots.
LEMMA MinOfNaturals ==
    ASSUME NEW T \in SUBSET Nat, T # {}
    PROVE  Min(T) \in T /\ \A x \in T : Min(T) <= x
<1>1. PICK m \in T : \A x \in T : m <= x
  BY LeastExists
<1>2. QED
  BY <1>1 DEF Min

\* Snapshots are numbers.
LEMMA MinOfSnapshots ==
    ASSUME NEW T \in SUBSET Snapshot, T # {}
    PROVE  Min(T) \in T /\ \A x \in T : Min(T) <= x
<1>1. T \in SUBSET Nat
  BY DEF Snapshot
<1>2. QED
  BY <1>1, MinOfNaturals

-----------------------------------------------------------------------------
(* The plan.                                                               *)

\* Every plan has the type of a plan.
LEMMA PlanType ==
    ASSUME NEW S \in SUBSET Snapshot, NEW T \in SUBSET Snapshot, NEW e
    PROVE  buildDatasetPlan(S, e, T) \in DatasetPlan
<1>1. SkipPlan \in DatasetPlan
  BY DEF SkipPlan, DatasetPlan, NoCleanup, None
<1>2. trimForInitial(FilterSnapshots(S)) \in SUBSET Snapshot
  BY DEF trimForInitial, FilterSnapshots
<1>3. /\ FullPlan("initial", S) \in DatasetPlan
      /\ FullPlan("reinitialize", S) \in DatasetPlan
  BY <1>2 DEF FullPlan, DatasetPlan, NoCleanup, None
<1>4. ASSUME S \cap T # {}
      PROVE  IncrementalPlan(S, T) \in DatasetPlan
  <2>1. CommonSnapshot(S, T) \in Snapshot
    BY <1>4, MaxOfSnapshots DEF CommonSnapshot
  <2>2. Pending(S, T) \in SUBSET Snapshot
    BY DEF Pending, FilterSnapshots
  <2>3. buildCleanup(T, Pending(S, T)) \in [Filter -> SUBSET Snapshot]
    BY DEF buildCleanup, OldestOf, FilterSnapshotsByInterval
  <2>4. QED
    BY <2>1, <2>2, <2>3 DEF IncrementalPlan, DatasetPlan
<1>5. QED
  BY <1>1, <1>3, <1>4 DEF buildDatasetPlan


\* A first replication includes the newest matching snapshot: it is the
\* newest of an entry, and min_keep is at least 1.
LEMMA TrimKeepsNewest ==
    ASSUME NEW S \in SUBSET Snapshot, FilterSnapshots(S) # {}
    PROVE  Max(FilterSnapshots(S)) \in trimForInitial(FilterSnapshots(S))
<1> DEFINE M == FilterSnapshots(S)
           m == Max(M)
<1>1. M \in SUBSET Snapshot /\ m \in M /\ \A x \in M : x <= m
  BY MaxOfSnapshots DEF FilterSnapshots
<1>2. PICK f \in Filter : f \in Match[m]
  BY <1>1, PlanAssumption DEF FilterSnapshots
<1> DEFINE B == FilterSnapshotsByInterval(M, f)
<1>3. m \in B
  BY <1>1, <1>2 DEF FilterSnapshotsByInterval
<1>4. B \subseteq M
  BY DEF FilterSnapshotsByInterval
<1>5. {x \in B : x >= m} = {m}
  BY <1>1, <1>3, <1>4 DEF Snapshot
<1>6. Cardinality({x \in B : x >= m}) = 1
  BY <1>5, FS_Singleton
<1>7. 1 <= MinKeep[f]
  BY PlanAssumption
<1>8. m \in NewestOf(B, MinKeep[f])
  BY <1>3, <1>6, <1>7 DEF NewestOf
<1>9. QED
  BY <1>1, <1>8 DEF trimForInitial

\* With a single filter entry it is a suffix of the matching snapshots.
LEMMA TrimIsSuffix ==
    ASSUME NFilter = 1, NEW S \in SUBSET Snapshot,
           NEW s \in trimForInitial(FilterSnapshots(S)),
           NEW y \in FilterSnapshots(S), s < y
    PROVE  y \in trimForInitial(FilterSnapshots(S))
<1> DEFINE M == FilterSnapshots(S)
           above(z) == {x \in M : x >= z}
<1>1. M \in SUBSET Snapshot /\ s \in M
  BY DEF FilterSnapshots, trimForInitial
<1>2. Filter = {1}
  BY DEF Filter
<1>3. FilterSnapshotsByInterval(M, 1) = M
  <2>1. \A x \in M : Match[x] \in SUBSET {1} /\ Match[x] # {}
    BY <1>1, <1>2, PlanAssumption DEF FilterSnapshots
  <2>2. QED
    BY <2>1 DEF FilterSnapshotsByInterval
<1>4. Cardinality(above(s)) <= MinKeep[1]
  BY <1>2, <1>3 DEF trimForInitial, NewestOf
<1>5. above(y) \subseteq above(s)
  BY <1>1 DEF Snapshot
<1>6. IsFiniteSet(above(s))
  <2>1. IsFiniteSet(1 .. MaxSnap)
    BY FS_Interval, PlanAssumption
  <2>2. above(s) \subseteq 1 .. MaxSnap
    BY <1>1 DEF Snapshot
  <2>3. QED
    BY <2>1, <2>2, FS_Subset
<1>7. /\ Cardinality(above(y)) <= Cardinality(above(s))
      /\ Cardinality(above(y)) \in Nat /\ Cardinality(above(s)) \in Nat
  BY <1>5, <1>6, FS_Subset, FS_CardinalityType
<1>8. MinKeep[1] \in Nat
  BY <1>2, PlanAssumption
<1>9. y \in NewestOf(M, MinKeep[1])
  BY <1>4, <1>7, <1>8 DEF NewestOf
<1>10. QED
  BY <1>2, <1>3, <1>9 DEF trimForInitial

\* A plan that is not "skip" sends at least the newest matching snapshot.
LEMMA PlanSends ==
    ASSUME NEW S \in SUBSET Snapshot, NEW T \in SUBSET Snapshot, NEW e,
           buildDatasetPlan(S, e, T).action # "skip"
    PROVE  /\ FilterSnapshots(S) # {}
           /\ buildDatasetPlan(S, e, T).send \subseteq FilterSnapshots(S)
           /\ Max(FilterSnapshots(S)) \in buildDatasetPlan(S, e, T).send
<1> DEFINE p == buildDatasetPlan(S, e, T)
<1>1. FilterSnapshots(S) # {}
  BY DEF buildDatasetPlan, SkipPlan
<1>2. \/ p = FullPlan("initial", S) \/ p = FullPlan("reinitialize", S)
      \/ Pending(S, T) # {} /\ S \cap T # {} /\ p = IncrementalPlan(S, T)
  BY DEF buildDatasetPlan, SkipPlan
<1>3. CASE p = FullPlan("initial", S) \/ p = FullPlan("reinitialize", S)
  <2>1. p.send = trimForInitial(FilterSnapshots(S))
    BY <1>3 DEF FullPlan
  <2>2. QED
    BY <1>1, <2>1, TrimKeepsNewest DEF trimForInitial
<1>4. CASE Pending(S, T) # {} /\ S \cap T # {} /\ p = IncrementalPlan(S, T)
  <2>1. p.send = Pending(S, T)
    BY <1>4 DEF IncrementalPlan
  <2>2. Pending(S, T) \subseteq FilterSnapshots(S)
    BY DEF Pending, FilterSnapshots
  <2>3. FilterSnapshots(S) \in SUBSET Snapshot
    BY DEF FilterSnapshots
  <2>4. CommonSnapshot(S, T) \in Snapshot
    BY <1>4, MaxOfSnapshots DEF CommonSnapshot
  <2>5. PICK x \in Pending(S, T) : TRUE
    BY <1>4
  <2>6. x \in FilterSnapshots(S) /\ x > CommonSnapshot(S, T)
    BY <2>5 DEF Pending, FilterSnapshots
  <2>7. /\ Max(FilterSnapshots(S)) \in FilterSnapshots(S)
        /\ Max(FilterSnapshots(S)) >= x
    BY <1>1, <2>3, <2>6, MaxOfSnapshots DEF Snapshot
  <2>8. Max(FilterSnapshots(S)) > CommonSnapshot(S, T)
    BY <2>3, <2>4, <2>6, <2>7 DEF Snapshot
  <2>9. Max(FilterSnapshots(S)) \in Pending(S, T)
    BY <2>7, <2>8 DEF Pending, FilterSnapshots
  <2>10. QED
    BY <2>1, <2>2, <2>9
<1>5. QED
  BY <1>1, <1>2, <1>3, <1>4

\* No pending snapshot is on the target: they are newer than the newest
\* common one.
LEMMA PendingIsNew ==
    ASSUME NEW S \in SUBSET Snapshot, NEW T \in SUBSET Snapshot, S \cap T # {}
    PROVE  /\ CommonSnapshot(S, T) \in S \cap T
           /\ \A x \in S \cap T : x <= CommonSnapshot(S, T)
           /\ Pending(S, T) \cap T = {}
           /\ \A q \in Pending(S, T) : CommonSnapshot(S, T) < q
<1>1. S \cap T \in SUBSET Snapshot
  OBVIOUS
<1>2. /\ CommonSnapshot(S, T) \in S \cap T
      /\ \A x \in S \cap T : x <= CommonSnapshot(S, T)
  BY <1>1, MaxOfSnapshots DEF CommonSnapshot
<1>3. \A q \in Pending(S, T) : q \in S /\ CommonSnapshot(S, T) < q
  BY <1>2 DEF Pending, FilterSnapshots, Snapshot
<1>4. Pending(S, T) \cap T = {}
  <2>1. ASSUME NEW q \in Pending(S, T), q \in T PROVE FALSE
    <3>1. q \in S \cap T /\ CommonSnapshot(S, T) < q
      BY <1>3, <2>1
    <3>2. q <= CommonSnapshot(S, T) /\ q \in Snapshot /\ CommonSnapshot(S, T) \in Snapshot
      BY <1>2, <3>1
    <3>3. QED
      BY <3>1, <3>2 DEF Snapshot
  <2>2. QED
    BY <2>1
<1>5. QED
  BY <1>2, <1>3, <1>4

\* No plan destroys the newest matching source snapshot.
LEMMA CleanupSparesGoal ==
    ASSUME NEW S \in SUBSET Snapshot, NEW T \in SUBSET Snapshot, NEW e,
           buildDatasetPlan(S, e, T).action # "skip", NEW f \in Filter
    PROVE  Max(FilterSnapshots(S)) \notin buildDatasetPlan(S, e, T).cleanup[f]
<1> DEFINE p == buildDatasetPlan(S, e, T)
           m == Max(FilterSnapshots(S))
<1>1. m \in p.send
  BY PlanSends
<1>2. \/ p = FullPlan("initial", S) \/ p = FullPlan("reinitialize", S)
      \/ S \cap T # {} /\ p = IncrementalPlan(S, T)
  BY DEF buildDatasetPlan, SkipPlan
<1>3. CASE p = FullPlan("initial", S) \/ p = FullPlan("reinitialize", S)
  BY <1>3 DEF FullPlan, NoCleanup
<1>4. CASE S \cap T # {} /\ p = IncrementalPlan(S, T)
  <2>1. p.send = Pending(S, T) /\ p.cleanup[f] \subseteq T
    BY <1>4 DEF IncrementalPlan, buildCleanup, OldestOf, FilterSnapshotsByInterval
  <2>2. QED
    BY <1>1, <1>4, <2>1, PendingIsNew
<1>5. QED
  BY <1>2, <1>3, <1>4

\* A dataset is skipped only when the target has the newest matching
\* snapshot, or there is none.
LEMMA SkipMeansUpToDate ==
    ASSUME NEW S \in SUBSET Snapshot, NEW T \in SUBSET Snapshot, NEW e \in BOOLEAN,
           buildDatasetPlan(S, e, T).action = "skip",
           \A x \in T : Match[x] # {}
    PROVE  FilterSnapshots(S) = {} \/ Max(FilterSnapshots(S)) \in T
<1> SUFFICES ASSUME FilterSnapshots(S) # {} PROVE Max(FilterSnapshots(S)) \in T
  OBVIOUS
<1>1. S \cap T # {} /\ Pending(S, T) = {}
  BY DEF buildDatasetPlan, FullPlan, IncrementalPlan
<1> DEFINE c == CommonSnapshot(S, T)
           m == Max(FilterSnapshots(S))
<1>2. c \in S \cap T
  BY <1>1, PendingIsNew
<1>3. FilterSnapshots(S) \in SUBSET Snapshot /\ c \in FilterSnapshots(S)
  BY <1>2 DEF FilterSnapshots
<1>4. m \in FilterSnapshots(S) /\ c <= m
  BY <1>3, MaxOfSnapshots
<1>5. ~(m > c)
  BY <1>1, <1>4 DEF Pending, FilterSnapshots
<1>6. m = c
  BY <1>3, <1>4, <1>5 DEF Snapshot
<1>7. QED
  BY <1>2, <1>6

-----------------------------------------------------------------------------
(* How many snapshots a cleanup takes.                                     *)

\* The number of snapshots in a set.
LEMMA SnapshotsFinite ==
    ASSUME NEW S \in SUBSET Snapshot
    PROVE  IsFiniteSet(S) /\ Cardinality(S) \in Nat
<1>1. IsFiniteSet(Snapshot)
  BY FS_Interval, PlanAssumption DEF Snapshot
<1>2. IsFiniteSet(S)
  BY <1>1, FS_Subset
<1>3. QED
  BY <1>2, FS_CardinalityType

\* A larger set has at least as many.
LEMMA MoreSnapshots ==
    ASSUME NEW S \in SUBSET Snapshot, NEW T \in SUBSET S
    PROVE  Cardinality(T) <= Cardinality(S)
BY SnapshotsFinite, FS_Subset

\* The k oldest are a prefix.
LEMMA OldestIsPrefix ==
    ASSUME NEW S \in SUBSET Snapshot, NEW k \in Int, NEW z \in OldestOf(S, k),
           NEW y \in S, y < z
    PROVE  y \in OldestOf(S, k)
<1> DEFINE upTo(s) == {x \in S : x <= s}
<1>1. z \in S /\ z \in Snapshot /\ y \in Snapshot
  BY DEF OldestOf
<1>1a. Cardinality(upTo(z)) <= k
  BY DEF OldestOf
<1>2. upTo(y) \subseteq upTo(z) /\ upTo(z) \in SUBSET Snapshot
  <2>1. \A x \in S : x <= y => x <= z
    BY <1>1, PlanAssumption DEF Snapshot
  <2>2. QED
    BY <2>1
<1>3. Cardinality(upTo(y)) \in Nat /\ Cardinality(upTo(z)) \in Nat
      /\ Cardinality(upTo(y)) <= Cardinality(upTo(z))
  <2> HIDE DEF upTo
  <2> QED BY <1>2, SnapshotsFinite, MoreSnapshots
<1>4. Cardinality(upTo(y)) <= k
  <2> HIDE DEF upTo
  <2> QED BY <1>1a, <1>3
<1>5. QED
  BY <1>4 DEF OldestOf

\* The k oldest are not more than k: they are all up to the newest of them.
LEMMA OldestAtMost ==
    ASSUME NEW S \in SUBSET Snapshot, NEW k \in Int, OldestOf(S, k) # {}
    PROVE  Cardinality(OldestOf(S, k)) <= k
<1> DEFINE O == OldestOf(S, k)
           m == Max(O)
           U == {x \in S : x <= m}
<1>1. O \in SUBSET Snapshot /\ O \subseteq S
  BY DEF OldestOf
<1>2. m \in O /\ \A x \in O : x <= m
  BY <1>1, MaxOfSnapshots
<1>3. Cardinality(U) <= k
  BY <1>2 DEF OldestOf
<1>4. O \in SUBSET U /\ U \in SUBSET Snapshot
  BY <1>1, <1>2
<1> HIDE DEF O, U
<1>5. Cardinality(O) <= Cardinality(U)
  BY <1>4, MoreSnapshots
<1>6. Cardinality(O) \in Nat /\ Cardinality(U) \in Nat
  BY <1>1, <1>4, SnapshotsFinite
<1>7. Cardinality(O) <= k
  BY <1>3, <1>5, <1>6
<1>8. QED
  BY <1>7 DEF O

\* What a plan takes from the snapshots of an entry leaves min_keep of them,
\* counting the ones it sends; and it takes nothing else.
LEMMA CleanupLeavesEnough ==
    ASSUME NEW S \in SUBSET Snapshot, NEW T \in SUBSET Snapshot, NEW e,
           buildDatasetPlan(S, e, T).action # "skip", NEW f \in Filter,
           buildDatasetPlan(S, e, T).cleanup[f] # {}
    PROVE  LET p == buildDatasetPlan(S, e, T)
               held == FilterSnapshotsByInterval(T \cup p.send, f)
           IN  /\ p.cleanup[f] \subseteq FilterSnapshotsByInterval(T, f)
               /\ Cardinality(held \ p.cleanup[f]) >= MinKeep[f]
<1> DEFINE p == buildDatasetPlan(S, e, T)
           A == FilterSnapshotsByInterval(T, f)
           B == FilterSnapshotsByInterval(p.send, f)
           C == p.cleanup[f]
           excess == Cardinality(A) + Cardinality(B) - MinKeep[f]
<1>1. S \cap T # {} /\ p = IncrementalPlan(S, T)
  BY DEF buildDatasetPlan, SkipPlan, FullPlan, NoCleanup
<1>2. p.send = Pending(S, T) /\ C = OldestOf(A, excess)
  BY <1>1 DEF IncrementalPlan, buildCleanup
<1>3. A \in SUBSET Snapshot /\ B \in SUBSET Snapshot /\ A \cap B = {}
  <2>1. Pending(S, T) \in SUBSET Snapshot /\ Pending(S, T) \cap T = {}
    BY <1>1, PendingIsNew DEF Pending, FilterSnapshots
  <2>2. QED
    BY <1>2, <2>1 DEF FilterSnapshotsByInterval
<1>4. FilterSnapshotsByInterval(T \cup p.send, f) = A \cup B
  BY DEF FilterSnapshotsByInterval
<1>5. C \subseteq A /\ C # {}
  BY <1>2 DEF OldestOf
<1> HIDE DEF A, B, C, p
<1>6. /\ IsFiniteSet(A) /\ Cardinality(A) \in Nat
      /\ IsFiniteSet(B) /\ Cardinality(B) \in Nat
      /\ C \in SUBSET Snapshot /\ Cardinality(C) \in Nat /\ MinKeep[f] \in Nat
  BY <1>3, <1>5, SnapshotsFinite, PlanAssumption
<1>7. Cardinality(C) <= excess
  BY <1>2, <1>3, <1>5, <1>6, OldestAtMost
<1>8. IsFiniteSet(A \cup B) /\ Cardinality(A \cup B) = Cardinality(A) + Cardinality(B)
  BY <1>3, <1>6, FS_Union, FS_EmptySet
<1>9. Cardinality((A \cup B) \ C) = Cardinality(A \cup B) - Cardinality(C)
  <2>1. (A \cup B) \cap C = C
    BY <1>5
  <2>2. Cardinality((A \cup B) \ C) = Cardinality(A \cup B) - Cardinality((A \cup B) \cap C)
    BY <1>8, FS_Difference
  <2>3. QED
    BY <2>1, <2>2
<1>10. Cardinality((A \cup B) \ C) >= MinKeep[f]
  BY <1>6, <1>7, <1>8, <1>9
<1>11. QED
  BY <1>4, <1>5, <1>10 DEF p, C, A
=============================================================================
