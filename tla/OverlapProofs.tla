--------------------------- MODULE OverlapProofs ---------------------------
(***************************************************************************)
(* What a run guarantees to another one on the same hosts, and what it can *)
(* rely on itself: each of its steps changes a target in one of few ways   *)
(* (HostStep), and whoever changes a target in these ways leaves the run's *)
(* invariant as it was, as long as no rename overtakes it.                 *)
(***************************************************************************)
EXTENDS OverlapInvariant, ReplicationProofs

USE DEF None

-----------------------------------------------------------------------------
(* The changes of one target: from T to U, while the source has S.         *)

\* The snapshot s arrives.  It is the newest, follows on the snapshot below
\* it, and what is rolled back the source has not got.
Arrives(S, T, U, s) ==
    /\ s \in S /\ s \notin T /\ Match[s] # {} /\ \A x \in T : x < s
    /\ s \in U /\ U \subseteq T \cup {s}
    /\ \A x \in T \ U : x \notin S /\ \A y \in U \ {s} : y < x
    /\ T # {} => \E b \in U \cap T : b \in S
    /\ \A b \in T : \A q \in FilterSnapshots(S) : b < q /\ q < s => q \in T

\* The oldest snapshot goes, and is not the only one.
DropsOldest(T, U) ==
    \E z, m \in T : z < m /\ (\A x \in T : z <= x) /\ U = T \ {z}

Moves(S, T, U) ==
    U = T \/ (\E s \in Snapshot : Arrives(S, T, U, s)) \/ DropsOldest(T, U)

\* A target that has come as far as a goal does not fall back.
LEMMA ReachedMoves ==
    ASSUME NEW S \in SUBSET Snapshot, NEW T \in SUBSET Snapshot, NEW U \in SUBSET Snapshot,
           Moves(S, T, U), NEW goal \in Int, Reached(T, goal)
    PROVE  Reached(U, goal)
<1>1. PICK x \in T : x >= goal
  BY DEF Reached
<1>2. CASE U = T
  BY <1>2
<1>3. ASSUME NEW s \in Snapshot, Arrives(S, T, U, s) PROVE Reached(U, goal)
  <2>1. s \in U /\ x < s
    BY <1>3 DEF Arrives
  <2> QED
    BY <1>1, <2>1 DEF Reached, Snapshot
<1>4. CASE DropsOldest(T, U)
  <2>1. PICK z \in T, m \in T : z < m /\ (\A y \in T : z <= y) /\ U = T \ {z}
    BY <1>4 DEF DropsOldest
  <2>2. CASE x = z
    BY <1>1, <2>1, <2>2 DEF Reached, Snapshot
  <2>3. CASE x # z
    BY <1>1, <2>1, <2>3 DEF Reached
  <2> QED
    BY <2>2, <2>3
<1> QED
  BY <1>2, <1>3, <1>4 DEF Moves

\* No change makes a gap.
LEMMA GaplessMoves ==
    ASSUME NEW S \in SUBSET Snapshot, NEW T \in SUBSET Snapshot, NEW U \in SUBSET Snapshot,
           Moves(S, T, U), Gapless(S, T)
    PROVE  Gapless(S, U)
<1> SUFFICES ASSUME NEW b \in U, NEW x \in U, NEW q \in FilterSnapshots(S), b < q, q < x
             PROVE  q \in U
  BY DEF Gapless
<1>0. q \in S /\ b \in Int /\ q \in Int /\ x \in Int
  BY DEF FilterSnapshots, Snapshot
<1>1. CASE U = T
  BY <1>1 DEF Gapless
<1>2. ASSUME NEW s \in Snapshot, Arrives(S, T, U, s) PROVE q \in U
  <2>1. /\ s \in U /\ U \subseteq T \cup {s} /\ \A y \in T : y < s
        /\ \A y \in T \ U : y \notin S
    BY <1>2 DEF Arrives
  <2>2. b \in T
    BY <1>0, <2>1 DEF Snapshot
  <2>3. q \in T
    <3>1. CASE x \in T
      BY <2>2, <3>1 DEF Gapless
    <3>2. CASE x = s
      BY <1>2, <2>2, <3>2 DEF Arrives
    <3> QED
      BY <2>1, <3>1, <3>2
  <2> QED
    BY <1>0, <2>1, <2>3
<1>3. CASE DropsOldest(T, U)
  <2>1. PICK z \in T : (\A y \in T : z <= y) /\ U = T \ {z}
    BY <1>3 DEF DropsOldest
  <2>2. q \in T
    BY <2>1 DEF Gapless
  <2>3. q # z
    BY <1>0, <2>1 DEF Snapshot
  <2> QED
    BY <2>1, <2>2, <2>3
<1> QED
  BY <1>1, <1>2, <1>3 DEF Moves

\* A target that has snapshots keeps some, and all of them match.
LEMMA SomeRemain ==
    ASSUME NEW S \in SUBSET Snapshot, NEW T \in SUBSET Snapshot, NEW U \in SUBSET Snapshot,
           Moves(S, T, U)
    PROVE  /\ T # {} => U # {}
           /\ \A x \in U : x \in T \/ (x \in S /\ Match[x] # {})
<1>1. CASE U = T
  BY <1>1
<1>2. ASSUME NEW s \in Snapshot, Arrives(S, T, U, s)
      PROVE  /\ T # {} => U # {}
             /\ \A x \in U : x \in T \/ (x \in S /\ Match[x] # {})
  BY <1>2 DEF Arrives
<1>3. CASE DropsOldest(T, U)
  <2>1. PICK z \in T, m \in T : z < m /\ U = T \ {z}
    BY <1>3 DEF DropsOldest
  <2>2. m # z
    BY <2>1 DEF Snapshot
  <2> QED
    BY <2>1, <2>2
<1> QED
  BY <1>1, <1>2, <1>3 DEF Moves

\* What a run means to destroy stays the oldest of what is there.
LEMMA LowestMoves ==
    ASSUME NEW S \in SUBSET Snapshot, NEW T \in SUBSET Snapshot, NEW U \in SUBSET Snapshot,
           Moves(S, T, U), T # {}, NEW C \in SUBSET Snapshot, Lowest(C, S, T)
    PROVE  Lowest(C, S, U)
<1> SUFFICES ASSUME NEW z \in C
             PROVE  \/ \A t \in U : z < t
                    \/ z \in U /\ \A y \in U : y < z => y \in C
                    \/ z \notin S \cup U
  BY DEF Lowest
<1>0. /\ z \in Int
      /\ \/ \A t \in T : z < t
         \/ z \in T /\ \A y \in T : y < z => y \in C
         \/ z \notin S \cup T
  BY DEF Lowest, Snapshot
<1>1. CASE U = T
  BY <1>0, <1>1
<1>2. ASSUME NEW s \in Snapshot, Arrives(S, T, U, s)
      PROVE  \/ \A t \in U : z < t
             \/ z \in U /\ \A y \in U : y < z => y \in C
             \/ z \notin S \cup U
  <2>1. /\ s \in S /\ s \notin T /\ U \subseteq T \cup {s} /\ \A x \in T : x < s
        /\ \A x \in T \ U : x \notin S
    BY <1>2 DEF Arrives
  <2>2. CASE \A t \in T : z < t
    <3>1. PICK t \in T : TRUE
      OBVIOUS
    <3>2. z < t /\ t < s /\ t \in Int /\ s \in Int
      BY <2>1, <2>2, <3>1 DEF Snapshot
    <3> QED
      BY <1>0, <2>1, <2>2, <3>2
  <2>3. CASE z \in T /\ \A y \in T : y < z => y \in C
    <3>1. CASE z \in U
      <4>1. \A y \in U : y < z => y \in C
        BY <2>1, <2>3 DEF Snapshot
      <4> QED
        BY <3>1, <4>1
    <3>2. CASE z \notin U
      BY <2>1, <2>3, <3>2
    <3> QED
      BY <3>1, <3>2
  <2>4. CASE z \notin S \cup T
    BY <2>1, <2>4
  <2> QED
    BY <1>0, <2>2, <2>3, <2>4
<1>3. CASE DropsOldest(T, U)
  <2>1. PICK w \in T : (\A y \in T : w <= y) /\ U = T \ {w}
    BY <1>3 DEF DropsOldest
  <2>2. CASE z = w
    BY <2>1, <2>2 DEF Snapshot
  <2>3. CASE z # w
    BY <1>0, <2>1, <2>3
  <2> QED
    BY <2>2, <2>3
<1> QED
  BY <1>1, <1>2, <1>3 DEF Moves

\* As long as the source loses its oldest first, nothing is rolled back.
LEMMA NoRollback ==
    ASSUME NEW S \in SUBSET Snapshot, NEW T \in SUBSET Snapshot, NEW U \in SUBSET Snapshot,
           NEW s \in Snapshot, Arrives(S, T, U, s),
           \A b \in S : \A x \in T : b < x => x \in S
    PROVE  U = T \cup {s}
<1>1. /\ s \in U /\ s \notin T /\ U \subseteq T \cup {s}
      /\ \A x \in T \ U : x \notin S /\ \A y \in U \ {s} : y < x
      /\ T # {} => \E b \in U \cap T : b \in S
  BY DEF Arrives
<1>2. SUFFICES ASSUME NEW x \in T, x \notin U PROVE FALSE
  BY <1>1
<1>3. PICK b \in U \cap T : b \in S
  BY <1>1, <1>2
<1>4. b < x /\ x \notin S
  BY <1>1, <1>2, <1>3
<1> QED
  BY <1>2, <1>3, <1>4

\* What remains without C of what is there and has yet to arrive does not
\* become less than min_keep.
LEMMA SparedMoves ==
    ASSUME NEW S \in SUBSET Snapshot, NEW T \in SUBSET Snapshot, NEW U \in SUBSET Snapshot,
           Moves(S, T, U), NEW C \in SUBSET Snapshot, Lowest(C, S, T), T # {} \/ C = {},
           \A b \in S : \A x \in T : b < x => x \in S,
           NEW q \in SUBSET Snapshot, NEW f \in Filter, Spared(C, T, q, f)
    PROVE  Spared(C, U, q, f)
<1> DEFINE kept(H) == FilterSnapshotsByInterval(H \cup q, f) \ (C \cap H)
<1>1. SUFFICES ASSUME C \cap U # {} PROVE Cardinality(kept(U)) >= MinKeep[f]
  BY DEF Spared, Dispensable
<1>2. ASSUME C \cap T # {}, kept(T) \subseteq kept(U)
      PROVE  Cardinality(kept(U)) >= MinKeep[f]
  <2>1. Cardinality(kept(T)) >= MinKeep[f]
    BY <1>2 DEF Spared, Dispensable
  <2>2. kept(U) \in SUBSET Snapshot /\ kept(T) \in SUBSET kept(U)
    BY <1>2 DEF FilterSnapshotsByInterval
  <2>3. kept(T) \in SUBSET Snapshot
    BY <2>2
  <2> HIDE DEF kept
  <2>4. /\ Cardinality(kept(T)) <= Cardinality(kept(U))
        /\ Cardinality(kept(T)) \in Nat /\ Cardinality(kept(U)) \in Nat
    BY <2>2, <2>3, MoreSnapshots, SnapshotsFinite
  <2>5. MinKeep[f] \in Nat
    BY PlanAssumption
  <2> QED
    BY <2>1, <2>4, <2>5
<1>3. CASE U = T
  BY <1>1, <1>2, <1>3
<1>4. ASSUME NEW s \in Snapshot, Arrives(S, T, U, s)
      PROVE  C \cap T # {} /\ kept(T) \subseteq kept(U)
  <2>1. U = T \cup {s} /\ s \in S /\ s \notin T /\ \A x \in T : x < s
    BY <1>4, NoRollback DEF Arrives
  <2>2. PICK t \in T : TRUE
    BY <1>1
  <2>3. t < s /\ t \in Int /\ s \in Int
    BY <2>1, <2>2 DEF Snapshot
  <2>4. s \notin C
    BY <2>1, <2>2, <2>3 DEF Lowest
  <2> QED
    BY <1>1, <2>1, <2>4 DEF FilterSnapshotsByInterval
<1>5. CASE DropsOldest(T, U)
  <2>1. PICK z \in T : (\A x \in T : z <= x) /\ U = T \ {z}
    BY <1>5 DEF DropsOldest
  <2>2. PICK c \in C : c \in U
    BY <1>1
  <2>3. z < c /\ c \in T
    BY <2>1, <2>2 DEF Snapshot
  <2>4. z \in C
    BY <2>1, <2>2, <2>3 DEF Lowest, Snapshot
  <2> QED
    BY <1>2, <2>1, <2>4 DEF FilterSnapshotsByInterval
<1> QED
  BY <1>2, <1>3, <1>4, <1>5 DEF Moves

-----------------------------------------------------------------------------
(* A plan, and the hosts as they change under it.                          *)

\* What a target goes through leaves a plan made for it as fit as it was.
LEMMA PlanMoves ==
    ASSUME NEW p \in DatasetPlan, NEW N \in SUBSET Snapshot,
           NEW S \in SUBSET Snapshot, NEW T \in SUBSET Snapshot, NEW U \in SUBSET Snapshot,
           Moves(S, T, U), PlanOK(p, N, S, T)
    PROVE  PlanOK(p, N, S, U)
<1>1. ASSUME FilterSnapshots(N) # {} PROVE Max(FilterSnapshots(N)) \in Int
  <2>1. FilterSnapshots(N) \in SUBSET Snapshot
    BY DEF FilterSnapshots
  <2> QED
    BY <1>1, <2>1, MaxOfSnapshots DEF Snapshot
<1>2. p.action = "skip" => FilterSnapshots(N) = {} \/ Reached(U, Max(FilterSnapshots(N)))
  BY <1>1, ReachedMoves DEF PlanOK
<1>3. p.action = "incremental" => T # {} /\ U # {}
  BY SomeRemain DEF PlanOK
<1>4. ASSUME NEW f \in Filter PROVE Lowest(p.cleanup[f], S, U)
  <2>1. Lowest(p.cleanup[f], S, T) /\ p.cleanup[f] \in SUBSET Snapshot
    BY DEF PlanOK, DatasetPlan
  <2>2. CASE p.action = "incremental"
    BY <1>3, <2>1, <2>2, LowestMoves
  <2>3. CASE p.action # "incremental"
    BY <2>3 DEF PlanOK, NoCleanup, Lowest
  <2> QED
    BY <2>2, <2>3
<1> QED
  BY <1>2, <1>3, <1>4 DEF PlanOK

\* So does what the source takes and loses: n is the number of its snapshots.
LEMMA LowestSource ==
    ASSUME NEW S \in SUBSET Snapshot, NEW T \in SUBSET Snapshot, NEW R \in SUBSET Snapshot,
           NEW n \in Nat, \A x \in R : x \in S \/ n < x,
           NEW C \in SUBSET (1 .. n), Lowest(C, S, T)
    PROVE  Lowest(C, R, T)
BY DEF Lowest

LEMMA PlanSource ==
    ASSUME NEW p \in DatasetPlan, NEW N \in SUBSET Snapshot,
           NEW S \in SUBSET Snapshot, NEW T \in SUBSET Snapshot, NEW R \in SUBSET Snapshot,
           NEW n \in Nat, \A x \in R : x \in S \/ n < x, N \subseteq 1 .. n,
           \A f \in Filter : p.cleanup[f] \subseteq 1 .. n,
           PlanOK(p, N, S, T)
    PROVE  PlanOK(p, N, R, T)
<1>1. ASSUME NEW f \in Filter PROVE Lowest(p.cleanup[f], R, T)
  BY LowestSource DEF PlanOK
<1>2. ASSUME NEW f \in Filter, NEW z \in p.cleanup[f]
      PROVE  z < Max(FilterSnapshots(N)) \/ Max(FilterSnapshots(N)) \notin R
  <2>1. CASE p.action = "skip"
    BY <1>2, <2>1 DEF PlanOK, NoCleanup
  <2>2. CASE p.action # "skip"
    <3>1. FilterSnapshots(N) # {} /\ FilterSnapshots(N) \in SUBSET Snapshot
      BY <2>2 DEF PlanOK, FilterSnapshots
    <3>2. Max(FilterSnapshots(N)) \in FilterSnapshots(N)
      BY <3>1, MaxOfSnapshots
    <3>3. Max(FilterSnapshots(N)) \in 1 .. n
      BY <3>2 DEF FilterSnapshots
    <3> QED
      BY <1>2, <3>3 DEF PlanOK
  <2> QED
    BY <2>1, <2>2
<1> QED
  BY <1>1, <1>2 DEF PlanOK

\* A plan to reinitialize does not depend on the target.
LEMMA PlanOfRenamed ==
    ASSUME NEW p \in DatasetPlan, NEW N \in SUBSET Snapshot,
           NEW S \in SUBSET Snapshot, NEW T \in SUBSET Snapshot, NEW U \in SUBSET Snapshot,
           PlanOK(p, N, S, T), p.action = "reinitialize"
    PROVE  PlanOK(p, N, S, U)
BY DEF PlanOK, NoCleanup, Lowest

\* A plan just made from N, what was listed of the source, fits: since the
\* listing the source has only got newer snapshots.
LEMMA FreshPlan ==
    ASSUME NFilter = 1, NEW N \in SUBSET Snapshot,
           NEW S \in SUBSET Snapshot, NEW T \in SUBSET Snapshot, NEW e \in BOOLEAN,
           \A x \in T : Match[x] # {}, Gapless(S, T)
    PROVE  PlanOK(buildDatasetPlan(N, e, T), N, S, T)
<1> DEFINE p == buildDatasetPlan(N, e, T)
           M == FilterSnapshots(N)
<1>1. M \in SUBSET Snapshot
  BY DEF FilterSnapshots
<1>2. CASE p.action = "skip"
  <2>1. M = {} \/ Max(M) \in T
    BY <1>2, SkipMeansUpToDate
  <2>2. M # {} => Max(M) \in Int
    BY <1>1, MaxOfSnapshots DEF Snapshot
  <2>3. M = {} \/ Reached(T, Max(M))
    BY <2>1, <2>2 DEF Reached
  <2>4. p = SkipPlan
    BY <1>2 DEF buildDatasetPlan, FullPlan, IncrementalPlan
  <2>5. p.cleanup = NoCleanup
    BY <2>4 DEF SkipPlan
  <2> QED
    BY <1>2, <2>3, <2>5 DEF PlanOK, NoCleanup, Lowest
<1>3. ASSUME p.action # "skip"
      PROVE  M # {} /\ p.send \subseteq M /\ Max(M) \in p.send
  BY <1>3, PlanSends
<1>4. CASE p.action \in {"initial", "reinitialize"}
  <2>1. p = FullPlan(p.action, N)
    BY <1>4 DEF buildDatasetPlan, FullPlan, IncrementalPlan, SkipPlan
  <2>2. p.common = None /\ p.cleanup = NoCleanup /\ p.send = trimForInitial(M)
    BY <2>1 DEF FullPlan
  <2>3. SendsSuffix(p.send, N)
    BY <1>3, <1>4, <2>2, TrimIsSuffix DEF SendsSuffix
  <2> QED
    BY <1>3, <1>4, <2>2, <2>3 DEF PlanOK, NoCleanup, Lowest
<1>5. CASE p.action = "incremental"
  <2>1. p = IncrementalPlan(N, T) /\ N \cap T # {}
    BY <1>5 DEF buildDatasetPlan, FullPlan, SkipPlan
  <2> DEFINE c == CommonSnapshot(N, T)
  <2>2. /\ p.common = c /\ p.send = Pending(N, T)
        /\ p.cleanup = buildCleanup(T, Pending(N, T))
    BY <2>1 DEF IncrementalPlan
  <2>3. /\ c \in N /\ c \in T /\ Pending(N, T) \cap T = {}
        /\ \A q \in Pending(N, T) : c < q
    BY <2>1, PendingIsNew
  <2> HIDE DEF c
  <2>4. p.send = {y \in M : c < y}
    <3>1. c \in Int /\ \A y \in M : y \in Int
      BY <1>1, <2>3 DEF Snapshot
    <3> QED
      BY <2>2, <3>1 DEF Pending, FilterSnapshots, c
  <2>5. p.common # None /\ T # {} /\ c \in Snapshot
    BY <2>2, <2>3 DEF Snapshot
  <2>6. SendsSuffix(p.send, N)
    BY <1>1, <1>3, <1>5, <2>4, <2>5 DEF SendsSuffix, Snapshot
  <2>7. ASSUME NEW f \in Filter
        PROVE  /\ p.cleanup[f] \subseteq T
               /\ \A z \in p.cleanup[f] : \A y \in T : y < z => y \in p.cleanup[f]
    <3> DEFINE I == FilterSnapshotsByInterval(T, f)
    <3>1. PICK k \in Int : p.cleanup[f] = OldestOf(I, k)
      <4>1. /\ I \in SUBSET Snapshot
            /\ FilterSnapshotsByInterval(Pending(N, T), f) \in SUBSET Snapshot
        BY DEF FilterSnapshotsByInterval, Pending, FilterSnapshots
      <4>2. /\ Cardinality(I) \in Nat /\ MinKeep[f] \in Nat
            /\ Cardinality(FilterSnapshotsByInterval(Pending(N, T), f)) \in Nat
        BY <4>1, SnapshotsFinite, PlanAssumption
      <4> QED
        BY <2>2, <4>2 DEF buildCleanup
    <3>2. I = T
      <4>1. f = 1 /\ Filter = {1}
        BY DEF Filter
      <4>2. \A x \in T : f \in Match[x]
        BY <4>1, PlanAssumption
      <4> QED
        BY <4>2 DEF FilterSnapshotsByInterval
    <3>3. ASSUME NEW z \in OldestOf(T, k), NEW y \in T, y < z PROVE y \in OldestOf(T, k)
      <4>1. /\ {x \in T : x <= y} \in SUBSET {x \in T : x <= z}
            /\ {x \in T : x <= z} \in SUBSET Snapshot /\ {x \in T : x <= y} \in SUBSET Snapshot
        <5>1. z \in Int /\ y \in Int /\ \A x \in T : x \in Int
          BY DEF OldestOf, Snapshot
        <5>2. \A x \in T : x <= y => x <= z
          BY <3>3, <5>1
        <5> QED
          BY <5>2
      <4>2. /\ Cardinality({x \in T : x <= y}) <= Cardinality({x \in T : x <= z})
            /\ Cardinality({x \in T : x <= y}) \in Nat /\ Cardinality({x \in T : x <= z}) \in Nat
        BY <4>1, MoreSnapshots, SnapshotsFinite
      <4>3. Cardinality({x \in T : x <= z}) <= k
        BY DEF OldestOf
      <4>4. Cardinality({x \in T : x <= y}) <= k
        BY ONLY k \in Int, <4>2, <4>3
      <4> QED
        BY <4>4 DEF OldestOf
    <3>4. OldestOf(T, k) \subseteq T
      BY DEF OldestOf
    <3> QED
      BY <3>1, <3>2, <3>3, <3>4
  <2>8. ASSUME NEW f \in Filter PROVE Lowest(p.cleanup[f], S, T)
    BY <2>7 DEF Lowest
  <2>9. ASSUME NEW f \in Filter, NEW z \in p.cleanup[f]
        PROVE  z < Max(M) \/ Max(M) \notin S
    <3>1. z \in T /\ Max(M) \in M /\ c < Max(M) /\ Max(M) \notin T
      BY <1>3, <1>5, <2>2, <2>3, <2>7, <2>9
    <3>2. CASE Max(M) \in S /\ Max(M) < z
      <4>1. Max(M) \in FilterSnapshots(S)
        BY <3>1, <3>2 DEF FilterSnapshots
      <4> QED
        BY <2>3, <3>1, <3>2, <4>1 DEF Gapless
    <3>3. z # Max(M) /\ z \in Snapshot /\ Max(M) \in Snapshot
      BY <1>1, <3>1
    <3> HIDE DEF M
    <3>4. z < Max(M) \/ Max(M) < z
      BY <3>3 DEF Snapshot
    <3> QED
      BY <3>2, <3>4
  <2>10. \A f \in Filter : p.cleanup[f] \cap p.send = {}
    BY <2>2, <2>3, <2>7
  <2> QED
    BY <1>3, <1>5, <2>2, <2>4, <2>5, <2>6, <2>8, <2>9, <2>10 DEF PlanOK
<1>6. p.action \in {"skip", "initial", "reinitialize", "incremental"}
  BY DEF buildDatasetPlan, FullPlan, IncrementalPlan, SkipPlan
<1> QED
  BY <1>2, <1>4, <1>5, <1>6

\* So fits the plan of a run that did not see the target, whatever is there:
\* it goes by the source alone and destroys nothing.
LEMMA BlindPlan ==
    ASSUME NFilter = 1, NEW N \in SUBSET Snapshot,
           NEW S \in SUBSET Snapshot, NEW T \in SUBSET Snapshot, NEW e \in BOOLEAN
    PROVE  /\ PlanOK(buildDatasetPlan(N, e, {}), N, S, T)
           /\ buildDatasetPlan(N, e, {}).cleanup = NoCleanup
<1> DEFINE p == buildDatasetPlan(N, e, {})
<1>1. PlanOK(p, N, S, {})
  <2>1. {} \in SUBSET Snapshot /\ Gapless(S, {})
    BY DEF Gapless
  <2> QED
    BY <2>1, FreshPlan
<1>2. p.action \in {"skip", "initial", "reinitialize"} /\ p.cleanup = NoCleanup
  BY DEF buildDatasetPlan, FullPlan, SkipPlan
<1>3. p.action = "skip" => FilterSnapshots(N) = {}
  <2>1. p.action = "skip" => FilterSnapshots(N) = {} \/ Max(FilterSnapshots(N)) \in {}
    BY SkipMeansUpToDate
  <2> QED
    BY <2>1
<1> HIDE DEF p
<1>4. PlanOK(p, N, S, T)
  BY <1>1, <1>2, <1>3 DEF PlanOK, NoCleanup, Lowest
<1> QED
  BY <1>2, <1>4 DEF p

\* And its cleanup leaves min_keep.
LEMMA FreshSpares ==
    ASSUME NEW N \in SUBSET Snapshot, NEW T \in SUBSET Snapshot, NEW e, NEW f \in Filter
    PROVE  Spared(buildDatasetPlan(N, e, T).cleanup[f], T, buildDatasetPlan(N, e, T).send, f)
<1> DEFINE p == buildDatasetPlan(N, e, T)
           C == p.cleanup[f]
<1>1. CASE C = {}
  BY <1>1 DEF Spared, Dispensable
<1>2. CASE C # {}
  <2>1. p.action # "skip"
    BY <1>2 DEF buildDatasetPlan, SkipPlan, NoCleanup, FullPlan, IncrementalPlan
  <2>2. /\ C \subseteq FilterSnapshotsByInterval(T, f)
        /\ Cardinality(FilterSnapshotsByInterval(T \cup p.send, f) \ C) >= MinKeep[f]
    BY <1>2, <2>1, CleanupLeavesEnough
  <2>3. C \cap T = C
    BY <2>2 DEF FilterSnapshotsByInterval
  <2> HIDE DEF p, C
  <2> QED
    BY <2>2, <2>3 DEF Spared, Dispensable, p, C
<1> QED
  BY <1>1, <1>2

-----------------------------------------------------------------------------
(* The steps of the hosts.                                                 *)

\* What any run does to a dataset but rename it; what a rename leaves; what
\* the source does.
Moved(d) ==
    /\ src'[d] = src[d] /\ taken'[d] = taken[d] /\ old'[d] = old[d]
    /\ token'[d] = NoToken
    /\ ~exists'[d] => snaps'[d] = {}
    /\ Moves(src[d], snaps[d], snaps'[d])

Renamed(d) ==
    /\ src'[d] = src[d] /\ taken'[d] = taken[d] /\ old'[d] = old[d] + 1
    /\ token'[d] = NoToken /\ snaps'[d] = {}

SourceMoved(d) ==
    /\ exists'[d] = exists[d] /\ snaps'[d] = snaps[d]
    /\ token'[d] = token[d] /\ old'[d] = old[d]
    /\ taken[d] <= taken'[d]
    /\ \A x \in src'[d] : x \in src[d] \/ (taken[d] < x /\ x <= taken'[d])

HostStep ==
    /\ \A d \in Dataset : Moved(d) \/ Renamed(d) \/ SourceMoved(d)
    /\ OldestFirst => Contiguous'

Typed == TypeInv /\ name \in [Dataset -> Nat]

Clear == \A d \in Dataset : ~Overtaken(d)

\* The types the hosts have, by dataset.
LEMMA HostTypes ==
    ASSUME TypeInv, NEW d \in Dataset
    PROVE  /\ src[d] \in SUBSET Snapshot /\ snaps[d] \in SUBSET Snapshot
           /\ seen[d] \in SUBSET Snapshot /\ taken[d] \in Nat /\ old[d] \in Nat
           /\ plan[d] \in DatasetPlan /\ \A f \in Filter : plan[d].cleanup[f] \in SUBSET Snapshot
BY DEF TypeInv, TypeOK, DatasetPlan

\* A listed dataset with matching snapshots has a goal.
LEMMA GoalType ==
    ASSUME TypeInv, NEW d \in Dataset, FilterSnapshots(seen[d]) # {}
    PROVE  /\ Goal(d) \in FilterSnapshots(seen[d]) /\ Goal(d) \in Snapshot /\ Goal(d) \in Int
           /\ \A x \in FilterSnapshots(seen[d]) : x <= Goal(d)
<1>1. FilterSnapshots(seen[d]) \in SUBSET Snapshot
  BY HostTypes DEF FilterSnapshots
<1> QED
  BY <1>1, MaxOfSnapshots DEF Goal, Snapshot

\* Where the source loses its oldest first, it has whatever is on the target
\* and newer than something it has.
LEMMA NewerIsThere ==
    ASSUME TypeInv, HostInv, OldestFirst, NEW d \in Dataset
    PROVE  \A b \in src[d] : \A x \in snaps[d] : b < x => x \in src[d]
<1>1. snaps[d] \subseteq 1 .. taken[d] /\ \A x \in src[d] : x .. taken[d] \subseteq src[d]
  BY DEF HostInv, Contiguous
<1>2. \A x \in src[d] : x \in Int
  BY HostTypes DEF Snapshot
<1> QED
  BY <1>1, <1>2

\* The hosts keep their invariant.
LEMMA HostStays ==
    ASSUME TypeInv, TypeInv', HostInv, HostStep
    PROVE  HostInv'
<1> SUFFICES ASSUME NEW d \in Dataset
             PROVE  /\ src'[d] \cup snaps'[d] \subseteq 1 .. taken'[d]
                    /\ ~exists'[d] => snaps'[d] = {}
                    /\ token'[d] = NoToken
                    /\ \A x \in snaps'[d] : Match[x] # {}
                    /\ Gapless(src'[d], snaps'[d])
  BY DEF HostInv, HostStep
<1>1. /\ src[d] \in SUBSET Snapshot /\ snaps[d] \in SUBSET Snapshot
      /\ src'[d] \in SUBSET Snapshot /\ snaps'[d] \in SUBSET Snapshot
      /\ taken[d] \in Nat /\ taken'[d] \in Nat
  BY DEF TypeInv, TypeOK
<1>2. /\ src[d] \cup snaps[d] \subseteq 1 .. taken[d]
      /\ ~exists[d] => snaps[d] = {}
      /\ token[d] = NoToken
      /\ \A x \in snaps[d] : Match[x] # {}
      /\ Gapless(src[d], snaps[d])
  BY DEF HostInv
<1>3. CASE Moved(d)
  <2>1. \A x \in snaps'[d] : x \in snaps[d] \/ (x \in src[d] /\ Match[x] # {})
    BY <1>1, <1>3, SomeRemain DEF Moved
  <2>2. Gapless(src[d], snaps'[d])
    BY <1>1, <1>2, <1>3, GaplessMoves DEF Moved
  <2> QED
    BY <1>2, <1>3, <2>1, <2>2 DEF Moved
<1>4. CASE Renamed(d)
  BY <1>2, <1>4 DEF Renamed, Gapless
<1>5. CASE SourceMoved(d)
  <2>1. Gapless(src'[d], snaps[d])
    <3> SUFFICES ASSUME NEW b \in snaps[d], NEW x \in snaps[d],
                        NEW q \in FilterSnapshots(src'[d]), b < q, q < x
                 PROVE  q \in snaps[d]
      BY DEF Gapless
    <3>1. q \in src'[d] /\ Match[q] # {} /\ q \in Int /\ x \in Int /\ x <= taken[d]
      BY <1>1, <1>2 DEF FilterSnapshots, Snapshot
    <3>2. q \in src[d]
      BY <1>1, <1>5, <3>1 DEF SourceMoved
    <3>3. q \in FilterSnapshots(src[d])
      BY <3>1, <3>2 DEF FilterSnapshots
    <3> QED
      BY <1>2, <3>3 DEF Gapless
  <2>2. src'[d] \cup snaps'[d] \subseteq 1 .. taken'[d]
    BY <1>1, <1>2, <1>5 DEF SourceMoved, Snapshot
  <2> QED
    BY <1>2, <1>5, <2>1, <2>2 DEF SourceMoved
<1> QED
  BY <1>3, <1>4, <1>5 DEF HostStep

-----------------------------------------------------------------------------
(* What a run can rely on, whoever takes the step.                         *)

\* Unless that overtakes the run, a dataset is only renamed for it when its
\* own plan was to rename it next.
LEMMA WhatIsRenamed ==
    ASSUME Typed, Clear, Clear', Listed, Listed', UNCHANGED <<plan, name>>,
           NEW d \in Dataset, Renamed(d)
    PROVE  plan[d].action = "reinitialize" /\ old[d] = name[d]
<1>1. old[d] \in Nat /\ name[d] \in Nat /\ old'[d] = old[d] + 1
  BY HostTypes DEF Typed, Renamed
<1>2. old[d] = name[d] \/ (plan[d].action = "reinitialize" /\ old[d] = name[d] + 1)
  BY DEF Clear, Overtaken, Listed
<1>3. old'[d] = name[d] \/ (plan[d].action = "reinitialize" /\ old'[d] = name[d] + 1)
  BY DEF Clear, Overtaken, Listed
<1> QED
  BY <1>1, <1>2, <1>3

\* What is newer than a listing stays newer.
LEMMA ListingStays ==
    ASSUME TypeInv, TypeInv', HostStep, ListingOK, pc # "idle", seen' = seen
    PROVE  ListingOK'
<1> SUFFICES ASSUME NEW d \in Dataset
             PROVE  /\ seen[d] \subseteq 1 .. taken'[d]
                    /\ \A x \in src'[d] \ seen[d] : \A y \in seen[d] : y < x
  BY DEF ListingOK
<1>1. /\ seen[d] \subseteq 1 .. taken[d]
      /\ \A x \in src[d] \ seen[d] : \A y \in seen[d] : y < x
  BY DEF ListingOK
<1>2. taken[d] \in Nat /\ taken'[d] \in Nat /\ \A x \in src'[d] : x \in Int
  BY DEF TypeInv, TypeOK, Snapshot
<1>3. /\ taken[d] <= taken'[d]
      /\ \A x \in src'[d] : x \in src[d] \/ taken[d] < x
  BY <1>2 DEF HostStep, Moved, Renamed, SourceMoved
<1> QED
  BY <1>1, <1>2, <1>3

\* A plan stays fit.
LEMMA PlanStays ==
    ASSUME Typed, Typed', HostInv, Clear, Clear', Listed, Listed', HostStep,
           ListingOK, PlansOK, UNCHANGED <<seen, plan, name>>
    PROVE  PlansOK'
<1> SUFFICES ASSUME NEW d \in Dataset
             PROVE  /\ PlanOK(plan[d], seen[d], src'[d], snaps'[d])
                    /\ \A f \in Filter : plan[d].cleanup[f] \subseteq 1 .. taken'[d]
  BY ZenonT(60) DEF PlansOK, PlanOK, Lowest, SendsSuffix, Reached, FilterSnapshots
<1>1. /\ PlanOK(plan[d], seen[d], src[d], snaps[d])
      /\ \A f \in Filter : plan[d].cleanup[f] \subseteq 1 .. taken[d]
      /\ seen[d] \subseteq 1 .. taken[d]
  BY DEF PlansOK, Listed, ListingOK
<1>2. /\ src[d] \in SUBSET Snapshot /\ snaps[d] \in SUBSET Snapshot
      /\ src'[d] \in SUBSET Snapshot /\ snaps'[d] \in SUBSET Snapshot
      /\ taken[d] \in Nat /\ taken'[d] \in Nat
      /\ plan[d] \in DatasetPlan /\ seen[d] \in SUBSET Snapshot
  BY DEF Typed, TypeInv, TypeOK
<1>3. taken[d] <= taken'[d]
  BY <1>2 DEF HostStep, Moved, Renamed, SourceMoved
<1>4. \A f \in Filter : plan[d].cleanup[f] \subseteq 1 .. taken'[d]
  BY <1>1, <1>2, <1>3
<1>5. CASE Moved(d)
  BY <1>1, <1>2, <1>4, <1>5, PlanMoves DEF Moved
<1>6. CASE Renamed(d)
  <2>1. plan[d].action = "reinitialize"
    BY <1>6, WhatIsRenamed
  <2> QED
    BY <1>1, <1>2, <1>4, <1>6, <2>1, PlanOfRenamed DEF Renamed
<1>7. CASE SourceMoved(d)
  <2>1. \A x \in src'[d] : x \in src[d] \/ taken[d] < x
    BY <1>7 DEF SourceMoved
  <2>2. PlanOK(plan[d], seen[d], src'[d], snaps[d])
    BY <1>1, <1>2, <2>1, PlanSource
  <2> QED
    BY <1>4, <1>7, <2>2 DEF SourceMoved
<1> QED
  BY <1>5, <1>6, <1>7 DEF HostStep

\* What a target has reached it keeps, unless it is renamed.
LEMMA ReachedStays ==
    ASSUME TypeInv, TypeInv', NEW d \in Dataset, Moved(d) \/ SourceMoved(d),
           NEW goal \in Int, Reached(snaps[d], goal)
    PROVE  Reached(snaps'[d], goal)
<1>1. /\ src[d] \in SUBSET Snapshot /\ snaps[d] \in SUBSET Snapshot
      /\ snaps'[d] \in SUBSET Snapshot
  BY DEF TypeInv, TypeOK
<1> QED
  BY <1>1, ReachedMoves DEF Moved, SourceMoved

\* What is to be destroyed stays the oldest.
LEMMA LowestStays ==
    ASSUME TypeInv, TypeInv', NEW d \in Dataset, Moved(d) \/ SourceMoved(d),
           NEW C \in SUBSET Snapshot, C \subseteq 1 .. taken[d],
           snaps[d] # {}, Lowest(C, src[d], snaps[d])
    PROVE  Lowest(C, src'[d], snaps'[d])
<1>1. /\ src[d] \in SUBSET Snapshot /\ snaps[d] \in SUBSET Snapshot
      /\ src'[d] \in SUBSET Snapshot /\ snaps'[d] \in SUBSET Snapshot /\ taken[d] \in Nat
  BY DEF TypeInv, TypeOK
<1>2. CASE Moved(d)
  BY <1>1, <1>2, LowestMoves DEF Moved
<1>3. CASE SourceMoved(d)
  BY <1>1, <1>3, LowestSource DEF SourceMoved
<1> QED
  BY <1>2, <1>3

\* And min_keep stays spared.
LEMMA SparedStays ==
    ASSUME TypeInv, TypeInv', HostInv, OldestFirst,
           NEW d \in Dataset, Moved(d) \/ SourceMoved(d),
           NEW C \in SUBSET Snapshot, Lowest(C, src[d], snaps[d]), snaps[d] # {} \/ C = {},
           NEW q \in SUBSET Snapshot, NEW f \in Filter, Spared(C, snaps[d], q, f)
    PROVE  Spared(C, snaps'[d], q, f)
<1>1. /\ src[d] \in SUBSET Snapshot /\ snaps[d] \in SUBSET Snapshot
      /\ snaps'[d] \in SUBSET Snapshot
  BY DEF TypeInv, TypeOK
<1>2. \A b \in src[d] : \A x \in snaps[d] : b < x => x \in src[d]
  BY NewerIsThere
<1>3. CASE Moved(d)
  BY <1>1, <1>2, <1>3, SparedMoves DEF Moved
<1>4. CASE SourceMoved(d)
  BY <1>4 DEF SourceMoved
<1> QED
  BY <1>3, <1>4

\* So does what a plan will destroy.
LEMMA PlanSpares ==
    ASSUME Typed, Typed', HostInv, OldestFirst, Clear, Clear', Listed, Listed', HostStep,
           PlansOK, UNCHANGED <<plan, name>>,
           NEW d \in Dataset, NEW q \in SUBSET Snapshot, NEW f \in Filter,
           Spared(plan[d].cleanup[f], snaps[d], q, f)
    PROVE  Spared(plan[d].cleanup[f], snaps'[d], q, f)
<1>1. PlanOK(plan[d], seen[d], src[d], snaps[d])
  BY DEF PlansOK
<1>2. plan[d].cleanup[f] \in SUBSET Snapshot
  BY HostTypes DEF Typed
<1>3. CASE plan[d].action = "incremental"
  <2>1. snaps[d] # {} /\ Lowest(plan[d].cleanup[f], src[d], snaps[d])
    BY <1>1, <1>3 DEF PlanOK
  <2>2. ~Renamed(d)
    BY <1>3, WhatIsRenamed
  <2> QED
    BY <1>2, <2>1, <2>2, SparedStays DEF HostStep, Typed
<1>4. CASE plan[d].action # "incremental"
  BY <1>1, <1>4 DEF PlanOK, NoCleanup, Spared, Dispensable
<1> QED
  BY <1>3, <1>4

\* What a run relies on, before a step of anyone.
Before == Typed /\ HostInv /\ RunInv /\ Clear

\* The target a run is at, and those it is through with, are not renamed.
LEMMA NotRenamed ==
    ASSUME Before, Clear', Listed, Listed', HostStep, UNCHANGED <<plan, name>>,
           NEW d \in Dataset,
           (pc \in {"send", "cleanup"} /\ d = cur) \/ (Processed(d) /\ d \notin syncErr)
    PROVE  Moved(d) \/ SourceMoved(d)
<1>1. SUFFICES ASSUME Renamed(d) PROVE FALSE
  BY DEF HostStep
<1>2. plan[d].action = "reinitialize" /\ old[d] = name[d]
  BY <1>1, WhatIsRenamed DEF Before
<1>3. old[d] = name[d] + 1 /\ name[d] \in Nat
  BY <1>2 DEF Before, RunInv, RenamedOK, Typed
<1> QED
  BY <1>2, <1>3

\* The datasets the loop is through with stay replicated and renamed.
LEMMA ProcessedStays ==
    ASSUME Before, Typed', Clear', Listed, Listed', HostStep,
           UNCHANGED <<seen, plan, name>>, NEW d \in Dataset, Processed(d)
    PROVE  /\ d \in syncErr \/ FilterSnapshots(seen[d]) = {} \/ Reached(snaps'[d], Goal(d))
           /\ plan[d].action = "reinitialize" => d \in syncErr \/ old'[d] = name[d] + 1
<1>1. SUFFICES ASSUME d \notin syncErr
               PROVE  /\ FilterSnapshots(seen[d]) = {} \/ Reached(snaps'[d], Goal(d))
                      /\ plan[d].action = "reinitialize" => old'[d] = name[d] + 1
  OBVIOUS
<1>2. Moved(d) \/ SourceMoved(d)
  BY <1>1, NotRenamed
<1>3. ASSUME FilterSnapshots(seen[d]) # {} PROVE Reached(snaps'[d], Goal(d))
  <2>1. Goal(d) \in Int
    BY <1>3, GoalType DEF Before, Typed
  <2>2. Reached(snaps[d], Goal(d))
    BY <1>1, <1>3 DEF Before, RunInv, ProcessedOK
  <2> QED
    BY <1>2, <2>1, <2>2, ReachedStays DEF Before, Typed
<1>4. plan[d].action = "reinitialize" => old[d] = name[d] + 1 /\ old'[d] = old[d]
  BY <1>1, <1>2 DEF Before, RunInv, RenamedOK, Moved, SourceMoved
<1> QED
  BY <1>3, <1>4

\* The step of another run or of the source, or one that leaves the run where
\* it is: the run's invariant stays.
LEMMA RunStays ==
    ASSUME Before, Typed', Clear', HostStep,
           UNCHANGED <<pc, seen, plan, cur, queue, base, clean, syncErr, execErr, name>>
    PROVE  RunInv'
<1>1. CurOK' /\ SendingOK'
  BY DEF Before, RunInv, CurOK, SendingOK, SendsSuffix, FilterSnapshots
<1>2. ListingOK'
  <2>1. CASE pc = "idle"
    BY <2>1 DEF ListingOK
  <2>2. CASE pc # "idle"
    BY <2>2, ListingStays DEF Before, Typed, RunInv
  <2> QED
    BY <2>1, <2>2
<1>3. CASE ~Listed
  <2>1. pc' \in {"idle", "target"}
    BY <1>3 DEF Listed
  <2> QED
    BY <1>1, <1>2, <2>1 DEF RunInv, PlansOK, Listed, CleaningOK, ProcessedOK, Processed,
       RenamedOK, SparesOK, Ahead
<1>4. CASE Listed
  <2>1. Listed' /\ UNCHANGED <<seen, plan, name, cur, syncErr, clean>>
    BY <1>4 DEF Listed
  <2>2. PlansOK'
    BY <1>4, <2>1, PlanStays DEF Before, RunInv
  <2>3. \A d \in Dataset : Goal(d)' = Goal(d) /\ Processed(d)' = Processed(d) /\ Ahead(d)' = Ahead(d)
    BY DEF Goal, Processed, Ahead
  <2>4. CleaningOK'
    <3> SUFFICES ASSUME pc = "cleanup" PROVE CleaningOK'
      BY DEF CleaningOK
    <3>1. cur \in Dataset
      BY DEF Before, Typed, TypeInv, TypeOK, Dataset
    <3>2. Moved(cur) \/ SourceMoved(cur)
      BY <1>4, <2>1, <3>1, NotRenamed
    <3>3. /\ FilterSnapshots(seen[cur]) # {} /\ Reached(snaps[cur], Goal(cur))
          /\ \A f \in Filter : /\ Lowest(clean[f], src[cur], snaps[cur])
                               /\ \A z \in clean[f] : z < Goal(cur)
      BY DEF Before, RunInv, CleaningOK
    <3>4. Goal(cur) \in seen[cur] /\ Goal(cur) \in Int
      BY <3>1, <3>3, GoalType DEF Before, Typed, FilterSnapshots
    <3>5. Reached(snaps'[cur], Goal(cur))
      BY <3>1, <3>2, <3>3, <3>4, ReachedStays DEF Before, Typed
    <3>6. snaps[cur] # {}
      BY <3>3 DEF Reached
    <3>7. Goal(cur) <= taken[cur] /\ taken[cur] \in Nat
      BY <3>1, <3>4, HostTypes DEF Before, Typed, RunInv, ListingOK
    <3>8. ASSUME NEW f \in Filter PROVE Lowest(clean[f], src'[cur], snaps'[cur])
      <4>1. clean[f] \in SUBSET Snapshot
        BY DEF Before, Typed, TypeInv, TypeOK
      <4>2. clean[f] \subseteq 1 .. taken[cur]
        BY <3>3, <3>4, <3>7, <4>1 DEF Snapshot
      <4> QED
        BY <3>1, <3>2, <3>3, <3>6, <4>1, <4>2, LowestStays DEF Before, Typed
    <3>9. Goal(cur)' = Goal(cur)
      BY DEF Goal
    <3> HIDE DEF Goal
    <3> QED
      BY <3>3, <3>5, <3>8, <3>9 DEF CleaningOK, Reached, Lowest, FilterSnapshots
  <2>5. ProcessedOK' /\ RenamedOK'
    <3>1. ASSUME NEW d \in Dataset, Processed(d)'
          PROVE  /\ d \in syncErr' \/ FilterSnapshots(seen'[d]) = {} \/ Reached(snaps'[d], Goal(d)')
                 /\ plan'[d].action = "reinitialize" => d \in syncErr' \/ old'[d] = name'[d] + 1
      BY <1>4, <2>1, <2>3, <3>1, ProcessedStays DEF FilterSnapshots
    <3>2. ASSUME NEW d \in Dataset, plan[d].action = "reinitialize",
                 pc \in {"send", "cleanup"} /\ d = cur
          PROVE  old'[d] = name[d] + 1
      <4>1. old[d] = name[d] + 1
        BY <3>2 DEF Before, RunInv, RenamedOK
      <4>2. Moved(d) \/ SourceMoved(d)
        BY <1>4, <2>1, <3>2, NotRenamed
      <4> QED
        BY <4>1, <4>2 DEF Moved, SourceMoved
    <3> HIDE DEF Goal, Processed
    <3> QED
      BY <3>1, <3>2 DEF ProcessedOK, RenamedOK, Reached, FilterSnapshots
  <2>6. SparesOK'
    <3> SUFFICES ASSUME OldestFirst, NEW f \in Filter
                 PROVE  /\ \A d \in Dataset :
                             Ahead(d) => Spared(plan[d].cleanup[f], snaps'[d], plan[d].send, f)
                        /\ pc = "send" => Spared(plan[cur].cleanup[f], snaps'[cur], queue, f)
                        /\ pc = "cleanup" => Spared(clean[f], snaps'[cur], {}, f)
      BY <2>3 DEF SparesOK, Spared, Dispensable, FilterSnapshotsByInterval
    <3>1. ASSUME NEW d \in Dataset, Ahead(d)
          PROVE  Spared(plan[d].cleanup[f], snaps'[d], plan[d].send, f)
      <4>1. Spared(plan[d].cleanup[f], snaps[d], plan[d].send, f)
        BY <3>1 DEF Before, RunInv, SparesOK
      <4>2. plan[d].send \in SUBSET Snapshot
        BY HostTypes DEF Before, Typed, DatasetPlan
      <4> QED
        BY <1>4, <2>1, <4>1, <4>2, PlanSpares DEF Before, RunInv
    <3>2. ASSUME pc = "send" PROVE Spared(plan[cur].cleanup[f], snaps'[cur], queue, f)
      <4>1. cur \in Dataset /\ queue \in SUBSET Snapshot
        BY <3>2 DEF Before, Typed, TypeInv, TypeOK, Dataset
      <4>2. Spared(plan[cur].cleanup[f], snaps[cur], queue, f)
        BY <3>2 DEF Before, RunInv, SparesOK
      <4> QED
        BY <1>4, <2>1, <4>1, <4>2, PlanSpares DEF Before, RunInv
    <3>3. ASSUME pc = "cleanup" PROVE Spared(clean[f], snaps'[cur], {}, f)
      <4>1. cur \in Dataset /\ clean[f] \in SUBSET Snapshot
        BY <3>3 DEF Before, Typed, TypeInv, TypeOK, Dataset
      <4>2. /\ Spared(clean[f], snaps[cur], {}, f) /\ Lowest(clean[f], src[cur], snaps[cur])
            /\ snaps[cur] # {}
        BY <3>3 DEF Before, RunInv, SparesOK, CleaningOK, Reached
      <4>3. Moved(cur) \/ SourceMoved(cur)
        BY <1>4, <2>1, <3>3, <4>1, NotRenamed
      <4> QED
        BY <4>1, <4>2, <4>3, SparedStays DEF Before, Typed
    <3> QED
      BY <3>1, <3>2, <3>3
  <2> QED
    BY <1>1, <1>2, <2>2, <2>4, <2>5, <2>6 DEF RunInv
<1> QED
  BY <1>3, <1>4

-----------------------------------------------------------------------------
(* The run's own steps.                                                    *)

\* The loop of Execute leaves a dataset, replicated or with an error.
LEMMA LoopGoesOn ==
    ASSUME Before, Typed', Clear', HostStep,
           pc \in {"dataset", "send", "cleanup"}, cur \in Dataset,
           pc' = "dataset", cur' = cur + 1, UNCHANGED <<seen, plan, name>>,
           syncErr \subseteq syncErr',
           \/ cur \in syncErr'
           \/ /\ FilterSnapshots(seen[cur]) = {} \/ Reached(snaps'[cur], Goal(cur))
              /\ plan[cur].action = "reinitialize" => old'[cur] = name[cur] + 1
    PROVE  RunInv'
<1>1. Listed /\ Listed' /\ pc # "idle" /\ \A d \in Dataset : d \in Int
  BY DEF Listed, Dataset
<1>2. PlansOK'
  BY <1>1, PlanStays DEF Before, RunInv
<1>3. ListingOK'
  BY <1>1, ListingStays DEF Before, Typed, RunInv
<1>4. CurOK' /\ SendingOK' /\ CleaningOK'
  BY DEF CurOK, SendingOK, CleaningOK
<1>5. \A d \in Dataset : Goal(d)' = Goal(d)
  BY DEF Goal
<1>6. ASSUME NEW d \in Dataset, Processed(d)'
      PROVE  /\ d \in syncErr' \/ FilterSnapshots(seen[d]) = {} \/ Reached(snaps'[d], Goal(d))
             /\ plan[d].action = "reinitialize" => d \in syncErr' \/ old'[d] = name[d] + 1
  <2>1. d < cur \/ d = cur
    BY <1>1, <1>6 DEF Processed
  <2>2. CASE d < cur
    <3>1. Processed(d)
      BY <2>2 DEF Processed
    <3> QED
      BY <1>1, <3>1, ProcessedStays
  <2>3. CASE d = cur
    BY <2>3
  <2> QED
    BY <2>1, <2>2, <2>3
<1>7. ProcessedOK' /\ RenamedOK'
  <2> HIDE DEF Goal, Processed
  <2> QED
    BY <1>5, <1>6 DEF ProcessedOK, RenamedOK, Reached, FilterSnapshots
<1>8. SparesOK'
  <2> SUFFICES ASSUME OldestFirst, NEW f \in Filter, NEW d \in Dataset, Ahead(d)'
               PROVE  Spared(plan[d].cleanup[f], snaps'[d], plan[d].send, f)
    BY DEF SparesOK, Spared, Dispensable, FilterSnapshotsByInterval
  <2>1. Ahead(d)
    BY <1>1 DEF Ahead
  <2>2. Spared(plan[d].cleanup[f], snaps[d], plan[d].send, f)
    BY <2>1 DEF Before, RunInv, SparesOK
  <2>3. plan[d].send \in SUBSET Snapshot
    BY HostTypes DEF Before, Typed, DatasetPlan
  <2> QED
    BY <1>1, <2>2, <2>3, PlanSpares DEF Before, RunInv
<1> QED
  BY <1>2, <1>3, <1>4, <1>7, <1>8 DEF RunInv

\* The process ends, in good order or anywhere.
LEMMA RunEnds ==
    ASSUME Ended
    PROVE  RunInv'
BY DEF Ended, RunInv, CurOK, ListingOK, PlansOK, Listed, SendingOK, CleaningOK,
       ProcessedOK, RenamedOK, Processed, SparesOK, Ahead

\* A step that leaves the hosts alone.
LEMMA Untouched ==
    ASSUME TypeInv, HostInv, UNCHANGED <<src, taken, exists, snaps, token, old>>
    PROVE  HostStep
BY DEF HostStep, Moved, Moves, HostInv, Contiguous

\* Discovery lists the source.
LEMMA ListsSource ==
    ASSUME Before, DiscoverSource
    PROVE  RunInv'
<1>1. cur' = 1 /\ pc' = "target" /\ seen' = src /\ UNCHANGED <<src, taken>>
  BY DEF DiscoverSource, Before, RunInv, CurOK, source
<1>2. ListingOK'
  BY <1>1 DEF ListingOK, Before, HostInv
<1> QED
  BY <1>1, <1>2 DEF RunInv, CurOK, PlansOK, Listed, SendingOK, CleaningOK,
     ProcessedOK, RenamedOK, Processed, SparesOK, Ahead

\* Each plan is made from what was listed of the target, or of a target that
\* is only just being received, or without the target.
LEMMA ListsTarget ==
    ASSUME NFilter = 1, Before, pc = "target", pc' = "root",
           UNCHANGED <<source, target, seen, cur>>,
           \A d \in Dataset : \E e \in BOOLEAN : \E T \in {snaps[d], {}} :
               plan'[d] = buildDatasetPlan(seen[d], e, T)
    PROVE  RunInv'
<1>1. UNCHANGED <<src, taken, snaps, seen>> /\ cur' = 1
  BY DEF source, target, Before, RunInv, CurOK
<1>2. ASSUME NEW d \in Dataset
      PROVE  /\ PlanOK(plan'[d], seen[d], src[d], snaps[d])
             /\ \A f \in Filter : plan'[d].cleanup[f] \subseteq 1 .. taken[d]
             /\ \A f \in Filter : Spared(plan'[d].cleanup[f], snaps[d], plan'[d].send, f)
  <2>1. PICK e \in BOOLEAN, T \in {snaps[d], {}} : plan'[d] = buildDatasetPlan(seen[d], e, T)
    OBVIOUS
  <2>2. /\ seen[d] \in SUBSET Snapshot /\ src[d] \in SUBSET Snapshot
        /\ snaps[d] \in SUBSET Snapshot
    BY HostTypes DEF Before, Typed
  <2>3. /\ \A x \in snaps[d] : Match[x] # {}
        /\ Gapless(src[d], snaps[d]) /\ snaps[d] \subseteq 1 .. taken[d]
    BY DEF Before, HostInv
  <2>4. CASE T = snaps[d]
    <3>1. plan'[d] = buildDatasetPlan(seen[d], e, snaps[d])
      BY <2>1, <2>4
    <3>2. \A f \in Filter : plan'[d].cleanup[f] \subseteq snaps[d]
      BY <3>1 DEF buildDatasetPlan, SkipPlan, FullPlan, NoCleanup, IncrementalPlan,
         buildCleanup, OldestOf, FilterSnapshotsByInterval
    <3> QED
      BY <2>2, <2>3, <3>1, <3>2, FreshPlan, FreshSpares
  <2>5. CASE T = {}
    <3>1. plan'[d] = buildDatasetPlan(seen[d], e, {})
      BY <2>1, <2>5
    <3>2. PlanOK(plan'[d], seen[d], src[d], snaps[d]) /\ plan'[d].cleanup = NoCleanup
      <4>1. /\ PlanOK(buildDatasetPlan(seen[d], e, {}), seen[d], src[d], snaps[d])
            /\ buildDatasetPlan(seen[d], e, {}).cleanup = NoCleanup
        BY <2>2, BlindPlan
      <4> QED
        BY <3>1, <4>1
    <3>3. \A f \in Filter : plan'[d].cleanup[f] = {}
      BY <3>2 DEF NoCleanup
    <3> QED
      BY <3>2, <3>3 DEF Spared, Dispensable
  <2> QED
    BY <2>1, <2>4, <2>5
<1>3. PlansOK' /\ SparesOK'
  BY <1>1, <1>2, ZenonT(60) DEF PlansOK, SparesOK, PlanOK, SendsSuffix, Lowest, Reached, Spared,
     Dispensable, FilterSnapshots, FilterSnapshotsByInterval
<1>4. ListingOK'
  BY <1>1 DEF Before, RunInv, ListingOK
<1> QED
  BY <1>1, <1>3, <1>4 DEF RunInv, CurOK, SendingOK, CleaningOK, ProcessedOK, RenamedOK,
     Processed

\* The root is there, or cannot be created; the loop has come to its end.
LEMMA PhaseSteps ==
    ASSUME Before, Typed', Clear', CreateRoot \/ CreateRootFails \/ FinishPlan, name' = name
    PROVE  RunInv'
<1>1. /\ UNCHANGED <<src, taken, exists, snaps, token, old, seen, plan, cur, syncErr>>
      /\ pc \in {"root", "dataset"} /\ pc' \in {"dataset", "done"}
  BY DEF CreateRoot, CreateRootFails, FinishPlan, source, target, results
<1>2. HostStep /\ Listed /\ Listed' /\ pc # "idle"
  BY <1>1, Untouched DEF Before, Typed, Listed
<1>3. CurOK' /\ SendingOK' /\ CleaningOK'
  BY <1>1 DEF CurOK, SendingOK, CleaningOK
<1>4. ListingOK' /\ PlansOK'
  BY <1>1, <1>2, ListingStays, PlanStays DEF Before, Typed, RunInv
<1>5. \A d \in Dataset : Goal(d)' = Goal(d)
  BY <1>1 DEF Goal
<1>6. ASSUME NEW d \in Dataset, Processed(d)' PROVE Processed(d)
  <2>1. CASE CreateRoot
    <3>1. cur = 1 /\ ~(d < 1) /\ pc' = "dataset"
      BY <2>1 DEF CreateRoot, Before, RunInv, CurOK, Dataset
    <3> QED
      BY <1>1, <1>6, <3>1 DEF Processed
  <2>2. CASE CreateRootFails
    BY <1>6, <2>2 DEF CreateRootFails, Processed
  <2>3. CASE FinishPlan
    <3>1. cur > NDataset /\ cur \in Int /\ pc = "dataset"
      BY <2>3 DEF FinishPlan, Before, Typed, TypeInv, TypeOK
    <3>2. d < cur
      BY <3>1, ReplicationAssumption DEF Dataset
    <3> QED
      BY <3>1, <3>2 DEF Processed
  <2> QED
    BY <2>1, <2>2, <2>3
<1>7. ProcessedOK' /\ RenamedOK'
  <2>1. ASSUME NEW d \in Dataset, Processed(d)'
        PROVE  /\ d \in syncErr \/ FilterSnapshots(seen[d]) = {} \/ Reached(snaps'[d], Goal(d))
               /\ plan[d].action = "reinitialize" => d \in syncErr \/ old'[d] = name[d] + 1
    BY <1>1, <1>2, <1>6, <2>1, ProcessedStays
  <2> HIDE DEF Goal, Processed
  <2> QED
    BY <1>1, <1>5, <2>1 DEF ProcessedOK, RenamedOK, Reached, FilterSnapshots
<1>8. SparesOK'
  <2> SUFFICES ASSUME OldestFirst, NEW f \in Filter, NEW d \in Dataset, Ahead(d)'
               PROVE  Spared(plan[d].cleanup[f], snaps[d], plan[d].send, f)
    BY <1>1 DEF SparesOK, Spared, Dispensable, FilterSnapshotsByInterval
  <2>1. Ahead(d)
    BY <1>1 DEF Ahead, CreateRoot, CreateRootFails, FinishPlan
  <2> QED
    BY <2>1 DEF Before, RunInv, SparesOK
<1> QED
  BY <1>3, <1>4, <1>7, <1>8 DEF RunInv

\* The first snapshot of a plan is on its way, to the target or to the place
\* of the one renamed.
LEMMA SendStarts ==
    ASSUME Before, Typed', Clear', HostStep, pc = "dataset", pc' = "send", cur \in Dataset,
           plan[cur].action # "skip", queue' = plan[cur].send, base' = plan[cur].common,
           UNCHANGED <<seen, plan, cur, syncErr, name>>,
           plan[cur].action = "reinitialize" => old'[cur] = name[cur] + 1
    PROVE  RunInv'
<1>1. Listed /\ Listed' /\ pc # "idle"
  BY DEF Listed
<1>2. CurOK' /\ CleaningOK'
  BY DEF CurOK, CleaningOK
<1>3. ListingOK' /\ PlansOK'
  BY <1>1, ListingStays, PlanStays DEF Before, Typed, RunInv
<1>4. SendingOK'
  <2>1. PlanOK(plan[cur], seen[cur], src[cur], snaps[cur])
    BY <1>1 DEF Before, RunInv, PlansOK
  <2>2. SendsSuffix(plan[cur].send, seen[cur])
    BY <2>1 DEF PlanOK
  <2>3. plan[cur] \in DatasetPlan
    BY HostTypes DEF Before, Typed
  <2>4. /\ \A q \in plan[cur].send : plan[cur].common < q
        /\ plan[cur].common # None =>
             \A y \in FilterSnapshots(seen[cur]) : plan[cur].common < y => y \in plan[cur].send
    <3>1. CASE plan[cur].action = "incremental"
      BY <2>1, <3>1 DEF PlanOK
    <3>2. CASE plan[cur].action # "incremental"
      <4>1. plan[cur].action \in {"initial", "reinitialize"}
        BY <2>3, <3>2 DEF DatasetPlan
      <4>2. plan[cur].common = 0 /\ plan[cur].send \in SUBSET Snapshot
        BY <2>1, <2>3, <4>1 DEF PlanOK, DatasetPlan, None
      <4> QED
        BY <4>2 DEF Snapshot, None
    <3> QED
      BY <3>1, <3>2
  <2> QED
    BY <2>2, <2>4 DEF SendingOK, SendsSuffix, FilterSnapshots
<1>5. \A d \in Dataset : Goal(d)' = Goal(d)
  BY DEF Goal
<1>6. ASSUME NEW d \in Dataset, Processed(d)'
      PROVE  /\ d \in syncErr \/ FilterSnapshots(seen[d]) = {} \/ Reached(snaps'[d], Goal(d))
             /\ plan[d].action = "reinitialize" => d \in syncErr \/ old'[d] = name[d] + 1
  <2>1. Processed(d)
    BY <1>6 DEF Processed
  <2> QED
    BY <1>1, <2>1, ProcessedStays
<1>7. ProcessedOK' /\ RenamedOK'
  <2> HIDE DEF Goal, Processed
  <2> QED
    BY <1>5, <1>6 DEF ProcessedOK, RenamedOK, Reached, FilterSnapshots
<1>8. SparesOK'
  <2> SUFFICES ASSUME OldestFirst, NEW f \in Filter, NEW d \in Dataset, d = cur \/ cur < d
               PROVE  Spared(plan[d].cleanup[f], snaps'[d], plan[d].send, f)
    BY DEF SparesOK, Spared, Dispensable, FilterSnapshotsByInterval, Ahead
  <2>1. Ahead(d)
    BY DEF Ahead, Dataset
  <2>2. Spared(plan[d].cleanup[f], snaps[d], plan[d].send, f)
    BY <2>1 DEF Before, RunInv, SparesOK
  <2>3. plan[d].send \in SUBSET Snapshot
    BY HostTypes DEF Before, Typed, DatasetPlan
  <2> QED
    BY <1>1, <2>2, <2>3, PlanSpares DEF Before, RunInv
<1> QED
  BY <1>2, <1>3, <1>4, <1>7, <1>8 DEF RunInv

\* The stream that arrives is of the next snapshot.  It follows on the newest
\* common snapshot, and nothing on the target is newer than it.
LEMMA WhatCompletes ==
    ASSUME ~Resumable, Before, pc = "send", CanTransfer, Complete
    PROVE  /\ cur \in Dataset /\ Sending \in Snapshot /\ Match[Sending] # {}
           /\ Sending \in src[cur] /\ Sending \notin snaps[cur]
           /\ snaps' = [snaps EXCEPT ![cur] = {x \in @ : x <= base} \cup {Sending}]
           /\ exists' = [exists EXCEPT ![cur] = TRUE]
           /\ token' = [token EXCEPT ![cur] = NoToken]
           /\ base = None => snaps[cur] = {}
           /\ base # None =>
                /\ base \in src[cur] /\ base \in snaps[cur] /\ base < Sending
                /\ \A x \in src[cur] \cap snaps[cur] : x <= base
           /\ \A x \in snaps[cur] : x < Sending
           /\ \A b \in snaps[cur] : \A q \in FilterSnapshots(src[cur]) :
                b < q /\ q < Sending => q \in snaps[cur]
<1>1. /\ cur \in Dataset /\ queue # {} /\ queue \in SUBSET Snapshot
      /\ base \in Snapshot \cup {None}
  BY DEF Before, Typed, TypeInv, TypeOK, WorkLeft, Dataset
<1>2. /\ Sending \in queue /\ Sending \in Snapshot /\ \A q \in queue : Sending <= q
  BY <1>1, MinOfSnapshots DEF Sending
<1>3. /\ src[cur] \in SUBSET Snapshot /\ snaps[cur] \in SUBSET Snapshot
      /\ seen[cur] \in SUBSET Snapshot
  BY <1>1, HostTypes DEF Before, Typed
<1>4. /\ queue \subseteq FilterSnapshots(seen[cur]) /\ \A q \in queue : base < q
      /\ base # None => \A y \in FilterSnapshots(seen[cur]) : base < y => y \in queue
      /\ \A s \in queue : \A y \in FilterSnapshots(seen[cur]) : s < y => y \in queue
  BY DEF Before, RunInv, SendingOK, SendsSuffix
<1>5. /\ CurrentStream = Stream(Sending, base)
      /\ CurrentStream.snap = Sending /\ CurrentStream.base = base
  BY DEF CurrentStream, Resuming, Stream
<1>6. /\ Sending \in src[cur] /\ (base # None => base \in src[cur])
      /\ Receivable(CurrentStream, exists[cur], snaps[cur], token[cur])
  BY <1>5 DEF CanTransfer, Sendable, Resuming, None
<1>7. /\ ~exists[cur] => snaps[cur] = {}
      /\ \A x \in snaps[cur] : Match[x] # {}
      /\ Gapless(src[cur], snaps[cur])
  BY <1>1 DEF Before, HostInv
<1>8. /\ base = None => snaps[cur] = {}
      /\ base # None => base \in snaps[cur]
      /\ Sending \notin snaps[cur]
  BY <1>5, <1>6, <1>7 DEF Receivable, None
<1>9. Match[Sending] # {} /\ Sending \in seen[cur] /\ Sending \in FilterSnapshots(src[cur])
  <2>1. Sending \in FilterSnapshots(seen[cur])
    BY <1>2, <1>4
  <2> QED
    BY <1>6, <2>1 DEF FilterSnapshots
<1>10. /\ snaps' = [snaps EXCEPT ![cur] = {x \in @ : x <= base} \cup {Sending}]
       /\ exists' = [exists EXCEPT ![cur] = TRUE]
       /\ token' = [token EXCEPT ![cur] = NoToken]
  BY <1>5 DEF Complete, Received
<1>11. base < Sending /\ Sending \in Int /\ base \in Int /\ \A x \in snaps[cur] \cup src[cur] : x \in Int
  BY <1>1, <1>2, <1>3, <1>4 DEF Snapshot, None
<1>12. ASSUME NEW x \in snaps[cur] PROVE x < Sending
  <2>1. base # None /\ base \in snaps[cur] /\ x # Sending
    BY <1>8
  <2>2. Sending < x => Sending \in snaps[cur]
    BY <1>7, <1>9, <1>11, <2>1 DEF Gapless
  <2> QED
    BY <1>8, <1>11, <2>1, <2>2
<1>13. \A x \in src[cur] \ seen[cur] : Sending < x
  BY <1>1, <1>9 DEF Before, RunInv, ListingOK
<1>14. ASSUME base # None, NEW x \in src[cur], x \in snaps[cur] PROVE x <= base
  <2>1. x < Sending
    BY <1>12, <1>14
  <2>2. x \in FilterSnapshots(seen[cur])
    BY <1>7, <1>11, <1>13, <1>14, <2>1 DEF FilterSnapshots
  <2>3. base < x => Sending <= x
    BY <1>2, <1>4, <1>14, <2>2
  <2> QED
    BY <1>11, <2>1, <2>3
<1>15. ASSUME NEW b \in snaps[cur], NEW q \in FilterSnapshots(src[cur]), b < q, q < Sending
       PROVE  q \in snaps[cur]
  <2>1. base # None /\ base \in snaps[cur]
    BY <1>8
  <2>2. q \in src[cur] /\ Match[q] # {} /\ q \in Int
    BY <1>11 DEF FilterSnapshots
  <2>3. q \in FilterSnapshots(seen[cur])
    BY <1>11, <1>13, <1>15, <2>2 DEF FilterSnapshots
  <2>4. ~(base < q)
    BY <1>2, <1>4, <1>11, <1>15, <2>1, <2>2, <2>3
  <2>5. q = base \/ q < base
    BY <1>11, <2>2, <2>4
  <2> QED
    BY <1>7, <1>15, <2>1, <2>5 DEF Gapless
<1>16. base # None =>
         /\ base \in src[cur] /\ base \in snaps[cur] /\ base < Sending
         /\ \A x \in src[cur] \cap snaps[cur] : x <= base
  BY <1>6, <1>8, <1>11, <1>14
<1> QED
  BY <1>1, <1>2, <1>6, <1>8, <1>9, <1>10, <1>12, <1>15, <1>16

\* Whatever an attempt leaves of it, it moves the target on.
LEMMA AttemptMoves ==
    ASSUME ~Resumable, Before, Typed', pc = "send", UNCHANGED <<src, taken, old>>,
           NoEffect \/ (CanTransfer /\ (Partial \/ Complete))
    PROVE  /\ HostStep
           /\ cur \in Dataset /\ Moved(cur)
           /\ CanTransfer /\ Complete => Sending \in src[cur] /\ Sending \in snaps'[cur]
<1>1. cur \in Dataset /\ \A d \in Dataset : ~exists[d] => snaps[d] = {} /\ token[d] = NoToken
  BY DEF Before, Typed, TypeInv, TypeOK, Dataset, HostInv
<1>2. CASE NoEffect
  <2>1. HostStep
    BY <1>2, Untouched DEF NoEffect, Before, Typed
  <2>2. Moved(cur)
    BY <1>1, <1>2 DEF NoEffect, Moved, Moves, Before, HostInv
  <2>3. ~(CanTransfer /\ Complete)
    <3>1. SUFFICES ASSUME CanTransfer, Complete PROVE FALSE
      OBVIOUS
    <3>2. Sending \notin snaps[cur] /\ Sending \in snaps'[cur]
      BY <3>1, <1>1, WhatCompletes DEF Before, Typed, TypeInv, TypeOK
    <3> QED
      BY <1>2, <3>2 DEF NoEffect
  <2> QED
    BY <1>1, <2>1, <2>2, <2>3
<1>3. CASE CanTransfer /\ Partial
  BY <1>3 DEF Partial
<1>4. CASE CanTransfer /\ Complete
  <2>1. /\ Sending \in Snapshot /\ Match[Sending] # {}
        /\ Sending \in src[cur] /\ Sending \notin snaps[cur]
        /\ base = None => snaps[cur] = {}
        /\ base # None =>
             /\ base \in src[cur] /\ base \in snaps[cur] /\ base < Sending
             /\ \A x \in src[cur] \cap snaps[cur] : x <= base
        /\ \A x \in snaps[cur] : x < Sending
        /\ \A b \in snaps[cur] : \A q \in FilterSnapshots(src[cur]) :
             b < q /\ q < Sending => q \in snaps[cur]
    BY <1>4, WhatCompletes
  <2>2. /\ snaps'[cur] = {x \in snaps[cur] : x <= base} \cup {Sending}
        /\ exists'[cur] = TRUE /\ token'[cur] = NoToken
        /\ \A d \in Dataset : d # cur =>
             snaps'[d] = snaps[d] /\ exists'[d] = exists[d] /\ token'[d] = token[d]
    BY <1>1, <1>4, WhatCompletes DEF Before, Typed, TypeInv, TypeOK
  <2>3. \A x \in snaps[cur] : x \in Int /\ base \in Int
    BY <1>1 DEF Before, Typed, TypeInv, TypeOK, Snapshot, None
  <2>4. Arrives(src[cur], snaps[cur], snaps'[cur], Sending)
    <3>1. \A x \in snaps[cur] \ snaps'[cur] :
             x \notin src[cur] /\ \A y \in snaps'[cur] \ {Sending} : y < x
      BY <2>1, <2>2, <2>3
    <3>2. snaps[cur] # {} => \E b \in snaps'[cur] \cap snaps[cur] : b \in src[cur]
      BY <2>1, <2>2, <2>3
    <3> HIDE DEF Sending
    <3> QED
      BY <2>1, <2>2, <3>1, <3>2 DEF Arrives
  <2>5. Moved(cur)
    BY <2>1, <2>2, <2>4 DEF Moved, Moves
  <2>6. \A d \in Dataset : d # cur => Moved(d)
    BY <1>1, <2>2 DEF Moved, Moves, Before, HostInv
  <2>7. OldestFirst => Contiguous'
    BY DEF Before, HostInv, Contiguous
  <2> QED
    BY <1>1, <2>1, <2>2, <2>5, <2>6, <2>7 DEF HostStep
<1> QED
  BY <1>2, <1>3, <1>4

\* The snapshot being sent has arrived: the loop goes on from it, and after
\* the last one to the cleanup.
LEMMA SendGoesOn ==
    ASSUME Before, Typed', Clear', HostStep, pc = "send", cur \in Dataset, Moved(cur),
           Delivered, UNCHANGED <<seen, plan, name>>,
           Sending \in src[cur], Sending \in snaps'[cur]
    PROVE  RunInv'
<1>1. /\ Listed /\ pc # "idle" /\ cur' = cur /\ syncErr' = syncErr
      /\ queue' = queue \ {Sending} /\ base' = Sending
      /\ IF queue' = {} THEN pc' = "cleanup" /\ clean' = plan[cur].cleanup ELSE pc' = "send"
  BY DEF Listed, Delivered
<1>2. Listed' /\ pc' \in {"send", "cleanup"}
  BY <1>1 DEF Listed
<1>3. CurOK'
  BY <1>2 DEF CurOK
<1>4. ListingOK' /\ PlansOK'
  BY <1>1, <1>2, ListingStays, PlanStays DEF Before, Typed, RunInv
<1>5. \A d \in Dataset : Goal(d)' = Goal(d)
  BY DEF Goal
<1>6. ASSUME NEW d \in Dataset, Processed(d)'
      PROVE  /\ d \in syncErr \/ FilterSnapshots(seen[d]) = {} \/ Reached(snaps'[d], Goal(d))
             /\ plan[d].action = "reinitialize" => d \in syncErr \/ old'[d] = name[d] + 1
  <2>1. Processed(d)
    BY <1>1, <1>2, <1>6 DEF Processed
  <2> QED
    BY <1>1, <1>2, <2>1, ProcessedStays
<1>7. ProcessedOK' /\ RenamedOK'
  <2>1. plan[cur].action = "reinitialize" => old'[cur] = name[cur] + 1
    BY DEF Before, RunInv, RenamedOK, Moved
  <2> HIDE DEF Goal, Processed
  <2> QED
    BY <1>1, <1>5, <1>6, <2>1 DEF ProcessedOK, RenamedOK, Reached, FilterSnapshots
<1>8. /\ queue \in SUBSET Snapshot /\ Sending \in queue /\ \A q \in queue : Sending <= q
      /\ Sending \in Snapshot
  <2>1. queue \in SUBSET Snapshot /\ queue # {}
    BY DEF Before, Typed, TypeInv, TypeOK, WorkLeft
  <2> QED
    BY <2>1, MinOfSnapshots DEF Sending
<1>9. /\ queue \subseteq FilterSnapshots(seen[cur]) /\ Goal(cur) \in queue
      /\ \A s \in queue : \A y \in FilterSnapshots(seen[cur]) : s < y => y \in queue
      /\ queue \subseteq plan[cur].send
  BY DEF Before, RunInv, SendingOK, SendsSuffix, Goal
<1>10. SparesOK'
  <2> SUFFICES ASSUME OldestFirst, NEW f \in Filter
               PROVE  /\ \A d \in Dataset :
                           cur < d => Spared(plan[d].cleanup[f], snaps'[d], plan[d].send, f)
                      /\ pc' = "send" => Spared(plan[cur].cleanup[f], snaps'[cur], queue', f)
                      /\ pc' = "cleanup" => Spared(clean'[f], snaps'[cur], {}, f)
    BY <1>1, <1>2 DEF SparesOK, Spared, Dispensable, FilterSnapshotsByInterval, Ahead
  <2>1. ASSUME NEW d \in Dataset, cur < d
        PROVE  Spared(plan[d].cleanup[f], snaps'[d], plan[d].send, f)
    <3>1. Spared(plan[d].cleanup[f], snaps[d], plan[d].send, f)
      BY <2>1 DEF Before, RunInv, SparesOK, Ahead
    <3>2. plan[d].send \in SUBSET Snapshot
      BY HostTypes DEF Before, Typed, DatasetPlan
    <3> QED
      BY <1>1, <1>2, <3>1, <3>2, PlanSpares DEF Before, RunInv
  <2>2. Spared(plan[cur].cleanup[f], snaps'[cur], queue, f)
    <3>1. Spared(plan[cur].cleanup[f], snaps[cur], queue, f)
      BY DEF Before, RunInv, SparesOK
    <3> QED
      BY <1>1, <1>2, <1>8, <3>1, PlanSpares DEF Before, RunInv
  <2>3. snaps'[cur] \cup queue' = snaps'[cur] \cup queue
    BY <1>1
  <2>4. Spared(plan[cur].cleanup[f], snaps'[cur], queue', f)
    BY <2>2, <2>3 DEF Spared
  <2> QED
    BY <1>1, <2>1, <2>4
<1>11. CASE queue' = {}
  <2>1. pc' = "cleanup" /\ clean' = plan[cur].cleanup /\ Sending = Goal(cur)
    BY <1>1, <1>9, <1>11
  <2>2. Reached(snaps'[cur], Goal(cur))
    BY <1>8, <2>1 DEF Reached, Snapshot
  <2>3. /\ PlanOK(plan[cur], seen[cur], src[cur], snaps[cur])
        /\ PlanOK(plan[cur], seen[cur], src'[cur], snaps'[cur])
    BY <1>1, <1>2, <1>4, ZenonT(60) DEF Before, RunInv, PlansOK, PlanOK, SendsSuffix, Lowest, Reached,
       FilterSnapshots
  <2>4. ASSUME NEW f \in Filter
        PROVE  /\ Lowest(plan[cur].cleanup[f], src'[cur], snaps'[cur])
               /\ \A z \in plan[cur].cleanup[f] : z < Goal(cur)
    BY <2>1, <2>3 DEF PlanOK, Goal
  <2>5. SendingOK'
    BY <2>1 DEF SendingOK
  <2>6. Goal(cur)' = Goal(cur) /\ FilterSnapshots(seen[cur]) # {}
    BY <1>1, <1>9 DEF Goal
  <2>7. CleaningOK'
    <3> HIDE DEF Goal
    <3> QED
      BY <1>1, <2>1, <2>2, <2>4, <2>6 DEF CleaningOK, Reached, Lowest, FilterSnapshots
  <2> QED
    BY <1>3, <1>4, <1>7, <1>10, <2>5, <2>7 DEF RunInv
<1>12. CASE queue' # {}
  <2>1. pc' = "send"
    BY <1>1, <1>12
  <2>2. \A q \in queue' : Sending < q /\ q \in queue
    BY <1>1, <1>8 DEF Snapshot
  <2>3. PICK q \in queue' : TRUE
    BY <1>12
  <2>4. \A y \in FilterSnapshots(seen[cur]) : y \in Int /\ y <= Goal(cur)
    <3>1. FilterSnapshots(seen[cur]) \in SUBSET Snapshot /\ FilterSnapshots(seen[cur]) # {}
      BY <1>9, HostTypes DEF Before, Typed, FilterSnapshots
    <3> QED
      BY <3>1, GoalType DEF Before, Typed, Snapshot
  <2>5. Goal(cur) # Sending
    <3>1. q \in FilterSnapshots(seen[cur]) /\ Sending < q
      BY <1>9, <2>2
    <3>2. q \in Int /\ q <= Goal(cur) /\ Sending \in Int
      BY <1>8, <2>4, <3>1 DEF Snapshot
    <3> HIDE DEF Goal
    <3> QED
      BY <3>1, <3>2
  <2>6. \A y \in FilterSnapshots(seen[cur]) : Sending < y => y \in queue'
    BY <1>1, <1>8, <1>9, <2>4 DEF Snapshot
  <2>7. \A s \in queue' : \A y \in FilterSnapshots(seen[cur]) : s < y => y \in queue'
    <3> TAKE s \in queue'
    <3> TAKE y \in FilterSnapshots(seen[cur])
    <3>1. Sending < s /\ Sending \in Int /\ s \in Int /\ y \in Int
      BY <1>8, <2>2, <2>4 DEF Snapshot
    <3> QED
      BY <2>6, <3>1
  <2>8. SendingOK'
    BY <1>1, <1>9, <2>2, <2>5, <2>6, <2>7 DEF SendingOK, SendsSuffix, Goal, FilterSnapshots
  <2>9. CleaningOK'
    BY <2>1 DEF CleaningOK
  <2> QED
    BY <1>3, <1>4, <1>7, <1>10, <2>8, <2>9 DEF RunInv
<1> QED
  BY <1>11, <1>12

\* An attempt, reported as successful or as failed.
LEMMA AttemptSteps ==
    ASSUME ~Resumable, Before, Typed', Clear', SendSucceeds \/ SendRefused \/ SendFails, name' = name
    PROVE  HostStep /\ RunInv'
<1>1. /\ pc = "send" /\ UNCHANGED <<src, taken, old, seen, plan, execErr, name>>
      /\ NoEffect \/ (CanTransfer /\ (Partial \/ Complete))
  BY DEF SendSucceeds, SendRefused, SendFails, NoEffect, source, target
<1>2. /\ HostStep /\ cur \in Dataset /\ Moved(cur)
      /\ CanTransfer /\ Complete => Sending \in src[cur] /\ Sending \in snaps'[cur]
  BY <1>1, AttemptMoves
<1>3. CASE SendSucceeds
  <2>1. Sending \in src[cur] /\ Sending \in snaps'[cur]
    <3>1. CASE CanTransfer /\ Complete
      BY <1>2, <3>1
    <3>2. CASE /\ ~Resuming /\ Sendable(CurrentStream, src[cur])
               /\ AlreadyThere(CurrentStream, snaps[cur], token[cur]) /\ NoEffect
      BY <3>2 DEF Sendable, AlreadyThere, CurrentStream, Stream, NoEffect
    <3> QED
      BY <1>3, <3>1, <3>2 DEF SendSucceeds
  <2> QED
    BY <1>1, <1>2, <1>3, <2>1, SendGoesOn DEF SendSucceeds
<1>4. CASE SendRefused \/ SendFails
  <2>1. NotDelivered
    BY <1>4 DEF SendRefused, SendFails
  <2>2. CASE attempt < Attempts
    <3>1. UNCHANGED <<pc, cur, queue, base, clean, syncErr>>
      BY <2>1, <2>2 DEF NotDelivered
    <3> QED
      BY <1>1, <1>2, <3>1, RunStays
  <2>3. CASE ~(attempt < Attempts)
    <3>1. SyncFailed
      BY <2>1, <2>3 DEF NotDelivered
    <3> QED
      BY <1>1, <1>2, <3>1, LoopGoesOn DEF SyncFailed
  <2> QED
    BY <2>2, <2>3
<1> QED
  BY <1>3, <1>4

\* A destroy takes the oldest snapshot of the target, and not the only one.
LEMMA WhatIsDestroyed ==
    ASSUME Before, Typed', Destroy
    PROVE  LET z == Destroying
           IN  /\ cur \in Dataset /\ CleanupInterval \in Filter /\ z \in clean[CleanupInterval]
               /\ z \in snaps[cur] /\ \A x \in snaps[cur] : z <= x
               /\ \E m \in snaps[cur] : z < m
               /\ snaps' = [snaps EXCEPT ![cur] = @ \ {z}]
               /\ clean' = [clean EXCEPT ![CleanupInterval] = @ \ {z}]
               /\ Moved(cur) /\ HostStep
<1>1. /\ pc = "cleanup" /\ clean # NoCleanup /\ cur \in Dataset
      /\ Destroying \in snaps[cur]
      /\ snaps' = [snaps EXCEPT ![cur] = @ \ {Destroying}]
      /\ clean' = [clean EXCEPT ![CleanupInterval] = @ \ {Destroying}]
      /\ UNCHANGED <<src, taken, exists, token, old>>
  BY DEF Destroy, Destroyable, source, Before, Typed, TypeInv, TypeOK, Dataset
<1>2. CleanupInterval \in Filter /\ clean[CleanupInterval] # {}
  <2>1. {f \in Filter : clean[f] # {}} # {}
    BY <1>1 DEF Before, Typed, TypeInv, TypeOK, NoCleanup
  <2>2. CleanupInterval \in {f \in Filter : clean[f] # {}}
    BY <2>1, MinOfNaturals DEF CleanupInterval, Filter
  <2> QED
    BY <2>2
<1>3. /\ Destroying \in clean[CleanupInterval] /\ Destroying \in Snapshot
      /\ \A y \in clean[CleanupInterval] : Destroying <= y
  <2>1. clean[CleanupInterval] \in SUBSET Snapshot
    BY <1>2 DEF Before, Typed, TypeInv, TypeOK
  <2> QED
    BY <1>2, <2>1, MinOfSnapshots DEF Destroying
<1>4. snaps[cur] \in SUBSET Snapshot /\ snaps'[cur] \in SUBSET Snapshot
  BY <1>1 DEF Before, Typed, TypeInv, TypeOK
<1>5. /\ FilterSnapshots(seen[cur]) # {} /\ Reached(snaps[cur], Goal(cur))
      /\ Lowest(clean[CleanupInterval], src[cur], snaps[cur])
      /\ Destroying < Goal(cur)
  BY <1>1, <1>2, <1>3 DEF Before, RunInv, CleaningOK
<1>6. \A x \in snaps[cur] : Destroying <= x
  <2>1. SUFFICES ASSUME NEW x \in snaps[cur], x < Destroying PROVE FALSE
    BY <1>3, <1>4 DEF Snapshot
  <2>2. ~\A t \in snaps[cur] : Destroying < t
    BY <1>1, <1>3 DEF Snapshot
  <2>3. x \in clean[CleanupInterval]
    BY <1>1, <1>3, <1>5, <2>1, <2>2 DEF Lowest
  <2> QED
    BY <1>3, <1>4, <2>1, <2>3 DEF Snapshot
<1>7. \E m \in snaps[cur] : Destroying < m
  <2>1. Goal(cur) \in Int
    BY <1>1, <1>5, GoalType DEF Before, Typed
  <2>2. PICK m \in snaps[cur] : m >= Goal(cur)
    BY <1>5 DEF Reached
  <2>3. Destroying \in Int /\ m \in Int
    BY <1>3, <1>4 DEF Snapshot
  <2> HIDE DEF Goal
  <2> QED
    BY <1>5, <2>1, <2>2, <2>3
<1>8. snaps'[cur] = snaps[cur] \ {Destroying} /\ \A d \in Dataset : d # cur => snaps'[d] = snaps[d]
  BY <1>1 DEF Before, Typed, TypeInv, TypeOK
<1>9. DropsOldest(snaps[cur], snaps'[cur])
  BY <1>1, <1>6, <1>7, <1>8 DEF DropsOldest
<1>10. \A d \in Dataset : token[d] = NoToken /\ (~exists[d] => snaps[d] = {})
  BY DEF Before, HostInv
<1>11. Moved(cur)
  BY <1>1, <1>8, <1>9, <1>10 DEF Moved, Moves
<1>12. HostStep
  <2>1. \A d \in Dataset : d # cur => Moved(d)
    BY <1>1, <1>8, <1>10 DEF Moved, Moves
  <2>2. OldestFirst => Contiguous'
    BY <1>1 DEF Before, HostInv, Contiguous
  <2> QED
    BY <1>11, <2>1, <2>2 DEF HostStep
<1> QED
  BY <1>1, <1>2, <1>3, <1>6, <1>7, <1>11, <1>12

\* The cleanup: on to the next snapshot to destroy, or to the next dataset.
LEMMA CleaningSteps ==
    ASSUME Before, Typed', Clear', Destroy \/ DestroyFails \/ FinishDataset, name' = name
    PROVE  HostStep /\ RunInv'
<1>1. /\ pc = "cleanup" /\ cur \in Dataset
      /\ UNCHANGED <<src, taken, exists, token, old, seen, plan, syncErr, execErr, name>>
  BY DEF Destroy, DestroyFails, FinishDataset, source, target, results,
     Before, Typed, TypeInv, TypeOK, Dataset
<1>2. CASE DestroyFails \/ FinishDataset
  <2>1. UNCHANGED snaps /\ pc' = "dataset" /\ cur' = cur + 1
    BY <1>2 DEF DestroyFails, FinishDataset, NextDataset, target
  <2>2. HostStep
    BY <1>1, <2>1, Untouched DEF Before, Typed
  <2>3. /\ Reached(snaps'[cur], Goal(cur))
        /\ plan[cur].action = "reinitialize" => old'[cur] = name[cur] + 1
    BY <1>1, <2>1 DEF Before, RunInv, CleaningOK, RenamedOK
  <2> QED
    BY <1>1, <2>1, <2>2, <2>3, LoopGoesOn
<1>3. CASE Destroy
  <2> DEFINE z == Destroying
             F == CleanupInterval
  <2>1. /\ F \in Filter /\ z \in clean[F] /\ z \in snaps[cur]
        /\ snaps' = [snaps EXCEPT ![cur] = @ \ {z}]
        /\ clean' = [clean EXCEPT ![F] = @ \ {z}]
        /\ Moved(cur) /\ HostStep
    BY <1>3, WhatIsDestroyed
  <2>2. UNCHANGED <<pc, cur, queue, base>> /\ Listed /\ Listed'
    BY <1>1, <1>3 DEF Destroy, transfer, Listed
  <2>3. /\ clean \in [Filter -> SUBSET Snapshot]
        /\ snaps'[cur] = snaps[cur] \ {z}
        /\ clean'[F] = clean[F] \ {z} /\ \A f \in Filter : f # F => clean'[f] = clean[f]
    BY <1>1, <2>1 DEF Before, Typed, TypeInv, TypeOK
  <2> HIDE DEF z, F
  <2>4. CurOK' /\ SendingOK'
    BY <1>1, <2>2 DEF CurOK, SendingOK
  <2>5. ListingOK' /\ PlansOK'
    BY <1>1, <2>1, <2>2, ListingStays, PlanStays DEF Before, Typed, RunInv
  <2>6. \A d \in Dataset : Goal(d)' = Goal(d)
    BY <1>1 DEF Goal
  <2>7. ASSUME NEW d \in Dataset, Processed(d)'
        PROVE  /\ d \in syncErr \/ FilterSnapshots(seen[d]) = {} \/ Reached(snaps'[d], Goal(d))
               /\ plan[d].action = "reinitialize" => d \in syncErr \/ old'[d] = name[d] + 1
    <3>1. Processed(d)
      BY <1>1, <2>2, <2>7 DEF Processed
    <3> QED
      BY <1>1, <2>1, <2>2, <3>1, ProcessedStays
  <2>8. ProcessedOK' /\ RenamedOK'
    <3>1. plan[cur].action = "reinitialize" => old'[cur] = name[cur] + 1
      BY <1>1 DEF Before, RunInv, RenamedOK
    <3> HIDE DEF Goal, Processed
    <3> QED
      BY <1>1, <2>2, <2>6, <2>7, <3>1 DEF ProcessedOK, RenamedOK, Reached, FilterSnapshots
  <2>9. /\ FilterSnapshots(seen[cur]) # {} /\ Reached(snaps[cur], Goal(cur))
        /\ \A f \in Filter : /\ Lowest(clean[f], src[cur], snaps[cur])
                             /\ \A x \in clean[f] : x < Goal(cur)
    BY <1>1 DEF Before, RunInv, CleaningOK
  <2>10. Goal(cur) \in Int /\ Goal(cur) <= taken[cur] /\ taken[cur] \in Nat
    <3>1. Goal(cur) \in Int /\ Goal(cur) \in seen[cur]
      BY <1>1, <2>9, GoalType DEF Before, Typed, FilterSnapshots
    <3> QED
      BY <1>1, <3>1, HostTypes DEF Before, Typed, RunInv, ListingOK
  <2>11. ASSUME NEW f \in Filter PROVE Lowest(clean[f], src'[cur], snaps'[cur])
    <3>1. clean[f] \in SUBSET Snapshot /\ snaps[cur] # {}
      BY <2>1, <2>3
    <3>2. clean[f] \subseteq 1 .. taken[cur]
      BY <2>9, <2>10, <3>1 DEF Snapshot
    <3> QED
      BY <1>1, <2>1, <2>9, <3>1, <3>2, LowestStays DEF Before, Typed
  <2>12. \A f \in Filter : clean'[f] \subseteq clean[f] /\ clean[f] \ clean'[f] \subseteq {z}
    BY <2>3
  <2>13. ASSUME NEW f \in Filter PROVE Lowest(clean'[f], src'[cur], snaps'[cur])
    BY <2>3, <2>11, <2>12 DEF Lowest
  <2>14. CleaningOK'
    <3>1. Reached(snaps'[cur], Goal(cur))
      BY <1>1, <2>1, <2>9, <2>10, ReachedStays DEF Before, Typed
    <3>2. Goal(cur)' = Goal(cur)
      BY <1>1, <2>2 DEF Goal
    <3> HIDE DEF Goal
    <3> QED
      BY <1>1, <2>2, <2>9, <2>12, <2>13, <3>1, <3>2 DEF CleaningOK, Reached, Lowest, FilterSnapshots
  <2>15. SparesOK'
    <3> SUFFICES ASSUME OldestFirst, NEW f \in Filter
                 PROVE  /\ \A d \in Dataset :
                             cur < d => Spared(plan[d].cleanup[f], snaps'[d], plan[d].send, f)
                        /\ Spared(clean'[f], snaps'[cur], {}, f)
      BY <1>1, <2>2 DEF SparesOK, Spared, Dispensable, FilterSnapshotsByInterval, Ahead
    <3>1. ASSUME NEW d \in Dataset, cur < d
          PROVE  Spared(plan[d].cleanup[f], snaps'[d], plan[d].send, f)
      <4>1. Spared(plan[d].cleanup[f], snaps[d], plan[d].send, f)
        BY <1>1, <3>1 DEF Before, RunInv, SparesOK, Ahead
      <4>2. plan[d].send \in SUBSET Snapshot
        BY HostTypes DEF Before, Typed, DatasetPlan
      <4> QED
        BY <1>1, <2>1, <2>2, <4>1, <4>2, PlanSpares DEF Before, RunInv
    <3>2. Spared(clean[f], snaps'[cur], {}, f)
      <4>1. Spared(clean[f], snaps[cur], {}, f) /\ snaps[cur] # {}
        BY <1>1, <2>1 DEF Before, RunInv, SparesOK
      <4>2. clean[f] \in SUBSET Snapshot
        BY <2>3
      <4> QED
        BY <1>1, <2>1, <2>9, <4>1, <4>2, SparedStays DEF Before, Typed
    <3>3. clean'[f] \cap snaps'[cur] = clean[f] \cap snaps'[cur]
      BY <2>3, <2>12
    <3>4. Spared(clean'[f], snaps'[cur], {}, f)
      BY <3>2, <3>3 DEF Spared
    <3> QED
      BY <3>1, <3>4
  <2> QED
    BY <2>1, <2>4, <2>5, <2>8, <2>14, <2>15 DEF RunInv
<1> QED
  BY <1>2, <1>3

-----------------------------------------------------------------------------
(* The types.                                                              *)

HostTyped ==
    /\ src \in [Dataset -> SUBSET Snapshot] /\ taken \in [Dataset -> 0 .. MaxSnap]
    /\ root \in BOOLEAN /\ exists \in [Dataset -> BOOLEAN]
    /\ snaps \in [Dataset -> SUBSET Snapshot]
    /\ token \in [Dataset -> StreamType] /\ old \in [Dataset -> Nat]
    /\ faults \in 0 .. MaxFaults

RunTyped ==
    /\ pc \in {"idle", "target", "root", "dataset", "send", "cleanup", "done"}
    /\ seen \in [Dataset -> SUBSET Snapshot] /\ blind \in BOOLEAN
    /\ plan \in [Dataset -> DatasetPlan]
    /\ cur \in 1 .. NDataset + 1
    /\ queue \in SUBSET Snapshot /\ base \in Snapshot \cup {None}
    /\ attempt \in 1 .. Attempts /\ clean \in [Filter -> SUBSET Snapshot]
    /\ syncErr \subseteq Dataset /\ cleanErr \subseteq Dataset /\ execErr \in BOOLEAN
    /\ pc \in {"send", "cleanup"} => cur <= NDataset
    /\ WorkLeft
    /\ name \in [Dataset -> Nat]

LEMMA TypedParts == Typed <=> HostTyped /\ RunTyped
BY DEF Typed, TypeInv, TypeOK, HostTyped, RunTyped, StreamType

LEMMA TypedPartsNext == Typed' <=> HostTyped' /\ RunTyped'
BY DEF Typed, TypeInv, TypeOK, HostTyped, RunTyped, StreamType

\* What a run does with the result of an attempt.
LEMMA AttemptTypes ==
    ASSUME Typed, pc = "send", Delivered \/ NotDelivered,
           UNCHANGED <<seen, blind, plan, execErr, name>>
    PROVE  RunTyped'
<1>0. TypeOK /\ RunTyped /\ WorkLeft
  BY TypedParts DEF Typed, TypeInv
<1> USE DEF RunTyped, WorkLeft
<1>1. TypeOK /\ RunTyped /\ cur \in Dataset /\ queue # {} /\ cur <= NDataset
  BY <1>0 DEF Dataset
<1>2. CASE Delivered
  <2>1. Sending \in Snapshot
    BY <1>1, SendType
  <2>2. plan[cur].cleanup \in [Filter -> SUBSET Snapshot]
    BY <1>1 DEF DatasetPlan
  <2>3. 1 \in 1 .. Attempts
    BY ReplicationAssumption DEF Attempts
  <2>4. /\ clean' \in [Filter -> SUBSET Snapshot]
        /\ pc' \in {"send", "cleanup"} /\ (pc' = "send" => queue' # {})
        /\ queue' \in SUBSET Snapshot /\ base' \in Snapshot \cup {None}
    BY <1>1, <1>2, <2>1, <2>2 DEF Delivered
  <2> QED
    BY <1>1, <1>2, <2>3, <2>4 DEF Delivered
<1>3. CASE NotDelivered /\ attempt < Attempts
  <2>1. attempt' \in 1 .. Attempts
    BY <1>1, <1>3, ReplicationAssumption DEF NotDelivered, Attempts
  <2> QED
    BY <1>1, <1>3, <2>1 DEF NotDelivered
<1>4. CASE NotDelivered /\ ~(attempt < Attempts)
  <2>1. SyncFailed
    BY <1>4 DEF NotDelivered
  <2> QED
    BY <1>1, <2>1, SyncFailedType DEF SyncFailed
<1> QED
  BY <1>2, <1>3, <1>4

\* The step of another run leaves this one as it was.
LEMMA IdleTypes ==
    ASSUME Typed, HostTyped',
           UNCHANGED <<pc, seen, blind, plan, cur, queue, base, attempt, clean,
                       syncErr, cleanErr, execErr, name>>
    PROVE  Typed'
<1>1. RunTyped'
  BY TypedParts DEF RunTyped, WorkLeft
<1> QED
  BY <1>1, TypedPartsNext

\* The steps of the run, those of the source, and the rename of a dataset
\* that is being received.
LEMMA OwnTypes ==
    ASSUME Typed,
           \/ Step \/ RenameReceiving
           \/ Environment /\ UNCHANGED <<run, name>>
    PROVE  Typed'
<1>1. ASSUME Next, name' \in [Dataset -> Nat] PROVE Typed'
  <2>1. TypeInv'
    BY <1>1, TypeStep DEF Typed
  <2> QED
    BY <1>1, <2>1 DEF Typed
<1>2. name \in [Dataset -> Nat] /\ old \in [Dataset -> Nat] /\ HostTyped /\ RunTyped
  BY TypedParts DEF HostTyped, RunTyped
<1>3. NamesListed => name' \in [Dataset -> Nat]
  BY <1>2 DEF NamesListed, NoNames
<1>4. CASE OwnStep
  <2>1. Next /\ NamesListed
    BY <1>4 DEF OwnStep, Next
  <2> QED
    BY <1>1, <1>3, <2>1
<1>5. CASE Environment /\ UNCHANGED <<run, name>>
  <2>1. Next /\ name' = name
    BY <1>5 DEF Next
  <2> QED
    BY <1>1, <1>2, <2>1
<1>6. CASE RenameReceiving
  <2>1. Next /\ name' = name
    BY <1>6 DEF RenameReceiving, Next, Run
  <2> QED
    BY <1>1, <1>2, <2>1
<1>7. CASE ListArriving
  <2>1. PICK d \in Dataset : plan' = [Build EXCEPT ![d] = buildDatasetPlan(seen[d], TRUE, {})]
    BY <1>7 DEF ListArriving
  <2>2. \A S \in SUBSET Snapshot : \A T \in SUBSET Snapshot : \A e \in BOOLEAN :
          /\ buildDatasetPlan(S, e, T) \in DatasetPlan
          /\ buildDatasetPlan(S, e, T).action # "skip" => buildDatasetPlan(S, e, T).send # {}
    BY PlanType, PlanSends
  <2>3. /\ plan' \in [Dataset -> DatasetPlan]
        /\ \A c \in Dataset : plan'[c].action # "skip" => plan'[c].send # {}
    <3>1. /\ Build \in [Dataset -> DatasetPlan]
          /\ \A c \in Dataset : Build[c].action # "skip" => Build[c].send # {}
      BY <1>2, <2>2 DEF Build, HostTyped, RunTyped
    <3>2. /\ buildDatasetPlan(seen[d], TRUE, {}) \in DatasetPlan
          /\ buildDatasetPlan(seen[d], TRUE, {}).action # "skip" =>
               buildDatasetPlan(seen[d], TRUE, {}).send # {}
      BY <1>2, <2>2 DEF RunTyped
    <3> QED
      BY <2>1, <3>1, <3>2
  <2>4. /\ pc' = "root" /\ blind' = FALSE
        /\ UNCHANGED <<source, target, faults, seen, cur, transfer, clean, results>>
    BY <1>7 DEF ListArriving
  <2>5. HostTyped'
    BY <1>2, <2>4 DEF HostTyped, source, target
  <2>6. name' \in [Dataset -> Nat]
    BY <1>3, <1>7 DEF ListArriving
  <2>7. RunTyped'
    BY <1>2, <2>3, <2>4, <2>6 DEF RunTyped, WorkLeft, transfer, results
  <2> QED
    BY <2>5, <2>7, TypedPartsNext
<1>8. CASE RenameRefused
  <2>1. /\ SyncFailed /\ cur <= NDataset
        /\ UNCHANGED <<source, target, faults, seen, blind, plan, execErr, name>>
    BY <1>8 DEF RenameRefused, Renaming
  <2>2. HostTyped'
    BY <1>2, <2>1 DEF HostTyped, source, target
  <2>3. RunTyped'
    BY <1>2, <2>1, SyncFailedType DEF Typed, TypeInv, RunTyped, WorkLeft, SyncFailed
  <2> QED
    BY <2>2, <2>3, TypedPartsNext
<1>9. CASE Busy
  <2>1. /\ pc = "send" /\ NotDelivered
        /\ UNCHANGED <<source, target, faults, seen, blind, plan, execErr, name>>
    BY <1>9 DEF Busy
  <2>2. HostTyped'
    BY <1>2, <2>1 DEF HostTyped, source, target
  <2> QED
    BY <2>1, <2>2, AttemptTypes, TypedPartsNext
<1> QED
  BY <1>4, <1>5, <1>6, <1>7, <1>8, <1>9 DEF Step

\* So does the run whose stream is diverted.
LEMMA DivertedTypes ==
    ASSUME Typed, HostTyped', pc = "send", Diverted
    PROVE  Typed'
<1>1. RunTyped'
  BY AttemptTypes DEF Diverted
<1> QED
  BY <1>1, TypedPartsNext

\* It starts well typed, with hosts and run as the invariants have them.
LEMMA StartsWell ==
    ASSUME InitOverlap
    PROVE  Before
<1>1. Init /\ name = NoNames
  BY DEF InitOverlap
<1>2. Typed
  BY <1>1, InitType DEF Typed, NoNames
<1>3. HostInv
  BY <1>1 DEF Init, HostInv, Contiguous, Gapless, Nothing
<1>4. pc = "idle" /\ cur = 1
  BY <1>1 DEF Init
<1>5. RunInv /\ Clear
  BY <1>4 DEF RunInv, CurOK, ListingOK, PlansOK, Listed, SendingOK, CleaningOK,
     ProcessedOK, RenamedOK, Processed, SparesOK, Ahead, Clear, Overtaken
<1> QED
  BY <1>2, <1>3, <1>5 DEF Before

-----------------------------------------------------------------------------
(* The steps together.                                                     *)

\* A run keeps its invariant and moves the hosts in the ways the other one
\* can rely on: one case per action.
LEMMA StepKeeps ==
    ASSUME Plain, Before, Typed', Clear', Step
    PROVE  HostStep /\ RunInv'
<1> USE DEF Plain
<1>0. TypeInv /\ HostInv
  BY DEF Before, Typed
<1>1. CASE OwnStep
  <2>1. NamesListed /\ (old' # old => Renamable) /\ (Run \/ Crash)
    BY <1>1 DEF OwnStep
  <2>2. pc \notin {"idle", "target"} /\ pc' # "idle" => name' = name
    BY <2>1 DEF NamesListed
  <2>3. CASE DiscoverSource
    <3>1. UNCHANGED <<src, taken, exists, snaps, token, old>>
      BY <2>3 DEF DiscoverSource, source, target
    <3> QED
      BY <1>0, <2>3, <3>1, Untouched, ListsSource
  <2>4. CASE DiscoverTargetAndBuild
    <3>1. /\ pc = "target" /\ pc' = "root" /\ UNCHANGED <<source, target, seen, cur>>
          /\ plan' = Build \/ plan' = BuildWithoutTarget
      BY <2>4 DEF DiscoverTargetAndBuild
    <3>2. \A d \in Dataset : exists[d] \in BOOLEAN
      BY <1>0 DEF TypeInv, TypeOK
    <3>3. \A d \in Dataset : \E e \in BOOLEAN : \E T \in {snaps[d], {}} :
              plan'[d] = buildDatasetPlan(seen[d], e, T)
      BY <3>1, <3>2 DEF Build, BuildWithoutTarget
    <3>4. HostStep
      BY <1>0, <3>1, Untouched DEF source, target
    <3> QED
      BY <3>1, <3>3, <3>4, ListsTarget
  <2>5. CASE CreateRoot \/ CreateRootFails \/ FinishPlan
    <3>1. name' = name /\ UNCHANGED <<src, taken, exists, snaps, token, old>>
      BY <2>2, <2>5 DEF CreateRoot, CreateRootFails, FinishPlan, source, target
    <3> QED
      BY <1>0, <2>5, <3>1, Untouched, PhaseSteps
  <2>6. CASE SkipDataset
    <3>1. /\ pc = "dataset" /\ pc' = "dataset" /\ cur \in Dataset /\ cur' = cur + 1
          /\ plan[cur].action = "skip" /\ name' = name
          /\ UNCHANGED <<src, taken, exists, snaps, token, old, seen, plan, syncErr>>
      BY <1>0, <2>2, <2>6 DEF SkipDataset, source, target, results, TypeInv, TypeOK, Dataset
    <3>2. FilterSnapshots(seen[cur]) = {} \/ Reached(snaps'[cur], Goal(cur))
      BY <3>1 DEF Before, RunInv, PlansOK, Listed, PlanOK, Goal
    <3>3. HostStep
      BY <1>0, <3>1, Untouched
    <3> QED
      BY <3>1, <3>2, <3>3, LoopGoesOn
  <2>7. CASE StartSync
    <3>1. /\ pc = "dataset" /\ pc' = "send" /\ cur \in Dataset /\ cur' = cur
          /\ plan[cur].action \in {"initial", "incremental"} /\ name' = name
          /\ queue' = plan[cur].send /\ base' = plan[cur].common
          /\ UNCHANGED <<src, taken, exists, snaps, token, old, seen, plan, syncErr>>
      BY <1>0, <2>2, <2>7 DEF StartSync, source, target, results, TypeInv, TypeOK, Dataset
    <3>2. HostStep
      BY <1>0, <3>1, Untouched
    <3> QED
      BY <3>1, <3>2, SendStarts
  <2>8. CASE Reinitialize
    <3>1. /\ pc = "dataset" /\ pc' = "send" /\ cur \in Dataset /\ cur' = cur
          /\ plan[cur].action = "reinitialize" /\ name' = name
          /\ queue' = plan[cur].send /\ base' = None
          /\ exists' = [exists EXCEPT ![cur] = FALSE] /\ snaps' = [snaps EXCEPT ![cur] = {}]
          /\ token' = [token EXCEPT ![cur] = NoToken] /\ old' = [old EXCEPT ![cur] = @ + 1]
          /\ UNCHANGED <<src, taken, seen, plan, syncErr>>
      BY <1>0, <2>2, <2>8 DEF Reinitialize, source, results, TypeInv, TypeOK, Dataset
    <3>2. plan[cur].common = None
      BY <3>1 DEF Before, RunInv, PlansOK, Listed, PlanOK
    <3>3. /\ snaps'[cur] = {} /\ token'[cur] = NoToken /\ old'[cur] = old[cur] + 1
          /\ \A d \in Dataset : d # cur =>
               /\ exists'[d] = exists[d] /\ snaps'[d] = snaps[d]
               /\ token'[d] = token[d] /\ old'[d] = old[d]
      BY <1>0, <3>1 DEF TypeInv, TypeOK
    <3>4. Renamed(cur) /\ \A d \in Dataset : d # cur => Moved(d)
      BY <1>0, <3>1, <3>3 DEF Renamed, Moved, Moves, HostInv
    <3>5. OldestFirst => Contiguous'
      BY <1>0, <3>1 DEF HostInv, Contiguous
    <3>6. HostStep
      BY <3>4, <3>5 DEF HostStep
    <3>7. old'[cur] = name[cur] + 1
      <4>1. old[cur] \in Nat
        BY <1>0, <3>1 DEF TypeInv, TypeOK
      <4>2. old' # old
        BY <3>3, <4>1
      <4> QED
        BY <2>1, <3>3, <4>2 DEF Renamable
    <3> QED
      BY <3>1, <3>2, <3>6, <3>7, SendStarts
  <2>9. CASE ReinitializeFails
    <3>1. /\ pc = "dataset" /\ cur \in Dataset /\ SyncFailed /\ pc' = "dataset" /\ name' = name
          /\ UNCHANGED <<src, taken, exists, snaps, token, old, seen, plan>>
      BY <1>0, <2>2, <2>9 DEF ReinitializeFails, SyncFailed, source, target, TypeInv, TypeOK, Dataset
    <3>2. HostStep
      BY <1>0, <3>1, Untouched
    <3> QED
      BY <3>1, <3>2, LoopGoesOn DEF SyncFailed
  <2>10. CASE SendSucceeds \/ SendRefused \/ SendFails
    <3>1. name' = name
      BY <2>2, <2>10 DEF SendSucceeds, SendRefused, SendFails, Delivered, NotDelivered, SyncFailed
    <3> QED
      BY <2>10, <3>1, AttemptSteps
  <2>11. CASE Destroy \/ DestroyFails \/ FinishDataset
    <3>1. name' = name
      BY <2>2, <2>11 DEF Destroy, DestroyFails, FinishDataset, NextDataset
    <3> QED
      BY <2>11, <3>1, CleaningSteps
  <2>12. CASE Exit \/ Crash
    <3>1. Ended /\ UNCHANGED <<src, taken, old>>
      BY <2>12 DEF Exit, Crash, source, target
    <3>2. CASE NoEffect
      BY <1>0, <3>1, <3>2, Untouched, RunEnds DEF NoEffect
    <3>3. CASE pc = "send" /\ CanTransfer /\ (Partial \/ Complete)
      BY <3>1, <3>3, AttemptMoves, RunEnds
    <3>4. CASE Exit
      <4>1. NoEffect
        BY <3>4 DEF Exit, target, NoEffect
      <4> QED
        BY <3>2, <4>1
    <3> QED
      BY <2>12, <3>2, <3>3, <3>4 DEF Crash
  <2> QED
    BY <2>1, <2>3, <2>4, <2>5, <2>6, <2>7, <2>8, <2>9, <2>10, <2>11, <2>12 DEF Run
<1>2. CASE ListArriving
  <2>1. PICK d \in Dataset :
           /\ Arriving(d)
           /\ plan' = [Build EXCEPT ![d] = buildDatasetPlan(seen[d], TRUE, {})]
    BY <1>2 DEF ListArriving
  <2>2. pc = "target" /\ pc' = "root" /\ UNCHANGED <<source, target, seen, cur>>
    BY <1>2 DEF ListArriving
  <2>3. snaps[d] = {} /\ \A c \in Dataset : exists[c] \in BOOLEAN
    BY <1>0, <2>1 DEF Arriving, HostInv, TypeInv, TypeOK
  <2>4. \A c \in Dataset : \E e \in BOOLEAN : \E T \in {snaps[c], {}} :
            plan'[c] = buildDatasetPlan(seen[c], e, T)
    BY <2>1, <2>3 DEF Build
  <2>5. HostStep
    BY <1>0, <2>2, Untouched DEF source, target
  <2> QED
    BY <2>2, <2>4, <2>5, ListsTarget
<1>3. CASE RenameRefused
  <2>1. /\ pc = "dataset" /\ cur \in Dataset /\ SyncFailed /\ name' = name
        /\ UNCHANGED <<src, taken, exists, snaps, token, old, seen, plan>>
    BY <1>0, <1>3 DEF RenameRefused, Renaming, source, target, TypeInv, TypeOK, Dataset
  <2>2. HostStep
    BY <1>0, <2>1, Untouched
  <2> QED
    BY <2>1, <2>2, LoopGoesOn DEF SyncFailed
<1>4. CASE Busy
  <2>1. /\ pc = "send" /\ cur \in Dataset /\ NotDelivered
        /\ UNCHANGED <<src, taken, exists, snaps, token, old, seen, plan, execErr, name>>
    BY <1>0, <1>4 DEF Busy, source, target, TypeInv, TypeOK, Dataset
  <2>2. HostStep
    BY <1>0, <2>1, Untouched
  <2>3. CASE attempt < Attempts
    <3>1. UNCHANGED <<pc, cur, queue, base, clean, syncErr>>
      BY <2>1, <2>3 DEF NotDelivered
    <3> QED
      BY <2>1, <2>2, <3>1, RunStays
  <2>4. CASE ~(attempt < Attempts)
    <3>1. SyncFailed
      BY <2>1, <2>4 DEF NotDelivered
    <3> QED
      BY <2>1, <2>2, <3>1, LoopGoesOn DEF SyncFailed
  <2> QED
    BY <2>3, <2>4
<1> QED
  BY <1>1, <1>2, <1>3, <1>4 DEF Step

\* The source takes snapshots newer than all, and loses its oldest.
LEMMA SourceMoves ==
    ASSUME TypeInv, HostInv, NEW d \in Dataset, TakeSnapshot(d) \/ RotateSource(d)
    PROVE  HostStep
<1>1. /\ UNCHANGED <<exists, snaps, token, old>>
      /\ taken[d] \in Nat /\ src[d] \subseteq 1 .. taken[d]
      /\ \A e \in Dataset : taken[e] \in Nat
  BY DEF TakeSnapshot, RotateSource, target, HostInv, TypeInv, TypeOK
<1>2. CASE TakeSnapshot(d)
  <2>1. /\ src'[d] = src[d] \cup {taken[d] + 1} /\ taken'[d] = taken[d] + 1
        /\ \A e \in Dataset : e # d => src'[e] = src[e] /\ taken'[e] = taken[e]
    BY <1>2 DEF TakeSnapshot, TypeInv, TypeOK
  <2>2. \A e \in Dataset : SourceMoved(e)
    BY <1>1, <2>1 DEF SourceMoved
  <2>3. ASSUME OldestFirst PROVE Contiguous'
    <3>1. \A e \in Dataset : \A x \in src[e] : x .. taken[e] \subseteq src[e]
      BY <2>3 DEF HostInv, Contiguous
    <3>2. \A x \in src'[d] : x .. taken'[d] \subseteq src'[d]
      BY <1>1, <2>1, <3>1
    <3> QED
      BY <2>1, <3>1, <3>2 DEF Contiguous
  <2> QED
    BY <2>2, <2>3 DEF HostStep
<1>3. CASE RotateSource(d)
  <2>1. PICK s \in src[d] : Rotates(d, s) /\ src' = [src EXCEPT ![d] = @ \ {s}]
    BY <1>3 DEF RotateSource
  <2>2. /\ src'[d] = src[d] \ {s} /\ taken' = taken
        /\ \A e \in Dataset : e # d => src'[e] = src[e]
    BY <1>3, <2>1 DEF RotateSource, TypeInv, TypeOK
  <2>3. \A e \in Dataset : SourceMoved(e)
    BY <1>1, <2>2 DEF SourceMoved
  <2>4. ASSUME OldestFirst PROVE Contiguous'
    <3>1. \A e \in Dataset : \A x \in src[e] : x .. taken[e] \subseteq src[e]
      BY <2>4 DEF HostInv, Contiguous
    <3>2. \A x \in src[d] : s <= x
      BY <2>1, <2>4 DEF Rotates, OldestFirst
    <3>3. ASSUME NEW x \in src'[d], NEW y \in x .. taken[d] PROVE y \in src'[d]
      <4>1. s <= x /\ x # s /\ s \in Int /\ x \in Int
        BY <1>1, <2>2, <3>2
      <4> QED
        BY <2>2, <3>1, <3>3, <4>1
    <3> QED
      BY <2>2, <3>1, <3>3 DEF Contiguous
  <2> QED
    BY <2>3, <2>4 DEF HostStep
<1> QED
  BY <1>2, <1>3

\* A rename of the dataset a run is receiving into overtakes that run.
LEMMA DivertedIsOvertaken ==
    ASSUME Before, pc = "send", pc' \notin {"idle", "target"}, UNCHANGED <<plan, name>>,
           cur \in Dataset, old'[cur] = old[cur] + 1
    PROVE  \E d \in Dataset : Overtaken(d)'
<1>1. old[cur] \in Nat /\ name[cur] \in Nat
  BY DEF Before, Typed, TypeInv, TypeOK
<1>2. old[cur] = name[cur] \/ (plan[cur].action = "reinitialize" /\ old[cur] = name[cur] + 1)
  BY DEF Before, Clear, Overtaken
<1>3. plan[cur].action = "reinitialize" => old[cur] = name[cur] + 1
  BY DEF Before, RunInv, RenamedOK
<1>4. ASSUME NEW d \in Dataset, old'[d] # name'[d],
             ~(plan'[d].action = "reinitialize" /\ old'[d] = name'[d] + 1)
      PROVE  Overtaken(d)'
  BY <1>4 DEF Overtaken
<1>5. old'[cur] # name'[cur]
      /\ ~(plan'[cur].action = "reinitialize" /\ old'[cur] = name'[cur] + 1)
  BY <1>1, <1>2, <1>3
<1>6. PICK d \in Dataset : d = cur
  OBVIOUS
<1>7. Overtaken(d)'
  BY <1>4, <1>5, <1>6
<1> QED
  BY <1>7

\* A run's own steps do not overtake it: what it lists is what it will find,
\* and it renames only what it finds there.
LEMMA OwnClear ==
    ASSUME Before, Typed', Step
    PROVE  Clear'
<1>1. /\ \A d \in Dataset : old[d] \in Nat
      /\ \A d \in Dataset : ~Overtaken(d)
  BY DEF Before, Typed, TypeInv, TypeOK, Clear
<1>2. CASE pc' \in {"idle", "target"}
  BY <1>2 DEF Clear, Overtaken
<1>3. CASE pc = "target" /\ UNCHANGED old /\ name' = old
  BY <1>3 DEF Clear, Overtaken
<1>4. CASE Listed /\ UNCHANGED <<plan, old, name>>
  <2>1. \A d \in Dataset : Overtaken(d)' => Overtaken(d)
    BY <1>4 DEF Overtaken, Listed
  <2> QED
    BY <1>1, <2>1 DEF Clear
<1>5. CASE OwnStep
  <2>1. NamesListed /\ (old' # old => Renamable) /\ (Run \/ Crash)
    BY <1>5 DEF OwnStep
  <2>2. CASE DiscoverSource \/ Exit \/ Crash
    BY <1>2, <2>2 DEF DiscoverSource, Exit, Crash, Ended
  <2>3. CASE DiscoverTargetAndBuild
    BY <1>3, <2>1, <2>3 DEF DiscoverTargetAndBuild, NamesListed, target
  <2>4. CASE Reinitialize
    <3>1. /\ pc = "dataset" /\ pc' = "send" /\ cur \in Dataset
          /\ plan[cur].action = "reinitialize"
          /\ old' = [old EXCEPT ![cur] = @ + 1] /\ plan' = plan /\ name' = name
      BY <2>1, <2>4 DEF Reinitialize, NamesListed, Before, Typed, TypeInv, TypeOK, Dataset
    <3>2. /\ old'[cur] = old[cur] + 1
          /\ \A d \in Dataset : d # cur => old'[d] = old[d]
      BY <3>1 DEF Before, Typed, TypeInv, TypeOK
    <3>3. old[cur] = name[cur]
      BY <1>1, <2>1, <3>1, <3>2 DEF Renamable
    <3>4. ASSUME NEW d \in Dataset, Overtaken(d)' PROVE FALSE
      <4>1. CASE d = cur
        BY <3>1, <3>2, <3>3, <3>4, <4>1 DEF Overtaken
      <4>2. CASE d # cur
        BY <1>1, <3>1, <3>2, <3>4, <4>2 DEF Overtaken
      <4> QED
        BY <4>1, <4>2
    <3> QED
      BY <3>4 DEF Clear
  <2>5. CASE \/ CreateRoot \/ CreateRootFails \/ SkipDataset \/ StartSync \/ ReinitializeFails
             \/ FinishPlan \/ Destroy \/ DestroyFails \/ FinishDataset
    <3>1. Listed /\ pc' # "idle" /\ UNCHANGED <<plan, old>>
      BY <2>5 DEF CreateRoot, CreateRootFails, SkipDataset, StartSync, ReinitializeFails,
                  FinishPlan, Destroy, DestroyFails, FinishDataset, NextDataset, SyncFailed,
                  Listed, target
    <3>2. name' = name
      BY <2>1, <3>1 DEF NamesListed, Listed
    <3> QED
      BY <1>4, <3>1, <3>2
  <2>6. CASE SendSucceeds \/ SendRefused \/ SendFails
    <3>1. Listed /\ pc' # "idle" /\ UNCHANGED <<plan, old>>
      BY <2>6 DEF SendSucceeds, SendRefused, SendFails, Delivered, NotDelivered, SyncFailed,
                  Listed, target
    <3>2. name' = name
      BY <2>1, <3>1 DEF NamesListed, Listed
    <3> QED
      BY <1>4, <3>1, <3>2
  <2> QED
    BY <2>1, <2>2, <2>3, <2>4, <2>5, <2>6 DEF Run
<1>6. CASE ListArriving
  <2>1. pc = "target" /\ pc' = "root" /\ UNCHANGED old
    BY <1>6 DEF ListArriving, target
  <2>2. name' = old
    BY <1>6, <2>1 DEF ListArriving, NamesListed
  <2> QED
    BY <1>3, <2>1, <2>2
<1>7. CASE RenameRefused \/ Busy
  <2>1. Listed /\ UNCHANGED <<plan, old, name>>
    BY <1>7 DEF RenameRefused, Renaming, Busy, Listed, target
  <2> QED
    BY <1>4, <2>1
<1> QED
  BY <1>5, <1>6, <1>7 DEF Step

-----------------------------------------------------------------------------
(* What the replicas go through.                                           *)

\* The steps that change one.
LEMMA WhatChanges ==
    ASSUME Plain, Before, Typed', Step
    PROVE  /\ src' = src
           /\ \/ snaps' = snaps
              \/ cur \in Dataset /\ old' = [old EXCEPT ![cur] = @ + 1]
                   /\ snaps' = [snaps EXCEPT ![cur] = {}]
              \/ pc = "send" /\ CanTransfer /\ Complete
              \/ Destroy
<1>1. CASE OwnStep
  <2>1. Run \/ Crash
    BY <1>1 DEF OwnStep
  <2>2. CASE Reinitialize
    BY <2>2 DEF Reinitialize, source, Before, Typed, TypeInv, TypeOK, Dataset
  <2>3. CASE \/ DiscoverSource \/ DiscoverTargetAndBuild \/ CreateRoot \/ CreateRootFails
             \/ SkipDataset \/ StartSync \/ ReinitializeFails \/ FinishPlan
             \/ DestroyFails \/ FinishDataset \/ Exit \/ SendRefused
    BY <2>3 DEF DiscoverSource, DiscoverTargetAndBuild, CreateRoot, CreateRootFails,
                SkipDataset, StartSync, ReinitializeFails, FinishPlan, DestroyFails,
                FinishDataset, Exit, SendRefused, source, target
  <2>4. CASE Destroy
    BY <2>4 DEF Destroy, source
  <2>5. CASE SendSucceeds \/ SendFails
    BY <2>5 DEF SendSucceeds, SendFails, source, NoEffect, Partial
  <2>6. CASE Crash
    BY <2>6 DEF Crash, source, NoEffect, Partial
  <2> QED
    BY <2>1, <2>2, <2>3, <2>4, <2>5, <2>6 DEF Run
<1>2. CASE ListArriving \/ RenameRefused \/ Busy
  BY <1>2 DEF ListArriving, RenameRefused, Busy, source, target
<1> QED
  BY <1>1, <1>2 DEF Step

\* What a run that ends without an error says is so.
LEMMA WhatIsReported ==
    ASSUME Before
    PROVE  NoRegression
<1> SUFFICES ASSUME pc = "done", ~execErr, NEW d \in Dataset \ syncErr,
                    FilterSnapshots(seen[d]) # {}
             PROVE  \E x \in snaps[d] : x >= Max(FilterSnapshots(seen[d]))
  BY DEF NoRegression
<1>1. Processed(d)
  BY DEF Processed
<1> QED
  BY <1>1 DEF Before, RunInv, ProcessedOK, Reached, Goal

\* Whatever another run has done since this one listed the hosts, it receives
\* what follows on the newest common snapshot, and prunes older ones.
LEMMA ReplicaSteps ==
    ASSUME Plain, Before, Typed', Step, old' = old
    PROVE  Replica!Next \/ UNCHANGED <<src, snaps>>
<1>0. \A d \in Dataset : old[d] \in Nat /\ snaps[d] \in SUBSET Snapshot
  BY DEF Before, Typed, TypeInv, TypeOK
<1>1. src' = src
  BY WhatChanges
<1>2. CASE cur \in Dataset /\ old' = [old EXCEPT ![cur] = @ + 1]
  <2>1. old'[cur] = old[cur] + 1
    BY <1>2 DEF Before, Typed, TypeInv, TypeOK
  <2> QED
    BY <1>0, <1>2, <2>1
<1>3. CASE pc = "send" /\ CanTransfer /\ Complete
  <2>1. /\ cur \in Dataset /\ Sending \in src[cur] /\ Sending \notin snaps[cur]
        /\ snaps' = [snaps EXCEPT ![cur] = {x \in @ : x <= base} \cup {Sending}]
        /\ base = None => snaps[cur] = {}
        /\ base # None =>
             /\ base \in src[cur] /\ base \in snaps[cur] /\ base < Sending
             /\ \A x \in src[cur] \cap snaps[cur] : x <= base
    BY <1>3, WhatCompletes DEF Plain
  <2> HIDE DEF Sending
  <2>2. CASE base = None
    <3>1. snaps' = [snaps EXCEPT ![cur] = {Sending}]
      BY <2>1, <2>2
    <3>2. Replica!Receive(cur)
      BY <1>1, <2>1, <2>2, <3>1 DEF Replica!Receive
    <3> QED
      BY <2>1, <3>2 DEF Replica!Next
  <2>3. CASE base # None
    <3>1. base \in Replica!Common(cur) /\ \A x \in Replica!Common(cur) : x <= base
      BY <2>1, <2>3 DEF Replica!Common
    <3>2. Replica!Receive(cur)
      BY <1>1, <2>1, <2>3, <3>1 DEF Replica!Receive
    <3> QED
      BY <2>1, <3>2 DEF Replica!Next
  <2> QED
    BY <2>2, <2>3
<1>4. CASE Destroy
  <2>1. /\ cur \in Dataset /\ Destroying \in snaps[cur]
        /\ \E m \in snaps[cur] : Destroying < m
        /\ snaps' = [snaps EXCEPT ![cur] = @ \ {Destroying}]
    BY <1>4, WhatIsDestroyed
  <2>2. Replica!Prune(cur)
    BY <1>1, <2>1 DEF Replica!Prune
  <2> QED
    BY <2>1, <2>2 DEF Replica!Next
<1> QED
  BY <1>1, <1>2, <1>3, <1>4, WhatChanges

\* The source changes by itself.
LEMMA SourceReplicaSteps ==
    ASSUME TypeInv, NEW d \in Dataset, TakeSnapshot(d) \/ RotateSource(d)
    PROVE  Replica!Next
<1>1. snaps' = snaps
  BY DEF TakeSnapshot, RotateSource, target
<1>2. \E s \in Snapshot :
         \/ src' = [src EXCEPT ![d] = @ \cup {s}]
         \/ src' = [src EXCEPT ![d] = @ \ {s}]
  <2>1. CASE TakeSnapshot(d)
    <3>1. taken[d] + 1 \in Snapshot
      BY <2>1, PlanAssumption DEF TakeSnapshot, TypeInv, TypeOK, Snapshot
    <3> QED
      BY <2>1, <3>1 DEF TakeSnapshot
  <2>2. CASE RotateSource(d)
    BY <2>2 DEF RotateSource, TypeInv, TypeOK
  <2> QED
    BY <2>1, <2>2
<1> QED
  BY <1>1, <1>2 DEF Replica!ChangeSource, Replica!Next

\* What arrives is common; what goes is older than all that is common, or not
\* the newest of it.
LEMMA CommonRemains ==
    ASSUME TypeInv, TypeInv', HostInv, OldestFirst, NEW d \in Dataset,
           Moved(d) \/ SourceMoved(d), src'[d] = src[d], src[d] \cap snaps[d] # {}
    PROVE  src[d] \cap snaps'[d] # {}
<1>1. CASE snaps'[d] = snaps[d]
  BY <1>1
<1>2. CASE \E s \in Snapshot : Arrives(src[d], snaps[d], snaps'[d], s)
  BY <1>2 DEF Arrives
<1>3. CASE DropsOldest(snaps[d], snaps'[d])
  <2>1. PICK z \in snaps[d], m \in snaps[d] :
           z < m /\ (\A x \in snaps[d] : z <= x) /\ snaps'[d] = snaps[d] \ {z}
    BY <1>3 DEF DropsOldest
  <2>2. PICK b \in src[d] \cap snaps[d] : TRUE
    OBVIOUS
  <2>3. CASE b = z
    <3>1. m \in src[d]
      BY <2>1, <2>2, <2>3, NewerIsThere
    <3>2. m # z
      BY <2>1, HostTypes DEF Snapshot
    <3> QED
      BY <2>1, <3>1, <3>2
  <2> QED
    BY <2>1, <2>2, <2>3
<1> QED
  BY <1>1, <1>2, <1>3 DEF Moved, SourceMoved, Moves

\* While the source loses its oldest first, a run of its own, however old its
\* plan, leaves min_keep.
LEMMA MinKeepRemains ==
    ASSUME Plain, OldestFirst, Before, Typed', Step,
           NEW d \in Dataset, NEW f \in Filter, old'[d] = old[d]
    PROVE  LET kept == Cardinality(FilterSnapshotsByInterval(snaps[d], f))
               keeps == Cardinality(FilterSnapshotsByInterval(snaps'[d], f))
           IN  keeps >= kept \/ keeps >= MinKeep[f]
<1> DEFINE Kept(T) == Cardinality(FilterSnapshotsByInterval(T, f))
<1>1. /\ snaps[d] \in SUBSET Snapshot /\ snaps'[d] \in SUBSET Snapshot /\ old[d] \in Nat
  BY DEF Before, Typed, TypeInv, TypeOK
<1>2. Kept(snaps[d]) \in Nat /\ Kept(snaps'[d]) \in Nat
  <2>1. /\ FilterSnapshotsByInterval(snaps[d], f) \in SUBSET Snapshot
        /\ FilterSnapshotsByInterval(snaps'[d], f) \in SUBSET Snapshot
    BY <1>1 DEF FilterSnapshotsByInterval
  <2> QED
    BY <2>1, SnapshotsFinite
<1>3. ASSUME snaps[d] \subseteq snaps'[d]
      PROVE  Kept(snaps'[d]) >= Kept(snaps[d])
  <2>1. /\ FilterSnapshotsByInterval(snaps[d], f)
             \in SUBSET FilterSnapshotsByInterval(snaps'[d], f)
        /\ FilterSnapshotsByInterval(snaps'[d], f) \in SUBSET Snapshot
    BY <1>1, <1>3 DEF FilterSnapshotsByInterval
  <2> QED
    BY <1>2, <2>1, MoreSnapshots
<1>4. CASE cur \in Dataset /\ old' = [old EXCEPT ![cur] = @ + 1]
             /\ snaps' = [snaps EXCEPT ![cur] = {}]
  <2>1. d # cur
    BY <1>1, <1>4 DEF Before, Typed, TypeInv, TypeOK
  <2>2. snaps'[d] = snaps[d]
    BY <1>4, <2>1 DEF Before, Typed, TypeInv, TypeOK
  <2> QED
    BY <1>3, <2>2
<1>5. CASE pc = "send" /\ CanTransfer /\ Complete
  <2>1. /\ cur \in Dataset
        /\ Sending \in src[cur]
        /\ snaps' = [snaps EXCEPT ![cur] = {x \in @ : x <= base} \cup {Sending}]
        /\ base = None => snaps[cur] = {}
        /\ base # None =>
             /\ base \in src[cur] /\ base \in snaps[cur]
             /\ \A x \in src[cur] \cap snaps[cur] : x <= base
    BY <1>5, WhatCompletes DEF Plain
  <2>2. CASE d # cur
    <3>1. snaps'[d] = snaps[d]
      BY <2>1, <2>2 DEF Before, Typed, TypeInv, TypeOK
    <3> QED
      BY <1>3, <3>1
  <2>3. CASE d = cur
    <3>1. \A b \in src[d] : \A x \in snaps[d] : b < x => x \in src[d]
      BY NewerIsThere DEF Before, Typed
    <3>2. base \in Int /\ \A x \in snaps[d] : x \in Int
      BY <1>1 DEF Before, Typed, TypeInv, TypeOK, Snapshot, None
    <3>3. ASSUME NEW x \in snaps[d] PROVE x <= base
      <4>1. base # None
        BY <2>1, <2>3, <3>3
      <4>2. base \in src[d] /\ (x \in src[d] => x <= base)
        BY <2>1, <2>3, <4>1
      <4> QED
        BY <3>1, <3>2, <4>2
    <3>4. snaps'[d] = {x \in snaps[d] : x <= base} \cup {Sending}
      BY <2>1, <2>3 DEF Before, Typed, TypeInv, TypeOK
    <3> QED
      BY <1>3, <3>3, <3>4
  <2> QED
    BY <2>2, <2>3
<1>6. CASE Destroy
  <2>1. /\ cur \in Dataset /\ CleanupInterval \in Filter
        /\ Destroying \in clean[CleanupInterval] /\ Destroying \in snaps[cur]
        /\ snaps' = [snaps EXCEPT ![cur] = @ \ {Destroying}]
    BY <1>6, WhatIsDestroyed
  <2>2. CASE d # cur
    <3>1. snaps'[d] = snaps[d]
      BY <2>1, <2>2 DEF Before, Typed, TypeInv, TypeOK
    <3> QED
      BY <1>3, <3>1
  <2>3. CASE d = cur
    <3>1. CleanupInterval = f
      BY <2>1 DEF Plain, Filter
    <3>2. Spared(clean[f], snaps[d], {}, f)
      BY <1>6, <2>3 DEF Before, RunInv, SparesOK, Destroy
    <3>3. Destroying \in clean[f] \cap snaps[d] /\ snaps'[d] = snaps[d] \ {Destroying}
      BY <2>1, <2>3, <3>1 DEF Before, Typed, TypeInv, TypeOK
    <3> DEFINE left == FilterSnapshotsByInterval(snaps[d], f) \ (clean[f] \cap snaps[d])
    <3>4. Cardinality(left) >= MinKeep[f]
      <4>1. snaps[d] \cup {} = snaps[d]
        OBVIOUS
      <4> QED
        BY <3>2, <3>3, <4>1 DEF Spared, Dispensable
    <3>5. left \in SUBSET FilterSnapshotsByInterval(snaps'[d], f)
      BY <3>3 DEF FilterSnapshotsByInterval
    <3>6. FilterSnapshotsByInterval(snaps'[d], f) \in SUBSET Snapshot /\ left \in SUBSET Snapshot
      BY <1>1 DEF FilterSnapshotsByInterval
    <3>7. Cardinality(left) \in Nat /\ MinKeep[f] \in Nat
      BY <3>6, SnapshotsFinite, PlanAssumption
    <3>8. Cardinality(left) <= Kept(snaps'[d])
      BY <3>5, <3>6, MoreSnapshots
    <3> HIDE DEF left
    <3> QED
      BY <1>2, <3>4, <3>7, <3>8
  <2> QED
    BY <2>2, <2>3
<1> QED
  BY <1>3, <1>4, <1>5, <1>6, WhatChanges
=============================================================================
