----------------------- MODULE ReplicationInvariant ------------------------
(***************************************************************************)
(* Why the properties of Replication hold: the inductive invariant that    *)
(* ReplicationProofs proves and TLC checks on small instances.             *)
(*                                                                         *)
(* It needs that a resumed transfer is the one the plan wants next.  That  *)
(* is so when there are no resumed transfers, and when there is a single   *)
(* filter entry: then a first replication leaves no gap between the        *)
(* snapshots it sends.  A misled run resumes what it did not plan for; of  *)
(* it, the invariant says what it leaves behind, not what it delivers.     *)
(*                                                                         *)
(* What a cleanup leaves has invariants of its own: KeepInv, which needs   *)
(* none of this, and RetainInv, which does.                                *)
(***************************************************************************)
EXTENDS Replication

NoGaps == ~Resumable \/ NFilter = 1

\* The snapshots of d that the target has and that the source has or had
\* when this run listed them.
Shared(d) == (src[d] \cup seen[d]) \cap snaps[d]

\* The newest snapshot a run has to deliver.
Goal(d) == Max(FilterSnapshots(seen[d]))

\* A snapshot the source takes is newer than all that is known of d.
Numbered ==
    \A d \in Dataset :
        /\ src[d] \cup seen[d] \cup snaps[d] \subseteq 1 .. taken[d]
        /\ token[d].snap <= taken[d]

\* Nothing is on a target that does not exist, and only matching snapshots
\* are on one that does.
TargetOK ==
    \A d \in Dataset :
        /\ ~exists[d] => snaps[d] = {} /\ token[d] = NoToken
        /\ \A x \in snaps[d] : Match[x] # {}

\* What discovery missed has been taken since.
Discovered ==
    pc # "idle" =>
        \A d \in Dataset : \A x \in src[d] \ seen[d] :
            /\ x \notin snaps[d]
            /\ x # token[d].snap
            /\ \A y \in seen[d] : y < x

\* A partial receive t follows on the newest shared snapshot, and the source
\* has no matching snapshot between its base and what it carries.  T: what
\* the target has; known: what the source has or had.
ResumeOK(t, T, known) ==
    /\ Resumable
    /\ t.snap \in Snapshot /\ Match[t.snap] # {}
    /\ t.base < t.snap /\ t.snap \notin T
    /\ \A x \in known \cap T : x <= t.base
    /\ t.base = None => T = {}
    /\ t.base # None => t.base \in T
    /\ t.base # None => \A y \in FilterSnapshots(known) : y <= t.base \/ t.snap <= y

TokenOK ==
    \A d \in Dataset :
        token[d] # NoToken => ResumeOK(token[d], snaps[d], src[d] \cup seen[d])

\* A target has every matching snapshot between two of its own that the
\* source has or had.
GapFree ==
    Resumable => \A d \in Dataset :
        \A y \in FilterSnapshots(src[d] \cup seen[d]) : \A x, z \in snaps[d] :
            x < y /\ y < z => y \in snaps[d]

\* What a run that lists the target now, if it sees it, plans for d.
PlanNow(d) ==
    IF blind THEN buildDatasetPlan(seen[d], FALSE, {})
             ELSE buildDatasetPlan(seen[d], exists[d], snaps[d])

\* The plans of the datasets still to come are not stale.
PlanFresh ==
    \A d \in Dataset :
        \/ pc = "root"
        \/ pc = "dataset" /\ cur <= d
        \/ pc \in {"send", "cleanup"} /\ cur < d
        => plan[d] = PlanNow(d)

\* A run that did not see the target has nothing to destroy on it.
BlindSpares ==
    blind =>
        /\ \A d \in Dataset : plan[d].cleanup = NoCleanup
        /\ pc = "cleanup" => clean = NoCleanup

\* While d is being sent or cleaned up.
Planned ==
    pc \in {"send", "cleanup"} =>
        /\ plan[cur].send \subseteq FilterSnapshots(seen[cur])
        /\ Goal(cur) \in plan[cur].send
        /\ \A f \in Filter : Goal(cur) \notin plan[cur].cleanup[f]

\* No attempt succeeds: the target that was not seen refuses the full stream.
Refused == blind /\ base = None /\ exists[cur]

\* What the next snapshot finds: the target ends with it, or with the base,
\* which is the newest shared snapshot; a transfer that can be resumed is the
\* next one.
NextOK ==
    /\ ~Refused =>
         /\ Sending \in snaps[cur] => \A x \in snaps[cur] : x <= Sending
         /\ Sending \notin snaps[cur] =>
              IF base = None THEN snaps[cur] = {} ELSE \A x \in Shared(cur) : x <= base
    /\ token[cur] # NoToken /\ Sendable(token[cur], src[cur]) =>
         token[cur].snap = Sending

\* The send loop: what is left ends with the goal and follows on the base.
SendOK ==
    pc = "send" =>
        /\ Goal(cur) \in queue /\ queue \subseteq FilterSnapshots(seen[cur])
        /\ \A q \in queue : base < q
        /\ Resumable =>
             \A y \in FilterSnapshots(seen[cur]) :
                y >= Sending \/ (base # None /\ y > base) => y \in queue
        /\ ~Misled => NextOK

\* The cleanup: the goal has arrived, is the newest, and is not destroyed.
CleanOK ==
    pc = "cleanup" /\ ~Misled =>
        /\ Goal(cur) \in snaps[cur]
        /\ \A x \in snaps[cur] : x <= Goal(cur)
        /\ \A f \in Filter : Goal(cur) \notin clean[f]

\* A cleanup takes the oldest of the target's snapshots, and none beyond what
\* is still to be sent; so it leaves no gap.
CleansOldest ==
    Resumable =>
        /\ pc = "send" =>
             \A f \in Filter : \A z \in plan[cur].cleanup[f] :
                /\ \A q \in queue : z < q
                /\ \A y \in snaps[cur] : y < z => y \in plan[cur].cleanup[f]
        /\ pc = "cleanup" =>
             \A f \in Filter : \A z \in clean[f] :
                \A y \in snaps[cur] : y < z => y \in clean[f]

\* The datasets the loop is through with.
DoneOK ==
    \A d \in Dataset :
        /\ \/ pc \in {"dataset", "send", "cleanup"} /\ d < cur
           \/ pc = "done" /\ ~execErr
        /\ ~Misled
        => d \in syncErr \/ FilterSnapshots(seen[d]) = {} \/ Goal(d) \in snaps[d]

\* The loop starts with the first dataset.
CurOK == pc \in {"idle", "target", "root"} => cur = 1

\* What the two sides hold, what a token continues and what a run still means
\* to send and destroy fit together (execute.go:66-113, client.go:199-263).
IInv ==
    /\ CurOK
    /\ Numbered /\ TargetOK /\ Discovered /\ TokenOK /\ GapFree
    /\ PlanFresh /\ BlindSpares
    /\ Planned /\ SendOK /\ CleanOK /\ CleansOldest /\ DoneOK

-----------------------------------------------------------------------------
(* Why a cleanup leaves the newest snapshot, and with it a common one.     *)

\* The source loses its snapshots oldest first, if any.
OldestFirst == Rotation \in {"none", "oldest"}

\* Then it has everything since the oldest one it has.
Contiguous ==
    \A d \in Dataset : \A x \in src[d] : x .. taken[d] \subseteq src[d]

\* A partial receive is of a matching snapshot that has not arrived, and its
\* base is older.
TokenAhead ==
    \A d \in Dataset :
        token[d] # NoToken =>
            /\ Match[token[d].snap] # {}
            /\ token[d].base < token[d].snap /\ token[d].snap \notin snaps[d]

\* The newest snapshot on the target of d is not among those to destroy.
NewestSpared(d, destroyed) ==
    \E n \in snaps[d] :
        /\ \A x \in snaps[d] : x <= n
        /\ \A f \in Filter : n \notin destroyed[f]

\* Nothing that can still arrive is to be destroyed, and once something has
\* arrived, the newest is spared.
SendSpares ==
    pc = "send" =>
        /\ queue \subseteq FilterSnapshots(seen[cur])
        /\ \A q \in queue : base < q
        /\ \A f \in Filter : plan[cur].cleanup[f] \cap queue = {}
        /\ token[cur] # NoToken =>
             \A f \in Filter : token[cur].snap \notin plan[cur].cleanup[f]
        /\ queue \cap snaps[cur] = {} \/ NewestSpared(cur, plan[cur].cleanup)

CleanSpares == pc = "cleanup" => NewestSpared(cur, clean)

\* The newest snapshot on a target outlives every cleanup, whatever has been
\* rolled back or resumed before it (plan.go:206-225, execute.go:216).
KeepInv ==
    /\ Numbered /\ TargetOK /\ Discovered /\ PlanFresh /\ BlindSpares
    /\ TokenAhead /\ SendSpares /\ CleanSpares
    /\ OldestFirst => Contiguous

-----------------------------------------------------------------------------
(* Why it leaves min_keep: what is planned is still there, and so is what  *)
(* was to stay, together with what has yet to arrive.                      *)

\* No snapshot's name matches two entries.
Disjoint == \A s \in Snapshot : \A f, g \in Match[s] : f = g

\* Of the snapshots held, entry f can do without those in gone.
Dispensable(gone, held, f) ==
    LET kept == FilterSnapshotsByInterval(held, f) \ gone
    IN  gone # {} => Cardinality(kept) >= MinKeep[f]

\* What a run still means to destroy for entry f is there, and without it
\* min_keep remain of what is there and has yet to arrive (plan.go:216-246).
RetainInv ==
    \A f \in Filter :
        /\ pc = "send" =>
             /\ plan[cur].cleanup[f] \subseteq FilterSnapshotsByInterval(snaps[cur], f)
             /\ Dispensable(plan[cur].cleanup[f], snaps[cur] \cup queue, f)
        /\ pc = "cleanup" =>
             /\ clean[f] \subseteq FilterSnapshotsByInterval(snaps[cur], f)
             /\ Dispensable(clean[f], snaps[cur], f)
=============================================================================
