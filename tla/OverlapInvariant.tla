------------------------- MODULE OverlapInvariant --------------------------
(***************************************************************************)
(* Why two overlapping runs do not set the target back, as long as neither *)
(* is overtaken by a rename: what holds of the hosts, and what a run can   *)
(* rely on between its listing and its end although the other one sends,   *)
(* rolls back and destroys.  OverlapProofs proves it inductive, for one    *)
(* filter entry and transfers that are not resumed.                        *)
(*                                                                         *)
(* With two entries the target can have a gap, and a run that still wants  *)
(* to fill it rolls back what the other one has brought; with resumed      *)
(* transfers a run takes the other's snapshot for its own.                 *)
(***************************************************************************)
EXTENDS Overlap, ReplicationInvariant

Plain == NFilter = 1 /\ ~Resumable

-----------------------------------------------------------------------------
(* The hosts.  T is what the target of a dataset has, S the source.        *)

\* Between two snapshots of the target, the source has none it lacks.
Gapless(S, T) ==
    \A b, x \in T : \A q \in FilterSnapshots(S) : b < q /\ q < x => q \in T

HostInv ==
    /\ \A d \in Dataset :
          /\ src[d] \cup snaps[d] \subseteq 1 .. taken[d]
          /\ ~exists[d] => snaps[d] = {}
          /\ token[d] = NoToken
          /\ \A x \in snaps[d] : Match[x] # {}
          /\ Gapless(src[d], snaps[d])
    /\ OldestFirst => Contiguous

-----------------------------------------------------------------------------
(* A run.  N is what it listed of the source, C what it means to destroy.  *)

\* The target is at least as far as the run has to bring it.
Reached(T, goal) == \E x \in T : x >= goal

\* What is to be destroyed is the oldest of the target, or outlived by all
\* of it, or nowhere any more.
Lowest(C, S, T) ==
    \A z \in C :
        \/ \A t \in T : z < t
        \/ z \in T /\ \A y \in T : y < z => y \in C
        \/ z \notin S \cup T

\* As long as anything of C is still there, min_keep remain without it of
\* what is there and has yet to arrive (q).
Spared(C, T, q, f) == Dispensable(C \cap T, T \cup q, f)

\* A plan that sends ends with the newest snapshot listed and sends all from
\* its first one on.
SendsSuffix(q, N) ==
    /\ q \subseteq FilterSnapshots(N) /\ Max(FilterSnapshots(N)) \in q
    /\ \A s \in q : \A y \in FilterSnapshots(N) : s < y => y \in q

\* A plan, however old, against the hosts as they are now.
PlanOK(p, N, S, T) ==
    /\ p.action = "skip" => FilterSnapshots(N) = {} \/ Reached(T, Max(FilterSnapshots(N)))
    /\ p.action # "skip" => FilterSnapshots(N) # {} /\ SendsSuffix(p.send, N)
    /\ p.action = "incremental" =>
         /\ p.common # None /\ T # {}
         /\ p.send = {y \in FilterSnapshots(N) : p.common < y}
    /\ p.action \in {"initial", "reinitialize"} => p.common = None
    /\ p.action # "incremental" => p.cleanup = NoCleanup
    /\ \A f \in Filter :
         /\ Lowest(p.cleanup[f], S, T)
         /\ \A z \in p.cleanup[f] : z < Max(FilterSnapshots(N)) \/ Max(FilterSnapshots(N)) \notin S
         /\ p.cleanup[f] \cap p.send = {}

Listed == pc \notin {"idle", "target"}

\* What the source has beyond the listing is newer than all of it.
ListingOK ==
    pc # "idle" =>
        \A d \in Dataset :
            /\ seen[d] \subseteq 1 .. taken[d]
            /\ \A x \in src[d] \ seen[d] : \A y \in seen[d] : y < x

PlansOK ==
    Listed =>
        \A d \in Dataset :
            /\ PlanOK(plan[d], seen[d], src[d], snaps[d])
            /\ \A f \in Filter : plan[d].cleanup[f] \subseteq 1 .. taken[d]

\* The send loop has all that follows on its base, and its first snapshot.
SendingOK ==
    pc = "send" =>
        /\ SendsSuffix(queue, seen[cur]) /\ \A q \in queue : base < q
        /\ base # None => \A y \in FilterSnapshots(seen[cur]) : base < y => y \in queue
        /\ queue \subseteq plan[cur].send

CleaningOK ==
    pc = "cleanup" =>
        /\ FilterSnapshots(seen[cur]) # {} /\ Reached(snaps[cur], Goal(cur))
        /\ \A f \in Filter :
             /\ Lowest(clean[f], src[cur], snaps[cur])
             /\ \A z \in clean[f] : z < Goal(cur)

\* The datasets the loop is through with.
Processed(d) ==
    \/ pc \in {"dataset", "send", "cleanup"} /\ d < cur
    \/ pc = "done" /\ ~execErr

ProcessedOK ==
    \A d \in Dataset :
        Processed(d) => d \in syncErr \/ FilterSnapshots(seen[d]) = {} \/ Reached(snaps[d], Goal(d))

\* What the run has renamed itself.
RenamedOK ==
    \A d \in Dataset :
        plan[d].action = "reinitialize" =>
            /\ pc \in {"send", "cleanup"} /\ d = cur => old[d] = name[d] + 1
            /\ Processed(d) => d \in syncErr \/ old[d] = name[d] + 1

\* The datasets still to come.
Ahead(d) ==
    \/ pc = "root"
    \/ pc = "dataset" /\ cur <= d
    \/ pc \in {"send", "cleanup"} /\ cur < d

\* Each cleanup leaves min_keep, while the source loses its oldest first.
SparesOK ==
    OldestFirst => \A f \in Filter :
        /\ \A d \in Dataset :
             Ahead(d) => Spared(plan[d].cleanup[f], snaps[d], plan[d].send, f)
        /\ pc = "send" => Spared(plan[cur].cleanup[f], snaps[cur], queue, f)
        /\ pc = "cleanup" => Spared(clean[f], snaps[cur], {}, f)

\* What a run means to do fits the hosts, however long ago it listed them and
\* whatever another one has done since (plan.go:120-231, execute.go:66-226).
RunInv ==
    /\ CurOK /\ ListingOK /\ PlansOK /\ SendingOK /\ CleaningOK
    /\ ProcessedOK /\ RenamedOK /\ SparesOK
=============================================================================
