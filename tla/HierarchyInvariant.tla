------------------------- MODULE HierarchyInvariant -------------------------
(***************************************************************************)
(* Why Hierarchy keeps what it promises, as one inductive invariant: what  *)
(* a pending plan says stays true of its dataset until the loop is there,  *)
(* or the dataset is one that was carried away, processed before or never  *)
(* really listed; and what the loop has left behind is settled.  All this  *)
(* is about transfers that are not resumed, as Hierarchy is.               *)
(***************************************************************************)
EXTENDS Hierarchy

\* d needs no more of this run: its sync failed, there is nothing to send,
\* the newest snapshot listed is there, or an ancestor's rename has taken all
\* of it along.
Settled(d) ==
    \/ d \in syncErr
    \/ FilterSnapshots(seen[d]) = {}
    \/ Goal(d) \in snaps[d]
    \/ d \in carried /\ snaps[d] = {}

\* The loop is in the middle of d.
Busy(d) == pc \in {"send", "cleanup"} /\ d = ds

\* Discovery saw d as it was, and only d's own plan may have changed it since.
AsListed(d) == d \notin Processed \cup carried /\ ~blind

-----------------------------------------------------------------------------
(* The parts.                                                              *)

\* What is absent has no snapshots, and zsync sends only what matches.
TargetSound ==
    \A d \in Dataset :
        /\ ~exists[d] => snaps[d] = {}
        /\ \A x \in snaps[d] : Match[x] # {}

\* Every plan is for a dataset below its root, and a dataset listed under two
\* roots has the same plan twice.
OnePlanEach ==
    /\ \A p \in todo : p.root \in DOMAIN Listed /\ p.ds \in Listed[p.root]
    /\ \A p, q \in todo : p.ds = q.ds => p.name = q.name /\ p.do = q.do

\* A plan that sends sends matching snapshots only, the newest one among
\* them, and its cleanup spares that one.
PlansReachGoal ==
    \A p \in todo : p.do.action # "skip" =>
        /\ FilterSnapshots(seen[p.ds]) # {}
        /\ p.do.send \subseteq FilterSnapshots(seen[p.ds])
        /\ Goal(p.ds) \in p.do.send
        /\ \A f \in Filter : Goal(p.ds) \notin p.do.cleanup[f]

\* What is skipped needs nothing, and neither does what the loop has done: a
\* send that succeeded sent what was planned, which a retry that resumes a
\* token would not (client.go:233-241).
DoneIsSettled ==
    /\ \A p \in todo : p.do.action = "skip" => Settled(p.ds)
    /\ pc # "idle" => \A d \in Processed : Settled(d) \/ (pc = "send" /\ d = ds)

\* Sending is for the plans that are not skipped, cleaning up for those that
\* have arrived.
AtWork ==
    /\ pc \in {"send", "cleanup"} => do.action # "skip"
    /\ pc = "cleanup" => Goal(ds) \in snaps[ds]

\* The plan of an undisturbed dataset is the one for what is there now, and
\* the name it may be renamed to is still free.
PlansAreFresh ==
    \A p \in todo : AsListed(p.ds) /\ ~Busy(p.ds) =>
        /\ p.do = buildDatasetPlan(seen[p.ds], exists[p.ds], snaps[p.ds])
        /\ exists[p.ds] => p.name = old[p.ds] + 1

\* What is sent to an undisturbed dataset can be received.
SendIsFresh ==
    pc = "send" /\ AsListed(ds) =>
        /\ do.send \cap snaps[ds] = {}
        /\ IF do.common = None THEN ~exists[ds]
                               ELSE exists[ds] /\ do.common \in snaps[ds]

\* The invariant: the types and all of these.  A mistake in which plans the
\* loop still has, in what a rename takes along or in what a plan sends breaks
\* it (plan.go:120-205, execute.go:66-113).
HInv ==
    /\ TypeOK
    /\ TargetSound /\ OnePlanEach /\ PlansReachGoal
    /\ DoneIsSettled /\ AtWork /\ PlansAreFresh /\ SendIsFresh
=============================================================================
