------------------------------ MODULE TwoRuns ------------------------------
(***************************************************************************)
(* Two runs of zsync that overlap in any way, as when cron starts the next *)
(* one during a long transfer: two instances of Overlap on the same source *)
(* and the same target, each with run variables of its own.                *)
(***************************************************************************)
EXTENDS PlanBuilder, Zfs

CONSTANTS NDataset, MaxRetries, Resumable, MaxFaults, Rotation, MaxOld

ASSUME TwoRunsAssumption ==
    /\ NDataset \in Nat \ {0} /\ MaxRetries \in Nat /\ Resumable \in BOOLEAN
    /\ MaxFaults \in Nat /\ Rotation \in {"none", "oldest", "interval", "any"}
    /\ MaxOld \in Nat

VARIABLES
    src, taken, root, exists, snaps, token, old, faults,    \* of the hosts
    pcA, seenA, blindA, planA, curA, queueA, baseA, attemptA, cleanA,
    syncErrA, cleanErrA, execErrA, nameA,
    pcB, seenB, blindB, planB, curB, queueB, baseB, attemptB, cleanB,
    syncErrB, cleanErrB, execErrB, nameB,
    overtaken   \* history: a rename has come between a run's listing and its end

hosts == <<src, taken, root, exists, snaps, token, old, faults>>

\* Overlap, with what is proved of it, so that it can be cited of either run.
A == INSTANCE OverlapProofs WITH
        pc <- pcA, seen <- seenA, blind <- blindA, plan <- planA, cur <- curA,
        queue <- queueA, base <- baseA, attempt <- attemptA, clean <- cleanA,
        syncErr <- syncErrA, cleanErr <- cleanErrA, execErr <- execErrA,
        name <- nameA, otherPc <- pcB, otherCur <- curB
B == INSTANCE OverlapProofs WITH
        pc <- pcB, seen <- seenB, blind <- blindB, plan <- planB, cur <- curB,
        queue <- queueB, base <- baseB, attempt <- attemptB, clean <- cleanB,
        syncErr <- syncErrB, cleanErr <- cleanErrB, execErr <- execErrB,
        name <- nameB, otherPc <- pcA, otherCur <- curA

runA == <<pcA, seenA, blindA, planA, curA, queueA, baseA, attemptA, cleanA,
          syncErrA, cleanErrA, execErrA, nameA>>
runB == <<pcB, seenB, blindB, planB, curB, queueB, baseB, attemptB, cleanB,
          syncErrB, cleanErrB, execErrB, nameB>>
vars == <<hosts, runA, runB, overtaken>>

Init == A!InitOverlap /\ B!InitOverlap /\ overtaken = FALSE

\* A run that lists the dataset the other one is only just receiving plans to
\* rename it away; none of what follows holds once it has.
Marked == overtaken' = (overtaken \/ \E d \in A!Dataset : (A!Overtaken(d) \/ B!Overtaken(d))')

StepA == A!Step /\ UNCHANGED runB /\ Marked
StepB == B!Step /\ UNCHANGED runA /\ Marked
RenamesA == A!RenameReceiving /\ B!Diverted /\ Marked
RenamesB == B!RenameReceiving /\ A!Diverted /\ Marked
Environment ==
    /\ \E d \in A!Dataset : A!TakeSnapshot(d) \/ A!RotateSource(d)
    /\ UNCHANGED <<runA, runB, overtaken>>

Next == StepA \/ StepB \/ RenamesA \/ RenamesB \/ Environment

Spec == Init /\ [][Next]_vars
-----------------------------------------------------------------------------
\* Both runs keep their types, beside each other.
TypeOK ==
    /\ A!TypeOK /\ nameA \in [A!Dataset -> Nat]
    /\ B!TypeOK /\ nameB \in [B!Dataset -> Nat]
    /\ overtaken \in BOOLEAN

\* A run that returns from Execute without an error for a dataset leaves it
\* no further behind than the newest matching snapshot the run listed,
\* whatever an overlapping run did (execute.go:46, main.go:134).
NotBehind == ~overtaken => A!NoRegression /\ B!NoRegression

\* The runs together still implement ReplicaSpec while neither renames: they
\* never receive twice, below the common snapshot, or what the source lacks,
\* and the cleanup of a plan the other run has outrun never takes the newest
\* snapshot (execute.go:210-225).
TogetherImplementReplica ==
    [][~overtaken /\ old' = old => A!Replica!Next]_<<src, snaps>>

\* A stale plan does not end the possibility of incremental replication: of
\* two overlapping runs, neither rolls back nor destroys the last snapshot
\* that source and target share (plan.go:205-231).
TogetherKeepCommon ==
    [][~overtaken =>
         \A d \in A!Dataset :
            old'[d] = old[d] /\ src'[d] = src[d] /\ src[d] \cap snaps[d] # {}
            => src[d] \cap snaps'[d] # {}]_vars

\* Two cleanups computed from two listings do not add up to fewer than
\* min_keep snapshots of an interval (plan.go:239-262).
TogetherRetainMinKeep ==
    [][~overtaken =>
         \A d \in A!Dataset, f \in A!Filter :
            LET kept == Cardinality(A!FilterSnapshotsByInterval(snaps[d], f))
                keeps == Cardinality(A!FilterSnapshotsByInterval(snaps'[d], f))
            IN  old'[d] = old[d] => keeps >= kept \/ keeps >= MinKeep[f]]_vars

-----------------------------------------------------------------------------
\* Why they hold: until a rename has overtaken a run, each of them keeps what
\* OverlapInvariant says of it, and the hosts, beside the other.
NoneOvertaken == \A d \in A!Dataset : ~A!Overtaken(d) /\ ~B!Overtaken(d)
TogetherInv ==
    ~overtaken => A!HostInv /\ A!RunInv /\ B!RunInv /\ NoneOvertaken
=============================================================================
