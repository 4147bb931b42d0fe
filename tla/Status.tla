------------------------------- MODULE Status -------------------------------
(***************************************************************************)
(* The Zabbix report at the end of a run (internal/zabbix/status.go): it   *)
(* sets the inventory of the source from before the sync against a fresh   *)
(* listing of the target.  How the report reaches its reader is in         *)
(* Monitoring.                                                             *)
(***************************************************************************)
EXTENDS Replication

Latest(S) == IF S = {} THEN None ELSE Max(S)

\* Mutant: a failed cleanup is not a problem.
datasetProblemOfSync(d, failed) == d \in syncErr \cup failed

\* A dataset is in trouble if its sync, its cleanup or the new listing of
\* its target failed; failed: the datasets that cannot be listed.
datasetProblem(d, failed) == d \in syncErr \cup cleanErr \cup failed

datasetStatus(d, failed) ==
    LET srcSnaps == FilterSnapshots(seen[d])
        tgtSnaps == IF d \in failed THEN {} ELSE FilterSnapshots(snaps[d])
    IN  [CommonSnapshot |-> Latest(srcSnaps \cap tgtSnaps),
         LatestSourceSnapshot |-> Latest(srcSnaps),
         Error |-> datasetProblem(d, failed)]

\* The report Run builds after Execute; when Execute itself failed it has no
\* datasets and is not OK.
Datasets(failed) == [d \in Dataset |-> datasetStatus(d, failed)]
OK(failed) ==
    /\ ~execErr
    /\ \A d \in Dataset : ~Datasets(failed)[d].Error /\ Datasets(failed)[d].CommonSnapshot # None

\* The report tells the truth about a run that was not misled
\* (status.go:45-46, 120-122): it is OK exactly when no part of the run
\* failed, the listing afterwards included, and every dataset has something to
\* replicate; and then the common snapshot it names is the newest one, and on
\* the target.
ReportIsRight ==
    pc = "done" /\ ~Misled => \A failed \in SUBSET Dataset :
        LET status == Datasets(failed)
        IN  /\ OK(failed) <=>
                 /\ ~execErr /\ syncErr \cup cleanErr \cup failed = {}
                 /\ \A d \in Dataset : FilterSnapshots(seen[d]) # {}
            /\ OK(failed) => \A d \in Dataset :
                 /\ status[d].CommonSnapshot = status[d].LatestSourceSnapshot
                 /\ status[d].CommonSnapshot \in snaps[d]
=============================================================================
