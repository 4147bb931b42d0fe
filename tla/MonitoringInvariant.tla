------------------------ MODULE MonitoringInvariant ------------------------
(***************************************************************************)
(* Why the properties of Monitoring hold: the inductive invariant MInv, in *)
(* named parts.                                                            *)
(***************************************************************************)
EXTENDS Monitoring

Before == {"off", "temp"}
OnLocal == {"stage", "copy", "replace", "clear", "again"}
OnSource == {"scp", "sending", "mv"}
InCheckzfs == {"header", "checkzfs", "append", "spool", "spooling"}

\* The runs begin in order, and without an overlap only the last of those
\* that have begun is under way.
Ordered ==
    \A q, r \in Run : q < r =>
        /\ pc[r] # "off" => pc[q] # "off"
        /\ ~overlapped /\ Running(q) => pc[r] = "off"

\* Each run is on the host the configuration names.
Placed ==
    \A r \in Run :
        /\ pc[r] \in OnLocal => zabbixPlace = "local"
        /\ pc[r] \in OnSource => zabbixPlace = "source"

\* What a copy or an scp is writing to is a file, and not full yet.
Writing ==
    \A r \in Run :
        /\ pc[r] \in Before \cup {"stage", "scp"} => written[r] = 0
        /\ pc[r] \in {"copy", "sending"} => written[r] <= 1
        /\ into[r] # "none" => pc[r] = "sending"
        /\ into[r] = "tmp" => remoteTmp \in File
        /\ into[r] = "status" => status \in File

\* The first n chunks of the file are r's.
WrittenBy(r, n, file) == file \in File /\ \A c \in Chunk : c <= n => file[c] = r

\* What r has under names of its own, and when it has nothing there.
OwnFiles ==
    \A r \in Run :
        /\ pc[r] \in Before \cup OnSource \cup InCheckzfs \cup {"ended"} => staged[r] = Absent
        /\ pc[r] \in InCheckzfs \cup {"ended"} => tmp[r] = Absent
        /\ pc[r] = "stage" => tmp[r] = Whole(r)
        /\ pc[r] = "copy" => WrittenBy(r, written[r], staged[r])
        /\ pc[r] \in {"replace", "clear", "again"} => staged[r] = Whole(r)

\* r is the latest run to have begun.
Latest(r) == \A q \in Run : q > r => pc[q] = "off"

Reported(r) == status = Whole(r) \/ (zabbixPlace = "source" /\ status = FullDir)

\* What r, alone under way, has put under the names that runs share.
ReportingOf(r) ==
    /\ pc[r] = "sending" => into[r] = "tmp" /\ WrittenBy(r, written[r], remoteTmp)
    /\ pc[r] = "mv" => remoteTmp = Whole(r)
    /\ pc[r] = "clear" => status \in Directory
    /\ pc[r] \in InCheckzfs \cup {"ended"} /\ ~failed[r] /\ Latest(r) => Reported(r)

Output(r) == [output |-> IF critical[r] THEN {} ELSE {r}]

SpoolingOf(r) ==
    /\ pc[r] = "checkzfs" => spoolTmp = Header
    /\ pc[r] = "append" => spoolTmp = Header /\ ~critical[r]
    /\ pc[r] = "spool" => spoolTmp = Output(r)
    /\ pc[r] = "spooling" => carried[r] = Output(r)
    /\ pc[r] = "ended" /\ ~failed[r] /\ Latest(r) => spool = Output(r)

InTurn == ~overlapped => \A r \in Run : ReportingOf(r) /\ SpoolingOf(r)

\* MInv relates what the shared names hold to the run that is at work on
\* them, also when deaths and failures of earlier runs have left files there
\* (status.go:195-287, checkzfs.go:36-158).
MInv ==
    /\ TypeOK /\ Ordered /\ Placed /\ Writing /\ OwnFiles
    /\ ReaderSeesWhole /\ InTurn
=============================================================================
