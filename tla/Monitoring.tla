----------------------------- MODULE Monitoring -----------------------------
(***************************************************************************)
(* The two monitoring phases at the end of a run: the Zabbix status file   *)
(* (publish and what it calls in internal/zabbix/status.go) and the        *)
(* checkzfs spool file (internal/checkzfs/checkzfs.go), each placed on the *)
(* local or on the source host.  Nothing keeps two runs apart, so any      *)
(* number of them may be in these phases at once; each may fail or die     *)
(* between any two steps.                                                  *)
(*                                                                         *)
(* A status file is a few chunks, each the work of one run (0: not written *)
(* yet), so that a reader who looks in between sees a mixture.  A spool    *)
(* file is the set of runs whose checkzfs output follows its header.  The  *)
(* temporary names on the local host are unique to a run for the status    *)
(* (os.CreateTemp) and common to all runs for checkzfs; on the source both *)
(* are common.                                                             *)
(***************************************************************************)
EXTENDS Integers

CONSTANTS NRun,                 \* bound: the runs of a behaviour
          MaxFaults,            \* bound: failures and deaths of a behaviour
          Absent, Dir, FullDir, \* no file; an empty, a non-empty directory
          Torn                  \* a spool file whose copy has not ended

Run == 1 .. NRun
Chunk == 1 .. 2
File == [Chunk -> 0 .. NRun]
Directory == {Dir, FullDir}

SpoolFile == [output : SUBSET Run]

ASSUME MonitoringAssumption ==
    /\ NRun \in Nat /\ MaxFaults \in Nat
    /\ Directory \cap (File \cup {Absent}) = {} /\ Dir # FullDir
    /\ Absent \notin File \cup SpoolFile /\ Torn \notin SpoolFile \cup {Absent}

Whole(r) == [c \in Chunk |-> r]
Empty == [c \in Chunk |-> 0]
Header == [output |-> {}]

VARIABLES
    zabbixPlace,    \* zabbix.place: the host the status goes to
    spoolPlace,     \* checkzfs.spool: the host the spool file goes to
    pc,             \* pc[r]: where run r is
    failed,         \* failed[r]: main will exit with an error
    tmp,            \* tmp[r]: the file os.CreateTemp made for r
    staged,         \* staged[r]: r's file beside the local status file
    remoteTmp,      \* zabbix.path + ".tmp" on the source
    status,         \* zabbix.path on its host: what the Zabbix agent reads
    into,           \* into[r]: the file r's scp has open on the source
    written,        \* written[r]: the chunks r's copy or scp has written
    spoolTmp,       \* the spool file in the temporary directory
    spool,          \* the spool file: what the Checkmk agent reads
    carried,        \* carried[r]: what r's scp of the spool file has read
    critical,       \* critical[r]: checkzfs reported WARN or CRIT to r
    overlapped,     \* history: two runs were in these phases at once
    faults          \* failures left

config == <<zabbixPlace, spoolPlace>>
local == <<tmp, staged>>
remote == <<remoteTmp, into>>
zabbix == <<local, remote, status, written>>
checkzfs == <<spoolTmp, spool, carried, critical>>
vars == <<config, pc, failed, zabbix, checkzfs, overlapped, faults>>

Init ==
    /\ zabbixPlace \in {"local", "source"} /\ spoolPlace \in {"local", "source"}
    /\ pc = [r \in Run |-> "off"] /\ failed = [r \in Run |-> FALSE]
    /\ tmp = [r \in Run |-> Absent] /\ staged = [r \in Run |-> Absent]
    /\ remoteTmp = Absent /\ into = [r \in Run |-> "none"]
    /\ status \in {Absent} \cup Directory
    /\ written = [r \in Run |-> 0]
    /\ spoolTmp = Absent /\ spool = Absent
    /\ carried = [r \in Run |-> Header] /\ critical = [r \in Run |-> FALSE]
    /\ overlapped = FALSE
    /\ faults = MaxFaults

Fault == faults > 0 /\ faults' = faults - 1

Running(r) == pc[r] \notin {"off", "ended", "dead"}
At(r, label) == pc[r] = label
Goto(r, label) == pc' = [pc EXCEPT ![r] = label]
Fails(r) == failed' = [failed EXCEPT ![r] = TRUE]

-----------------------------------------------------------------------------
(* The status file.                                                        *)

\* The replication of run r is over and monitoring begins.
Start(r) ==
    /\ At(r, "off") /\ \A q \in 1 .. r - 1 : ~At(q, "off")
    /\ Goto(r, "temp")
    /\ overlapped' = (overlapped \/ \E q \in Run : Running(q))
    /\ UNCHANGED <<config, failed, zabbix, checkzfs, faults>>

\* publish removes its temporary file however it ends; an error is main's
\* business, which goes on with checkzfs.
RemoveTemp(r) == tmp' = [tmp EXCEPT ![r] = Absent]
Published(r) == RemoveTemp(r) /\ Goto(r, "header") /\ UNCHANGED failed
NotPublished(r) == RemoveTemp(r) /\ Goto(r, "header") /\ Fails(r)

RemoveStaged(r) == staged' = [staged EXCEPT ![r] = Absent]

writeTemp(r) ==
    /\ At(r, "temp")
    /\ tmp' = [tmp EXCEPT ![r] = Whole(r)]
    /\ Goto(r, IF zabbixPlace = "source" THEN "scp" ELSE "stage")
    /\ UNCHANGED <<config, failed, staged, remote, status, written, checkzfs,
                   overlapped, faults>>

writeTempFails(r) ==
    /\ At(r, "temp")
    /\ Fault
    /\ NotPublished(r)
    /\ UNCHANGED <<config, staged, remote, status, written, checkzfs, overlapped>>

\* moveLocal brings the file into the directory of its destination, by
\* rename or, between file systems, by copying.
StageByRename(r) ==
    /\ At(r, "stage")
    /\ staged' = [staged EXCEPT ![r] = tmp[r]]
    /\ RemoveTemp(r)
    /\ Goto(r, "replace")
    /\ UNCHANGED <<config, failed, remote, status, written, checkzfs,
                   overlapped, faults>>

StageByCopy(r) ==
    /\ At(r, "stage")
    /\ staged' = [staged EXCEPT ![r] = Empty]
    /\ Goto(r, "copy")
    /\ UNCHANGED <<config, failed, tmp, remote, status, written, checkzfs,
                   overlapped, faults>>

WriteChunk(r, file) == [file EXCEPT ![written[r] + 1] = r]
\* Mutant: a copy goes on past its end.
LastChunkOneMore(r) == written[r] + 1 > 2
LastChunk(r) == written[r] + 1 = 2

copyFile(r) ==
    /\ At(r, "copy")
    /\ staged' = [staged EXCEPT ![r] = WriteChunk(r, @)]
    /\ written' = [written EXCEPT ![r] = @ + 1]
    /\ IF LastChunk(r) THEN Goto(r, "replace") ELSE UNCHANGED pc
    /\ UNCHANGED <<config, failed, tmp, remote, status, checkzfs, overlapped, faults>>

copyFileFails(r) ==
    /\ At(r, "stage") \/ At(r, "copy")
    /\ Fault
    /\ RemoveStaged(r)
    /\ NotPublished(r)
    /\ UNCHANGED <<config, remote, status, written, checkzfs, overlapped>>

\* Mutant: the old status is removed before the new one takes its place.
ReplaceByRemoving(r) ==
    /\ At(r, "replace")
    /\ Goto(r, IF status = Absent THEN "again" ELSE "clear")
    /\ UNCHANGED <<config, failed, zabbix, checkzfs, overlapped, faults>>

\* The rename to the destination; Go refuses to rename onto a directory.
Replace(r) ==
    /\ At(r, "replace")
    /\ IF status \in Directory
       THEN Goto(r, "clear") /\ UNCHANGED <<status, local, failed>>
       ELSE status' = staged[r] /\ RemoveStaged(r) /\ Published(r)
    /\ UNCHANGED <<config, remote, written, checkzfs, overlapped, faults>>

\* What moveLocal does then: remove what is there, whatever it is by now.
Clear(r) ==
    /\ At(r, "clear")
    /\ IF status \in {Absent, FullDir}
       THEN RemoveStaged(r) /\ NotPublished(r) /\ UNCHANGED status
       ELSE status' = Absent /\ Goto(r, "again") /\ UNCHANGED <<local, failed>>
    /\ UNCHANGED <<config, remote, written, checkzfs, overlapped, faults>>

ReplaceAgain(r) ==
    /\ At(r, "again")
    /\ status' = staged[r]
    /\ RemoveStaged(r)
    /\ Published(r)
    /\ UNCHANGED <<config, remote, written, checkzfs, overlapped, faults>>

\* Mutant: the staged file stays.
ReplaceFailsKeeping(r) ==
    /\ At(r, "replace") \/ At(r, "again")
    /\ Fault
    /\ NotPublished(r)
    /\ UNCHANGED <<config, staged, remote, status, written, checkzfs, overlapped>>

ReplaceFails(r) ==
    /\ At(r, "replace") \/ At(r, "again")
    /\ Fault
    /\ RemoveStaged(r)
    /\ NotPublished(r)
    /\ UNCHANGED <<config, remote, status, written, checkzfs, overlapped>>

\* Mutant: scp writes the status file itself.
ScpOpenDirect(r) ==
    /\ At(r, "scp")
    /\ status' = Empty /\ into' = [into EXCEPT ![r] = "status"]
    /\ Goto(r, "sending")
    /\ UNCHANGED <<config, failed, local, remoteTmp, written, checkzfs,
                   overlapped, faults>>

\* moveToSource: scp creates or truncates the one temporary file, and writes
\* to that file wherever a mv of another run has taken it.
ScpOpen(r) ==
    /\ At(r, "scp")
    /\ remoteTmp' = Empty
    /\ into' = [into EXCEPT ![r] = "tmp"]
    /\ Goto(r, "sending")
    /\ UNCHANGED <<config, failed, local, status, written, checkzfs,
                   overlapped, faults>>

ScpWrite(r) ==
    /\ At(r, "sending")
    /\ remoteTmp' = IF into[r] = "tmp" THEN WriteChunk(r, remoteTmp) ELSE remoteTmp
    /\ status' = IF into[r] = "status" THEN WriteChunk(r, status) ELSE status
    /\ written' = [written EXCEPT ![r] = @ + 1]
    /\ IF LastChunk(r)
       THEN Goto(r, "mv") /\ into' = [into EXCEPT ![r] = "none"]
       ELSE UNCHANGED <<pc, into>>
    /\ UNCHANGED <<config, failed, local, checkzfs, overlapped, faults>>

\* Mutant: an interrupted scp is no error.
ScpFailsSilently(r) ==
    /\ At(r, "scp") \/ At(r, "sending")
    /\ Fault
    /\ into' = [into EXCEPT ![r] = "none"]
    /\ Published(r)
    /\ UNCHANGED <<config, staged, remoteTmp, status, written, checkzfs, overlapped>>

ScpFails(r) ==
    /\ At(r, "scp") \/ At(r, "sending")
    /\ Fault
    /\ into' = [into EXCEPT ![r] = "none"]
    /\ NotPublished(r)
    /\ UNCHANGED <<config, staged, remoteTmp, status, written, checkzfs, overlapped>>

\* mv -f; into a directory, if that is what it finds.
Mv(r) ==
    /\ At(r, "mv") /\ remoteTmp # Absent
    /\ status' = IF status \in Directory THEN FullDir ELSE remoteTmp
    /\ remoteTmp' = Absent
    /\ into' = [q \in Run |-> IF into[q] = "tmp" /\ status \notin Directory
                              THEN "status" ELSE "none"]
    /\ Published(r)
    /\ UNCHANGED <<config, staged, written, checkzfs, overlapped, faults>>

\* The connection fails, or another run has moved the file away.
MvFails(r) ==
    /\ At(r, "mv")
    /\ IF remoteTmp = Absent THEN UNCHANGED faults ELSE Fault
    /\ NotPublished(r)
    /\ UNCHANGED <<config, staged, remote, status, written, checkzfs, overlapped>>

-----------------------------------------------------------------------------
(* The spool file.                                                         *)

Ends(r) == Goto(r, "ended") /\ UNCHANGED failed
EndsFailing(r) == Goto(r, "ended") /\ Fails(r)

\* Mutant: the header is appended to what is there.
WriteHeaderAppending(r) ==
    /\ At(r, "header")
    /\ spoolTmp' = IF spoolTmp = Absent THEN Header ELSE spoolTmp
    /\ Goto(r, "checkzfs")
    /\ UNCHANGED <<config, failed, zabbix, spool, carried, critical, overlapped, faults>>

\* os.WriteFile truncates what an earlier run may have left.
WriteHeader(r) ==
    /\ At(r, "header")
    /\ spoolTmp' = Header
    /\ Goto(r, "checkzfs")
    /\ UNCHANGED <<config, failed, zabbix, spool, carried, critical, overlapped, faults>>

\* checkzfs exits non-zero for WARN and CRIT; the executor then returns the
\* error without the output, and an empty output is not appended.
Checkzfs(r) ==
    /\ At(r, "checkzfs")
    /\ \E c \in BOOLEAN :
          /\ critical' = [critical EXCEPT ![r] = c]
          /\ Goto(r, IF c THEN "spool" ELSE "append")
    /\ UNCHANGED <<config, failed, zabbix, spoolTmp, spool, carried, overlapped, faults>>

Append(r) ==
    /\ At(r, "append") /\ spoolTmp # Absent
    /\ spoolTmp' = [output |-> spoolTmp.output \cup {r}]
    /\ Goto(r, "spool")
    /\ UNCHANGED <<config, failed, zabbix, spool, carried, critical, overlapped, faults>>

spoolLocally(r) ==
    /\ At(r, "spool") /\ spoolPlace = "local" /\ spoolTmp # Absent
    /\ spool' = spoolTmp /\ spoolTmp' = Absent
    /\ Ends(r)
    /\ UNCHANGED <<config, zabbix, carried, critical, overlapped, faults>>

\* spoolToSource writes the spool file in place and then removes its own.
spoolToSource(r) ==
    /\ At(r, "spool") /\ spoolPlace = "source" /\ spoolTmp # Absent
    /\ carried' = [carried EXCEPT ![r] = spoolTmp]
    /\ spool' = Torn
    /\ Goto(r, "spooling")
    /\ UNCHANGED <<config, failed, zabbix, spoolTmp, critical, overlapped, faults>>

SpooledToSource(r) ==
    /\ At(r, "spooling")
    /\ spool' = carried[r] /\ spoolTmp' = Absent
    /\ carried' = [carried EXCEPT ![r] = Header]
    /\ Ends(r)
    /\ UNCHANGED <<config, zabbix, critical, overlapped, faults>>

\* Any command or file operation of the phase fails: checkzfs is not there,
\* the header or the output cannot be written, the file cannot be moved or
\* copied, or another run has taken it.
CheckzfsFails(r) ==
    /\ pc[r] \in {"header", "append", "spool", "spooling"}
    /\ IF pc[r] \in {"append", "spool"} /\ spoolTmp = Absent
       THEN UNCHANGED faults ELSE Fault
    /\ carried' = [carried EXCEPT ![r] = Header]
    /\ EndsFailing(r)
    /\ UNCHANGED <<config, zabbix, spoolTmp, spool, critical, overlapped>>

-----------------------------------------------------------------------------
\* The process dies, and an scp with it; what it wrote stays.
Die(r) ==
    /\ Running(r)
    /\ Fault
    /\ Goto(r, "dead")
    /\ into' = [into EXCEPT ![r] = "none"]
    /\ carried' = [carried EXCEPT ![r] = Header]
    /\ UNCHANGED <<config, failed, local, remoteTmp, status, written,
                   spoolTmp, spool, critical, overlapped>>

Status(r) ==
    \/ Start(r) \/ writeTemp(r) \/ writeTempFails(r)
    \/ StageByRename(r) \/ StageByCopy(r) \/ copyFile(r) \/ copyFileFails(r)
    \/ Replace(r) \/ Clear(r) \/ ReplaceAgain(r) \/ ReplaceFails(r)
    \/ ScpOpen(r) \/ ScpWrite(r) \/ ScpFails(r) \/ Mv(r) \/ MvFails(r)

Spool(r) ==
    \/ WriteHeader(r) \/ Checkzfs(r) \/ Append(r)
    \/ spoolLocally(r) \/ spoolToSource(r) \/ SpooledToSource(r) \/ CheckzfsFails(r)

Next == \E r \in Run : Status(r) \/ Spool(r) \/ Die(r)

Spec == Init /\ [][Next]_vars

-----------------------------------------------------------------------------
(* Properties.                                                             *)

\* Every variable keeps its type: each name is free, a directory or a file that
\* some run wrote, and none holds more than a file's chunks.
TypeOK ==
    /\ zabbixPlace \in {"local", "source"} /\ spoolPlace \in {"local", "source"}
    /\ pc \in [Run -> {"off", "temp", "stage", "copy", "replace", "clear", "again",
                       "scp", "sending", "mv", "header", "checkzfs", "append",
                       "spool", "spooling", "ended", "dead"}]
    /\ failed \in [Run -> BOOLEAN]
    /\ tmp \in [Run -> File \cup {Absent}] /\ staged \in [Run -> File \cup {Absent}]
    /\ remoteTmp \in File \cup {Absent}
    /\ status \in File \cup {Absent} \cup Directory
    /\ into \in [Run -> {"none", "tmp", "status"}]
    /\ written \in [Run -> 0 .. 2]
    /\ spoolTmp \in SpoolFile \cup {Absent} /\ spool \in SpoolFile \cup {Absent, Torn}
    /\ carried \in [Run -> SpoolFile] /\ critical \in [Run -> BOOLEAN]
    /\ overlapped \in BOOLEAN
    /\ faults \in 0 .. MaxFaults

\* The status is written atomically (status.go:46): whatever fails or dies,
\* an agent that reads at any time finds the whole report of one run; on the
\* source this takes runs that do not overlap.
ReaderSeesWhole ==
    status \in File =>
        (\E r \in Run : status = Whole(r)) \/ (zabbixPlace = "source" /\ overlapped)

\* A status that is there stays there until a newer one takes its place: no
\* moment without one (status.go:242), as long as runs do not overlap.
StatusStays == [][~overlapped /\ status \in File => status' \in File]_vars

\* A run that goes on after publishing has left none of its temporary files
\* (status.go:204, 222, 244, 265), whether it succeeded or failed.
NoLeftovers ==
    \A r \in Run : pc[r] \in {"header", "checkzfs", "append", "spool", "spooling", "ended"}
                      => tmp[r] = Absent /\ staged[r] = Absent

\* r has ended without an error, and nothing came after or between.
Alone(r) ==
    /\ pc[r] = "ended" /\ ~failed[r] /\ ~overlapped
    /\ \A q \in Run : q > r => pc[q] = "off"

\* A run that exits without an error has published its own report (main.go:
\* 153-161): no step of several fails in silence, and what earlier runs left
\* half done is not in the way.  (A mv on the source into a directory of the
\* status file's name passes for a success.)
SuccessIsPublished ==
    \A r \in Run : Alone(r) =>
        \/ status = Whole(r)
        \/ zabbixPlace = "source" /\ status = FullDir

\* Its spool file holds its own output and no other run's (checkzfs.go:44,
\* 60-74), also after runs that died with their temporary file in place.
SpoolIsOfRun ==
    \A r \in Run : Alone(r) => spool = [output |-> IF critical[r] THEN {} ELSE {r}]

\* The output of checkzfs is spooled whatever state it reports
\* (checkzfs.go:55-56: valid also for WARN and CRIT).
OutputSpooled == \A r \in Run : Alone(r) => spool = [output |-> {r}]
=============================================================================
