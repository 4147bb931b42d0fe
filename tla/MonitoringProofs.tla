-------------------------- MODULE MonitoringProofs --------------------------
(***************************************************************************)
(* The monitoring phases, for any number of runs that overlap or not, and  *)
(* any number of failures and deaths: MInv is an invariant, and with it    *)
(* the properties of Monitoring.                                           *)
(***************************************************************************)
EXTENDS MonitoringInvariant, TLAPS

LEMMA WholeIsFile == ASSUME NEW r \in Run PROVE Whole(r) \in File
BY MonitoringAssumption DEF Whole, File, Run

LEMMA EmptyIsFile == Empty \in File /\ Header \in SpoolFile
BY MonitoringAssumption DEF Empty, Header, File, SpoolFile

\* Writing the next chunk of a file whose first n chunks are one's own.
LEMMA ChunkWritten ==
    ASSUME NEW r \in Run, written[r] \in 0 .. 1, NEW file \in File
    PROVE  /\ WriteChunk(r, file) \in File
           /\ WrittenBy(r, written[r], file) =>
                 /\ WrittenBy(r, written[r] + 1, WriteChunk(r, file))
                 /\ LastChunk(r) => WriteChunk(r, file) = Whole(r)
<1>1. r \in 0 .. NRun
  BY MonitoringAssumption DEF Run
<1>2. CASE written[r] = 0
  <2>1. WriteChunk(r, file) = [file EXCEPT ![1] = r]
    BY <1>2 DEF WriteChunk
  <2>2. QED
    BY <1>1, <1>2, <2>1 DEF WrittenBy, LastChunk, File, Chunk
<1>3. CASE written[r] = 1
  <2>1. WriteChunk(r, file) = [file EXCEPT ![2] = r]
    BY <1>3 DEF WriteChunk
  <2>2. WriteChunk(r, file) \in File
    BY <1>1, <2>1 DEF File, Chunk
  <2>3. ASSUME WrittenBy(r, written[r], file)
        PROVE  \A c \in Chunk : WriteChunk(r, file)[c] = r
    BY <1>3, <2>1, <2>3 DEF WrittenBy, File, Chunk
  <2>4. ASSUME WrittenBy(r, written[r], file)
        PROVE  WriteChunk(r, file) = Whole(r)
    BY <2>2, <2>3, <2>4 DEF Whole, File
  <2>5. QED
    BY <2>2, <2>3, <2>4 DEF WrittenBy
<1>4. QED
  BY <1>2, <1>3

\* Each step keeps the types.
LEMMA TypeStep ==
    ASSUME TypeOK, Writing, OwnFiles, NEW r \in Run, Status(r) \/ Spool(r) \/ Die(r)
    PROVE  TypeOK'
<1> USE MonitoringAssumption, WholeIsFile, EmptyIsFile
   DEF TypeOK, Goto, Fails, At, Fault, Published, NotPublished, RemoveTemp, RemoveStaged,
       Ends, EndsFailing, config, local, remote, zabbix, checkzfs
<1>1. CASE Start(r)
  BY <1>1 DEF Start
<1>2. CASE writeTemp(r)
  BY <1>2 DEF writeTemp
<1>3. CASE writeTempFails(r)
  BY <1>3 DEF writeTempFails
<1>4. CASE StageByRename(r)
  BY <1>4 DEF StageByRename
<1>5. CASE StageByCopy(r)
  BY <1>5 DEF StageByCopy
<1>6. CASE copyFile(r)
  <2>1. staged[r] \in File /\ written[r] \in 0 .. 1
    BY <1>6 DEF copyFile, OwnFiles, Writing, WrittenBy
  <2>2. WriteChunk(r, staged[r]) \in File
    BY <2>1, ChunkWritten
  <2> QED
    BY <1>6, <2>1, <2>2 DEF copyFile
<1>7. CASE copyFileFails(r)
  BY <1>7 DEF copyFileFails
<1>8. CASE Replace(r)
  BY <1>8 DEF Replace
<1>9. CASE Clear(r)
  <2>1. UNCHANGED <<config, remote, written, checkzfs, overlapped, faults>>
    BY <1>9 DEF Clear
  <2>2. status' \in File \cup {Absent} \cup Directory
    BY <1>9 DEF Clear
  <2>3. /\ \/ UNCHANGED tmp
           \/ tmp' = [tmp EXCEPT ![r] = Absent]
        /\ \/ UNCHANGED staged
           \/ staged' = [staged EXCEPT ![r] = Absent]
    BY <1>9 DEF Clear
  <2>4. /\ \/ UNCHANGED failed
           \/ failed' = [failed EXCEPT ![r] = TRUE]
        /\ \/ pc' = [pc EXCEPT ![r] = "header"]
           \/ pc' = [pc EXCEPT ![r] = "again"]
    BY <1>9 DEF Clear
  <2>5. tmp' \in [Run -> File \cup {Absent}] /\ staged' \in [Run -> File \cup {Absent}]
    BY <2>3
  <2>6. pc' \in [Run -> {"off", "temp", "stage", "copy", "replace", "clear", "again",
                         "scp", "sending", "mv", "header", "checkzfs", "append",
                         "spool", "spooling", "ended", "dead"}]
    BY <2>4
  <2>7. failed' \in [Run -> BOOLEAN]
    BY <2>4
  <2> QED
    BY <2>1, <2>2, <2>5, <2>6, <2>7
<1>10. CASE ReplaceAgain(r)
  BY <1>10 DEF ReplaceAgain
<1>11. CASE ReplaceFails(r)
  BY <1>11 DEF ReplaceFails
<1>12. CASE ScpOpen(r)
  BY <1>12 DEF ScpOpen
<1>13. CASE ScpWrite(r)
  <2>1. /\ written[r] \in 0 .. 1
        /\ into[r] = "tmp" => remoteTmp \in File
        /\ into[r] = "status" => status \in File
    BY <1>13 DEF ScpWrite, Writing
  <2>2. /\ into[r] = "tmp" => WriteChunk(r, remoteTmp) \in File
        /\ into[r] = "status" => WriteChunk(r, status) \in File
    BY <2>1, ChunkWritten
  <2> QED
    BY <1>13, <2>1, <2>2 DEF ScpWrite
<1>14. CASE ScpFails(r)
  BY <1>14 DEF ScpFails
<1>15. CASE Mv(r)
  <2>1. status' \in File \cup Directory
    BY <1>15 DEF Mv, Directory
  <2>2. into' \in [Run -> {"none", "tmp", "status"}]
    BY <1>15 DEF Mv
  <2> QED
    BY <1>15, <2>1, <2>2 DEF Mv
<1>16. CASE MvFails(r)
  BY <1>16 DEF MvFails
<1>17. CASE WriteHeader(r)
  BY <1>17 DEF WriteHeader
<1>18. CASE Checkzfs(r)
  BY <1>18 DEF Checkzfs
<1>19. CASE Append(r)
  <2>1. spoolTmp' \in SpoolFile
    BY <1>19 DEF Append, SpoolFile
  <2> QED
    BY <1>19, <2>1 DEF Append
<1>20. CASE spoolLocally(r)
  BY <1>20 DEF spoolLocally
<1>21. CASE spoolToSource(r)
  BY <1>21 DEF spoolToSource
<1>22. CASE SpooledToSource(r)
  BY <1>22 DEF SpooledToSource
<1>23. CASE CheckzfsFails(r)
  BY <1>23 DEF CheckzfsFails
<1>24. CASE Die(r)
  BY <1>24 DEF Die
<1> QED
  BY <1>1, <1>2, <1>3, <1>4, <1>5, <1>6, <1>7, <1>8, <1>9, <1>10, <1>11, <1>12, <1>13,
     <1>14, <1>15, <1>16, <1>17, <1>18, <1>19, <1>20, <1>21, <1>22, <1>23, <1>24 DEF
     Status, Spool

\* A step of r is r's alone: what it keeps, and that r has begun.
LEMMA Frame ==
    ASSUME TypeOK, NEW r \in Run, Status(r) \/ Spool(r) \/ Die(r)
    PROVE  /\ \A q \in Run \ {r} :
                 /\ pc'[q] = pc[q] /\ failed'[q] = failed[q] /\ critical'[q] = critical[q]
                 /\ tmp'[q] = tmp[q] /\ staged'[q] = staged[q] /\ written'[q] = written[q]
           /\ pc'[r] # "off" /\ (failed[r] => failed'[r])
           /\ Start(r) \/ (Running(r) /\ overlapped' = overlapped)
           /\ UNCHANGED config
<1> USE DEF TypeOK, Goto, Fails, At, Fault, Published, NotPublished, RemoveTemp, RemoveStaged,
       Ends, EndsFailing, config, local, remote, zabbix, checkzfs, Running
<1>1. CASE Start(r)
  BY <1>1 DEF Start
<1>2. CASE writeTemp(r)
  BY <1>2 DEF writeTemp
<1>3. CASE writeTempFails(r)
  BY <1>3 DEF writeTempFails
<1>4. CASE StageByRename(r)
  BY <1>4 DEF StageByRename
<1>5. CASE StageByCopy(r)
  BY <1>5 DEF StageByCopy
<1>6. CASE copyFile(r)
  BY <1>6 DEF copyFile
<1>7. CASE copyFileFails(r)
  BY <1>7 DEF copyFileFails
<1>8. CASE Replace(r)
  BY <1>8 DEF Replace
<1>9. CASE Clear(r)
  BY <1>9 DEF Clear
<1>10. CASE ReplaceAgain(r)
  BY <1>10 DEF ReplaceAgain
<1>11. CASE ReplaceFails(r)
  BY <1>11 DEF ReplaceFails
<1>12. CASE ScpOpen(r)
  BY <1>12 DEF ScpOpen
<1>13. CASE ScpWrite(r)
  BY <1>13 DEF ScpWrite
<1>14. CASE ScpFails(r)
  BY <1>14 DEF ScpFails
<1>15. CASE Mv(r)
  BY <1>15 DEF Mv
<1>16. CASE MvFails(r)
  BY <1>16 DEF MvFails
<1>17. CASE WriteHeader(r)
  BY <1>17 DEF WriteHeader
<1>18. CASE Checkzfs(r)
  BY <1>18 DEF Checkzfs
<1>19. CASE Append(r)
  BY <1>19 DEF Append
<1>20. CASE spoolLocally(r)
  BY <1>20 DEF spoolLocally
<1>21. CASE spoolToSource(r)
  BY <1>21 DEF spoolToSource
<1>22. CASE SpooledToSource(r)
  BY <1>22 DEF SpooledToSource
<1>23. CASE CheckzfsFails(r)
  BY <1>23 DEF CheckzfsFails
<1>24. CASE Die(r)
  BY <1>24 DEF Die
<1> QED
  BY <1>1, <1>2, <1>3, <1>4, <1>5, <1>6, <1>7, <1>8, <1>9, <1>10, <1>11, <1>12, <1>13,
     <1>14, <1>15, <1>16, <1>17, <1>18, <1>19, <1>20, <1>21, <1>22, <1>23, <1>24 DEF
     Status, Spool

\* The order of the runs is kept.
LEMMA OrderedStep ==
    ASSUME TypeOK, Ordered, NEW r \in Run, Status(r) \/ Spool(r) \/ Die(r)
    PROVE  Ordered'
<1>1. SUFFICES ASSUME NEW q \in Run, NEW s \in Run, q < s
               PROVE  /\ pc'[s] # "off" => pc'[q] # "off"
                      /\ ~overlapped' /\ Running(q)' => pc'[s] = "off"
  BY DEF Ordered
<1>2. q # s
  BY <1>1, MonitoringAssumption DEF Run
<1>3. CASE Start(r)
  <2>1. /\ pc[r] = "off" /\ \A p \in Run : p < r => pc[p] # "off"
    BY <1>3, MonitoringAssumption DEF Start, At, Run
  <2>2. ~overlapped' => \A p \in Run : ~Running(p)
    BY <1>3 DEF Start
  <2>3. QED
    BY <1>1, <1>2, <2>1, <2>2, Frame DEF Ordered, Running
<1>4. CASE Running(r) /\ overlapped' = overlapped
  BY <1>1, <1>2, <1>4, Frame DEF Ordered, Running
<1>5. QED
  BY <1>3, <1>4, Frame

\* Without an overlap nobody but r is under way, and those who have begun
\* are no longer the latest.
LEMMA AloneUnderWay ==
    ASSUME TypeOK, Ordered, NEW r \in Run, Status(r) \/ Spool(r) \/ Die(r), ~overlapped',
           NEW q \in Run \ {r}
    PROVE  ~overlapped /\ ~Running(q)' /\ (pc'[q] # "off" => ~Latest(q)')
<1>0. q < r \/ r < q
  BY MonitoringAssumption DEF Run
<1>1. CASE Start(r)
  <2>1. /\ pc[r] = "off" /\ ~overlapped /\ \A p \in Run : ~Running(p)
    BY <1>1 DEF Start, At
  <2>2. QED
    BY <1>0, <2>1, Frame DEF Ordered, Running, Latest
<1>2. CASE Running(r) /\ overlapped' = overlapped
  BY <1>0, <1>2, Frame DEF Ordered, Running, Latest
<1>3. QED
  BY <1>1, <1>2, Frame

\* The steps in checkzfs and a death leave the status and its files alone.
LEMMA StatusKept ==
    ASSUME TypeOK, NEW r \in Run, Spool(r) \/ Die(r)
    PROVE  /\ UNCHANGED <<zabbixPlace, tmp, staged, remoteTmp, status, written>>
           /\ \A q \in Run \ {r} : pc'[q] = pc[q] /\ into'[q] = into[q]
           /\ \/ /\ pc[r] \in InCheckzfs /\ pc'[r] \in InCheckzfs \cup {"ended"}
                 /\ into' = into
              \/ pc'[r] = "dead" /\ into'[r] = "none"
<1> USE DEF TypeOK, Goto, Fails, At, Fault, Published, NotPublished, RemoveTemp, RemoveStaged,
       Ends, EndsFailing, config, local, remote, zabbix, checkzfs, InCheckzfs
<1>1. CASE WriteHeader(r)
  BY <1>1 DEF WriteHeader
<1>2. CASE Checkzfs(r)
  BY <1>2 DEF Checkzfs
<1>3. CASE Append(r)
  BY <1>3 DEF Append
<1>4. CASE spoolLocally(r)
  BY <1>4 DEF spoolLocally
<1>5. CASE spoolToSource(r)
  BY <1>5 DEF spoolToSource
<1>6. CASE SpooledToSource(r)
  BY <1>6 DEF SpooledToSource
<1>7. CASE CheckzfsFails(r)
  BY <1>7 DEF CheckzfsFails
<1>8. CASE Die(r)
  BY <1>8 DEF Die
<1> QED
  BY <1>1, <1>2, <1>3, <1>4, <1>5, <1>6, <1>7, <1>8 DEF Status, Spool

\* A run stays on its host, and writes to files that are there and not full.
LEMMA WritingStep ==
    ASSUME TypeOK, Placed, Writing, NEW r \in Run,
           Status(r) \/ Spool(r) \/ Die(r)
    PROVE  Placed' /\ Writing'
<1> USE MonitoringAssumption DEF TypeOK, Goto, Fails, At, Fault, Published,
   NotPublished, RemoveTemp, RemoveStaged,
       Ends, EndsFailing, config, local, remote, zabbix, checkzfs,
       Before, OnLocal, OnSource, InCheckzfs, Placed, Writing
<1>1. CASE Start(r)
  BY <1>1 DEF Start
<1>2. CASE writeTemp(r)
  BY <1>2 DEF writeTemp
<1>3. CASE writeTempFails(r)
  BY <1>3 DEF writeTempFails
<1>4. CASE StageByRename(r)
  BY <1>4 DEF StageByRename
<1>5. CASE StageByCopy(r)
  BY <1>5 DEF StageByCopy
<1>6. CASE copyFile(r)
  BY <1>6 DEF copyFile, LastChunk
<1>7. CASE copyFileFails(r)
  BY <1>7 DEF copyFileFails
<1>8. CASE Replace(r)
  BY <1>8 DEF Replace
<1>9. CASE Clear(r)
  BY <1>9 DEF Clear
<1>10. CASE ReplaceAgain(r)
  BY <1>10 DEF ReplaceAgain
<1>11. CASE ReplaceFails(r)
  BY <1>11 DEF ReplaceFails
<1>12. CASE ScpOpen(r)
  <2>1. remoteTmp' \in File
    BY <1>12, EmptyIsFile DEF ScpOpen
  <2>2. QED
    BY <1>12, <2>1 DEF ScpOpen
<1>13. CASE ScpWrite(r)
  <2>1. written[r] \in 0 .. 1
    BY <1>13 DEF ScpWrite
  <2>2. /\ into[r] = "tmp" => WriteChunk(r, remoteTmp) \in File
        /\ into[r] = "status" => WriteChunk(r, status) \in File
    BY <1>13, <2>1, ChunkWritten DEF ScpWrite
  <2>3. /\ remoteTmp \in File => remoteTmp' \in File
        /\ status \in File => status' \in File
    BY <1>13, <2>2 DEF ScpWrite
  <2>4. QED
    BY <1>13, <2>1, <2>3 DEF ScpWrite, LastChunk
<1>14. CASE ScpFails(r)
  BY <1>14 DEF ScpFails
<1>15. CASE Mv(r)
  BY <1>15 DEF Mv
<1>16. CASE MvFails(r)
  BY <1>16 DEF MvFails
<1>17. CASE Spool(r) \/ Die(r)
  BY <1>17, StatusKept
<1> QED
  BY <1>1, <1>2, <1>3, <1>4, <1>5, <1>6, <1>7, <1>8, <1>9, <1>10, <1>11, <1>12, <1>13,
     <1>14, <1>15, <1>16, <1>17 DEF Status

\* What a run has under its own names fits where it is.
LEMMA OwnFilesStep ==
    ASSUME TypeOK, Writing, OwnFiles, NEW r \in Run,
           Status(r) \/ Spool(r) \/ Die(r)
    PROVE  OwnFiles'
<1> USE MonitoringAssumption DEF TypeOK, Goto, Fails, At, Fault, Published,
   NotPublished, RemoveTemp, RemoveStaged,
       Ends, EndsFailing, config, local, remote, zabbix, checkzfs,
       Before, OnLocal, OnSource, InCheckzfs, OwnFiles
<1>1. CASE Start(r)
  BY <1>1 DEF Start
<1>2. CASE writeTemp(r)
  BY <1>2 DEF writeTemp
<1>3. CASE writeTempFails(r)
  BY <1>3 DEF writeTempFails
<1>4. CASE StageByRename(r)
  BY <1>4 DEF StageByRename
<1>5. CASE StageByCopy(r)
  <2>1. WrittenBy(r, written[r], Empty)
    BY <1>5, EmptyIsFile DEF StageByCopy, Writing, WrittenBy, Chunk
  <2>2. QED
    BY <1>5, <2>1 DEF StageByCopy, Writing, WrittenBy
<1>6. CASE copyFile(r)
  <2>1. written[r] \in 0 .. 1 /\ WrittenBy(r, written[r], staged[r])
    BY <1>6 DEF copyFile, Writing
  <2>2. /\ WrittenBy(r, written[r] + 1, WriteChunk(r, staged[r]))
        /\ LastChunk(r) => WriteChunk(r, staged[r]) = Whole(r)
    BY <2>1, ChunkWritten DEF WrittenBy
  <2>3. QED
    BY <1>6, <2>2 DEF copyFile, LastChunk, WrittenBy
<1>7. CASE copyFileFails(r)
  BY <1>7 DEF copyFileFails
<1>8. CASE Replace(r)
  BY <1>8 DEF Replace
<1>9. CASE Clear(r)
  BY <1>9 DEF Clear
<1>10. CASE ReplaceAgain(r)
  BY <1>10 DEF ReplaceAgain
<1>11. CASE ReplaceFails(r)
  BY <1>11 DEF ReplaceFails
<1>12. CASE ScpOpen(r)
  BY <1>12 DEF ScpOpen
<1>13. CASE ScpWrite(r)
  BY <1>13 DEF ScpWrite
<1>14. CASE ScpFails(r)
  BY <1>14 DEF ScpFails
<1>15. CASE Mv(r)
  BY <1>15 DEF Mv
<1>16. CASE MvFails(r)
  BY <1>16 DEF MvFails
<1>17. CASE Spool(r) \/ Die(r)
  BY <1>17, StatusKept
<1> QED
  BY <1>1, <1>2, <1>3, <1>4, <1>5, <1>6, <1>7, <1>8, <1>9, <1>10, <1>11, <1>12, <1>13,
     <1>14, <1>15, <1>16, <1>17 DEF Status

\* A status that replaces another one is whole, unless runs overlap on the
\* source.
LEMMA ReaderStep ==
    ASSUME TypeOK, Placed, Writing, OwnFiles, ReaderSeesWhole, InTurn, NEW r \in Run,
           Status(r) \/ Spool(r) \/ Die(r)
    PROVE  ReaderSeesWhole'
<1> USE MonitoringAssumption
<1>1. overlapped => overlapped'
  BY Frame DEF Start
<1>2. UNCHANGED zabbixPlace
  BY Frame DEF config
<1>3. CASE status' = status
  BY <1>1, <1>2, <1>3 DEF ReaderSeesWhole
<1>4. CASE Replace(r) \/ Clear(r) \/ ReplaceAgain(r)
  <2>1. pc[r] \in {"replace", "again"} => staged[r] = Whole(r)
    BY DEF OwnFiles
  <2>2. status' \in {status, Whole(r), Absent}
    BY <1>4, <2>1 DEF Replace, Clear, ReplaceAgain, At
  <2>3. QED
    BY <1>1, <1>2, <2>2 DEF ReaderSeesWhole
<1>5. CASE ScpWrite(r)
  <2>1. zabbixPlace = "source" /\ pc[r] = "sending"
    BY <1>5 DEF ScpWrite, At, Placed, OnSource
  <2>2. ~overlapped => status' = status
    BY <1>5, <2>1 DEF ScpWrite, InTurn, ReportingOf
  <2>3. QED
    BY <1>1, <1>2, <2>1, <2>2 DEF ReaderSeesWhole, TypeOK
<1>6. CASE Mv(r)
  <2>1. zabbixPlace = "source" /\ pc[r] = "mv"
    BY <1>6 DEF Mv, At, Placed, OnSource
  <2>2. ~overlapped => status' \in {Whole(r), FullDir}
    BY <1>6, <2>1 DEF Mv, InTurn, ReportingOf
  <2>3. FullDir \notin File
    BY DEF Directory
  <2>4. QED
    BY <1>1, <1>2, <2>1, <2>2, <2>3 DEF ReaderSeesWhole, TypeOK
<1>7. CASE ~(Replace(r) \/ Clear(r) \/ ReplaceAgain(r) \/ ScpWrite(r) \/ Mv(r))
  <2>1. status' = status
    BY <1>7, StatusKept DEF Status, Start, writeTemp, writeTempFails, StageByRename,
       StageByCopy,
       copyFile, copyFileFails, ReplaceFails, ScpOpen, ScpFails, MvFails, zabbix, remote
  <2>2. QED
    BY <2>1, <1>3
<1>8. QED
  BY <1>4, <1>5, <1>6, <1>7

\* Whoever has begun besides r is dead, or has ended before r.
LEMMA OthersInTurn ==
    ASSUME TypeOK, Ordered, NEW r \in Run, Status(r) \/ Spool(r) \/ Die(r), ~overlapped',
           NEW q \in Run \ {r}
    PROVE  ReportingOf(q)' /\ SpoolingOf(q)'
<1>1. pc'[q] \in {"off", "dead"} \/ (pc'[q] = "ended" /\ ~Latest(q)')
  BY AloneUnderWay, TypeStep DEF Running
<1>2. QED
  BY <1>1 DEF ReportingOf, SpoolingOf, InCheckzfs

\* What r has sent is what it moves, and what it moves is what it reports.
LEMMA ReportingStep ==
    ASSUME MInv, NEW r \in Run, Status(r) \/ Spool(r) \/ Die(r), ~overlapped'
    PROVE  ReportingOf(r)'
<1>0. ~overlapped /\ ReportingOf(r)
  BY Frame DEF MInv, InTurn, Start
<1> USE MonitoringAssumption, <1>0 DEF MInv, ReportingOf, InCheckzfs, Reported
<1> USE DEF TypeOK, Goto, Fails, At, Fault, Published, NotPublished, RemoveTemp, RemoveStaged,
       Ends, EndsFailing, config, local, remote, zabbix, checkzfs
<1>1. CASE Start(r)
  BY <1>1 DEF Start
<1>2. CASE writeTemp(r)
  BY <1>2 DEF writeTemp
<1>3. CASE writeTempFails(r)
  BY <1>3 DEF writeTempFails
<1>4. CASE StageByRename(r)
  BY <1>4 DEF StageByRename
<1>5. CASE StageByCopy(r)
  BY <1>5 DEF StageByCopy
<1>6. CASE copyFile(r)
  BY <1>6 DEF copyFile
<1>7. CASE copyFileFails(r)
  BY <1>7 DEF copyFileFails
<1>8. CASE Replace(r)
  <2>1. staged[r] = Whole(r)
    BY <1>8 DEF Replace, OwnFiles
  <2>2. QED
    BY <1>8, <2>1 DEF Replace, Whole
<1>9. CASE Clear(r)
  BY <1>9 DEF Clear
<1>10. CASE ReplaceAgain(r)
  <2>1. staged[r] = Whole(r)
    BY <1>10 DEF ReplaceAgain, OwnFiles
  <2>2. QED
    BY <1>10, <2>1 DEF ReplaceAgain, Whole
<1>11. CASE ReplaceFails(r)
  BY <1>11 DEF ReplaceFails
<1>12. CASE ScpOpen(r)
  <2>1. WrittenBy(r, written[r], Empty)
    BY <1>12, EmptyIsFile DEF ScpOpen, Writing, WrittenBy, Chunk
  <2>2. QED
    BY <1>12, <2>1 DEF ScpOpen, WrittenBy
<1>13. CASE ScpWrite(r)
  <2>1. /\ written[r] \in 0 .. 1 /\ into[r] = "tmp"
        /\ WrittenBy(r, written[r], remoteTmp)
    BY <1>13 DEF ScpWrite, Writing
  <2>2. /\ WrittenBy(r, written[r] + 1, WriteChunk(r, remoteTmp))
        /\ LastChunk(r) => WriteChunk(r, remoteTmp) = Whole(r)
    BY <2>1, ChunkWritten DEF WrittenBy
  <2>3. remoteTmp' = WriteChunk(r, remoteTmp)
    BY <1>13, <2>1 DEF ScpWrite
  <2>4. QED
    BY <1>13, <2>1, <2>2, <2>3 DEF ScpWrite, LastChunk, WrittenBy, Whole
<1>14. CASE ScpFails(r)
  BY <1>14 DEF ScpFails
<1>15. CASE Mv(r)
  <2>1. /\ remoteTmp = Whole(r)
        /\ zabbixPlace = "source"
    BY <1>15 DEF Mv, Placed, OnSource
  <2>2. status' = Whole(r) \/ status' = FullDir
    BY <1>15, <2>1 DEF Mv
  <2>3. pc'[r] = "header" /\ zabbixPlace' = "source"
    BY <1>15, <2>1 DEF Mv
  <2>4. QED
    BY <2>2, <2>3 DEF Whole
<1>16. CASE MvFails(r)
  BY <1>16 DEF MvFails
<1>17. CASE Spool(r) \/ Die(r)
  <2>1. ~failed'[r] => ~failed[r]
    BY Frame
  <2>2. Latest(r)' => Latest(r)
    BY Frame, MonitoringAssumption DEF Latest, Run
  <2>3. QED
    BY <1>17, <2>1, <2>2, StatusKept DEF Whole
<1> QED
  BY <1>1, <1>2, <1>3, <1>4, <1>5, <1>6, <1>7, <1>8, <1>9, <1>10, <1>11, <1>12, <1>13,
     <1>14, <1>15, <1>16, <1>17 DEF Status

\* A step of the status phase leaves the spool file alone, and does not end
\* the run.
LEMMA SpoolKept ==
    ASSUME TypeOK, NEW r \in Run, Status(r) \/ Die(r)
    PROVE  pc'[r] \notin InCheckzfs \ {"header"} /\ pc'[r] # "ended"
<1> USE DEF TypeOK, Goto, Fails, At, Fault, Published, NotPublished, RemoveTemp, RemoveStaged,
       Ends, EndsFailing, config, local, remote, zabbix, checkzfs, InCheckzfs
<1>1. CASE Start(r)
  BY <1>1 DEF Start
<1>2. CASE writeTemp(r)
  BY <1>2 DEF writeTemp
<1>3. CASE writeTempFails(r)
  BY <1>3 DEF writeTempFails
<1>4. CASE StageByRename(r)
  BY <1>4 DEF StageByRename
<1>5. CASE StageByCopy(r)
  BY <1>5 DEF StageByCopy
<1>6. CASE copyFile(r)
  BY <1>6 DEF copyFile
<1>7. CASE copyFileFails(r)
  BY <1>7 DEF copyFileFails
<1>8. CASE Replace(r)
  BY <1>8 DEF Replace
<1>9. CASE Clear(r)
  BY <1>9 DEF Clear
<1>10. CASE ReplaceAgain(r)
  BY <1>10 DEF ReplaceAgain
<1>11. CASE ReplaceFails(r)
  BY <1>11 DEF ReplaceFails
<1>12. CASE ScpOpen(r)
  BY <1>12 DEF ScpOpen
<1>13. CASE ScpWrite(r)
  BY <1>13 DEF ScpWrite
<1>14. CASE ScpFails(r)
  BY <1>14 DEF ScpFails
<1>15. CASE Mv(r)
  BY <1>15 DEF Mv
<1>16. CASE MvFails(r)
  BY <1>16 DEF MvFails
<1>17. CASE Die(r)
  BY <1>17 DEF Die
<1> QED
  BY <1>1, <1>2, <1>3, <1>4, <1>5, <1>6, <1>7, <1>8, <1>9, <1>10, <1>11, <1>12, <1>13,
     <1>14, <1>15, <1>16, <1>17 DEF Status

\* The spool file r works on is r's own, and what it ends with is r's output.
LEMMA SpoolingStep ==
    ASSUME MInv, NEW r \in Run, Status(r) \/ Spool(r) \/ Die(r), ~overlapped'
    PROVE  SpoolingOf(r)'
<1>0. ~overlapped /\ SpoolingOf(r)
  BY Frame DEF MInv, InTurn, Start
<1> USE MonitoringAssumption, <1>0 DEF MInv, SpoolingOf, Output
<1> USE DEF TypeOK, Goto, Fails, At, Fault, Published, NotPublished, RemoveTemp, RemoveStaged,
       Ends, EndsFailing, config, local, remote, zabbix, checkzfs
<1>1. CASE WriteHeader(r)
  BY <1>1 DEF WriteHeader
<1>2. CASE Checkzfs(r)
  <2>1. PICK c \in BOOLEAN : /\ critical' = [critical EXCEPT ![r] = c]
                            /\ pc' = [pc EXCEPT ![r] = IF c THEN "spool" ELSE "append"]
    BY <1>2 DEF Checkzfs
  <2>2. spoolTmp' = Header
    BY <1>2 DEF Checkzfs
  <2>3. CASE c = TRUE
    <3>1. pc'[r] = "spool" /\ critical'[r] = TRUE
      BY <2>1, <2>3
    <3>2. QED
      BY <2>2, <3>1 DEF Header
  <2>4. CASE c = FALSE
    <3>1. pc'[r] = "append" /\ critical'[r] = FALSE
      BY <2>1, <2>4
    <3>2. QED
      BY <2>2, <3>1 DEF Header
  <2>5. QED
    BY <2>1, <2>3, <2>4
<1>3. CASE Append(r)
  <2>1. spoolTmp = Header /\ ~critical[r]
    BY <1>3 DEF Append
  <2>2. spoolTmp' = [output |-> {r}]
    BY <1>3, <2>1 DEF Append, Header
  <2>3. pc'[r] = "spool" /\ ~critical'[r]
    BY <1>3, <2>1 DEF Append
  <2>4. QED
    BY <2>2, <2>3
<1>4. CASE spoolLocally(r)
  BY <1>4 DEF spoolLocally
<1>5. CASE spoolToSource(r)
  BY <1>5 DEF spoolToSource
<1>6. CASE SpooledToSource(r)
  BY <1>6 DEF SpooledToSource
<1>7. CASE CheckzfsFails(r)
  <2>1. pc'[r] = "ended" /\ failed'[r]
    BY <1>7 DEF CheckzfsFails
  <2>2. QED
    BY <2>1
<1>8. CASE Status(r) \/ Die(r)
  BY <1>8, SpoolKept DEF InCheckzfs
<1> QED
  BY <1>1, <1>2, <1>3, <1>4, <1>5, <1>6, <1>7, <1>8 DEF Spool

LEMMA InitMInv == Init => MInv
<1> SUFFICES ASSUME Init PROVE MInv
  OBVIOUS
<1> USE MonitoringAssumption, EmptyIsFile DEF Init
<1>1. TypeOK
  <2>1. carried \in [Run -> SpoolFile] /\ faults \in 0 .. MaxFaults
    OBVIOUS
  <2>2. overlapped \in BOOLEAN /\ failed \in [Run -> BOOLEAN] /\ critical \in [Run -> BOOLEAN]
    OBVIOUS
  <2>3. QED
    BY <2>1, <2>2 DEF TypeOK
<1>2. Ordered /\ Placed /\ Writing /\ OwnFiles
  BY DEF Ordered, Placed, Writing, OwnFiles, Running, Before, OnLocal, OnSource, InCheckzfs
<1>3. ReaderSeesWhole
  BY DEF ReaderSeesWhole
<1>4. InTurn
  BY DEF InTurn, ReportingOf, SpoolingOf, InCheckzfs
<1>5. QED
  BY <1>1, <1>2, <1>3, <1>4 DEF MInv

LEMMA StepMInv == MInv /\ [Next]_vars => MInv'
<1> SUFFICES ASSUME MInv, [Next]_vars PROVE MInv'
  OBVIOUS
<1>1. CASE Next
  <2>1. PICK r \in Run : Status(r) \/ Spool(r) \/ Die(r)
    BY <1>1 DEF Next
  <2>2. TypeOK' /\ Ordered' /\ Placed' /\ Writing' /\ OwnFiles' /\ ReaderSeesWhole'
    BY <2>1, TypeStep, OrderedStep, WritingStep, OwnFilesStep, ReaderStep DEF MInv
  <2>3. ASSUME ~overlapped', NEW q \in Run PROVE ReportingOf(q)' /\ SpoolingOf(q)'
    BY <2>1, <2>3, OthersInTurn, ReportingStep, SpoolingStep DEF MInv
  <2>4. QED
    BY <2>2, <2>3 DEF MInv, InTurn
<1>2. CASE UNCHANGED vars
  BY <1>2 DEF vars, config, zabbix, local, remote, checkzfs, MInv, TypeOK, Ordered, Placed,
     Writing, OwnFiles, WrittenBy, Whole, ReaderSeesWhole, InTurn, ReportingOf,
     SpoolingOf, Running, Latest,
     Reported, Output, Header
<1>3. QED
  BY <1>1, <1>2

\* MInv holds throughout: what lies under the names that runs share fits the
\* runs that are at work on them.
THEOREM AlwaysMInv == Spec => []MInv
BY InitMInv, StepMInv, PTL DEF Spec

\* Every variable keeps its type, for any number of runs.
THEOREM MonitoringTypeCorrect == Spec => []TypeOK
<1>1. MInv => TypeOK
  BY DEF MInv
<1>2. QED
  BY <1>1, AlwaysMInv, PTL

\* The Zabbix agent never reads a report that is not whole, except on the
\* source while runs overlap.
THEOREM ReportsAreWhole == Spec => []ReaderSeesWhole
<1>1. MInv => ReaderSeesWhole
  BY DEF MInv
<1>2. QED
  BY <1>1, AlwaysMInv, PTL

\* No run leaves a temporary file of its own behind, whatever failed.
THEOREM TemporariesGone == Spec => []NoLeftovers
<1>1. MInv => NoLeftovers
  BY DEF MInv, OwnFiles, NoLeftovers, InCheckzfs
<1>2. QED
  BY <1>1, AlwaysMInv, PTL

\* A run that reports no error has published its status.
THEOREM NoErrorPublished == Spec => []SuccessIsPublished
<1>1. MInv => SuccessIsPublished
  BY DEF MInv, InTurn, ReportingOf, Reported, Latest, SuccessIsPublished, Alone
<1>2. QED
  BY <1>1, AlwaysMInv, PTL

\* A run that reports no error has spooled its own output and no other.
THEOREM NoErrorSpooled == Spec => []SpoolIsOfRun
<1>1. MInv => SpoolIsOfRun
  BY DEF MInv, InTurn, SpoolingOf, Output, Latest, SpoolIsOfRun, Alone
<1>2. QED
  BY <1>1, AlwaysMInv, PTL

\* While runs do not overlap there is no moment without a status, once there
\* is one.
THEOREM NeverWithoutStatus == Spec => StatusStays
<1>1. ASSUME MInv, MInv', [Next]_vars, ~overlapped, status \in File
      PROVE  status' \in File
  <2>1. CASE UNCHANGED status
    BY <1>1, <2>1
  <2>2. CASE \E r \in Run : Replace(r) \/ ReplaceAgain(r)
    <3>1. PICK r \in Run : Replace(r) \/ ReplaceAgain(r)
      BY <2>2
    <3>2. status' \in {status, Whole(r)}
      BY <1>1, <3>1 DEF Replace, ReplaceAgain, At, MInv, OwnFiles
    <3>3. QED
      BY <1>1, <3>2, WholeIsFile
  <2>3. CASE \E r \in Run : Clear(r)
    <3>1. PICK r \in Run : Clear(r)
      BY <2>3
    <3>2. status \in Directory
      BY <1>1, <3>1 DEF Clear, At, MInv, InTurn, ReportingOf
    <3>3. QED
      BY <1>1, <3>2, MonitoringAssumption
  <2>4. CASE \E r \in Run : ScpWrite(r)
    BY <1>1, <2>4 DEF ScpWrite, At, MInv, InTurn, ReportingOf
  <2>5. CASE \E r \in Run : Mv(r)
    BY <1>1, <2>5, MonitoringAssumption DEF Mv, MInv, TypeOK
  <2>6. CASE /\ \A r \in Run : ~(Replace(r) \/ ReplaceAgain(r) \/ Clear(r) \/ ScpWrite(r) \/ Mv(r))
             /\ ~UNCHANGED vars
    <3>1. PICK r \in Run : Status(r) \/ Spool(r) \/ Die(r)
      BY <1>1, <2>6 DEF Next
    <3>2. status' = status
      BY <1>1, <2>6, <3>1, StatusKept DEF MInv, Status, Start, writeTemp, writeTempFails,
         StageByRename, StageByCopy, copyFile, copyFileFails, ReplaceFails, ScpOpen, ScpFails,
         MvFails, zabbix, remote
    <3>3. QED
      BY <1>1, <3>2
  <2>7. QED
    BY <2>1, <2>2, <2>3, <2>4, <2>5, <2>6 DEF vars, zabbix
<1>2. QED
  BY <1>1, AlwaysMInv, PTL DEF Spec, StatusStays
=============================================================================
