--------------------------- MODULE RunPipeProofs ---------------------------
(***************************************************************************)
(* runPipe reports what happened, for every stream and every size of the   *)
(* pipes, whatever the two processes do and in whatever order.             *)
(***************************************************************************)
EXTENDS RunPipe, TLAPS

LEMMA InitPInv == Init => PInv
BY PipeAssumption DEF Init, PInv, TypeOK, Flow, Reported, Awaited, InHand, Process

\* Every step preserves the invariant.
LEMMA StepPInv == PInv /\ [Next]_vars => PInv'
<1> SUFFICES ASSUME PInv, [Next]_vars PROVE PInv'
  OBVIOUS
<1> USE PipeAssumption DEF PInv
<1>1. CASE StartReceiver
  <2>1. TypeOK'
    BY <1>1 DEF TypeOK, Flow, InHand, Process, StartReceiver
  <2>2. Flow'
    BY <1>1 DEF TypeOK, Flow, InHand, StartReceiver
  <2>3. Reported'
    BY <1>1 DEF TypeOK, Flow, InHand, Reported, Awaited, Exited, StartReceiver
  <2>4. Awaited'
    BY <1>1 DEF TypeOK, Reported, Awaited, Exited, StartReceiver
  <2>5. QED
    BY <2>1, <2>2, <2>3, <2>4
<1>2. CASE StartReceiverFails
  <2>1. TypeOK'
    BY <1>2 DEF TypeOK, Flow, InHand, Process, StartReceiverFails, Return, processes, copying
  <2>2. Flow'
    BY <1>2 DEF TypeOK, Flow, InHand, StartReceiverFails, Return, processes, copying
  <2>3. Reported'
    BY <1>2 DEF TypeOK, Flow, InHand, Reported, Awaited, Exited, StartReceiverFails, Return, processes, copying
  <2>4. Awaited'
    BY <1>2 DEF TypeOK, Reported, Awaited, Exited, StartReceiverFails, Return, processes, copying
  <2>5. QED
    BY <2>1, <2>2, <2>3, <2>4
<1>3. CASE StartSender
  <2>1. TypeOK'
    BY <1>3 DEF TypeOK, Flow, InHand, Process, StartSender
  <2>2. Flow'
    BY <1>3 DEF TypeOK, Flow, InHand, StartSender
  <2>3. Reported'
    BY <1>3 DEF TypeOK, Flow, InHand, Reported, Awaited, Exited, StartSender
  <2>4. Awaited'
    BY <1>3 DEF TypeOK, Reported, Awaited, Exited, StartSender
  <2>5. QED
    BY <2>1, <2>2, <2>3, <2>4
<1>4. CASE StartSenderFails
  <2>1. TypeOK'
    BY <1>4 DEF TypeOK, Flow, InHand, Process, StartSenderFails, Return, copying
  <2>2. Flow'
    BY <1>4 DEF TypeOK, Flow, InHand, StartSenderFails, Return, copying
  <2>3. Reported'
    BY <1>4 DEF TypeOK, Flow, InHand, Reported, Awaited, Exited, StartSenderFails, Return, copying
  <2>4. Awaited'
    BY <1>4 DEF TypeOK, Reported, Awaited, Exited, StartSenderFails, Return, copying
  <2>5. QED
    BY <2>1, <2>2, <2>3, <2>4
<1>5. CASE SenderFirst
  <2>1. TypeOK'
    BY <1>5 DEF TypeOK, Process, Exited, SenderFirst, processes, copying
  <2>2. Flow'
    BY <1>5 DEF TypeOK, Flow, InHand, SenderFirst, processes, copying
  <2>3. Reported'
    BY <1>5 DEF TypeOK, Flow, InHand, Reported, Awaited, Exited, SenderFirst, processes, copying
  <2>4. Awaited'
    BY <1>5 DEF TypeOK, Reported, Awaited, Exited, SenderFirst, processes, copying
  <2>5. QED
    BY <2>1, <2>2, <2>3, <2>4
<1>6. CASE ReceiverFirst
  <2>1. TypeOK'
    BY <1>6 DEF TypeOK, Process, Exited, ReceiverFirst, copying
  <2>2. Flow'
    BY <1>6 DEF TypeOK, Flow, InHand, ReceiverFirst, copying
  <2>3. Reported'
    BY <1>6 DEF TypeOK, Flow, InHand, Reported, Awaited, Exited, ReceiverFirst, copying
  <2>4. Awaited'
    BY <1>6 DEF TypeOK, Reported, Awaited, Exited, ReceiverFirst, copying
  <2>5. QED
    BY <2>1, <2>2, <2>3, <2>4
<1>7. CASE Drained
  <2>1. TypeOK'
    BY <1>7 DEF TypeOK, Flow, InHand, Process, Drained, Return, processes, copying
  <2>2. Flow'
    BY <1>7 DEF TypeOK, Flow, InHand, Drained, Return, processes, copying
  <2>3. Reported'
    BY <1>7 DEF TypeOK, Flow, InHand, Reported, Awaited, Exited, Drained, Return, processes, copying
  <2>4. Awaited'
    BY <1>7 DEF TypeOK, Reported, Awaited, Exited, Drained, Return, processes, copying
  <2>5. QED
    BY <2>1, <2>2, <2>3, <2>4
<1>8. CASE Reaped
  <2>1. TypeOK'
    BY <1>8 DEF TypeOK, Process, Exited, Reaped, Return, processes, copying
  <2>2. Flow'
    BY <1>8 DEF TypeOK, Flow, InHand, Reaped, Return, processes, copying
  <2>3. Reported'
    BY <1>8 DEF TypeOK, Flow, InHand, Reported, Awaited, Exited, Reaped, Return, processes, copying
  <2>4. Awaited'
    BY <1>8 DEF TypeOK, Reported, Awaited, Exited, Reaped, Return, processes, copying
  <2>5. QED
    BY <2>1, <2>2, <2>3, <2>4
<1>9. CASE OutReads
  <2>1. TypeOK'
    BY <1>9 DEF TypeOK, Flow, InHand, Process, OutReads, processes, control
  <2>2. Flow'
    BY <1>9 DEF TypeOK, Flow, InHand, OutReads, processes, control
  <2>3. Reported'
    BY <1>9 DEF TypeOK, Flow, InHand, Reported, Awaited, Exited, OutReads, processes, control
  <2>4. Awaited'
    BY <1>9 DEF TypeOK, Reported, Awaited, Exited, OutReads, processes, control
  <2>5. QED
    BY <2>1, <2>2, <2>3, <2>4
<1>10. CASE OutEnds
  <2>1. TypeOK'
    BY <1>10 DEF TypeOK, Flow, InHand, Process, OutEnds, processes, control
  <2>2. Flow'
    BY <1>10 DEF TypeOK, Flow, InHand, OutEnds, processes, control
  <2>3. Reported'
    BY <1>10 DEF TypeOK, Flow, InHand, Reported, Awaited, Exited, OutEnds, processes, control
  <2>4. Awaited'
    BY <1>10 DEF TypeOK, Reported, Awaited, Exited, OutEnds, processes, control
  <2>5. QED
    BY <2>1, <2>2, <2>3, <2>4
<1>11. CASE HandOver
  <2>1. TypeOK'
    BY <1>11 DEF TypeOK, Flow, InHand, Process, HandOver, processes, control
  <2>2. Flow'
    BY <1>11 DEF TypeOK, Flow, InHand, HandOver, processes, control
  <2>3. Reported'
    BY <1>11 DEF TypeOK, Flow, InHand, Reported, Awaited, Exited, HandOver, processes, control
  <2>4. Awaited'
    BY <1>11 DEF TypeOK, Reported, Awaited, Exited, HandOver, processes, control
  <2>5. QED
    BY <2>1, <2>2, <2>3, <2>4
<1>12. CASE InWrites
  <2>1. TypeOK'
    BY <1>12 DEF TypeOK, Flow, InHand, Process, InWrites, processes, control
  <2>2. Flow'
    BY <1>12 DEF TypeOK, Flow, InHand, InWrites, processes, control
  <2>3. Reported'
    BY <1>12 DEF TypeOK, Flow, InHand, Reported, Awaited, Exited, InWrites, processes, control
  <2>4. Awaited'
    BY <1>12 DEF TypeOK, Reported, Awaited, Exited, InWrites, processes, control
  <2>5. QED
    BY <2>1, <2>2, <2>3, <2>4
<1>13. CASE InEnds
  <2>1. TypeOK'
    BY <1>13 DEF TypeOK, Flow, InHand, Process, InEnds, processes, control
  <2>2. Flow'
    BY <1>13 DEF TypeOK, Flow, InHand, InEnds, processes, control
  <2>3. Reported'
    BY <1>13 DEF TypeOK, Flow, InHand, Reported, Awaited, Exited, InEnds, processes, control
  <2>4. Awaited'
    BY <1>13 DEF TypeOK, Reported, Awaited, Exited, InEnds, processes, control
  <2>5. QED
    BY <2>1, <2>2, <2>3, <2>4
<1>14. CASE SendWaits
  <2>1. TypeOK'
    BY <1>14 DEF TypeOK, Process, Exited, SendWaits, Waiting, processes, copying
  <2>2. Flow'
    BY <1>14 DEF TypeOK, Flow, InHand, SendWaits, Waiting, processes, copying
  <2>3. Reported'
    BY <1>14 DEF TypeOK, Flow, InHand, Reported, Awaited, Exited, SendWaits, Waiting, processes, copying
  <2>4. Awaited'
    BY <1>14 DEF TypeOK, Reported, Awaited, Exited, SendWaits, Waiting, processes, copying
  <2>5. QED
    BY <2>1, <2>2, <2>3, <2>4
<1>15. CASE RecvWaits
  <2>1. TypeOK'
    BY <1>15 DEF TypeOK, Process, Exited, RecvWaits, Waiting, processes, copying
  <2>2. Flow'
    BY <1>15 DEF TypeOK, Flow, InHand, RecvWaits, Waiting, processes, copying
  <2>3. Reported'
    BY <1>15 DEF TypeOK, Flow, InHand, Reported, Awaited, Exited, RecvWaits, Waiting, processes, copying
  <2>4. Awaited'
    BY <1>15 DEF TypeOK, Reported, Awaited, Exited, RecvWaits, Waiting, processes, copying
  <2>5. QED
    BY <2>1, <2>2, <2>3, <2>4
<1>16. CASE SenderWrites
  <2>1. TypeOK'
    BY <1>16 DEF TypeOK, Flow, InHand, Process, SenderWrites, control
  <2>2. Flow'
    BY <1>16 DEF TypeOK, Flow, InHand, SenderWrites, control
  <2>3. Reported'
    BY <1>16 DEF TypeOK, Flow, InHand, Reported, Awaited, Exited, SenderWrites, control
  <2>4. Awaited'
    BY <1>16 DEF TypeOK, Reported, Awaited, Exited, SenderWrites, control
  <2>5. QED
    BY <2>1, <2>2, <2>3, <2>4
<1>17. CASE SenderExits
  <2>1. TypeOK'
    BY <1>17 DEF TypeOK, Flow, InHand, Process, SenderExits, copying, control
  <2>2. Flow'
    BY <1>17 DEF TypeOK, Flow, InHand, SenderExits, copying, control
  <2>3. Reported'
    BY <1>17 DEF TypeOK, Flow, InHand, Reported, Awaited, Exited, SenderExits, copying, control
  <2>4. Awaited'
    BY <1>17 DEF TypeOK, Reported, Awaited, Exited, SenderExits, copying, control
  <2>5. QED
    BY <2>1, <2>2, <2>3, <2>4
<1>18. CASE SenderFails
  <2>1. TypeOK'
    BY <1>18 DEF TypeOK, Flow, InHand, Process, SenderFails, copying, control
  <2>2. Flow'
    BY <1>18 DEF TypeOK, Flow, InHand, SenderFails, copying, control
  <2>3. Reported'
    BY <1>18 DEF TypeOK, Flow, InHand, Reported, Awaited, Exited, SenderFails, copying, control
  <2>4. Awaited'
    BY <1>18 DEF TypeOK, Reported, Awaited, Exited, SenderFails, copying, control
  <2>5. QED
    BY <2>1, <2>2, <2>3, <2>4
<1>19. CASE ReceiverReads
  <2>1. TypeOK'
    BY <1>19 DEF TypeOK, Flow, InHand, Process, ReceiverReads, control
  <2>2. Flow'
    BY <1>19 DEF TypeOK, Flow, InHand, ReceiverReads, control
  <2>3. Reported'
    BY <1>19 DEF TypeOK, Flow, InHand, Reported, Awaited, Exited, ReceiverReads, control
  <2>4. Awaited'
    BY <1>19 DEF TypeOK, Reported, Awaited, Exited, ReceiverReads, control
  <2>5. QED
    BY <2>1, <2>2, <2>3, <2>4
<1>20. CASE ReceiverExits
  <2>1. TypeOK'
    BY <1>20 DEF TypeOK, Flow, InHand, Process, ReceiverExits, copying, control
  <2>2. Flow'
    BY <1>20 DEF TypeOK, Flow, InHand, ReceiverExits, copying, control
  <2>3. Reported'
    BY <1>20 DEF TypeOK, Flow, InHand, Reported, Awaited, Exited, ReceiverExits, copying, control
  <2>4. Awaited'
    BY <1>20 DEF TypeOK, Reported, Awaited, Exited, ReceiverExits, copying, control
  <2>5. QED
    BY <2>1, <2>2, <2>3, <2>4
<1>21. CASE ReceiverFails
  <2>1. TypeOK'
    BY <1>21 DEF TypeOK, Flow, InHand, Process, ReceiverFails, copying, control
  <2>2. Flow'
    BY <1>21 DEF TypeOK, Flow, InHand, ReceiverFails, copying, control
  <2>3. Reported'
    BY <1>21 DEF TypeOK, Flow, InHand, Reported, Awaited, Exited, ReceiverFails, copying, control
  <2>4. Awaited'
    BY <1>21 DEF TypeOK, Reported, Awaited, Exited, ReceiverFails, copying, control
  <2>5. QED
    BY <2>1, <2>2, <2>3, <2>4
<1>22. CASE UNCHANGED vars
  <2>1. TypeOK'
    BY <1>22 DEF TypeOK, Flow, InHand, Process, vars, processes, copying, control
  <2>2. Flow'
    BY <1>22 DEF TypeOK, Flow, InHand, vars, processes, copying, control
  <2>3. Reported'
    BY <1>22 DEF TypeOK, Flow, InHand, Reported, Awaited, Exited, vars, processes, copying, control
  <2>4. Awaited'
    BY <1>22 DEF TypeOK, Reported, Awaited, Exited, vars, processes, copying, control
  <2>5. QED
    BY <2>1, <2>2, <2>3, <2>4
<1>23. QED
  BY <1>1, <1>2, <1>3, <1>4, <1>5, <1>6, <1>7, <1>8, <1>9, <1>10, <1>11, <1>12,
     <1>13, <1>14, <1>15, <1>16, <1>17, <1>18, <1>19, <1>20, <1>21, <1>22
  DEF Next, Main, Start, CopyOut, CopyIn, Sender, Receiver

\* PInv holds throughout: chunks are never doubled, the channels repeat what
\* the processes said, and runPipe has waited for what it reports.
THEOREM AlwaysPInv == Spec => []PInv
BY InitPInv, StepPInv, PTL DEF Spec

\* Every variable keeps its type; no chunk is counted beyond the stream's end.
THEOREM PipeTypeCorrect == Spec => []TypeOK
<1>1. PInv => TypeOK
  BY DEF PInv
<1>2. QED
  BY <1>1, AlwaysPInv, PTL

\* Success is reported only for a stream that has been received whole.
THEOREM SuccessIsReal == Spec => []OkMeansReceived
<1>1. PInv => OkMeansReceived
  <2> SUFFICES ASSUME PInv, result = "ok"
               PROVE  receiver = "ok" /\ received = Chunks /\ sent = Chunks
    BY DEF OkMeansReceived
  <2>1. receiver = "ok" /\ received = Chunks
    BY DEF PInv, Awaited, Reported
  <2>2. received <= sent /\ sent <= Chunks /\ sent \in Nat
    BY PipeAssumption DEF PInv, Flow, TypeOK, InHand
  <2>3. QED
    BY <2>1, <2>2, PipeAssumption
<1>2. QED
  BY <1>1, AlwaysPInv, PTL

\* When runPipe returns, nothing of the attempt is left running.
THEOREM AttemptIsOver == Spec => []NothingRunsOn
<1>1. PInv => NothingRunsOn
  BY DEF PInv, TypeOK, Awaited, Reported, NothingRunsOn
<1>2. QED
  BY <1>1, AlwaysPInv, PTL

\* The goroutines, processes and pipes together implement an attempt as
\* SendReceive sees it.
THEOREM PipeRefines == Spec => ImplementsAttempt
<1>1. Init => Attempt!Init
  BY DEF Init, Attempt!Init
<1>2. ASSUME PInv, PInv', [Next]_vars
      PROVE  [Attempt!Next]_<<received, result>>
  <2>1. CASE ReceiverReads
    <3>1. result = "none"
      BY <1>2, <2>1 DEF ReceiverReads, PInv, Reported, Awaited, TypeOK, Exited
    <3>2. received < Chunks
      BY <1>2, <2>1, PipeAssumption DEF ReceiverReads, PInv, TypeOK
    <3>3. QED
      BY <2>1, <3>1, <3>2 DEF ReceiverReads, control, Attempt!Next, Attempt!Deliver
  <2>2. CASE Drained \/ Reaped \/ StartReceiverFails \/ StartSenderFails
    <3>1. result = "none" /\ received' = received
      BY <1>2, <2>2 DEF Drained, Reaped, StartReceiverFails, StartSenderFails, processes,
         PInv, Awaited
    <3>2. result' \in {"start", "sender", "receiver"} \/ (result' = "ok" /\ received = Chunks)
      BY <1>2, <2>2, <3>1 DEF Drained, Reaped, StartReceiverFails, StartSenderFails, Return,
         processes, PInv, Awaited, Reported, TypeOK
    <3>3. QED
      BY <3>1, <3>2 DEF Attempt!Next, Attempt!Report
  <2>3. CASE ~(ReceiverReads \/ Drained \/ Reaped \/ StartReceiverFails \/ StartSenderFails)
    BY <1>2, <2>3 DEF Next, Main, Start, CopyOut, CopyIn, Sender, Receiver,
       StartReceiver, StartSender, SenderFirst, ReceiverFirst, OutReads, OutEnds,
       HandOver, InWrites, InEnds, SendWaits, RecvWaits, SenderWrites, SenderExits,
       SenderFails, ReceiverExits, ReceiverFails, vars, processes, control
  <2>4. QED
    BY <2>1, <2>2, <2>3
<1>3. QED
  BY <1>1, <1>2, AlwaysPInv, PTL DEF Spec, ImplementsAttempt, Attempt!Spec
=============================================================================
