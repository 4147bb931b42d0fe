------------------------------ MODULE RunPipe ------------------------------
(***************************************************************************)
(* One attempt to pipe a zfs send into a zfs receive                       *)
(* (internal/exec/exec.go, runPipe): the two processes, the two copying    *)
(* goroutines os/exec starts between them and the in-memory pipe, the two  *)
(* goroutines that wait for the processes, and the select over them.       *)
(*                                                                         *)
(*   sender -stdout-> copyOut -io.Pipe-> copyIn -stdin-> receiver          *)
(*                                                                         *)
(* A stream is a number of chunks.  stdout and stdin are pipes of the      *)
(* operating system, with a buffer; io.Pipe has none: a write is handed to *)
(* a read.  What happens in os/exec and in the processes is external.      *)
(***************************************************************************)
EXTENDS Integers

CONSTANTS Chunks,       \* the chunks of the stream
          Capacity      \* bound: the chunks a pipe of the system holds

ASSUME PipeAssumption == Chunks \in Nat \ {0} /\ Capacity \in Nat \ {0}

VARIABLES
    sender, receiver,   \* the processes: "new", "running", "ok", "failed"
    left,               \* chunks the sender has not written
    stdout, stdin,      \* chunks in the pipes of the system
    copyOut, copyIn,    \* the copying goroutines: "off", "read", "write" (a
                        \* chunk in hand), "done"; copyOut also "error"
    pipe,               \* io.Pipe: "open", "eof" once pw is closed, "broken"
                        \* once pr is
    sent,               \* countingWriter.n
    received,           \* chunks the receiver has read
    sendDone, recvDone, \* the channels: "none" or what Wait returned
    main,               \* where runPipe is
    result              \* "none", or what it returned

processes == <<sender, receiver, left, received>>
copying == <<stdout, stdin, copyOut, copyIn, sent>>
control == <<pipe, sendDone, recvDone, main, result>>
vars == <<processes, copying, control>>

Init ==
    /\ sender = "new" /\ receiver = "new"
    /\ left = Chunks /\ received = 0 /\ sent = 0
    /\ stdout = 0 /\ stdin = 0 /\ copyOut = "off" /\ copyIn = "off"
    /\ pipe = "open"
    /\ sendDone = "none" /\ recvDone = "none"
    /\ main = "receiver" /\ result = "none"

Exited(process) == process \in {"ok", "failed"}

Return(r) == main' = "returned" /\ result' = r

-----------------------------------------------------------------------------
(* Starting the two sides.                                                 *)

StartReceiver ==
    /\ main = "receiver"
    /\ receiver' = "running" /\ copyIn' = "read"
    /\ main' = "sender"
    /\ UNCHANGED <<sender, left, received, stdout, stdin, copyOut, sent,
                   pipe, sendDone, recvDone, result>>

StartReceiverFails ==
    /\ main = "receiver"
    /\ Return("start")
    /\ UNCHANGED <<processes, copying, pipe, sendDone, recvDone>>

StartSender ==
    /\ main = "sender"
    /\ sender' = "running" /\ copyOut' = "read"
    /\ main' = "select"
    /\ UNCHANGED <<receiver, left, received, stdout, stdin, copyIn, sent,
                   pipe, sendDone, recvDone, result>>

\* The receiver is killed; nothing waits for it.
StartSenderFails ==
    /\ main = "sender"
    /\ receiver' = IF receiver = "running" THEN "failed" ELSE receiver
    /\ Return("start")
    /\ UNCHANGED <<sender, left, received, copying, pipe, sendDone, recvDone>>

-----------------------------------------------------------------------------
(* The processes.  Either may fail at any time; the receiver succeeds when *)
(* it has read the whole stream, which ends with an end record.            *)

SenderWrites ==
    /\ sender = "running" /\ left > 0
    /\ copyOut \in {"read", "write"} /\ stdout < Capacity
    /\ left' = left - 1 /\ stdout' = stdout + 1
    /\ UNCHANGED <<sender, receiver, received, stdin, copyOut, copyIn, sent, control>>

\* It has written everything, or nobody reads its output any more.
SenderExits ==
    /\ sender = "running"
    /\ \/ left = 0 /\ sender' = "ok"
       \/ copyOut \in {"done", "error"} /\ sender' = "failed"
    /\ UNCHANGED <<receiver, left, received, copying, control>>

SenderFails ==
    /\ sender = "running"
    /\ sender' = "failed"
    /\ UNCHANGED <<receiver, left, received, copying, control>>

ReceiverReads ==
    /\ receiver = "running" /\ stdin > 0
    /\ stdin' = stdin - 1 /\ received' = received + 1
    /\ UNCHANGED <<sender, receiver, left, stdout, copyOut, copyIn, sent, control>>

\* The stream is complete, or its input ends before that.
ReceiverExits ==
    /\ receiver = "running"
    /\ \/ received = Chunks /\ receiver' = "ok"
       \/ received < Chunks /\ stdin = 0 /\ copyIn = "done" /\ receiver' = "failed"
    /\ UNCHANGED <<sender, left, received, copying, control>>

ReceiverFails ==
    /\ receiver = "running"
    /\ receiver' = "failed"
    /\ UNCHANGED <<sender, left, received, copying, control>>

-----------------------------------------------------------------------------
(* The copying goroutines.  They end at the end of their input or when the *)
(* other side of their output is gone; then they close their pipe of the   *)
(* system.                                                                 *)

OutReads ==
    /\ copyOut = "read" /\ stdout > 0
    /\ stdout' = stdout - 1 /\ copyOut' = "write"
    /\ UNCHANGED <<processes, stdin, copyIn, sent, control>>

OutEnds ==
    /\ \/ copyOut = "read" /\ stdout = 0 /\ Exited(sender) /\ copyOut' = "done"
       \/ copyOut = "write" /\ pipe = "broken" /\ copyOut' = "error"
    /\ UNCHANGED <<processes, stdout, stdin, copyIn, sent, control>>

\* Mutant: countingWriter counts the chunk when it is offered and when taken.
HandOverCountedTwice ==
    /\ copyOut = "write" /\ copyIn = "read" /\ pipe = "open"
    /\ copyOut' = "read" /\ copyIn' = "write"
    /\ sent' = sent + 2
    /\ UNCHANGED <<processes, stdout, stdin, control>>

HandOver ==
    /\ copyOut = "write" /\ copyIn = "read" /\ pipe = "open"
    /\ copyOut' = "read" /\ copyIn' = "write"
    /\ sent' = sent + 1
    /\ UNCHANGED <<processes, stdout, stdin, control>>

InWrites ==
    /\ copyIn = "write" /\ ~Exited(receiver) /\ stdin < Capacity
    /\ stdin' = stdin + 1 /\ copyIn' = "read"
    /\ UNCHANGED <<processes, stdout, copyOut, sent, control>>

\* os/exec does not report a broken pipe to the standard input.
InEnds ==
    /\ \/ copyIn = "read" /\ pipe = "eof"
       \/ copyIn = "write" /\ Exited(receiver)
    /\ copyIn' = "done"
    /\ UNCHANGED <<processes, stdout, stdin, copyOut, sent, control>>

-----------------------------------------------------------------------------
(* The waiting goroutines: Wait returns when the process has exited and    *)
(* its copying goroutine has ended.                                        *)

Waiting == main \in {"select", "drain", "reap"}

SendWaits ==
    /\ Waiting /\ sendDone = "none"
    /\ Exited(sender) /\ copyOut \in {"done", "error"}
    /\ sendDone' = IF copyOut = "done" THEN sender ELSE "failed"
    /\ UNCHANGED <<processes, copying, pipe, recvDone, main, result>>

RecvWaits ==
    /\ Waiting /\ recvDone = "none"
    /\ Exited(receiver) /\ copyIn = "done"
    /\ recvDone' = receiver
    /\ UNCHANGED <<processes, copying, pipe, sendDone, main, result>>

-----------------------------------------------------------------------------
(* runPipe's select.                                                       *)

\* The sender is done: let the receiver see the end of its input.
SenderFirst ==
    /\ main = "select" /\ sendDone # "none"
    /\ pipe' = "eof"
    /\ main' = "drain"
    /\ UNCHANGED <<processes, copying, sendDone, recvDone, result>>

\* Mutant: the sender is killed, but nothing unblocks its copying goroutine.
ReceiverFirstNotBroken ==
    /\ main = "select" /\ recvDone # "none"
    /\ sender' = IF sender = "running" THEN "failed" ELSE sender
    /\ main' = "reap"
    /\ UNCHANGED <<receiver, left, received, copying, pipe, sendDone, recvDone, result>>

\* The receiver is done: break the pipe and kill the sender.
ReceiverFirst ==
    /\ main = "select" /\ recvDone # "none"
    /\ pipe' = "broken"
    /\ sender' = IF sender = "running" THEN "failed" ELSE sender
    /\ main' = "reap"
    /\ UNCHANGED <<receiver, left, received, copying, sendDone, recvDone, result>>

\* Mutant: the sender's success is taken for the attempt's.
DrainedAtOnce ==
    /\ main = "drain"
    /\ Return(IF sendDone = "failed" THEN "sender" ELSE "ok")
    /\ UNCHANGED <<processes, copying, pipe, sendDone, recvDone>>

\* Mutant: the receiver is waited for, its error dropped.
DrainedNoError ==
    /\ main = "drain" /\ recvDone # "none"
    /\ Return(IF sendDone = "failed" THEN "sender" ELSE "ok")
    /\ UNCHANGED <<processes, copying, pipe, sendDone, recvDone>>

Drained ==
    /\ main = "drain" /\ recvDone # "none"
    /\ Return(IF sendDone = "failed" THEN "sender"
              ELSE IF recvDone = "failed" THEN "receiver" ELSE "ok")
    /\ UNCHANGED <<processes, copying, pipe, sendDone, recvDone>>

\* Mutant: the killed sender is not waited for.
ReapedAtOnce ==
    /\ main = "reap"
    /\ Return(IF recvDone = "failed" THEN "receiver" ELSE "ok")
    /\ UNCHANGED <<processes, copying, pipe, sendDone, recvDone>>

\* Both copying goroutines have ended: closing pw as well changes nothing.
Reaped ==
    /\ main = "reap" /\ sendDone # "none"
    /\ Return(IF recvDone = "failed" THEN "receiver" ELSE "ok")
    /\ UNCHANGED <<processes, copying, pipe, sendDone, recvDone>>

-----------------------------------------------------------------------------
Start == StartReceiver \/ StartReceiverFails \/ StartSender \/ StartSenderFails
Main == Start \/ SenderFirst \/ ReceiverFirst \/ Drained \/ Reaped
CopyOut == OutReads \/ OutEnds
CopyIn == InWrites \/ InEnds
Sender == SenderWrites \/ SenderExits
Receiver == ReceiverReads \/ ReceiverExits

Next == \/ Main \/ CopyOut \/ CopyIn \/ HandOver \/ SendWaits \/ RecvWaits
        \/ Sender \/ SenderFails \/ Receiver \/ ReceiverFails

Spec == Init /\ [][Next]_vars

\* Goroutines are scheduled, and a receiver with input reads it or exits.
\* Nothing makes a sender write: its host may have gone silent.
Scheduled ==
    /\ WF_vars(Main) /\ WF_vars(CopyOut) /\ WF_vars(CopyIn) /\ WF_vars(HandOver)
    /\ WF_vars(SendWaits) /\ WF_vars(RecvWaits) /\ WF_vars(Receiver)

SilentSpec == Spec /\ Scheduled
FairSpec == SilentSpec /\ WF_vars(Sender)

-----------------------------------------------------------------------------
(* Properties.                                                             *)

Process == {"new", "running", "ok", "failed"}

\* The types; at most the chunks of the stream are anywhere.
TypeOK ==
    /\ sender \in Process /\ receiver \in Process
    /\ left \in 0 .. Chunks /\ received \in 0 .. Chunks /\ sent \in 0 .. Chunks
    /\ stdout \in 0 .. Capacity /\ stdin \in 0 .. Capacity
    /\ copyOut \in {"off", "read", "write", "done", "error"}
    /\ copyIn \in {"off", "read", "write", "done"}
    /\ pipe \in {"open", "eof", "broken"}
    /\ sendDone \in {"none", "ok", "failed"} /\ recvDone \in {"none", "ok", "failed"}
    /\ main \in {"receiver", "sender", "select", "drain", "reap", "returned"}
    /\ result \in {"none", "start", "sender", "receiver", "ok"}

\* runPipe returns nil only when the receiver has read the whole stream and
\* said so, and then it has counted the whole stream.
OkMeansReceived ==
    result = "ok" => receiver = "ok" /\ received = Chunks /\ sent = Chunks

\* When runPipe returns after both sides were started, no process and no
\* goroutine of the attempt is left: the next attempt has the target to
\* itself, and the count is final.
NothingRunsOn ==
    main = "returned" /\ result # "start" =>
        /\ Exited(sender) /\ Exited(receiver)
        /\ copyOut \in {"done", "error"} /\ copyIn = "done"

\* Why they hold, for every stream: chunks are lost at most, never doubled,
\* a receiver that is done has said so, and runPipe goes by what both said.
InHand(copy) == IF copy = "write" THEN 1 ELSE 0

Flow ==
    /\ received + stdin + InHand(copyIn) <= sent
    /\ sent + InHand(copyOut) + stdout + left <= Chunks

Reported ==
    /\ receiver = "ok" => received = Chunks
    /\ recvDone # "none" => Exited(receiver) /\ copyIn = "done" /\ recvDone = receiver
    /\ sendDone # "none" => Exited(sender) /\ copyOut \in {"done", "error"}

Awaited ==
    /\ main = "returned" <=> result # "none"
    /\ main \in {"receiver", "sender"} => sendDone = "none" /\ recvDone = "none"
    /\ main = "receiver" => receiver = "new"
    /\ main = "drain" => sendDone # "none"
    /\ main = "reap" => recvDone # "none"
    /\ result = "start" => receiver # "running"
    /\ result \in {"sender", "receiver", "ok"} => sendDone # "none" /\ recvDone # "none"
    /\ result = "ok" => recvDone = "ok"

PInv == TypeOK /\ Flow /\ Reported /\ Awaited

\* The attempt ends, whichever side ends or fails first.
Returns == <>(main = "returned")

\* A failure of the receiver is detected and the other side is unblocked
\* (exec.go:161-162, 186-188), whatever the sender does.
ReceiverFailureDetected == receiver = "failed" ~> main = "returned"

\* What the rest of zsync sees of an attempt.
Attempt == INSTANCE PipeSpec
ImplementsAttempt == Attempt!Spec
=============================================================================
