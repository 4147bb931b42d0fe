------------------------------ MODULE PipeSpec -----------------------------
(***************************************************************************)
(* What SendReceive relies on when it calls RunPipe: an attempt delivers a *)
(* part of the stream, or all of it, and then reports once; it reports     *)
(* success only for all of it, may report a failure although all of it     *)
(* has arrived, and delivers nothing after its report.                     *)
(***************************************************************************)
EXTENDS Integers

CONSTANT Chunks

VARIABLES received,     \* how much of the stream has arrived
          result        \* "none" until the attempt is over

Init == received = 0 /\ result = "none"

Deliver ==
    /\ result = "none" /\ received < Chunks
    /\ received' = received + 1
    /\ UNCHANGED result

Report ==
    /\ result = "none"
    /\ \/ result' = "ok" /\ received = Chunks
       \/ result' \in {"start", "sender", "receiver"}
    /\ UNCHANGED received

Next == Deliver \/ Report

Spec == Init /\ [][Next]_<<received, result>>
=============================================================================
