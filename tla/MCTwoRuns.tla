----------------------------- MODULE MCTwoRuns -----------------------------
(***************************************************************************)
(* A small instance of TwoRuns: one dataset, one interval.                 *)
(***************************************************************************)
EXTENDS TwoRuns

OneInterval == [s \in Snapshot |-> {1}]
KeepTwo == <<2>>

\* Which of the two runs is called A does not matter: the specification and
\* its properties say the same of both.
EitherWay == <<hosts, {runA, runB}, overtaken>>
=============================================================================
