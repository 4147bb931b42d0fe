--------------------------- MODULE MCPlanOnLists ---------------------------
(***************************************************************************)
(* Instances of PlanOnLists: what the snapshots of a dataset are called.   *)
(***************************************************************************)
EXTENDS PlanOnLists

\* Two intervals, names that match both and names that match neither.
FourKinds == <<{1}, {2}, {1, 2}, {}, {1}, {2}, {1}>>

KeepTwoOne == <<2, 1>>
=============================================================================
