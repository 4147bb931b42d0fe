---------------------------- MODULE MCHierarchy ----------------------------
(***************************************************************************)
(* Small trees for Hierarchy: a pool (1), its child (2), its grandchild    *)
(* (3), with the tags and roots that make a difference.                    *)
(***************************************************************************)
EXTENDS HierarchyInvariant, TLC

Hourly == 1
AllMatch == [s \in Snapshot |-> {Hourly}]
KeepOne == <<1>>
Chain == <<Top, 1, 2>>

Local(value) == [value |-> value, source |-> "local"]
Received(value) == [value |-> value, source |-> "received"]

\* The tag on the pool, which everything is replicated with.
WholePool == [tag |-> 1 :> Local("all"), roots |-> <<1>>, made |-> {}]
\* The tag in the middle, whose parent somebody has created.
Subtree == [tag |-> 2 :> Local("all"), roots |-> <<1>>, made |-> {1}]
\* The children only; the target path was created in full.
Children == [tag |-> 1 :> Local("subvols"), roots |-> <<2>>, made |-> {1, 2}]
\* A gap in the middle, created beforehand.
Gap == [tag |-> (1 :> Local("all")) @@ (2 :> Local("exclude")) @@ (3 :> Local("all")),
        roots |-> <<1>>, made |-> {1, 2}]
\* Overlapping roots, the lower one first; a tag that was itself received.
Overlap == [tag |-> 1 :> Local("all"), roots |-> <<2, 1>>, made |-> {}]
ReceivedAbove == [tag |-> 1 :> Received("all"), roots |-> <<1>>, made |-> {1}]

Prepared == {WholePool, Subtree, Children, Gap, Overlap, ReceivedAbove}

\* The children only, and nobody has created the path to them.
Unprepared == {[Children EXCEPT !.made = {}]}
=============================================================================
