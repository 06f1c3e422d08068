----------------------------- MODULE MCTraverse -----------------------------
(***************************************************************************)
(* Graphs for Traverse: cycles of three nodes, a self-loop, a pair of      *)
(* parallel relations.                                                     *)
(***************************************************************************)
EXTENDS Traverse

Edge(a, b, r) == [src |-> a, dst |-> b, relation |-> r]

Cyclic == {Edge(1, 2, "CALLS"), Edge(2, 3, "CALLS"), Edge(3, 1, "CALLS"), Edge(1, 1, "CALLS"),
           Edge(3, 2, "INHERITS"), Edge(1, 2, "INHERITS")}
=============================================================================
