------------------------------ MODULE MCGraph -------------------------------
(***************************************************************************)
(* An instance of MemoryGraph for TLC: parallel edges, a self-loop, and a  *)
(* fact that only one edge reaches.                                        *)
(***************************************************************************)
EXTENDS MemoryGraph

CONSTANTS f1, f2, f3, f4, e1, e2, e3, e4

Facts == {f1, f2, f3, f4}
Edges == {e1, e2, e3, e4}
Sources == [e \in Edges |-> CASE e = e1 -> f1 [] e = e2 -> f2 [] e = e3 -> f1 [] e = e4 -> f3]
Targets == [e \in Edges |-> CASE e = e1 -> f2 [] e = e2 -> f3 [] e = e3 -> f1 [] e = e4 -> f4]
=============================================================================
