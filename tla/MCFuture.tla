------------------------------ MODULE MCFuture ------------------------------
(***************************************************************************)
(* Instances of FutureMemory for TLC: one caller beside the consumer; a    *)
(* fact due at 1 and 2, and one due from 2 on.                              *)
(***************************************************************************)
EXTENDS FutureMemory, TLC

CONSTANTS f1, f2, c1

Facts == {f1, f2}
Callers == {c1}
ValidAt == (f1 :> 1) @@ (f2 :> 2)
InvalidAt == (f1 :> 3) @@ (f2 :> Never)
=============================================================================
