------------------------------- MODULE MCPool -------------------------------
(***************************************************************************)
(* Instances of ConnectionPool for TLC: one caller that streams, one that  *)
(* reads and writes, one that reads.                                       *)
(***************************************************************************)
EXTENDS ConnectionPool, TLC

CONSTANTS scanner, editor, reader, conn1

Callers == {scanner, editor, reader}
OneConn == {conn1}
KindsOf == [c \in Callers |-> CASE c = scanner -> {"stream"}
                                [] c = editor -> {"read", "write"}
                                [] OTHER -> {"read"}]
=============================================================================
