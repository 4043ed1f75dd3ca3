---------------------------- MODULE MCScopeCache ----------------------------
(***************************************************************************)
(* Instances of ScopeCache for TLC: one branch three deep, and a second    *)
(* top-level scope.                                                        *)
(***************************************************************************)
EXTENDS ScopeCache

CONSTANTS user, machine, project, other, t1, t2

Paths == {<<user>>, <<user, machine>>, <<user, machine, project>>, <<other>>}
OneTask == {t1}
TwoTasks == {t1, t2}

CloseOps == {"ensure", "batch", "flush", "crash"}
BatchOps == {"ensure", "batch"}
=============================================================================
