------------------------------ MODULE MCImport ------------------------------
(***************************************************************************)
(* Instances of BootstrapImport for TLC: two importers of session logs     *)
(* that share one log, and one of a memory file.  The logs l1 and l2 are of *)
(* one resumed session, l3 of another; a is mentioned twice in l1 and again *)
(* in l3 and in the memory file, at earlier and later times.                *)
(***************************************************************************)
EXTENDS BootstrapImport, TLC

CONSTANTS i1, i2, i3, l1, l2, l3, note, a, b, s1, s2, none

Importers == {i1, i2, i3}
Files == {l1, l2, l3, note}
Contents == {a, b}
Sessions == {s1, s2}
SessionOfFile == (l1 :> s1) @@ (l2 :> s1) @@ (l3 :> s2) @@ (note :> none)
M(content, at, weight) == [content |-> content, at |-> at, weight |-> weight]
MentionsOf ==
    (l1 :> <<M(a, 2, 1), M(b, 2, 1), M(a, 3, 1)>>) @@ (l2 :> <<M(b, 4, 1)>>)
    @@ (l3 :> <<M(a, 1, 2)>>) @@ (note :> <<M(a, 5, 1)>>)
Directories == (i1 :> <<l1, l3>>) @@ (i2 :> <<l3, l2>>) @@ (i3 :> <<note>>)
=============================================================================
