----------------------------- MODULE FactGraph ------------------------------
(***************************************************************************)
(* What MemoryGraph promises its callers: a set of facts it knows and a    *)
(* bag of edges between them.  An edge id is a row of the edges table, so  *)
(* it fixes its endpoints; a copy of a row can be in the bag twice when a  *)
(* caller mirrors it twice.  MemoryEngine's graph variable is this bag.    *)
(***************************************************************************)
EXTENDS Naturals, FiniteSets, FiniteSetsExt

CONSTANTS
    Fact,       \* fact ids
    EdgeId,     \* edge ids
    Source,     \* Source[e], Target[e]: the endpoints of row e
    Target

VARIABLES
    known,      \* the facts with a node
    copies      \* copies[e]: how often the graph holds edge e

Ends(e) == {Source[e], Target[e]}
Incident(e, f) == f \in Ends(e)

Init == known = {} /\ copies = [e \in EdgeId |-> 0]

Add(e) ==
    /\ known' = known \cup Ends(e)
    /\ copies' = [copies EXCEPT ![e] = @ + 1]

RemoveOne(e) ==
    /\ copies' = [copies EXCEPT ![e] = IF @ > 0 THEN @ - 1 ELSE 0]
    /\ UNCHANGED known

RemoveEdgesOf(f) ==
    /\ copies' = [e \in EdgeId |-> IF Incident(e, f) THEN 0 ELSE copies[e]]
    /\ UNCHANGED known

RemoveFact(f) ==
    /\ known' = known \ {f}
    /\ copies' = [e \in EdgeId |-> IF Incident(e, f) THEN 0 ELSE copies[e]]

(* Rebuilt from a set of rows: one copy of each and no other node. *)
Rebuild(rows) ==
    /\ known' = UNION {Ends(e) : e \in rows}
    /\ copies' = [e \in EdgeId |-> IF e \in rows THEN 1 ELSE 0]

(* Written to a sidecar and read back: the facts without an edge are lost. *)
Reload ==
    /\ known' = UNION {Ends(e) : e \in {e \in EdgeId : copies[e] > 0}}
    /\ UNCHANGED copies

Next ==
    \/ \E e \in EdgeId : Add(e) \/ RemoveOne(e)
    \/ \E f \in Fact : RemoveEdgesOf(f) \/ RemoveFact(f)
    \/ \E rows \in SUBSET EdgeId : Rebuild(rows)
    \/ Reload

Spec == Init /\ [][Next]_<<known, copies>>

-----------------------------------------------------------------------------
(* What the queries mean. *)

Held == {e \in EdgeId : copies[e] > 0}
Successors(f) == {Target[e] : e \in {e \in Held : Source[e] = f}}
Adjacent(f) == Successors(f) \cup {Source[e] : e \in {e \in Held : Target[e] = f}}

\* Copies count, and a self-loop counts at both of its ends.
Degree(f) ==
    MapThenSumSet(LAMBDA e : (IF Source[e] = f THEN copies[e] ELSE 0)
                             + (IF Target[e] = f THEN copies[e] ELSE 0), EdgeId)

\* The smallest set around f that no edge leaves or enters.
Component(f) ==
    IF f \notin known THEN {}
    ELSE LET Closed(S) == \A e \in Held : Ends(e) \cap S # {} => Ends(e) \subseteq S
         IN  CHOOSE S \in SUBSET known :
                 /\ f \in S /\ Closed(S)
                 /\ \A T \in SUBSET known : f \in T /\ Closed(T) => S \subseteq T
=============================================================================
