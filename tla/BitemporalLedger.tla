-------------------------- MODULE BitemporalLedger --------------------------
(***************************************************************************)
(* What the SQLite store promises about the facts and edges tables,        *)
(* whatever the engine above it does: a bitemporal ledger.                 *)
(*                                                                         *)
(* A row is written once, is expired at most once, and leaves the tables   *)
(* only when its fact is archived.  An edge never outlives the row of      *)
(* either endpoint, and its endpoints never change.  Rowids come from      *)
(* AUTOINCREMENT sequences, so an id is never given out twice.             *)
(*                                                                         *)
(* One LedgerStep is one committed transaction.                            *)
(***************************************************************************)
EXTENDS Naturals

CONSTANTS
    MaxFacts,   \* bound: fact rowids are 1..MaxFacts
    MaxEdges    \* bound: edge rowids are 1..MaxEdges

VARIABLES
    fact,       \* fact[f]: life-cycle of row f of the facts table
    edge        \* edge[e]: row e of the edges table

FactId == 1..MaxFacts
EdgeId == 1..MaxEdges

\* A rowid not yet given out, a live row, a soft-deleted row (t_expired set),
\* a row hard-deleted by the archive.
Status == {"none", "active", "expired", "purged"}
Relation == {"supplements", "contradicts", "co_session", "supersedes"}

NoEdge == [st |-> "none", src |-> 0, tgt |-> 0, rel |-> "none"]
EdgeRow == [st : Status \ {"none"}, src : FactId, tgt : FactId, rel : Relation]

\* The row with another status; its endpoints and relation stay.
Marked(row, s) == [row EXCEPT !.st = s]

InTable(s) == s \in {"active", "expired"}

-----------------------------------------------------------------------------
LedgerTypeOK ==
    /\ fact \in [FactId -> Status]
    /\ edge \in [EdgeId -> EdgeRow \cup {NoEdge}]

\* The moves one transaction may make with one row.
FactMove == {<<"none", "none">>, <<"none", "active">>, <<"active", "active">>,
             <<"active", "expired">>, <<"expired", "expired">>,
             <<"expired", "purged">>, <<"purged", "purged">>}
EdgeMove == FactMove \cup {<<"active", "purged">>}

\* Every edge still in the table joins two facts still in the table.
NoDanglingEdge(f, d) ==
    \A e \in EdgeId : InTable(d[e].st) =>
        InTable(f[d[e].src]) /\ InTable(f[d[e].tgt])

LedgerInit ==
    /\ fact = [f \in FactId |-> "none"]
    /\ edge = [e \in EdgeId |-> NoEdge]

LedgerStep ==
    /\ fact' \in [FactId -> Status]
    /\ edge' \in [EdgeId -> EdgeRow \cup {NoEdge}]
    /\ \A f \in FactId : <<fact[f], fact'[f]>> \in FactMove
    /\ \A e \in EdgeId :
        /\ <<edge[e].st, edge'[e].st>> \in EdgeMove
        /\ edge[e] # NoEdge =>
            edge'[e] = Marked(edge[e], edge'[e].st)
        \* only the archive deletes an edge row, together with an endpoint
        /\ InTable(edge[e].st) /\ edge'[e].st = "purged" =>
            \/ <<fact[edge[e].src], fact'[edge[e].src]>> = <<"expired", "purged">>
            \/ <<fact[edge[e].tgt], fact'[edge[e].tgt]>> = <<"expired", "purged">>
    /\ NoDanglingEdge(fact', edge')

LedgerSpec == LedgerInit /\ [][LedgerStep]_<<fact, edge>>
=============================================================================
