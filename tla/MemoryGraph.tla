---------------------------- MODULE MemoryGraph -----------------------------
(***************************************************************************)
(* The in-memory graph: petgraph's two arrays and the map from a fact id   *)
(* to its node's index.  Indexes are all that the arrays' elements know of *)
(* each other, and petgraph removes an element by moving the last one into *)
(* its slot, so that every removal renames something.  The module shows    *)
(* that the callers see none of this: it implements FactGraph.             *)
(***************************************************************************)
EXTENDS Naturals, Sequences, FiniteSets, SequencesExt

CONSTANTS
    Fact, EdgeId, Source, Target,   \* as in FactGraph
    MaxEdges                        \* bound: edges in the graph

ASSUME RowsHaveEndpoints ==
    IsFiniteSet(Fact) /\ IsFiniteSet(EdgeId)
    /\ Source \in [EdgeId -> Fact] /\ Target \in [EdgeId -> Fact]
    /\ MaxEdges \in Nat

VARIABLES
    nodes,      \* petgraph's node array: fact ids
    edges,      \* petgraph's edge array: edge id and two indexes into nodes
    nodeMap     \* node_map: the index of each fact's node

vars == <<nodes, edges, nodeMap>>

Put(map, f, i) == [g \in DOMAIN map \cup {f} |-> IF g = f THEN i ELSE map[g]]
Drop(map, f) == [g \in DOMAIN map \ {f} |-> map[g]]

(* External, petgraph: Vec::swap_remove. *)
SwapRemove(s, i) == SubSeq([s EXCEPT ![i] = Last(s)], 1, Len(s) - 1)

Init == nodes = <<>> /\ edges = <<>> /\ nodeMap = <<>>

-----------------------------------------------------------------------------
(* A graph value, so that a loop over rows can be folded over it. *)
State == [nodes |-> nodes, edges |-> edges, map |-> nodeMap]
EmptyState == [nodes |-> <<>>, edges |-> <<>>, map |-> <<>>]
Becomes(g) == nodes' = g.nodes /\ edges' = g.edges /\ nodeMap' = g.map

EnsureNode(g, f) ==
    IF f \in DOMAIN g.map THEN g
    ELSE [g EXCEPT !.nodes = Append(@, f), !.map = Put(@, f, Len(g.nodes) + 1)]

(* What the tables and a snapshot hold of an edge: its id and two facts. *)
Row(e) == [id |-> e, from |-> Source[e], to |-> Target[e]]

WithEdge(g, row) ==
    LET h == EnsureNode(EnsureNode(g, row.from), row.to)
    IN  [h EXCEPT !.edges = Append(@, [id |-> row.id, from |-> h.map[row.from],
                                       to |-> h.map[row.to]])]

AddEdge(e) ==
    /\ Len(edges) < MaxEdges
    /\ Becomes(WithEdge(State, Row(e)))

(* remove_edge_by_id: the first match, and at most one. *)
RemoveEdgeById(e) ==
    LET found == {i \in DOMAIN edges : edges[i].id = e} IN
    /\ edges' = IF found = {} THEN edges
                ELSE SwapRemove(edges, CHOOSE i \in found : \A j \in found : i <= j)
    /\ UNCHANGED <<nodes, nodeMap>>

(* External, petgraph: remove_edge does nothing at an index past the end. *)
RemoveEdge(s, i) == IF i \in DOMAIN s THEN SwapRemove(s, i) ELSE s

Touches(edge, i) == edge.from = i \/ edge.to = i

(* The indexes of the edges at node i: collected from both directions, each once. *)
EdgesAt(i) == {k \in DOMAIN edges : Touches(edges[k], i)}

\* Mutant: the indexes are removed in ascending order.
PendingAscending(i) ==
    CHOOSE list \in SetToSeqs(EdgesAt(i)) : \A m, n \in DOMAIN list : m < n => list[m] < list[n]

(* Highest first, so that no removal moves an edge whose index is still to come. *)
Pending(i) ==
    CHOOSE list \in SetToSeqs(EdgesAt(i)) : \A m, n \in DOMAIN list : m < n => list[m] > list[n]

RemoveEdgesByFact(f) ==
    /\ edges' = IF f \in DOMAIN nodeMap
                THEN FoldLeft(RemoveEdge, edges, Pending(nodeMap[f]))
                ELSE edges
    /\ UNCHANGED <<nodes, nodeMap>>

\* Mutant: the edges of the moved node keep its old index.
RenumberSources(edge, old, new) == [edge EXCEPT !.from = IF @ = old THEN new ELSE @]

(* petgraph's remove_node: the node's edges go, one swap-removal after the    *)
(* other, so that the rest may end up in any order; the last node moves into *)
(* the free slot, and the edges of the moved node are told its new index.    *)
Renumber(edge, old, new) ==
    [edge EXCEPT !.from = IF @ = old THEN new ELSE @,
                 !.to = IF @ = old THEN new ELSE @]

DropNode(i) ==
    /\ nodes' = SwapRemove(nodes, i)
    /\ \E order \in SetToSeqs(DOMAIN edges \ EdgesAt(i)) :
           edges' = [n \in DOMAIN order |-> Renumber(edges[order[n]], Len(nodes), i)]

\* Mutant: node_map keeps the index the moved node had.
RemoveNodeStaleMap(f) ==
    IF f \notin DOMAIN nodeMap THEN UNCHANGED vars
    ELSE DropNode(nodeMap[f]) /\ nodeMap' = Drop(nodeMap, f)

(* remove_node: then node_map is told, unless the last node is what went. *)
RemoveNode(f) ==
    IF f \notin DOMAIN nodeMap THEN UNCHANGED vars
    ELSE LET i == nodeMap[f] IN
         /\ DropNode(i)
         /\ nodeMap' = IF i < Len(nodes) THEN Put(Drop(nodeMap, f), nodes'[i], i)
                       ELSE Drop(nodeMap, f)

(* add_edges_from_iter, over a list of rows. *)
Rebuilt(rows) == FoldLeft(WithEdge, EmptyState, rows)

(* from_active_edges, in whatever order the rows come. *)
FromActiveEdges(rows) ==
    /\ Cardinality(rows) <= MaxEdges
    /\ \E order \in SetToSeqs(rows) :
           Becomes(Rebuilt([n \in DOMAIN order |-> Row(order[n])]))

(* to_snapshot. *)
Snapshot == [k \in DOMAIN edges |-> [id |-> edges[k].id, from |-> nodes[edges[k].from],
                                     to |-> nodes[edges[k].to]]]

(* from_snapshot of what to_snapshot wrote.  An edge with an endpoint that   *)
(* is no longer a fact refuses the whole image, and the caller keeps what it *)
(* has (it rebuilds from the tables).                                        *)
FromSnapshot(existing) ==
    IF \A k \in DOMAIN Snapshot : {Snapshot[k].from, Snapshot[k].to} \subseteq existing
    THEN Becomes(Rebuilt(Snapshot))
    ELSE UNCHANGED vars

Next ==
    \/ \E e \in EdgeId : AddEdge(e) \/ RemoveEdgeById(e)
    \/ \E f \in Fact : RemoveEdgesByFact(f) \/ RemoveNode(f)
    \/ \E rows \in SUBSET EdgeId : FromActiveEdges(rows)
    \/ \E existing \in SUBSET Fact : FromSnapshot(existing)

Spec == Init /\ [][Next]_vars

-----------------------------------------------------------------------------
(* The queries, on indexes. *)

Neighbors(f) ==
    IF f \notin DOMAIN nodeMap THEN {}
    ELSE {nodes[edges[k].to] : k \in {k \in DOMAIN edges : edges[k].from = nodeMap[f]}}

NeighborsUndirected(f) ==
    IF f \notin DOMAIN nodeMap THEN {}
    ELSE (Neighbors(f) \cup
          {nodes[edges[k].from] : k \in {k \in DOMAIN edges : edges[k].to = nodeMap[f]}})
         \ {f}

\* Mutant: distinct neighbours are counted instead of edges.
NodeDegreeDistinct(f) == Cardinality(NeighborsUndirected(f))

(* degree: in-edges and out-edges. *)
NodeDegree(f) ==
    IF f \notin DOMAIN nodeMap THEN 0
    ELSE Cardinality({k \in DOMAIN edges : edges[k].from = nodeMap[f]})
         + Cardinality({k \in DOMAIN edges : edges[k].to = nodeMap[f]})

(* connected_component: breadth first, one layer more in each round. *)
Layer(visited) ==
    visited \cup {edges[k].to : k \in {k \in DOMAIN edges : edges[k].from \in visited}}
            \cup {edges[k].from : k \in {k \in DOMAIN edges : edges[k].to \in visited}}

ConnectedComponent(f) ==
    IF f \notin DOMAIN nodeMap THEN {}
    ELSE LET visited[n \in 0..Len(nodes)] ==
                 IF n = 0 THEN {nodeMap[f]} ELSE Layer(visited[n - 1])
         IN  {nodes[i] : i \in visited[Len(nodes)]}

(* build_graph_context, what explain_fact reports. *)
GraphContext(f) ==
    [degree |-> NodeDegree(f), neighbors |-> NeighborsUndirected(f),
     component_size |-> Cardinality(ConnectedComponent(f))]

-----------------------------------------------------------------------------
\* The arrays refer to each other by indexes that exist, and node_map is
\* exactly the inverse of the node array: no index outlives its node.
TypeOK ==
    /\ nodes \in Seq(Fact)
    /\ edges \in Seq([id : EdgeId, from : DOMAIN nodes, to : DOMAIN nodes])
    /\ nodeMap \in [{nodes[i] : i \in DOMAIN nodes} -> DOMAIN nodes]
    /\ \A i \in DOMAIN nodes : nodeMap[nodes[i]] = i

Graph == INSTANCE FactGraph WITH
             known <- {nodes[i] : i \in DOMAIN nodes},
             copies <- [e \in EdgeId |->
                           Cardinality({k \in DOMAIN edges : edges[k].id = e})]

(* Whatever is removed and in whatever order, each operation does to the     *)
(* facts and edges exactly what its name says, and nothing to the rest.      *)
ImplementsFactGraph == Graph!Spec

(* Each edge in the arrays still connects the two facts of its row, through  *)
(* all the renumbering: what a snapshot would write is what the tables say.  *)
EdgesKeepTheirEnds ==
    LET Names(i, f) == i \in DOMAIN nodes /\ nodes[i] = f
    IN  \A k \in DOMAIN edges :
            /\ Names(edges[k].from, Source[edges[k].id])
            /\ Names(edges[k].to, Target[edges[k].id])

(* Every query answers what the bag of edges means: what conflict resolution *)
(* and forgetting read as a fact's degree, and what explain_fact reports.    *)
QueriesAgree ==
    \A f \in Fact :
        /\ Neighbors(f) = Graph!Successors(f)
        /\ GraphContext(f) = [degree |-> Graph!Degree(f),
                              neighbors |-> Graph!Adjacent(f) \ {f},
                              component_size |-> Cardinality(Graph!Component(f))]
=============================================================================
