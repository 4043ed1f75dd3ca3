----------------------------- MODULE GraphProofs -----------------------------
(***************************************************************************)
(* Theorems about MemoryGraph, for any facts and any rows: whatever is     *)
(* added, removed, rebuilt or loaded, the arrays implement FactGraph and   *)
(* the queries on indexes answer what the bag of edges means.              *)
(***************************************************************************)
EXTENDS MemoryGraph, FiniteSetTheorems, SequenceTheorems, WellFoundedInduction, TLAPS

-----------------------------------------------------------------------------
(* Induction over data.  A false instance of what is to be shown would     *)
(* have a smallest one, and a fold over a finite set is a function on its  *)
(* subsets that exists because it does so for the smaller ones.            *)

LEMMA Smallest ==
    ASSUME NEW N \in SUBSET Nat, N # {}
    PROVE  \E n \in N : \A m \in N : n <= m
<1>1. PICK n \in N : \A m \in N : <<m, n>> \notin OpToRel(<, Nat)
  BY NatLessThanWellFounded, WFMin, Zenon
<1>2. \A m \in N : ~(m < n)
  BY <1>1 DEF OpToRel
<1> QED BY <1>2

LEMMA SmallestSet ==
    ASSUME NEW S, IsFiniteSet(S), NEW Sets \in SUBSET SUBSET S, Sets # {}
    PROVE  \E X \in Sets : \A Y \in Sets : Y \subseteq X => Y = X
<1> DEFINE sizes == {Cardinality(X) : X \in Sets}
<1>1. \A X \in Sets : IsFiniteSet(X) /\ Cardinality(X) \in Nat
  BY FS_Subset, FS_CardinalityType
<1>2. sizes \in SUBSET Nat /\ sizes # {}
  BY <1>1
<1>3. PICK n \in sizes : \A m \in sizes : n <= m
  BY <1>2, Smallest
<1>4. PICK X \in Sets : n = Cardinality(X)
  BY <1>3
<1>5. \A Y \in Sets : Y \subseteq X => Cardinality(Y) = Cardinality(X)
  BY <1>1, <1>3, <1>4, FS_Subset
<1> QED BY <1>1, <1>5, FS_Subset

\* Every set of numbers below a bound has a largest element.
LEMMA Largest ==
    ASSUME NEW n \in Nat, NEW N \in SUBSET (1..n), N # {}
    PROVE  Max(N) \in N /\ \A m \in N : m <= Max(N)
<1> DEFINE above == {n - m : m \in N}
<1>1. above \in SUBSET Nat /\ above # {}
  OBVIOUS
<1>2. PICK d \in above : \A e \in above : d <= e
  BY <1>1, Smallest
<1>3. PICK m \in N : d = n - m
  BY <1>2
<1>4. \A k \in N : k <= m
  <2> SUFFICES ASSUME NEW k \in N PROVE k <= m
    OBVIOUS
  <2>1. n - k \in above
    OBVIOUS
  <2>2. n - m <= n - k
    BY <1>2, <1>3, <2>1
  <2> QED BY <2>2
<1>5. \E k \in N : \A j \in N : k >= j
  BY <1>4
<1>6. Max(N) \in N /\ \A j \in N : Max(N) >= j
  BY <1>5 DEF Max
<1> QED BY <1>6

Folds(it, S, base, step, pick) ==
    \A X \in SUBSET S :
        it[X] = IF X = {} THEN base ELSE step[<<it[X \ {pick[X]}], pick[X]>>]

LEMMA FoldExists ==
    ASSUME NEW S, IsFiniteSet(S), NEW A, NEW base \in A, NEW step \in [A \X S -> A],
           NEW pick, \A X \in SUBSET S : X # {} => pick[X] \in X
    PROVE  \E it \in [SUBSET S -> A] : Folds(it, S, base, step, pick)
<1> DEFINE Upto(n) == {X \in SUBSET S : Cardinality(X) <= n}
           Good(n) == \E it \in [Upto(n) -> A] :
                        \A X \in Upto(n) :
                          it[X] = IF X = {} THEN base
                                  ELSE step[<<it[X \ {pick[X]}], pick[X]>>]
           bad == {n \in Nat : ~Good(n)}
<1>1. \A X \in SUBSET S : IsFiniteSet(X) /\ Cardinality(X) \in Nat
  BY FS_Subset, FS_CardinalityType
<1>2. \A X \in SUBSET S : X # {} =>
        /\ X \ {pick[X]} \in SUBSET S
        /\ Cardinality(X \ {pick[X]}) = Cardinality(X) - 1
  BY <1>1, FS_RemoveElement
<1>3. \A X \in SUBSET S : Cardinality(X) = 0 <=> X = {}
  BY <1>1, FS_EmptySet
<1>4. Good(0)
  <2>1. Upto(0) = {{}}
    BY <1>1, <1>3
  <2>2. [X \in {{}} |-> base] \in [{{}} -> A]
    OBVIOUS
  <2>3. \A X \in {{}} : [Y \in {{}} |-> base][X] =
          IF X = {} THEN base
          ELSE step[<<[Y \in {{}} |-> base][X \ {pick[X]}], pick[X]>>]
    OBVIOUS
  <2> HIDE DEF Upto
  <2> QED BY <2>1, <2>2, <2>3
<1>5. ASSUME NEW n \in Nat, Good(n) PROVE Good(n + 1)
  <2>1. PICK it \in [Upto(n) -> A] :
          \A X \in Upto(n) :
            it[X] = IF X = {} THEN base ELSE step[<<it[X \ {pick[X]}], pick[X]>>]
    BY <1>5
  <2>2. \A X \in Upto(n + 1) : X # {} => X \ {pick[X]} \in Upto(n) /\ pick[X] \in S
    BY <1>1, <1>2
  <2>3. Upto(n) \subseteq Upto(n + 1) /\ {} \in Upto(n)
    BY <1>1, <1>3
  <2> HIDE DEF Upto
  <2> DEFINE jt == [X \in Upto(n + 1) |->
                      IF X = {} THEN base
                      ELSE step[<<it[X \ {pick[X]}], pick[X]>>]]
  <2>4. \A X \in Upto(n) : jt[X] = it[X]
    BY <2>1, <2>3
  <2>5. jt \in [Upto(n + 1) -> A]
    <3> SUFFICES ASSUME NEW X \in Upto(n + 1), X # {}
                 PROVE  step[<<it[X \ {pick[X]}], pick[X]>>] \in A
      OBVIOUS
    <3>1. it[X \ {pick[X]}] \in A /\ pick[X] \in S
      BY <2>2
    <3> QED BY <3>1
  <2>6. \A X \in Upto(n + 1) :
          jt[X] = IF X = {} THEN base ELSE step[<<jt[X \ {pick[X]}], pick[X]>>]
    <3> SUFFICES ASSUME NEW X \in Upto(n + 1), X # {}
                 PROVE  jt[X] = step[<<jt[X \ {pick[X]}], pick[X]>>]
      OBVIOUS
    <3>1. jt[X \ {pick[X]}] = it[X \ {pick[X]}]
      BY <2>2, <2>4
    <3> QED BY <3>1
  <2> HIDE DEF jt
  <2> QED BY <2>5, <2>6
<1> HIDE DEF Good
<1>6. bad = {}
  <2> SUFFICES ASSUME bad # {} PROVE FALSE
    OBVIOUS
  <2>1. PICK n \in bad : \A m \in bad : n <= m
    BY Smallest
  <2>2. n # 0
    BY <1>4
  <2>3. n - 1 \in Nat /\ n - 1 \notin bad
    BY <2>1, <2>2
  <2>4. Good((n - 1) + 1)
    BY <1>5, <2>3
  <2> QED BY <2>4
<1>7. Cardinality(S) \in Nat
  BY FS_CardinalityType
<1>8. Good(Cardinality(S))
  BY <1>6, <1>7
<1>9. Upto(Cardinality(S)) = SUBSET S
  BY FS_Subset
<1> QED BY <1>8, <1>9 DEF Good, Folds


LEMMA TopOfInterval ==
    ASSUME NEW k \in Nat, k # 0
    PROVE  Max(1..k) = k /\ (1..k) \ {k} = 1..(k - 1)
<1>1. 1..k \in SUBSET (1..k) /\ 1..k # {} /\ k \in 1..k
  OBVIOUS
<1>2. Max(1..k) \in 1..k /\ \A m \in 1..k : m <= Max(1..k)
  BY <1>1, Largest
<1> QED BY <1>1, <1>2

-----------------------------------------------------------------------------
(* Graph values: the arrays, and the map that inverts the node array.      *)
Edge == [id : EdgeId, from : Nat, to : Nat]
Rows == {Row(e) : e \in EdgeId}

Names(N, i, f) == i \in DOMAIN N /\ N[i] = f
Inverts(M, N) ==
    /\ M \in [{N[i] : i \in DOMAIN N} -> DOMAIN N]
    /\ \A i \in DOMAIN N : M[N[i]] = i
Joins(E, N) ==
    \A k \in DOMAIN E : Names(N, E[k].from, Source[E[k].id])
                        /\ Names(N, E[k].to, Target[E[k].id])

GraphOK(g) ==
    /\ g.nodes \in Seq(Fact) /\ g.edges \in Seq(Edge)
    /\ Inverts(g.map, g.nodes)
    /\ Joins(g.edges, g.nodes)

Maps == UNION {[D -> Nat] : D \in SUBSET Fact}
Values == [nodes : Seq(Fact), edges : Seq(Edge), map : Maps]
GraphValues == {g \in Values : GraphOK(g)}

LEMMA RowIs ==
    ASSUME NEW row \in Rows
    PROVE  /\ row.id \in EdgeId /\ row = Row(row.id)
           /\ row.from = Source[row.id] /\ row.to = Target[row.id]
           /\ row.from \in Fact /\ row.to \in Fact
<1>1. PICK e \in EdgeId : row = Row(e)
  BY DEF Rows
<1> QED BY <1>1, RowsHaveEndpoints DEF Row

\* Whoever is in the map has a node, and the node has its name.
LEMMA MapFinds ==
    ASSUME NEW N \in Seq(Fact), NEW M, Inverts(M, N), NEW f \in DOMAIN M
    PROVE  M[f] \in 1..Len(N) /\ N[M[f]] = f /\ f \in Fact
<1>1. PICK i \in DOMAIN N : f = N[i]
  BY DEF Inverts
<1> QED BY <1>1 DEF Inverts

LEMMA NodeAppended ==
    ASSUME NEW N \in Seq(Fact), NEW M, Inverts(M, N), NEW f \in Fact, f \notin DOMAIN M
    PROVE  LET N2 == Append(N, f)
               M2 == Put(M, f, Len(N) + 1)
           IN  /\ N2 \in Seq(Fact) /\ Inverts(M2, N2)
               /\ DOMAIN M2 = DOMAIN M \cup {f}
               /\ \A i, g : Names(N, i, g) => Names(N2, i, g)
<1> DEFINE N2 == Append(N, f)
           M2 == Put(M, f, Len(N) + 1)
<1>1. /\ N2 \in Seq(Fact) /\ Len(N) \in Nat /\ DOMAIN N = 1..Len(N)
      /\ DOMAIN N2 = 1..(Len(N) + 1) /\ N2[Len(N) + 1] = f
      /\ \A i \in 1..Len(N) : N2[i] = N[i]
  BY AppendProperties
<1>2. DOMAIN M2 = DOMAIN M \cup {f} /\ M2 = [g \in DOMAIN M \cup {f} |-> IF g = f THEN Len(N) + 1 ELSE M[g]]
  BY DEF Put
<1>3. /\ DOMAIN M = {N[i] : i \in DOMAIN N}
      /\ \A i \in DOMAIN N : M[N[i]] = i
      /\ M \in [{N[i] : i \in DOMAIN N} -> DOMAIN N]
  BY DEF Inverts
<1> HIDE DEF N2, M2
<1>4. DOMAIN N2 = DOMAIN N \cup {Len(N) + 1} /\ DOMAIN N \subseteq DOMAIN N2
  BY <1>1
<1>5. {N2[i] : i \in DOMAIN N2} = DOMAIN M \cup {f}
  BY <1>1, <1>3, <1>4
<1>6. M2 \in [DOMAIN M \cup {f} -> DOMAIN N2]
  BY <1>1, <1>2, <1>3, <1>4
<1>7. \A i \in DOMAIN N2 : M2[N2[i]] = i
  BY <1>1, <1>2, <1>3, <1>4
<1>8. Inverts(M2, N2)
  BY <1>5, <1>6, <1>7 DEF Inverts
<1>9. \A i, g : Names(N, i, g) => Names(N2, i, g)
  BY <1>1, <1>4 DEF Names
<1> QED BY <1>1, <1>2, <1>8, <1>9 DEF N2, M2

LEMMA MapTyped ==
    ASSUME NEW N \in Seq(Fact), NEW M, Inverts(M, N)
    PROVE  M \in Maps
<1>1. DOMAIN M = {N[i] : i \in DOMAIN N} /\ M \in [DOMAIN M -> DOMAIN N]
  BY DEF Inverts
<1>2. DOMAIN M \in SUBSET Fact /\ DOMAIN N \subseteq Nat
  BY <1>1
<1>3. M \in [DOMAIN M -> Nat]
  BY <1>1, <1>2
<1> QED BY <1>2, <1>3 DEF Maps

LEMMA NodeEnsured ==
    ASSUME NEW g \in GraphValues, NEW f \in Fact
    PROVE  /\ EnsureNode(g, f) \in GraphValues
           /\ EnsureNode(g, f).edges = g.edges
           /\ DOMAIN EnsureNode(g, f).map = DOMAIN g.map \cup {f}
<1>0. g \in Values /\ GraphOK(g)
  BY DEF GraphValues
<1>1. CASE f \in DOMAIN g.map
  BY <1>1 DEF EnsureNode
<1>2. CASE f \notin DOMAIN g.map
  <2> DEFINE N2 == Append(g.nodes, f)
             M2 == Put(g.map, f, Len(g.nodes) + 1)
             h == EnsureNode(g, f)
  <2>1. h = [g EXCEPT !.nodes = N2, !.map = M2]
    BY <1>2 DEF EnsureNode
  <2>2. /\ N2 \in Seq(Fact) /\ Inverts(M2, N2)
        /\ DOMAIN M2 = DOMAIN g.map \cup {f}
        /\ \A i, x : Names(g.nodes, i, x) => Names(N2, i, x)
    BY <1>0, <1>2, NodeAppended DEF GraphOK
  <2> HIDE DEF N2, M2, h
  <2>3. /\ h.nodes = N2 /\ h.map = M2 /\ h.edges = g.edges
        /\ h = [nodes |-> N2, edges |-> g.edges, map |-> M2]
    BY <1>0, <2>1 DEF Values
  <2>4. M2 \in Maps
    BY <2>2, MapTyped
  <2>5. GraphOK(h)
    BY <1>0, <2>2, <2>3 DEF GraphOK, Joins
  <2>6. h \in Values
    BY <1>0, <2>2, <2>3, <2>4 DEF Values
  <2> QED BY <2>2, <2>3, <2>5, <2>6 DEF h, GraphValues
<1> QED BY <1>1, <1>2

\* One row more: its edge is appended, and its two facts are known.
Adds(g, h, row) ==
    /\ h \in GraphValues
    /\ DOMAIN h.map = DOMAIN g.map \cup {row.from, row.to}
    /\ \E edge \in Edge : edge.id = row.id /\ h.edges = Append(g.edges, edge)

LEMMA EdgeAdded ==
    ASSUME NEW g \in GraphValues, NEW row \in Rows
    PROVE  Adds(g, WithEdge(g, row), row)
<1> DEFINE h == EnsureNode(EnsureNode(g, row.from), row.to)
           edge == [id |-> row.id, from |-> h.map[row.from], to |-> h.map[row.to]]
           r == WithEdge(g, row)
<1>0. /\ row.id \in EdgeId /\ row.from \in Fact /\ row.to \in Fact
      /\ row.from = Source[row.id] /\ row.to = Target[row.id]
  BY RowIs
<1>1. /\ h \in GraphValues /\ h.edges = g.edges
      /\ DOMAIN h.map = DOMAIN g.map \cup {row.from, row.to}
  <2> DEFINE k == EnsureNode(g, row.from)
  <2>1. k \in GraphValues /\ k.edges = g.edges /\ DOMAIN k.map = DOMAIN g.map \cup {row.from}
    BY <1>0, NodeEnsured
  <2> HIDE DEF k
  <2>2. /\ EnsureNode(k, row.to) \in GraphValues
        /\ EnsureNode(k, row.to).edges = k.edges
        /\ DOMAIN EnsureNode(k, row.to).map = DOMAIN k.map \cup {row.to}
    BY <1>0, <2>1, NodeEnsured
  <2> QED BY <2>1, <2>2 DEF k
<1>2. r = [h EXCEPT !.edges = Append(@, edge)]
  BY DEF WithEdge
<1> HIDE DEF h, r
<1>3. h \in Values /\ GraphOK(h) /\ h.nodes \in Seq(Fact) /\ h.edges \in Seq(Edge)
      /\ Inverts(h.map, h.nodes) /\ Joins(h.edges, h.nodes)
  BY <1>1 DEF GraphValues, GraphOK
<1>4. /\ h.map[row.from] \in 1..Len(h.nodes) /\ h.nodes[h.map[row.from]] = row.from
      /\ h.map[row.to] \in 1..Len(h.nodes) /\ h.nodes[h.map[row.to]] = row.to
  BY <1>1, <1>3, MapFinds
<1>5. edge \in Edge /\ edge.id = row.id
  BY <1>0, <1>4 DEF Edge
<1>6. Names(h.nodes, edge.from, Source[edge.id]) /\ Names(h.nodes, edge.to, Target[edge.id])
  BY <1>0, <1>3, <1>4 DEF Names
<1> HIDE DEF edge
<1>7. r = [nodes |-> h.nodes, edges |-> Append(h.edges, edge), map |-> h.map]
      /\ r.nodes = h.nodes /\ r.edges = Append(h.edges, edge) /\ r.map = h.map
  BY <1>2, <1>3 DEF Values
<1>8. Append(h.edges, edge) \in Seq(Edge) /\ Joins(Append(h.edges, edge), h.nodes)
  BY <1>3, <1>5, <1>6, AppendProperties DEF Joins
<1>9. r \in GraphValues
  BY <1>3, <1>7, <1>8 DEF GraphValues, Values, GraphOK
<1> QED BY <1>1, <1>5, <1>7, <1>9 DEF Adds, r

-----------------------------------------------------------------------------
(* A loop over rows adds them one after the other.                         *)
LEMMA EmptyGraph ==
    EmptyState \in GraphValues /\ EmptyState.edges = <<>> /\ DOMAIN EmptyState.map = {}
<1>1. DOMAIN <<>> = {} /\ <<>> \in Seq(Fact) /\ <<>> \in Seq(Edge)
  BY EmptySeq
<1>2. <<>> \in [{<<>>[i] : i \in DOMAIN <<>>} -> DOMAIN <<>>]
  BY <1>1
<1>3. Inverts(<<>>, <<>>) /\ Joins(<<>>, <<>>)
  BY <1>1, <1>2 DEF Inverts, Joins
<1>4. <<>> \in Maps
  BY <1>1, <1>3, MapTyped
<1> QED BY <1>1, <1>3, <1>4 DEF EmptyState, GraphValues, Values, GraphOK

LEMMA RebuildLoop ==
    ASSUME NEW s \in Seq(Rows)
    PROVE  \E it \in [0..Len(s) -> GraphValues] :
              /\ it[0] = EmptyState
              /\ \A k \in 1..Len(s) : it[k] = WithEdge(it[k - 1], s[k])
              /\ Rebuilt(s) = it[Len(s)]
<1> DEFINE S == DOMAIN s
           step == [p \in GraphValues \X S |-> WithEdge(p[1], s[p[2]])]
           pick == [X \in SUBSET S |-> Max(X)]
           Body(it) == [t \in SUBSET S |->
                          IF t = {} THEN EmptyState
                          ELSE WithEdge(it[t \ {Max(t)}], s[Max(t)])]
           F == CHOOSE it : it = Body(it)
<1>1. Rebuilt(s) = F[S]
  BY Zenon DEF Rebuilt, FoldLeft, MapThenFoldSet
<1>2. S = 1..Len(s) /\ Len(s) \in Nat /\ IsFiniteSet(S) /\ \A k \in S : s[k] \in Rows
  BY FS_Interval
<1>3. \A X \in SUBSET S : X # {} => pick[X] = Max(X) /\ Max(X) \in X
  BY <1>2, Largest
<1>4. step \in [GraphValues \X S -> GraphValues]
  <2> SUFFICES ASSUME NEW g \in GraphValues, NEW k \in S
               PROVE  WithEdge(g, s[k]) \in GraphValues
    OBVIOUS
  <2>1. s[k] \in Rows
    BY <1>2
  <2> QED BY <2>1, EdgeAdded DEF Adds
<1>5. F = Body(F)
  <2>1. PICK it \in [SUBSET S -> GraphValues] : Folds(it, S, EmptyState, step, pick)
    <3>1. \A X \in SUBSET S : X # {} => pick[X] \in X
      BY <1>3
    <3>2. EmptyState \in GraphValues
      BY EmptyGraph
    <3> HIDE DEF step, pick, S, Body, F
    <3> QED BY <1>2, <1>4, <3>1, <3>2, FoldExists
  <2>2. \A X \in SUBSET S : X # {} =>
          step[<<it[X \ {pick[X]}], pick[X]>>] = WithEdge(it[X \ {Max(X)}], s[Max(X)])
    <3> SUFFICES ASSUME NEW X \in SUBSET S, X # {}
                 PROVE  step[<<it[X \ {pick[X]}], pick[X]>>]
                            = WithEdge(it[X \ {Max(X)}], s[Max(X)])
      OBVIOUS
    <3>1. pick[X] = Max(X) /\ Max(X) \in S /\ it[X \ {Max(X)}] \in GraphValues
      BY <1>3
    <3> HIDE DEF pick, S
    <3> QED BY <3>1
  <2>3. it = Body(it)
    <3> HIDE DEF S, step, pick
    <3> QED BY <2>1, <2>2 DEF Folds
  <2> HIDE DEF Body
  <2> QED BY <2>3
<1> DEFINE G == [k \in 0..Len(s) |-> F[1..k]]
<1>6. \A k \in 0..Len(s) : 1..k \in SUBSET S /\ G[k] = F[1..k]
  BY <1>2
<1>7. F[1..0] = EmptyState
  <2> HIDE DEF F
  <2>1. 1..0 = {}
    OBVIOUS
  <2> QED BY <1>5, <2>1
<1>8. \A k \in 1..Len(s) : F[1..k] = WithEdge(F[1..(k - 1)], s[k])
  <2> SUFFICES ASSUME NEW k \in 1..Len(s)
               PROVE  F[1..k] = WithEdge(F[1..(k - 1)], s[k])
    OBVIOUS
  <2>0. k \in Nat /\ k # 0
    BY <1>2
  <2>1. 1..k \in SUBSET S /\ k \in 1..k
    BY <1>2, <2>0
  <2>2. Max(1..k) = k /\ (1..k) \ {k} = 1..(k - 1)
    BY <2>0, TopOfInterval
  <2>3. 1..k # {}
    BY <2>1
  <2> HIDE DEF F, S
  <2> QED BY <1>5, <2>1, <2>2, <2>3
<1> HIDE DEF F, Body, step, pick
<1>9. \A k \in 0..Len(s) : G[k] \in GraphValues
  <2> DEFINE bad == {k \in 0..Len(s) : G[k] \notin GraphValues}
  <2> SUFFICES ASSUME bad # {} PROVE FALSE
    OBVIOUS
  <2>1. PICK k \in bad : \A j \in bad : k <= j
    <3>1. bad \in SUBSET Nat
      BY <1>2
    <3> HIDE DEF bad
    <3> QED BY <3>1, Smallest
  <2>2. k # 0
    BY <1>2, <1>6, <1>7, EmptyGraph
  <2>3. k - 1 \in 0..Len(s) /\ k - 1 \notin bad /\ k \in 1..Len(s)
    BY <1>2, <2>1, <2>2
  <2>4. F[1..(k - 1)] \in GraphValues
    BY <1>6, <2>3
  <2>5. s[k] \in Rows
    BY <1>2, <2>3
  <2>6. F[1..k] \in GraphValues
    BY <1>8, <2>3, <2>4, <2>5, EdgeAdded DEF Adds
  <2> QED BY <1>6, <2>6
<1>10. G \in [0..Len(s) -> GraphValues]
  BY <1>9
<1>11. G[0] = EmptyState /\ G[Len(s)] = Rebuilt(s)
  BY <1>1, <1>2, <1>6, <1>7
<1>12. \A k \in 1..Len(s) : G[k] = WithEdge(G[k - 1], s[k])
  <2> SUFFICES ASSUME NEW k \in 1..Len(s) PROVE G[k] = WithEdge(G[k - 1], s[k])
    OBVIOUS
  <2>1. k \in 0..Len(s) /\ k - 1 \in 0..Len(s)
    BY <1>2
  <2> QED BY <1>6, <1>8, <2>1
<1> HIDE DEF G
<1> QED BY <1>10, <1>11, <1>12

\* The rows' edges in the rows' order, and the facts of the rows.
LEMMA RebuiltIs ==
    ASSUME NEW s \in Seq(Rows)
    PROVE  /\ Rebuilt(s) \in GraphValues
           /\ DOMAIN Rebuilt(s).edges = DOMAIN s
           /\ \A k \in DOMAIN s : Rebuilt(s).edges[k].id = s[k].id
           /\ DOMAIN Rebuilt(s).map = UNION {{s[k].from, s[k].to} : k \in DOMAIN s}
<1> DEFINE ends(n) == UNION {{s[k].from, s[k].to} : k \in 1..n}
           Good(g, n) == /\ Len(g.edges) = n
                         /\ \A k \in 1..n : g.edges[k].id = s[k].id
                         /\ DOMAIN g.map = ends(n)
<1>0. Len(s) \in Nat /\ DOMAIN s = 1..Len(s) /\ \A k \in 1..Len(s) : s[k] \in Rows
  OBVIOUS
<1>1. PICK it \in [0..Len(s) -> GraphValues] :
         /\ it[0] = EmptyState
         /\ \A k \in 1..Len(s) : it[k] = WithEdge(it[k - 1], s[k])
         /\ Rebuilt(s) = it[Len(s)]
  BY RebuildLoop
<1>2. Good(it[0], 0)
  BY <1>1, EmptyGraph
<1>3. ASSUME NEW n \in 1..Len(s), Good(it[n - 1], n - 1) PROVE Good(it[n], n)
  <2> DEFINE g == it[n - 1]
             h == it[n]
  <2>1. g \in GraphValues /\ h = WithEdge(g, s[n]) /\ s[n] \in Rows /\ n \in Nat /\ n - 1 \in Nat
    BY <1>0, <1>1
  <2> HIDE DEF g, h
  <2>2. Adds(g, h, s[n])
    BY <2>1, EdgeAdded
  <2>3. PICK edge \in Edge : edge.id = s[n].id /\ h.edges = Append(g.edges, edge)
    BY <2>2 DEF Adds
  <2>4. g.edges \in Seq(Edge)
    BY <2>1 DEF GraphValues, GraphOK
  <2>5. Len(g.edges) = n - 1 /\ (\A k \in 1..(n - 1) : g.edges[k].id = s[k].id)
        /\ DOMAIN g.map = ends(n - 1)
    BY <1>3 DEF g
  <2>6. /\ Len(h.edges) = n /\ h.edges[n] = edge
        /\ \A k \in 1..(n - 1) : h.edges[k] = g.edges[k]
    BY <2>1, <2>3, <2>4, <2>5, AppendProperties
  <2>7. \A k \in 1..n : k \in 1..(n - 1) \/ k = n
    BY <2>1
  <2>8. ends(n) = ends(n - 1) \cup {s[n].from, s[n].to}
    BY <2>1, <2>7
  <2>9. DOMAIN h.map = ends(n)
    BY <2>2, <2>5, <2>8 DEF Adds
  <2> QED BY <2>3, <2>5, <2>6, <2>7, <2>9 DEF h
<1> HIDE DEF Good
<1>4. \A n \in 0..Len(s) : Good(it[n], n)
  <2> DEFINE bad == {n \in 0..Len(s) : ~Good(it[n], n)}
  <2> SUFFICES ASSUME bad # {} PROVE FALSE
    OBVIOUS
  <2>1. PICK n \in bad : \A m \in bad : n <= m
    <3>1. bad \in SUBSET Nat
      BY <1>0
    <3> HIDE DEF bad
    <3> QED BY <3>1, Smallest
  <2>2. n # 0
    BY <1>2
  <2>3. n \in 1..Len(s) /\ n - 1 \in 0..Len(s) /\ n - 1 \notin bad
    BY <1>0, <2>1, <2>2
  <2> QED BY <1>3, <2>3
<1>5. Good(Rebuilt(s), Len(s)) /\ Rebuilt(s) \in GraphValues
  BY <1>0, <1>1, <1>4
<1>6. Rebuilt(s).edges \in Seq(Edge)
  BY <1>5 DEF GraphValues, GraphOK
<1>7. DOMAIN Rebuilt(s).edges = DOMAIN s
  BY <1>0, <1>5, <1>6 DEF Good
<1> QED BY <1>0, <1>5, <1>7 DEF Good

-----------------------------------------------------------------------------
(* What is left of an array after removals: the elements at the places K,  *)
(* in some order h.                                                        *)
OneToOne(h, X, Y) == h \in Bijection(X, Y)

Keeps(s, t, h, K) ==
    /\ t \in Seq(Edge) /\ OneToOne(h, DOMAIN t, K)
    /\ \A k \in DOMAIN t : t[k] = s[h[k]]

Count(E, e) == Cardinality({k \in DOMAIN E : E[k].id = e})

LEMMA OneToOneIs ==
    ASSUME NEW h, NEW X, NEW Y
    PROVE  OneToOne(h, X, Y) <=> /\ h \in [X -> Y]
                                 /\ \A a, b \in X : h[a] = h[b] => a = b
                                 /\ \A y \in Y : \E a \in X : h[a] = y
BY DEF OneToOne, Bijection, Injection, Surjection, IsInjective

\* Edges are counted by their ids, so that their order and their indexes do not count.
LEMMA CountKept ==
    ASSUME NEW s \in Seq(Edge), NEW t \in Seq(Edge), NEW h, NEW K \in SUBSET DOMAIN s,
           OneToOne(h, DOMAIN t, K),
           \A k \in DOMAIN t : t[k].id = s[h[k]].id, NEW e
    PROVE  Count(t, e) = Cardinality({k \in K : s[k].id = e})
<1> DEFINE X == {k \in DOMAIN t : t[k].id = e}
           Y == {k \in K : s[k].id = e}
           r == [k \in X |-> h[k]]
<1>1. h \in [DOMAIN t -> K] /\ (\A a, b \in DOMAIN t : h[a] = h[b] => a = b)
      /\ \A y \in K : \E a \in DOMAIN t : h[a] = y
  BY OneToOneIs
<1>2. r \in [X -> Y] /\ (\A a, b \in X : r[a] = r[b] => a = b)
      /\ \A y \in Y : \E a \in X : r[a] = y
  BY <1>1
<1>3. OneToOne(r, X, Y)
  <2> HIDE DEF r, X, Y
  <2> QED BY <1>2, OneToOneIs
<1>4. IsFiniteSet(X)
  <2>1. DOMAIN t = 1..Len(t) /\ Len(t) \in Nat
    OBVIOUS
  <2>2. IsFiniteSet(DOMAIN t) /\ X \in SUBSET DOMAIN t
    BY <2>1, FS_Interval
  <2> HIDE DEF X
  <2> QED BY <2>2, FS_Subset
<1>5. Cardinality(Y) = Cardinality(X)
  <2> HIDE DEF r, X, Y
  <2>1. ExistsBijection(X, Y)
    BY <1>3 DEF ExistsBijection, OneToOne
  <2> QED BY <1>4, <2>1, FS_Bijection
<1> QED BY <1>5 DEF Count

LEMMA SeqOfSet ==
    ASSUME NEW S, IsFiniteSet(S), NEW order \in SetToSeqs(S)
    PROVE  /\ DOMAIN order = 1..Cardinality(S) /\ order \in Seq(S)
           /\ Cardinality(S) \in Nat /\ Len(order) = Cardinality(S)
           /\ OneToOne(order, DOMAIN order, S)
<1> DEFINE n == Cardinality(S)
<1>1. n \in Nat
  BY FS_CardinalityType
<1>2. order \in [1..n -> S] /\ \A i, j \in 1..n : i # j => order[i] # order[j]
  BY DEF SetToSeqs
<1>3. order \in Injection(1..n, S)
  BY <1>2 DEF Injection, IsInjective
<1>4. IsFiniteSet(1..n) /\ Cardinality(1..n) = n
  BY <1>1, FS_Interval
<1> HIDE DEF n
<1>5. order \in Surjection(1..n, S)
  BY <1>3, <1>4, FS_Injection DEF n
<1>6. OneToOne(order, 1..n, S)
  BY <1>3, <1>5 DEF OneToOne, Bijection
<1> QED BY <1>1, <1>2, <1>6 DEF n

\* Numbers can be listed from the highest to the lowest.
Descends(list) == \A m, n \in DOMAIN list : m < n => list[m] > list[n]

Numbers(S) == S \subseteq Nat

LEMMA DescendingList ==
    ASSUME NEW S, IsFiniteSet(S), Numbers(S)
    PROVE  \E list \in SetToSeqs(S) : Descends(list)
<1> DEFINE Listed(X) == \E list \in SetToSeqs(X) : Descends(list)
           bad == {X \in SUBSET S : ~Listed(X)}
<1> SUFFICES ASSUME bad # {} PROVE FALSE
  OBVIOUS
<1> HIDE DEF Listed
<1>1. PICK X \in bad : \A Y \in bad : Y \subseteq X => Y = X
  <2>1. bad \in SUBSET SUBSET S
    OBVIOUS
  <2> HIDE DEF bad
  <2> QED BY <2>1, SmallestSet
<1>2. Listed({})
  <2>1. Cardinality({}) = 0 /\ 1..0 = {}
    BY FS_EmptySet
  <2>2. <<>> \in [1..0 -> {}] /\ DOMAIN <<>> = {}
    BY <2>1
  <2>3. <<>> \in SetToSeqs({})
    BY <2>1, <2>2 DEF SetToSeqs
  <2> QED BY <2>2, <2>3 DEF Listed, Descends
<1>3. X \in SUBSET Nat /\ X # {} /\ IsFiniteSet(X)
  <2>1. IsFiniteSet(X)
    BY FS_Subset
  <2> QED BY <1>2, <2>1 DEF Numbers
<1>4. PICK m \in X : \A x \in X : m <= x
  BY <1>3, Smallest
<1> DEFINE Y == X \ {m}
<1>5. Listed(Y)
  BY <1>1, <1>4
<1>6. IsFiniteSet(Y) /\ Cardinality(Y) \in Nat /\ Cardinality(X) = Cardinality(Y) + 1
  <2>1. IsFiniteSet(Y) /\ Cardinality(Y) = Cardinality(X) - 1
    BY <1>3, <1>4, FS_RemoveElement
  <2>2. Cardinality(X) \in Nat
    BY <1>3, FS_CardinalityType
  <2> HIDE DEF Y
  <2>3. Cardinality(Y) \in Nat
    BY <2>1, FS_CardinalityType
  <2> QED BY <2>1, <2>2, <2>3
<1>7. PICK list \in SetToSeqs(Y) : Descends(list)
  BY <1>5 DEF Listed
<1> DEFINE n == Cardinality(Y)
           more == Append(list, m)
<1>8. /\ list \in Seq(Y) /\ DOMAIN list = 1..n /\ Len(list) = n /\ n \in Nat
      /\ \A i \in 1..n : list[i] \in Y
      /\ \A i, j \in 1..n : i # j => list[i] # list[j]
  <2>1. OneToOne(list, 1..n, Y) /\ list \in Seq(Y) /\ DOMAIN list = 1..n /\ Len(list) = n
    BY <1>6, SeqOfSet
  <2> HIDE DEF n, Y
  <2> QED BY <1>6, <2>1, OneToOneIs DEF n
<1>9. list \in Seq(X)
  BY <1>8
<1>10. /\ more \in [1..(n + 1) -> X] /\ DOMAIN more = 1..(n + 1) /\ more[n + 1] = m
       /\ \A i \in 1..n : more[i] = list[i]
  <2> HIDE DEF n
  <2>1. more \in Seq(X) /\ Len(more) = n + 1 /\ more[n + 1] = m
        /\ \A i \in 1..n : more[i] = list[i]
    BY <1>8, <1>9, AppendProperties
  <2> HIDE DEF more
  <2> QED BY <1>8, <2>1, LenProperties
<1>11. \A i \in 1..n : more[i] \in Nat /\ more[i] \in X /\ more[i] > m
  <2> SUFFICES ASSUME NEW i \in 1..n PROVE more[i] \in Nat /\ more[i] \in X /\ more[i] > m
    OBVIOUS
  <2>1. more[i] \in X /\ more[i] # m
    BY <1>8, <1>10
  <2>2. more[i] \in Nat /\ m \in Nat /\ m <= more[i]
    BY <1>3, <1>4, <2>1
  <2> HIDE DEF more
  <2> QED BY <2>1, <2>2
<1>12. \A i \in 1..(n + 1) : i \in 1..n \/ i = n + 1
  BY <1>8
<1> HIDE DEF more, n, bad
<1>14. \A i, j \in 1..(n + 1) : i # j => more[i] # more[j]
  <2> SUFFICES ASSUME NEW i \in 1..(n + 1), NEW j \in 1..(n + 1), i # j, more[i] = more[j]
               PROVE  FALSE
    OBVIOUS
  <2>1. m \in Nat
    BY <1>3
  <2> QED BY <1>8, <1>10, <1>11, <1>12, <2>1
<1>15. more \in SetToSeqs(X)
  <2>1. Cardinality(X) = n + 1
    BY <1>6 DEF n
  <2> QED BY <1>10, <1>14, <2>1 DEF SetToSeqs
<1>16. Descends(more)
  <2> SUFFICES ASSUME NEW i \in 1..(n + 1), NEW j \in 1..(n + 1), i < j
               PROVE  more[i] > more[j]
    BY <1>10 DEF Descends
  <2>1. i \in 1..n
    BY <1>8
  <2>2. CASE j = n + 1
    BY <1>10, <1>11, <2>1, <2>2
  <2>3. CASE j \in 1..n
    BY <1>7, <1>8, <1>10, <2>1, <2>3 DEF Descends
  <2> QED BY <1>12, <2>2, <2>3
<1>17. Listed(X)
  BY <1>15, <1>16 DEF Listed
<1> QED BY <1>17 DEF bad

-----------------------------------------------------------------------------
(* Vec::swap_remove: the last element comes into the gap.                  *)
LEMMA SwapIs ==
    ASSUME NEW S, NEW s \in Seq(S), NEW q \in 1..Len(s)
    PROVE  LET t == SwapRemove(s, q)
           IN  /\ t \in Seq(S) /\ DOMAIN t = 1..(Len(s) - 1) /\ Len(t) = Len(s) - 1
               /\ Len(s) - 1 \in Nat
               /\ \A k \in 1..(Len(s) - 1) : t[k] = IF k = q THEN s[Len(s)] ELSE s[k]
<1> DEFINE n == Len(s)
           u == [s EXCEPT ![q] = Last(s)]
           t == SwapRemove(s, q)
<1>1. n \in Nat /\ n - 1 \in Nat /\ n \in 1..n /\ s[n] \in S /\ DOMAIN s = 1..n
  BY LenProperties
<1>2. \A k \in 1..n : u[k] = IF k = q THEN s[n] ELSE s[k]
  BY <1>1 DEF Last
<1>3. \A k \in 1..(n - 1) : u[k] \in S
  BY <1>1, <1>2, ElementOfSeq
<1>4. t = SubSeq(u, 1, n - 1)
  BY DEF SwapRemove
<1> HIDE DEF u, t
<1>5. t \in Seq(S) /\ Len(t) = n - 1 /\ \A k \in 1..(n - 1) : t[k] = u[k]
  <2>1. 1 \in Int /\ n - 1 \in Int
    BY <1>1
  <2> HIDE DEF n
  <2>2. /\ SubSeq(u, 1, n - 1) \in Seq(S)
        /\ Len(SubSeq(u, 1, n - 1)) = IF 1 <= n - 1 THEN (n - 1) - 1 + 1 ELSE 0
        /\ \A i \in 1..((n - 1) - 1 + 1) : SubSeq(u, 1, n - 1)[i] = u[1 + i - 1]
    BY <1>3, <2>1, SubSeqProperties
  <2>3. (n - 1) - 1 + 1 = n - 1 /\ \A i \in 1..(n - 1) : 1 + i - 1 = i
    BY <1>1
  <2> QED BY <1>1, <1>4, <2>2, <2>3
<1>6. DOMAIN t = 1..(n - 1)
  BY <1>5, LenProperties
<1> HIDE DEF n
<1>7. \A k \in 1..(n - 1) : k \in 1..n
  BY <1>1
<1> QED BY <1>1, <1>2, <1>5, <1>6, <1>7 DEF n, t

LEMMA KeepsSwap ==
    ASSUME NEW s \in Seq(Edge), NEW t, NEW h, NEW K \in SUBSET DOMAIN s, Keeps(s, t, h, K),
           NEW q \in DOMAIN t
    PROVE  \E h2 : /\ Keeps(s, SwapRemove(t, q), h2, K \ {h[q]})
                   /\ \A k \in DOMAIN t : k < q => k \in DOMAIN SwapRemove(t, q) /\ h2[k] = h[k]
<1> DEFINE n == Len(t)
           u == SwapRemove(t, q)
           h2 == [k \in 1..(n - 1) |-> IF k = q THEN h[n] ELSE h[k]]
<1>0. t \in Seq(Edge) /\ DOMAIN t = 1..n /\ n \in Nat /\ q \in 1..n /\ n - 1 \in Nat /\ n \in 1..n
  BY LenProperties DEF Keeps
<1>1. /\ h \in [1..n -> K] /\ (\A a, b \in 1..n : h[a] = h[b] => a = b)
      /\ \A y \in K : \E a \in 1..n : h[a] = y
  BY <1>0, OneToOneIs DEF Keeps
<1>2. \A k \in 1..n : t[k] = s[h[k]]
  BY <1>0 DEF Keeps
<1>3. /\ u \in Seq(Edge) /\ DOMAIN u = 1..(n - 1)
      /\ \A k \in 1..(n - 1) : u[k] = IF k = q THEN t[n] ELSE t[k]
  BY <1>0, SwapIs
<1> HIDE DEF n, u
<1>4. \A k \in 1..(n - 1) : k \in 1..n /\ k # n
  BY <1>0
<1>5. \A k \in 1..n : k = n \/ k \in 1..(n - 1)
  BY <1>0
<1>6. \A k \in 1..(n - 1) : h2[k] \in K \ {h[q]} /\ u[k] = s[h2[k]]
  BY <1>0, <1>1, <1>2, <1>3, <1>4
<1>7. \A a, b \in 1..(n - 1) : h2[a] = h2[b] => a = b
  BY <1>0, <1>1, <1>4
<1>8. \A y \in K \ {h[q]} : \E a \in 1..(n - 1) : h2[a] = y
  <2> SUFFICES ASSUME NEW y \in K, y # h[q] PROVE \E a \in 1..(n - 1) : h2[a] = y
    OBVIOUS
  <2>1. PICK a \in 1..n : h[a] = y
    BY <1>1
  <2>2. CASE a = n
    <3>1. q \in 1..(n - 1)
      BY <1>0, <1>5, <2>1, <2>2
    <3> QED BY <2>1, <2>2, <3>1
  <2>3. CASE a # n
    <3>1. a \in 1..(n - 1) /\ a # q
      BY <1>5, <2>1, <2>3
    <3> QED BY <2>1, <3>1
  <2> QED BY <2>2, <2>3
<1>9. h2 \in [1..(n - 1) -> K \ {h[q]}]
  BY <1>6
<1>10. \A k \in 1..n : k < q => k \in 1..(n - 1) /\ h2[k] = h[k]
  BY <1>0
<1> HIDE DEF h2
<1>11. OneToOne(h2, 1..(n - 1), K \ {h[q]})
  BY <1>7, <1>8, <1>9, OneToOneIs
<1>12. Keeps(s, u, h2, K \ {h[q]})
  BY <1>3, <1>6, <1>11 DEF Keeps
<1> QED BY <1>0, <1>3, <1>10, <1>12 DEF u

LEMMA KeepsAll ==
    ASSUME NEW s \in Seq(Edge)
    PROVE  \E h : Keeps(s, s, h, DOMAIN s) /\ \A k \in DOMAIN s : h[k] = k
<1> DEFINE h == [k \in DOMAIN s |-> k]
<1>1. /\ h \in [DOMAIN s -> DOMAIN s] /\ (\A a, b \in DOMAIN s : h[a] = h[b] => a = b)
      /\ (\A y \in DOMAIN s : \E a \in DOMAIN s : h[a] = y)
      /\ \A k \in DOMAIN s : h[k] = k
  OBVIOUS
<1> HIDE DEF h
<1>2. OneToOne(h, DOMAIN s, DOMAIN s)
  BY <1>1, OneToOneIs
<1> QED BY <1>1, <1>2 DEF Keeps

LEMMA RemoveTyped ==
    ASSUME NEW t \in Seq(Edge), NEW q
    PROVE  RemoveEdge(t, q) \in Seq(Edge)
<1>1. DOMAIN t = 1..Len(t)
  OBVIOUS
<1> QED BY <1>1, SwapIs DEF RemoveEdge

LEMMA RemoveLoop ==
    ASSUME NEW edges0 \in Seq(Edge), NEW s \in Seq(Nat)
    PROVE  \E it \in [0..Len(s) -> Seq(Edge)] :
              /\ it[0] = edges0
              /\ \A k \in 1..Len(s) : it[k] = RemoveEdge(it[k - 1], s[k])
              /\ FoldLeft(RemoveEdge, edges0, s) = it[Len(s)]
<1> DEFINE S == DOMAIN s
           step == [p \in Seq(Edge) \X S |-> RemoveEdge(p[1], s[p[2]])]
           pick == [X \in SUBSET S |-> Max(X)]
           Body(it) == [t \in SUBSET S |->
                          IF t = {} THEN edges0
                          ELSE RemoveEdge(it[t \ {Max(t)}], s[Max(t)])]
           F == CHOOSE it : it = Body(it)
<1>1. FoldLeft(RemoveEdge, edges0, s) = F[S]
  BY Zenon DEF FoldLeft, MapThenFoldSet
<1>2. S = 1..Len(s) /\ Len(s) \in Nat /\ IsFiniteSet(S)
  BY FS_Interval
<1>3. \A X \in SUBSET S : X # {} => pick[X] = Max(X) /\ Max(X) \in X
  BY <1>2, Largest
<1>4. step \in [Seq(Edge) \X S -> Seq(Edge)]
  <2> SUFFICES ASSUME NEW t \in Seq(Edge), NEW k \in S
               PROVE  RemoveEdge(t, s[k]) \in Seq(Edge)
    OBVIOUS
  <2> QED BY RemoveTyped
<1>5. F = Body(F)
  <2>1. PICK it \in [SUBSET S -> Seq(Edge)] : Folds(it, S, edges0, step, pick)
    <3>1. \A X \in SUBSET S : X # {} => pick[X] \in X
      BY <1>3
    <3> HIDE DEF step, pick, S, Body, F
    <3> QED BY <1>2, <1>4, <3>1, FoldExists
  <2>2. \A X \in SUBSET S : X # {} =>
          step[<<it[X \ {pick[X]}], pick[X]>>] = RemoveEdge(it[X \ {Max(X)}], s[Max(X)])
    <3> SUFFICES ASSUME NEW X \in SUBSET S, X # {}
                 PROVE  step[<<it[X \ {pick[X]}], pick[X]>>]
                            = RemoveEdge(it[X \ {Max(X)}], s[Max(X)])
      OBVIOUS
    <3>1. pick[X] = Max(X) /\ Max(X) \in S /\ it[X \ {Max(X)}] \in Seq(Edge)
      BY <1>3
    <3> HIDE DEF pick, S
    <3> QED BY <3>1
  <2>3. it = Body(it)
    <3> HIDE DEF S, step, pick
    <3> QED BY <2>1, <2>2 DEF Folds
  <2> HIDE DEF Body
  <2> QED BY <2>3
<1> DEFINE G == [k \in 0..Len(s) |-> F[1..k]]
<1>6. \A k \in 0..Len(s) : 1..k \in SUBSET S /\ G[k] = F[1..k]
  BY <1>2
<1>7. F[1..0] = edges0
  <2> HIDE DEF F
  <2>1. 1..0 = {}
    OBVIOUS
  <2> QED BY <1>5, <2>1
<1>8. \A k \in 1..Len(s) : F[1..k] = RemoveEdge(F[1..(k - 1)], s[k])
  <2> SUFFICES ASSUME NEW k \in 1..Len(s)
               PROVE  F[1..k] = RemoveEdge(F[1..(k - 1)], s[k])
    OBVIOUS
  <2>0. k \in Nat /\ k # 0
    BY <1>2
  <2>1. 1..k \in SUBSET S /\ k \in 1..k
    BY <1>2, <2>0
  <2>2. Max(1..k) = k /\ (1..k) \ {k} = 1..(k - 1)
    BY <2>0, TopOfInterval
  <2>3. 1..k # {}
    BY <2>1
  <2> HIDE DEF F, S
  <2> QED BY <1>5, <2>1, <2>2, <2>3
<1> HIDE DEF F, Body, step, pick
<1>9. \A k \in 0..Len(s) : G[k] \in Seq(Edge)
  <2> DEFINE bad == {k \in 0..Len(s) : G[k] \notin Seq(Edge)}
  <2> SUFFICES ASSUME bad # {} PROVE FALSE
    OBVIOUS
  <2>1. PICK k \in bad : \A j \in bad : k <= j
    <3>1. bad \in SUBSET Nat
      BY <1>2
    <3> HIDE DEF bad
    <3> QED BY <3>1, Smallest
  <2>2. k # 0
    BY <1>2, <1>6, <1>7
  <2>3. k - 1 \in 0..Len(s) /\ k - 1 \notin bad /\ k \in 1..Len(s)
    BY <1>2, <2>1, <2>2
  <2>4. F[1..(k - 1)] \in Seq(Edge)
    BY <1>6, <2>3
  <2>5. F[1..k] \in Seq(Edge)
    BY <1>8, <2>3, <2>4, RemoveTyped
  <2> QED BY <1>6, <2>5
<1>10. G \in [0..Len(s) -> Seq(Edge)]
  BY <1>9
<1>11. G[0] = edges0 /\ G[Len(s)] = FoldLeft(RemoveEdge, edges0, s)
  BY <1>1, <1>2, <1>6, <1>7
<1>12. \A k \in 1..Len(s) : G[k] = RemoveEdge(G[k - 1], s[k])
  <2> SUFFICES ASSUME NEW k \in 1..Len(s) PROVE G[k] = RemoveEdge(G[k - 1], s[k])
    OBVIOUS
  <2>1. k \in 0..Len(s) /\ k - 1 \in 0..Len(s)
    BY <1>2
  <2> QED BY <1>6, <1>8, <2>1
<1> HIDE DEF G
<1> QED BY <1>10, <1>11, <1>12

\* Highest first: each index removed is still that of the edge it was collected for.
LEMMA DescendingRemoval ==
    ASSUME NEW s \in Seq(Edge), NEW P \in SUBSET DOMAIN s, NEW list \in SetToSeqs(P),
           Descends(list)
    PROVE  \E h : Keeps(s, FoldLeft(RemoveEdge, s, list), h, DOMAIN s \ P)
<1> DEFINE n == Len(list)
           gone(k) == {list[j] : j \in 1..k}
           Good(t, k) == \E h : /\ Keeps(s, t, h, DOMAIN s \ gone(k))
                                /\ \A j \in (k + 1)..n : list[j] \in DOMAIN t
                                                         /\ h[list[j]] = list[j]
<1>0. DOMAIN s = 1..Len(s) /\ IsFiniteSet(DOMAIN s) /\ IsFiniteSet(P) /\ P \in SUBSET Nat
  <2>1. DOMAIN s = 1..Len(s) /\ Len(s) \in Nat
    OBVIOUS
  <2>2. IsFiniteSet(DOMAIN s)
    BY <2>1, FS_Interval
  <2> QED BY <2>1, <2>2, FS_Subset
<1>1. /\ DOMAIN list = 1..n /\ list \in Seq(P) /\ n \in Nat
      /\ \A i, j \in 1..n : list[i] = list[j] => i = j
      /\ \A i \in 1..n : list[i] \in P
      /\ \A y \in P : \E i \in 1..n : list[i] = y
  <2>1. /\ DOMAIN list = 1..n /\ list \in Seq(P) /\ n \in Nat
        /\ OneToOne(list, 1..n, P)
    BY <1>0, SeqOfSet
  <2> HIDE DEF n
  <2> QED BY <2>1, OneToOneIs
<1>2. list \in Seq(Nat)
  BY <1>0, <1>1
<1>3. PICK it \in [0..n -> Seq(Edge)] :
         /\ it[0] = s
         /\ \A k \in 1..n : it[k] = RemoveEdge(it[k - 1], list[k])
         /\ FoldLeft(RemoveEdge, s, list) = it[n]
  BY <1>2, RemoveLoop
<1> HIDE DEF n
<1>4. Good(it[0], 0)
  <2>1. PICK h : Keeps(s, s, h, DOMAIN s) /\ \A k \in DOMAIN s : h[k] = k
    BY KeepsAll
  <2>2. gone(0) = {} /\ \A j \in (0 + 1)..n : j \in 1..n
    OBVIOUS
  <2>3. DOMAIN s \ gone(0) = DOMAIN s
    BY <2>2
  <2> HIDE DEF gone
  <2>4. \A j \in (0 + 1)..n : list[j] \in DOMAIN s /\ h[list[j]] = list[j]
    <3>1. \A j \in (0 + 1)..n : list[j] \in P
      BY <1>1, <2>2
    <3> QED BY <2>1, <3>1
  <2> QED BY <1>3, <2>1, <2>3, <2>4
<1>5. ASSUME NEW k \in 1..n, Good(it[k - 1], k - 1) PROVE Good(it[k], k)
  <2> DEFINE t == it[k - 1]
             q == list[k]
  <2>0. k \in Nat /\ k \in 1..n /\ (k - 1) + 1 = k /\ k - 1 \in Nat
    BY <1>1
  <2>1. PICK h : /\ Keeps(s, t, h, DOMAIN s \ gone(k - 1))
                 /\ \A j \in k..n : list[j] \in DOMAIN t /\ h[list[j]] = list[j]
    BY <1>5, <2>0
  <2>2. q \in DOMAIN t /\ h[q] = q
    BY <1>1, <2>0, <2>1
  <2>3. it[k] = SwapRemove(t, q)
    BY <1>3, <2>2 DEF RemoveEdge
  <2> HIDE DEF t, q, gone
  <2>4. PICK h2 : /\ Keeps(s, SwapRemove(t, q), h2, (DOMAIN s \ gone(k - 1)) \ {h[q]})
                  /\ \A m \in DOMAIN t : m < q => m \in DOMAIN SwapRemove(t, q) /\ h2[m] = h[m]
    BY <2>1, <2>2, KeepsSwap
  <2>5. (DOMAIN s \ gone(k - 1)) \ {h[q]} = DOMAIN s \ gone(k)
    <3>1. gone(k) = gone(k - 1) \cup {q}
      <4>1. \A j \in 1..k : j \in 1..(k - 1) \/ j = k
        BY <2>0
      <4>2. \A j \in 1..(k - 1) : j \in 1..k
        BY <2>0
      <4> QED BY <2>0, <4>1, <4>2 DEF gone, q
    <3> QED BY <2>2, <3>1
  <2>6. \A j \in (k + 1)..n : list[j] \in DOMAIN it[k] /\ h2[list[j]] = list[j]
    <3> SUFFICES ASSUME NEW j \in (k + 1)..n
                 PROVE  list[j] \in DOMAIN it[k] /\ h2[list[j]] = list[j]
      OBVIOUS
    <3>1. j \in k..n /\ j \in 1..n /\ k < j
      BY <1>1, <2>0
    <3>2. list[j] < q
      <4>1. list[k] > list[j]
        BY <1>1, <2>0, <3>1 DEF Descends
      <4>2. list[k] \in Nat /\ list[j] \in Nat
        BY <1>0, <1>1, <2>0, <3>1
      <4> QED BY <4>1, <4>2 DEF q
    <3> QED BY <2>1, <2>3, <2>4, <3>1, <3>2
  <2> QED BY <2>3, <2>4, <2>5, <2>6
<1> HIDE DEF Good
<1>6. \A k \in 0..n : Good(it[k], k)
  <2> DEFINE bad == {k \in 0..n : ~Good(it[k], k)}
  <2> SUFFICES ASSUME bad # {} PROVE FALSE
    OBVIOUS
  <2>1. PICK k \in bad : \A m \in bad : k <= m
    <3>1. bad \in SUBSET Nat
      BY <1>1
    <3> HIDE DEF bad
    <3> QED BY <3>1, Smallest
  <2>2. k # 0
    BY <1>4
  <2>3. k \in 1..n /\ k - 1 \in 0..n /\ k - 1 \notin bad
    BY <1>1, <2>1, <2>2
  <2> QED BY <1>5, <2>3
<1>7. Good(it[n], n)
  BY <1>1, <1>6
<1>8. gone(n) = P
  <2>1. gone(n) \subseteq P
    BY <1>1
  <2>2. ASSUME NEW y \in P PROVE y \in gone(n)
    <3>1. \E i \in 1..n : list[i] = y
      BY <1>1
    <3> QED BY <3>1
  <2> HIDE DEF gone
  <2> QED BY <2>1, <2>2
<1> QED BY <1>3, <1>7, <1>8 DEF Good

-----------------------------------------------------------------------------
(* The invariant: the three variables are a graph value.                   *)
GraphInv == State \in GraphValues

LEMMA InvIs ==
    GraphInv <=> /\ nodes \in Seq(Fact) /\ edges \in Seq(Edge)
                 /\ Inverts(nodeMap, nodes) /\ Joins(edges, nodes)
<1>1. State.nodes = nodes /\ State.edges = edges /\ State.map = nodeMap
  BY DEF State
<1>2. ASSUME nodes \in Seq(Fact), Inverts(nodeMap, nodes) PROVE nodeMap \in Maps
  BY <1>2, MapTyped
<1> QED BY <1>1, <1>2 DEF GraphInv, GraphValues, GraphOK, Values, State

LEMMA InvNext ==
    GraphInv' <=> /\ nodes' \in Seq(Fact) /\ edges' \in Seq(Edge)
                  /\ Inverts(nodeMap', nodes') /\ Joins(edges', nodes')
<1>1. (GraphInv <=> /\ nodes \in Seq(Fact) /\ edges \in Seq(Edge)
                    /\ Inverts(nodeMap, nodes) /\ Joins(edges, nodes))'
  BY InvIs, PTL
<1> QED BY <1>1

LEMMA SeqOfAlso ==
    ASSUME NEW A, NEW B, NEW s \in Seq(A), \A k \in DOMAIN s : s[k] \in B
    PROVE  s \in Seq(B)
<1>1. s \in [1..Len(s) -> B] /\ Len(s) \in Nat
  BY LenProperties
<1> QED BY <1>1

LEMMA InvIsType == GraphInv => TypeOK /\ EdgesKeepTheirEnds
<1> SUFFICES ASSUME GraphInv PROVE TypeOK /\ EdgesKeepTheirEnds
  OBVIOUS
<1>1. nodes \in Seq(Fact) /\ edges \in Seq(Edge) /\ Inverts(nodeMap, nodes) /\ Joins(edges, nodes)
  BY InvIs
<1>2. edges \in Seq([id : EdgeId, from : DOMAIN nodes, to : DOMAIN nodes])
  <2>1. \A k \in DOMAIN edges : edges[k] \in [id : EdgeId, from : DOMAIN nodes, to : DOMAIN nodes]
    <3> SUFFICES ASSUME NEW k \in DOMAIN edges
                 PROVE  edges[k] \in [id : EdgeId, from : DOMAIN nodes, to : DOMAIN nodes]
      OBVIOUS
    <3>1. edges[k] \in Edge
      BY <1>1
    <3>2. edges[k].from \in DOMAIN nodes /\ edges[k].to \in DOMAIN nodes
      BY <1>1 DEF Joins, Names
    <3> QED BY <3>1, <3>2 DEF Edge
  <2> QED BY <1>1, <2>1, SeqOfAlso
<1>3. TypeOK
  BY <1>1, <1>2 DEF TypeOK, Inverts
<1>4. EdgesKeepTheirEnds
  BY <1>1 DEF EdgesKeepTheirEnds, Joins, Names
<1> QED BY <1>3, <1>4

LEMMA BecomesIs ==
    ASSUME NEW g \in GraphValues, Becomes(g)
    PROVE  GraphInv' /\ nodes' = g.nodes /\ edges' = g.edges /\ nodeMap' = g.map
<1>1. State' = g
  <2>1. State' = [nodes |-> g.nodes, edges |-> g.edges, map |-> g.map]
    BY DEF State, Becomes
  <2>2. g = [nodes |-> g.nodes, edges |-> g.edges, map |-> g.map]
    BY DEF GraphValues, Values
  <2> QED BY <2>1, <2>2
<1> QED BY <1>1 DEF GraphInv, Becomes

-----------------------------------------------------------------------------
(* The facts and the copies that FactGraph sees.                           *)
Known(N) == {N[i] : i \in DOMAIN N}
Copies(E) == [e \in EdgeId |-> Count(E, e)]
Ends(e) == {Source[e], Target[e]}

LEMMA KnownIsMapped == GraphInv => Known(nodes) = DOMAIN nodeMap
BY InvIs DEF Known, Inverts

LEMMA KnownNext == GraphInv' => Known(nodes') = DOMAIN nodeMap'
<1>1. (GraphInv => Known(nodes) = DOMAIN nodeMap)'
  BY KnownIsMapped, PTL
<1> QED BY <1>1

LEMMA IdsFinite ==
    ASSUME NEW E \in Seq(Edge), NEW K \in SUBSET DOMAIN E, NEW e
    PROVE  /\ IsFiniteSet({k \in K : E[k].id = e})
           /\ Cardinality({k \in K : E[k].id = e}) \in Nat
           /\ Cardinality({k \in K : E[k].id = e}) = 0 <=> \A k \in K : E[k].id # e
<1> DEFINE X == {k \in K : E[k].id = e}
<1>1. DOMAIN E = 1..Len(E) /\ Len(E) \in Nat
  OBVIOUS
<1>2. IsFiniteSet(DOMAIN E) /\ X \in SUBSET DOMAIN E
  BY <1>1, FS_Interval
<1>3. X = {} <=> \A k \in K : E[k].id # e
  OBVIOUS
<1> HIDE DEF X
<1>4. IsFiniteSet(X)
  BY <1>2, FS_Subset
<1>5. Cardinality(X) \in Nat /\ (Cardinality(X) = 0 <=> X = {})
  BY <1>4, FS_CardinalityType, FS_EmptySet
<1> QED BY <1>3, <1>4, <1>5 DEF X

LEMMA CountAppended ==
    ASSUME NEW E \in Seq(Edge), NEW x \in Edge, NEW e
    PROVE  Count(Append(E, x), e) = IF x.id = e THEN Count(E, e) + 1 ELSE Count(E, e)
<1> DEFINE n == Len(E)
           F == Append(E, x)
           X == {k \in DOMAIN E : E[k].id = e}
<1>1. n \in Nat /\ DOMAIN E = 1..n /\ F \in Seq(Edge) /\ Len(F) = n + 1
      /\ F[n + 1] = x /\ \A k \in 1..n : F[k] = E[k]
  BY AppendProperties
<1>2. DOMAIN F = 1..(n + 1)
  BY <1>1
<1>3. IsFiniteSet(X)
  BY IdsFinite
<1>4. \A k \in 1..(n + 1) : k \in 1..n \/ k = n + 1
  BY <1>1
<1>5. n + 1 \notin 1..n /\ n + 1 \in 1..(n + 1) /\ \A k \in 1..n : k \in 1..(n + 1)
  BY <1>1
<1> HIDE DEF n, F
<1>6. {k \in DOMAIN F : F[k].id = e} = IF x.id = e THEN X \cup {n + 1} ELSE X
  BY <1>1, <1>2, <1>4, <1>5
<1>7. n + 1 \notin X
  BY <1>1, <1>5
<1> HIDE DEF X
<1>8. Cardinality(X \cup {n + 1}) = Cardinality(X) + 1
  BY <1>3, <1>7, FS_AddElement
<1> QED BY <1>6, <1>8 DEF Count, X, F

LEMMA KeptJoins ==
    ASSUME NEW s \in Seq(Edge), NEW t, NEW h, NEW K \in SUBSET DOMAIN s, Keeps(s, t, h, K),
           NEW N, Joins(s, N)
    PROVE  Joins(t, N)
<1>1. h \in [DOMAIN t -> K] /\ \A k \in DOMAIN t : t[k] = s[h[k]]
  BY OneToOneIs DEF Keeps
<1> QED BY <1>1 DEF Joins

\* The edges at a fact's node are those whose rows name the fact.
LEMMA EdgesAtIs ==
    ASSUME GraphInv, NEW f \in Fact
    PROVE  /\ f \in DOMAIN nodeMap =>
                 EdgesAt(nodeMap[f]) = {k \in DOMAIN edges : f \in Ends(edges[k].id)}
           /\ f \notin DOMAIN nodeMap => \A k \in DOMAIN edges : f \notin Ends(edges[k].id)
<1>1. nodes \in Seq(Fact) /\ edges \in Seq(Edge) /\ Inverts(nodeMap, nodes) /\ Joins(edges, nodes)
  BY InvIs
<1>2. DOMAIN nodeMap = {nodes[i] : i \in DOMAIN nodes} /\ \A i \in DOMAIN nodes : nodeMap[nodes[i]] = i
  BY <1>1 DEF Inverts
<1>3. \A k \in DOMAIN edges :
         /\ edges[k].from \in DOMAIN nodes /\ nodes[edges[k].from] = Source[edges[k].id]
         /\ edges[k].to \in DOMAIN nodes /\ nodes[edges[k].to] = Target[edges[k].id]
  BY <1>1 DEF Joins, Names
<1>4. ASSUME f \in DOMAIN nodeMap, NEW k \in DOMAIN edges
      PROVE  Touches(edges[k], nodeMap[f]) <=> f \in Ends(edges[k].id)
  <2>1. nodes[nodeMap[f]] = f
    BY <1>1, <1>4, MapFinds
  <2> QED BY <1>2, <1>3, <2>1 DEF Touches, Ends
<1>5. ASSUME f \notin DOMAIN nodeMap, NEW k \in DOMAIN edges PROVE f \notin Ends(edges[k].id)
  BY <1>2, <1>3, <1>5 DEF Ends
<1> QED BY <1>4, <1>5 DEF EdgesAt

\* Without the edges of f, no copies of its rows are left, and all of the others.
LEMMA CountWithout ==
    ASSUME NEW E \in Seq(Edge), NEW f, NEW e
    PROVE  LET P == {k \in DOMAIN E : f \in Ends(E[k].id)}
           IN  Cardinality({k \in DOMAIN E \ P : E[k].id = e})
                  = IF f \in Ends(e) THEN 0 ELSE Count(E, e)
<1> DEFINE P == {k \in DOMAIN E : f \in Ends(E[k].id)}
           K == DOMAIN E \ P
<1>1. CASE f \in Ends(e)
  <2>1. \A k \in K : E[k].id # e
    BY <1>1
  <2>2. K \in SUBSET DOMAIN E
    OBVIOUS
  <2> HIDE DEF K
  <2>3. Cardinality({k \in K : E[k].id = e}) = 0
    BY <2>1, <2>2, IdsFinite
  <2> QED BY <1>1, <2>3 DEF K
<1>2. CASE f \notin Ends(e)
  <2>1. {k \in K : E[k].id = e} = {k \in DOMAIN E : E[k].id = e}
    BY <1>2
  <2> QED BY <1>2, <2>1 DEF Count
<1> QED BY <1>1, <1>2

-----------------------------------------------------------------------------
(* Each operation keeps the invariant and is one step of FactGraph.        *)
LEMMA AddStep ==
    ASSUME GraphInv, NEW e \in EdgeId, AddEdge(e)
    PROVE  GraphInv' /\ Graph!Add(e)
<1> DEFINE g == WithEdge(State, Row(e))
<1>1. Row(e) \in Rows /\ Row(e).id = e /\ {Row(e).from, Row(e).to} = Ends(e)
  BY DEF Rows, Row, Ends
<1>2. Adds(State, g, Row(e))
  <2> HIDE DEF g
  <2>1. State \in GraphValues
    BY DEF GraphInv
  <2> QED BY <1>1, <2>1, EdgeAdded DEF g
<1> HIDE DEF g
<1>3. g \in GraphValues /\ DOMAIN g.map = DOMAIN nodeMap \cup Ends(e)
  BY <1>1, <1>2 DEF Adds, State
<1>4. PICK edge \in Edge : edge.id = e /\ g.edges = Append(edges, edge)
  BY <1>1, <1>2 DEF Adds, State
<1>5. GraphInv' /\ nodes' = g.nodes /\ edges' = g.edges /\ nodeMap' = g.map
  BY <1>3, BecomesIs DEF AddEdge, g
<1>6. Known(nodes') = Known(nodes) \cup Ends(e)
  <2>1. Known(nodes) = DOMAIN nodeMap
    BY KnownIsMapped
  <2>2. Known(nodes') = DOMAIN nodeMap'
    BY <1>5, KnownNext
  <2> QED BY <1>3, <1>5, <2>1, <2>2
<1>7. Copies(edges') = [Copies(edges) EXCEPT ![e] = @ + 1]
  <2>1. edges \in Seq(Edge)
    BY InvIs
  <2>2. \A x \in EdgeId : Count(edges', x) = IF e = x THEN Count(edges, x) + 1 ELSE Count(edges, x)
    BY <1>4, <1>5, <2>1, CountAppended
  <2> QED BY <2>2 DEF Copies
<1> QED BY <1>5, <1>6, <1>7 DEF Graph!Add, Graph!Ends, Ends, Known, Copies, Count

LEMMA RemoveOneStep ==
    ASSUME GraphInv, NEW e \in EdgeId, RemoveEdgeById(e)
    PROVE  GraphInv' /\ Graph!RemoveOne(e)
<1> DEFINE found == {i \in DOMAIN edges : edges[i].id = e}
<1>0. /\ nodes \in Seq(Fact) /\ edges \in Seq(Edge)
      /\ Inverts(nodeMap, nodes) /\ Joins(edges, nodes)
  BY InvIs
<1>1. nodes' = nodes /\ nodeMap' = nodeMap
  BY DEF RemoveEdgeById
<1>2. IsFiniteSet(found) /\ Count(edges, e) = Cardinality(found) /\ Cardinality(found) \in Nat
      /\ (Cardinality(found) = 0 <=> found = {})
  <2>1. IsFiniteSet(found)
    BY <1>0, IdsFinite
  <2>2. Count(edges, e) = Cardinality(found)
    BY DEF Count
  <2> HIDE DEF found
  <2> QED BY <2>1, <2>2, FS_CardinalityType, FS_EmptySet
<1>3. edges' \in Seq(Edge) /\ Joins(edges', nodes)
      /\ \A x \in EdgeId :
            Count(edges', x) = IF x = e THEN (IF Count(edges, e) > 0 THEN Count(edges, e) - 1 ELSE 0)
                               ELSE Count(edges, x)
  <2>1. CASE found = {}
    <3>1. edges' = edges
      BY <2>1 DEF RemoveEdgeById
    <3> HIDE DEF found
    <3>2. Count(edges, e) = 0
      BY <1>2, <2>1
    <3> QED BY <1>0, <3>1, <3>2
  <2>2. CASE found # {}
    <3> DEFINE q == CHOOSE i \in found : \A j \in found : i <= j
    <3>1. q \in found
      <4>1. found \in SUBSET Nat
        BY <1>0
      <4> HIDE DEF found
      <4>2. \E i \in found : \A j \in found : i <= j
        BY <2>2, <4>1, Smallest
      <4> QED BY <4>2
    <3>2. edges' = SwapRemove(edges, q)
      BY <2>2 DEF RemoveEdgeById
    <3> HIDE DEF q
    <3>3. q \in DOMAIN edges /\ edges[q].id = e
      BY <3>1
    <3>4. PICK h : Keeps(edges, edges, h, DOMAIN edges) /\ \A k \in DOMAIN edges : h[k] = k
      BY <1>0, KeepsAll
    <3>5. PICK h2 : Keeps(edges, edges', h2, DOMAIN edges \ {h[q]})
      <4>1. DOMAIN edges \in SUBSET DOMAIN edges
        OBVIOUS
      <4> QED BY <1>0, <3>2, <3>3, <3>4, <4>1, KeepsSwap
    <3> DEFINE K == DOMAIN edges \ {q}
    <3>6. Keeps(edges, edges', h2, K) /\ K \in SUBSET DOMAIN edges
      BY <3>3, <3>4, <3>5
    <3> HIDE DEF K
    <3>7. edges' \in Seq(Edge) /\ Joins(edges', nodes)
      BY <1>0, <3>6, KeptJoins DEF Keeps
    <3>8. ASSUME NEW x PROVE Count(edges', x) = Cardinality({k \in K : edges[k].id = x})
      <4>1. OneToOne(h2, DOMAIN edges', K) /\ \A k \in DOMAIN edges' : edges'[k].id = edges[h2[k]].id
        BY <3>6 DEF Keeps
      <4> QED BY <1>0, <3>6, <3>7, <4>1, CountKept
    <3>9. Count(edges', e) = Count(edges, e) - 1 /\ Count(edges, e) > 0
      <4>1. {k \in K : edges[k].id = e} = found \ {q}
        BY DEF K
      <4> HIDE DEF found
      <4>2. Cardinality(found \ {q}) = Cardinality(found) - 1
        BY <1>2, <3>1, FS_RemoveElement
      <4> QED BY <1>2, <2>2, <3>8, <4>1, <4>2
    <3>10. ASSUME NEW x \in EdgeId, x # e PROVE Count(edges', x) = Count(edges, x)
      <4>1. {k \in K : edges[k].id = x} = {k \in DOMAIN edges : edges[k].id = x}
        BY <3>3, <3>10 DEF K
      <4> QED BY <3>8, <4>1 DEF Count
    <3> QED BY <3>7, <3>9, <3>10
  <2> QED BY <2>1, <2>2
<1>4. GraphInv'
  BY <1>0, <1>1, <1>3, InvNext
<1>5. Copies(edges') = [Copies(edges) EXCEPT ![e] = IF @ > 0 THEN @ - 1 ELSE 0]
  BY <1>3 DEF Copies
<1> QED BY <1>1, <1>4, <1>5 DEF Graph!RemoveOne, Copies, Count

LEMMA RemoveEdgesStep ==
    ASSUME GraphInv, NEW f \in Fact, RemoveEdgesByFact(f)
    PROVE  GraphInv' /\ Graph!RemoveEdgesOf(f)
<1>0. /\ nodes \in Seq(Fact) /\ edges \in Seq(Edge)
      /\ Inverts(nodeMap, nodes) /\ Joins(edges, nodes)
  BY InvIs
<1>1. nodes' = nodes /\ nodeMap' = nodeMap
  BY DEF RemoveEdgesByFact
<1>2. edges' \in Seq(Edge) /\ Joins(edges', nodes)
      /\ \A e \in EdgeId : Count(edges', e) = IF f \in Ends(e) THEN 0 ELSE Count(edges, e)
  <2>1. CASE f \in DOMAIN nodeMap
    <3> DEFINE P == EdgesAt(nodeMap[f])
               list == Pending(nodeMap[f])
    <3>1. P = {k \in DOMAIN edges : f \in Ends(edges[k].id)}
      BY <2>1, EdgesAtIs
    <3>2. P \in SUBSET DOMAIN edges /\ IsFiniteSet(P) /\ Numbers(P)
      <4>1. DOMAIN edges = 1..Len(edges) /\ Len(edges) \in Nat
        BY <1>0
      <4>2. P \in SUBSET DOMAIN edges
        BY <3>1
      <4> HIDE DEF P
      <4>3. IsFiniteSet(DOMAIN edges) /\ DOMAIN edges \subseteq Nat
        BY <4>1, FS_Interval
      <4>4. IsFiniteSet(P)
        BY <4>2, <4>3, FS_Subset
      <4> QED BY <4>2, <4>3, <4>4 DEF Numbers
    <3>3. list = CHOOSE s \in SetToSeqs(P) : \A m, n \in DOMAIN s : m < n => s[m] > s[n]
      BY DEF Pending
    <3> HIDE DEF P, list
    <3>4. list \in SetToSeqs(P) /\ Descends(list)
      <4>1. \E s \in SetToSeqs(P) : \A m, n \in DOMAIN s : m < n => s[m] > s[n]
        BY <3>2, DescendingList DEF Descends
      <4> QED BY <3>3, <4>1 DEF Descends
    <3>5. edges' = FoldLeft(RemoveEdge, edges, list)
      BY <2>1 DEF RemoveEdgesByFact, list
    <3> DEFINE K == DOMAIN edges \ P
    <3>6. PICK h : Keeps(edges, edges', h, K)
      BY <1>0, <3>2, <3>4, <3>5, DescendingRemoval
    <3> HIDE DEF K
    <3>7. K \in SUBSET DOMAIN edges
      BY DEF K
    <3>8. edges' \in Seq(Edge) /\ Joins(edges', nodes)
      BY <1>0, <3>6, <3>7, KeptJoins DEF Keeps
    <3>9. ASSUME NEW e PROVE Count(edges', e) = Cardinality({k \in K : edges[k].id = e})
      <4>1. OneToOne(h, DOMAIN edges', K) /\ \A k \in DOMAIN edges' : edges'[k].id = edges[h[k]].id
        BY <3>6 DEF Keeps
      <4> QED BY <1>0, <3>7, <3>8, <4>1, CountKept
    <3>10. ASSUME NEW e
           PROVE  Cardinality({k \in K : edges[k].id = e}) = IF f \in Ends(e) THEN 0 ELSE Count(edges, e)
      BY <1>0, <3>1, CountWithout DEF K
    <3> QED BY <3>8, <3>9, <3>10
  <2>2. CASE f \notin DOMAIN nodeMap
    <3>1. edges' = edges
      BY <2>2 DEF RemoveEdgesByFact
    <3>2. ASSUME NEW e \in EdgeId, f \in Ends(e) PROVE Count(edges, e) = 0
      <4>1. \A k \in DOMAIN edges : edges[k].id # e
        BY <2>2, <3>2, EdgesAtIs
      <4>2. DOMAIN edges \in SUBSET DOMAIN edges
        OBVIOUS
      <4> QED BY <1>0, <4>1, <4>2, IdsFinite DEF Count
    <3> QED BY <1>0, <3>1, <3>2
  <2> QED BY <2>1, <2>2
<1>3. GraphInv'
  BY <1>0, <1>1, <1>2, InvNext
<1>4. Copies(edges') = [e \in EdgeId |-> IF f \in Ends(e) THEN 0 ELSE Copies(edges)[e]]
  BY <1>2 DEF Copies
<1> QED
  BY <1>1, <1>3, <1>4 DEF Graph!RemoveEdgesOf, Graph!Incident, Graph!Ends, Ends, Copies, Count

\* The last node takes the place of the one that goes, and the map is told.
MapWithout(M, N, f) ==
    IF M[f] < Len(N) THEN Put(Drop(M, f), SwapRemove(N, M[f])[M[f]], M[f]) ELSE Drop(M, f)

Moved(N, N2, p) ==
    \A i \in DOMAIN N \ {p} : Names(N2, IF i = Len(N) THEN p ELSE i, N[i])

LEMMA NodeDropped ==
    ASSUME NEW N \in Seq(Fact), NEW M, Inverts(M, N), NEW f \in DOMAIN M
    PROVE  /\ SwapRemove(N, M[f]) \in Seq(Fact)
           /\ Inverts(MapWithout(M, N, f), SwapRemove(N, M[f]))
           /\ DOMAIN MapWithout(M, N, f) = DOMAIN M \ {f}
           /\ Moved(N, SwapRemove(N, M[f]), M[f])
<1> DEFINE n == Len(N)
           M2 == MapWithout(M, N, f)
           p == M[f]
           N2 == SwapRemove(N, p)
<1>1. p \in 1..n /\ N[p] = f /\ n \in Nat /\ DOMAIN N = 1..n /\ n \in 1..n
  BY MapFinds, LenProperties
<1>2. /\ N2 \in Seq(Fact) /\ DOMAIN N2 = 1..(n - 1)
      /\ \A k \in 1..(n - 1) : N2[k] = IF k = p THEN N[n] ELSE N[k]
  BY <1>1, SwapIs
<1>3. /\ DOMAIN M = {N[i] : i \in 1..n} /\ M \in [DOMAIN M -> 1..n]
      /\ \A i \in 1..n : M[N[i]] = i
  BY <1>1 DEF Inverts
<1>4. M2 = IF p < n THEN Put(Drop(M, f), N2[p], p) ELSE Drop(M, f)
  BY DEF MapWithout
<1> HIDE DEF n, p, N2, M2
<1>5. \A i \in 1..n : i = n \/ i \in 1..(n - 1)
  BY <1>1
<1>6. \A i \in 1..(n - 1) : i \in 1..n /\ i # n
  BY <1>1
<1>7. \A i \in 1..n : i # p => N[i] # f
  BY <1>1, <1>3
<1>8. \A i \in 1..n \ {p} : Names(N2, IF i = n THEN p ELSE i, N[i])
  <2> SUFFICES ASSUME NEW i \in 1..n, i # p
               PROVE  Names(N2, IF i = n THEN p ELSE i, N[i])
    OBVIOUS
  <2>1. CASE i = n
    <3>1. p \in 1..(n - 1)
      BY <1>1, <1>5, <2>1
    <3> QED BY <1>2, <2>1, <3>1 DEF Names
  <2>2. CASE i # n
    <3>1. i \in 1..(n - 1)
      BY <1>5, <2>2
    <3> QED BY <1>2, <2>2, <3>1 DEF Names
  <2> QED BY <2>1, <2>2
<1>9. {N2[k] : k \in 1..(n - 1)} = DOMAIN M \ {f}
  <2>1. ASSUME NEW k \in 1..(n - 1) PROVE N2[k] \in DOMAIN M \ {f}
    BY <1>1, <1>2, <1>3, <1>6, <1>7
  <2>2. ASSUME NEW x \in DOMAIN M \ {f} PROVE \E k \in 1..(n - 1) : N2[k] = x
    <3>1. PICK i \in 1..n : x = N[i]
      BY <1>3
    <3>2. i # p
      BY <1>1, <3>1
    <3> QED BY <1>2, <1>8, <3>1, <3>2 DEF Names
  <2> QED BY <2>1, <2>2
<1>10. M2 \in [DOMAIN M \ {f} -> 1..(n - 1)] /\ \A k \in 1..(n - 1) : M2[N2[k]] = k
  <2>1. Drop(M, f) = [x \in DOMAIN M \ {f} |-> M[x]]
    BY DEF Drop
  <2>2. CASE p < n
    <3>1. p \in 1..(n - 1) /\ N2[p] = N[n] /\ N[n] \in DOMAIN M \ {f}
      BY <1>1, <1>2, <1>3, <1>7, <2>2
    <3>2. M2 = [x \in DOMAIN M \ {f} |-> IF x = N[n] THEN p ELSE M[x]]
      <4>1. M2 = Put(Drop(M, f), N[n], p)
        BY <1>4, <2>2, <3>1
      <4>2. Put(Drop(M, f), N[n], p) = [x \in DOMAIN M \ {f} |-> IF x = N[n] THEN p ELSE M[x]]
        <5> DEFINE d == Drop(M, f)
                   y == N[n]
        <5>1. DOMAIN d = DOMAIN M \ {f} /\ \A x \in DOMAIN M \ {f} : d[x] = M[x]
          BY <2>1
        <5>2. y \in DOMAIN M \ {f}
          BY <3>1
        <5> HIDE DEF d, y
        <5>3. DOMAIN d \cup {y} = DOMAIN M \ {f}
          BY <5>1, <5>2
        <5>4. Put(d, y, p) = [x \in DOMAIN M \ {f} |-> IF x = y THEN p ELSE M[x]]
          BY <5>1, <5>3 DEF Put
        <5> QED BY <5>4 DEF d, y
      <4> QED BY <4>1, <4>2
    <3>3. ASSUME NEW x \in DOMAIN M \ {f}, x # N[n] PROVE M[x] \in 1..(n - 1)
      <4>1. PICK i \in 1..n : x = N[i]
        BY <1>3
      <4> QED BY <1>3, <1>5, <3>3, <4>1
    <3>4. \A k \in 1..(n - 1) : M2[N2[k]] = k
      <4> SUFFICES ASSUME NEW k \in 1..(n - 1) PROVE M2[N2[k]] = k
        OBVIOUS
      <4>1. N2[k] \in DOMAIN M \ {f}
        BY <1>9
      <4>2. CASE k = p
        BY <3>1, <3>2, <4>1, <4>2
      <4>3. CASE k # p
        <5>1. N2[k] = N[k] /\ k \in 1..n /\ M[N[k]] = k /\ M[N[n]] = n /\ k # n
          BY <1>1, <1>2, <1>3, <1>6, <4>3
        <5> QED BY <3>2, <4>1, <5>1
      <4> QED BY <4>2, <4>3
    <3> QED BY <3>1, <3>2, <3>3, <3>4
  <2>3. CASE ~(p < n)
    <3>1. p = n
      BY <1>1, <2>3
    <3>2. M2 = [x \in DOMAIN M \ {f} |-> M[x]]
      BY <1>4, <2>1, <2>3
    <3>3. ASSUME NEW x \in DOMAIN M \ {f} PROVE M[x] \in 1..(n - 1)
      <4>1. PICK i \in 1..n : x = N[i]
        BY <1>3
      <4> QED BY <1>1, <1>3, <1>5, <3>1, <4>1
    <3>4. \A k \in 1..(n - 1) : N2[k] = N[k] /\ M[N[k]] = k /\ N2[k] \in DOMAIN M \ {f}
      BY <1>2, <1>3, <1>6, <1>9, <3>1
    <3> QED BY <3>2, <3>3, <3>4
  <2> QED BY <2>2, <2>3
<1>11. Inverts(M2, N2) /\ DOMAIN M2 = DOMAIN M \ {f}
  BY <1>2, <1>9, <1>10 DEF Inverts
<1> QED BY <1>1, <1>2, <1>8, <1>11 DEF N2, M2, p, n, Moved

LEMMA RenumberIs ==
    ASSUME NEW x \in Edge, NEW old \in Nat, NEW new \in Nat
    PROVE  /\ Renumber(x, old, new) \in Edge
           /\ Renumber(x, old, new).id = x.id
           /\ Renumber(x, old, new).from = IF x.from = old THEN new ELSE x.from
           /\ Renumber(x, old, new).to = IF x.to = old THEN new ELSE x.to
BY DEF Renumber, Edge

LEMMA RemoveNodeStep ==
    ASSUME GraphInv, NEW f \in Fact, f \in DOMAIN nodeMap, RemoveNode(f)
    PROVE  GraphInv' /\ Graph!RemoveFact(f)
<1> DEFINE p == nodeMap[f]
           n == Len(nodes)
           P == EdgesAt(p)
           K == DOMAIN edges \ P
<1>0. /\ nodes \in Seq(Fact) /\ edges \in Seq(Edge)
      /\ Inverts(nodeMap, nodes) /\ Joins(edges, nodes)
  BY InvIs
<1>1. /\ nodes' = SwapRemove(nodes, p)
      /\ nodeMap' = IF p < n THEN Put(Drop(nodeMap, f), nodes'[p], p) ELSE Drop(nodeMap, f)
  BY DEF RemoveNode, DropNode
<1>2. PICK order \in SetToSeqs(K) :
         edges' = [k \in DOMAIN order |-> Renumber(edges[order[k]], n, p)]
  BY DEF RemoveNode, DropNode
<1>3. p \in 1..n /\ n \in Nat /\ p \in Nat /\ DOMAIN nodes = 1..n
  BY <1>0, MapFinds
<1>4. /\ nodes' \in Seq(Fact) /\ Inverts(nodeMap', nodes') /\ DOMAIN nodeMap' = DOMAIN nodeMap \ {f}
      /\ \A i \in DOMAIN nodes \ {p} : Names(nodes', IF i = n THEN p ELSE i, nodes[i])
  <2>1. nodeMap' = MapWithout(nodeMap, nodes, f)
    BY <1>1 DEF MapWithout
  <2>2. /\ SwapRemove(nodes, p) \in Seq(Fact)
        /\ Inverts(MapWithout(nodeMap, nodes, f), SwapRemove(nodes, p))
        /\ DOMAIN MapWithout(nodeMap, nodes, f) = DOMAIN nodeMap \ {f}
        /\ Moved(nodes, SwapRemove(nodes, p), p)
    BY <1>0, NodeDropped
  <2> QED BY <1>1, <2>1, <2>2 DEF Moved
<1>5. P = {k \in DOMAIN edges : f \in Ends(edges[k].id)}
  BY EdgesAtIs
<1>6. K \in SUBSET DOMAIN edges /\ IsFiniteSet(K)
  <2>1. DOMAIN edges = 1..Len(edges) /\ Len(edges) \in Nat
    BY <1>0
  <2>2. IsFiniteSet(DOMAIN edges) /\ K \in SUBSET DOMAIN edges
    BY <2>1, FS_Interval
  <2> HIDE DEF K
  <2> QED BY <2>2, FS_Subset
<1>7. \A k \in K : edges[k].from # p /\ edges[k].to # p
  BY DEF EdgesAt, Touches
<1> HIDE DEF K, P, p, n
<1>8. /\ OneToOne(order, DOMAIN order, K) /\ DOMAIN order = 1..Len(order) /\ Len(order) \in Nat
      /\ \A k \in DOMAIN order : order[k] \in K
  <2>1. /\ OneToOne(order, DOMAIN order, K) /\ DOMAIN order = 1..Len(order) /\ Len(order) \in Nat
    BY <1>6, SeqOfSet
  <2> QED BY <2>1, OneToOneIs
<1>9. \A k \in DOMAIN order :
         /\ edges[order[k]] \in Edge /\ edges'[k] = Renumber(edges[order[k]], n, p)
         /\ edges'[k] \in Edge /\ edges'[k].id = edges[order[k]].id
         /\ edges'[k].from = IF edges[order[k]].from = n THEN p ELSE edges[order[k]].from
         /\ edges'[k].to = IF edges[order[k]].to = n THEN p ELSE edges[order[k]].to
  <2> SUFFICES ASSUME NEW k \in DOMAIN order
               PROVE  /\ edges[order[k]] \in Edge /\ edges'[k] = Renumber(edges[order[k]], n, p)
                      /\ edges'[k] \in Edge /\ edges'[k].id = edges[order[k]].id
                      /\ edges'[k].from = IF edges[order[k]].from = n THEN p ELSE edges[order[k]].from
                      /\ edges'[k].to = IF edges[order[k]].to = n THEN p ELSE edges[order[k]].to
    OBVIOUS
  <2>1. edges[order[k]] \in Edge
    BY <1>0, <1>6, <1>8
  <2>2. edges'[k] = Renumber(edges[order[k]], n, p)
    BY <1>2
  <2> DEFINE x == edges[order[k]]
  <2>3. /\ Renumber(x, n, p) \in Edge /\ Renumber(x, n, p).id = x.id
        /\ Renumber(x, n, p).from = IF x.from = n THEN p ELSE x.from
        /\ Renumber(x, n, p).to = IF x.to = n THEN p ELSE x.to
    <3>1. x \in Edge
      BY <2>1
    <3> HIDE DEF x
    <3> QED BY <1>3, <3>1, RenumberIs
  <2> QED BY <2>1, <2>2, <2>3
<1>10. edges' \in Seq(Edge) /\ DOMAIN edges' = DOMAIN order
  <2>1. DOMAIN edges' = DOMAIN order
    BY <1>2
  <2>2. edges' \in [1..Len(order) -> Edge]
    BY <1>2, <1>8, <1>9
  <2> QED BY <1>8, <2>1, <2>2
<1>11. Joins(edges', nodes')
  <2> SUFFICES ASSUME NEW k \in DOMAIN order
               PROVE  /\ Names(nodes', edges'[k].from, Source[edges'[k].id])
                      /\ Names(nodes', edges'[k].to, Target[edges'[k].id])
    BY <1>10 DEF Joins
  <2> DEFINE x == edges[order[k]]
  <2>1. /\ x.from \in DOMAIN nodes /\ nodes[x.from] = Source[x.id] /\ x.from # p
        /\ x.to \in DOMAIN nodes /\ nodes[x.to] = Target[x.id] /\ x.to # p
    BY <1>0, <1>6, <1>7, <1>8 DEF Joins, Names
  <2>2. /\ edges'[k].id = x.id
        /\ edges'[k].from = IF x.from = n THEN p ELSE x.from
        /\ edges'[k].to = IF x.to = n THEN p ELSE x.to
    BY <1>9
  <2> HIDE DEF x
  <2> QED BY <1>4, <2>1, <2>2
<1>12. GraphInv'
  BY <1>4, <1>10, <1>11, InvNext
<1>13. Known(nodes') = Known(nodes) \ {f}
  BY <1>4, <1>12, KnownIsMapped, KnownNext
<1>14. ASSUME NEW e PROVE Count(edges', e) = IF f \in Ends(e) THEN 0 ELSE Count(edges, e)
  <2>1. Count(edges', e) = Cardinality({k \in K : edges[k].id = e})
    BY <1>0, <1>6, <1>8, <1>9, <1>10, CountKept
  <2> QED BY <1>0, <1>5, <2>1, CountWithout DEF K
<1>15. Copies(edges') = [e \in EdgeId |-> IF f \in Ends(e) THEN 0 ELSE Copies(edges)[e]]
  BY <1>14 DEF Copies
<1> QED
  BY <1>12, <1>13, <1>15
     DEF Graph!RemoveFact, Graph!Incident, Graph!Ends, Ends, Known, Copies, Count

LEMMA RebuildStep ==
    ASSUME GraphInv, NEW rows \in SUBSET EdgeId, FromActiveEdges(rows)
    PROVE  GraphInv' /\ Graph!Rebuild(rows)
<1>1. PICK order \in SetToSeqs(rows) : Becomes(Rebuilt([n \in DOMAIN order |-> Row(order[n])]))
  BY DEF FromActiveEdges
<1> DEFINE list == [n \in DOMAIN order |-> Row(order[n])]
<1>2. IsFiniteSet(rows)
  BY RowsHaveEndpoints, FS_Subset
<1>3. /\ DOMAIN order = 1..Len(order) /\ Len(order) \in Nat
      /\ \A k \in DOMAIN order : order[k] \in rows
      /\ \A i, j \in DOMAIN order : order[i] = order[j] => i = j
      /\ \A e \in rows : \E k \in DOMAIN order : order[k] = e
  <2>1. /\ OneToOne(order, DOMAIN order, rows) /\ DOMAIN order = 1..Len(order)
        /\ Len(order) \in Nat
    BY <1>2, SeqOfSet
  <2> QED BY <2>1, OneToOneIs
<1>4. list \in Seq(Rows)
  <2>1. \A k \in DOMAIN order : Row(order[k]) \in Rows
    BY <1>3 DEF Rows
  <2>2. list \in [1..Len(order) -> Rows]
    BY <1>3, <2>1
  <2> QED BY <1>3, <2>2
<1>5. DOMAIN list = DOMAIN order
      /\ \A k \in DOMAIN order : list[k].id = order[k] /\ {list[k].from, list[k].to} = Ends(order[k])
  BY DEF Row, Ends
<1> HIDE DEF list
<1>6. /\ Rebuilt(list) \in GraphValues
      /\ DOMAIN Rebuilt(list).edges = DOMAIN order
      /\ \A k \in DOMAIN order : Rebuilt(list).edges[k].id = order[k]
      /\ DOMAIN Rebuilt(list).map = UNION {{list[k].from, list[k].to} : k \in DOMAIN list}
  BY <1>4, <1>5, RebuiltIs
<1>7. GraphInv' /\ edges' = Rebuilt(list).edges /\ nodeMap' = Rebuilt(list).map
  BY <1>1, <1>6, BecomesIs DEF list
<1>8. Known(nodes') = UNION {Ends(e) : e \in rows}
  <2>1. UNION {{list[k].from, list[k].to} : k \in DOMAIN list} = UNION {Ends(order[k]) : k \in DOMAIN order}
    BY <1>5
  <2>2. UNION {Ends(order[k]) : k \in DOMAIN order} = UNION {Ends(e) : e \in rows}
    BY <1>3
  <2>3. Known(nodes') = DOMAIN nodeMap'
    BY <1>7, KnownNext
  <2> QED BY <1>6, <1>7, <2>1, <2>2, <2>3
<1>9. ASSUME NEW e PROVE Count(edges', e) = IF e \in rows THEN 1 ELSE 0
  <2> DEFINE X == {k \in DOMAIN order : order[k] = e}
  <2>1. Count(edges', e) = Cardinality(X)
    <3>1. {k \in DOMAIN edges' : edges'[k].id = e} = X
      BY <1>6, <1>7
    <3> QED BY <3>1 DEF Count
  <2>2. CASE e \in rows
    <3>1. PICK k \in DOMAIN order : order[k] = e
      BY <1>3, <2>2
    <3>2. X = {k}
      BY <1>3, <3>1
    <3> HIDE DEF X
    <3> QED BY <2>1, <2>2, <3>2, FS_Singleton
  <2>3. CASE e \notin rows
    <3>1. X = {}
      BY <1>3, <2>3
    <3> HIDE DEF X
    <3> QED BY <2>1, <2>3, <3>1, FS_EmptySet
  <2> QED BY <2>2, <2>3
<1>10. Copies(edges') = [e \in EdgeId |-> IF e \in rows THEN 1 ELSE 0]
  BY <1>9 DEF Copies
<1> QED BY <1>7, <1>8, <1>10 DEF Graph!Rebuild, Graph!Ends, Ends, Known, Copies, Count

\* What a snapshot holds of an edge is its row.
LEMMA SnapshotIs ==
    ASSUME GraphInv
    PROVE  /\ Snapshot \in Seq(Rows) /\ DOMAIN Snapshot = DOMAIN edges
           /\ \A k \in DOMAIN edges : Snapshot[k] = Row(edges[k].id) /\ edges[k].id \in EdgeId
<1>1. /\ nodes \in Seq(Fact) /\ edges \in Seq(Edge)
      /\ Inverts(nodeMap, nodes) /\ Joins(edges, nodes)
  BY InvIs
<1>2. DOMAIN Snapshot = DOMAIN edges /\ DOMAIN edges = 1..Len(edges) /\ Len(edges) \in Nat
  BY <1>1 DEF Snapshot
<1>3. ASSUME NEW k \in DOMAIN edges
      PROVE  Snapshot[k] = Row(edges[k].id) /\ edges[k].id \in EdgeId
  <2>1. /\ nodes[edges[k].from] = Source[edges[k].id]
        /\ nodes[edges[k].to] = Target[edges[k].id]
    BY <1>1 DEF Joins, Names
  <2>2. edges[k] \in Edge
    BY <1>1
  <2> QED BY <2>1, <2>2 DEF Snapshot, Row, Edge
<1>4. \A k \in DOMAIN edges : Snapshot[k] \in Rows
  BY <1>3 DEF Rows
<1>5. Snapshot = [k \in DOMAIN edges |-> Snapshot[k]]
  BY DEF Snapshot
<1>6. Snapshot \in [1..Len(edges) -> Rows]
  BY <1>2, <1>4, <1>5
<1> QED BY <1>2, <1>3, <1>6

LEMMA ReloadStep ==
    ASSUME GraphInv, NEW existing \in SUBSET Fact, FromSnapshot(existing)
    PROVE  GraphInv' /\ (Graph!Reload \/ UNCHANGED vars)
<1>1. CASE UNCHANGED vars
  <2>1. State' = State
    BY <1>1 DEF vars, State
  <2> QED BY <1>1, <2>1 DEF GraphInv
<1>2. CASE Becomes(Rebuilt(Snapshot))
  <2>1. /\ Snapshot \in Seq(Rows) /\ DOMAIN Snapshot = DOMAIN edges
        /\ \A k \in DOMAIN edges : Snapshot[k] = Row(edges[k].id) /\ edges[k].id \in EdgeId
    BY SnapshotIs
  <2>2. edges \in Seq(Edge)
    BY InvIs
  <2>3. \A k \in DOMAIN edges : Snapshot[k].id = edges[k].id
                               /\ {Snapshot[k].from, Snapshot[k].to} = Ends(edges[k].id)
    BY <2>1 DEF Row, Ends
  <2> DEFINE g == Rebuilt(Snapshot)
  <2>4. /\ g \in GraphValues
        /\ DOMAIN g.edges = DOMAIN edges
        /\ \A k \in DOMAIN edges : g.edges[k].id = edges[k].id
        /\ DOMAIN g.map = UNION {{Snapshot[k].from, Snapshot[k].to} : k \in DOMAIN Snapshot}
    BY <2>1, <2>3, RebuiltIs
  <2>5. GraphInv' /\ edges' = g.edges /\ nodeMap' = g.map
    BY <1>2, <2>4, BecomesIs
  <2> HIDE DEF g
  <2>6. ASSUME NEW e PROVE Count(edges', e) = Count(edges, e)
    <3>1. {k \in DOMAIN edges' : edges'[k].id = e} = {k \in DOMAIN edges : edges[k].id = e}
      BY <2>4, <2>5
    <3> QED BY <3>1 DEF Count
  <2>7. Copies(edges') = Copies(edges)
    BY <2>6 DEF Copies
  <2>8. \A e \in EdgeId : Copies(edges)[e] > 0 <=> \E k \in DOMAIN edges : edges[k].id = e
    <3> SUFFICES ASSUME NEW e \in EdgeId
                 PROVE  Copies(edges)[e] > 0 <=> \E k \in DOMAIN edges : edges[k].id = e
      OBVIOUS
    <3>1. DOMAIN edges \in SUBSET DOMAIN edges
      OBVIOUS
    <3>2. Count(edges, e) \in Nat /\ (Count(edges, e) = 0 <=> \A k \in DOMAIN edges : edges[k].id # e)
      BY <2>2, <3>1, IdsFinite DEF Count
    <3> QED BY <3>2 DEF Copies
  <2>9. Known(nodes') = UNION {Ends(e) : e \in {e \in EdgeId : Copies(edges)[e] > 0}}
    <3>1. UNION {{Snapshot[k].from, Snapshot[k].to} : k \in DOMAIN Snapshot}
             = UNION {Ends(edges[k].id) : k \in DOMAIN edges}
      <4>1. {{Snapshot[k].from, Snapshot[k].to} : k \in DOMAIN edges}
               = {Ends(edges[k].id) : k \in DOMAIN edges}
        BY <2>3
      <4> QED BY <2>1, <4>1
    <3>2. {edges[k].id : k \in DOMAIN edges} = {e \in EdgeId : Copies(edges)[e] > 0}
      BY <2>1, <2>8
    <3>3. UNION {Ends(edges[k].id) : k \in DOMAIN edges}
             = UNION {Ends(e) : e \in {edges[k].id : k \in DOMAIN edges}}
      OBVIOUS
    <3>4. Known(nodes') = DOMAIN nodeMap'
      BY <2>5, KnownNext
    <3> QED BY <2>4, <2>5, <3>1, <3>2, <3>3, <3>4
  <2>10. Graph!Reload
    BY <2>7, <2>9 DEF Graph!Reload, Graph!Ends, Ends, Known, Copies, Count
  <2> QED BY <2>5, <2>10
<1> QED BY <1>1, <1>2 DEF FromSnapshot

LEMMA InitGraph == Init => GraphInv /\ Graph!Init
<1> SUFFICES ASSUME Init PROVE GraphInv /\ Graph!Init
  OBVIOUS
<1>1. State = EmptyState
  BY DEF Init, State, EmptyState
<1>2. GraphInv
  BY <1>1, EmptyGraph DEF GraphInv
<1>3. Known(nodes) = {}
  BY DEF Init, Known
<1>4. \A e \in EdgeId : Count(edges, e) = 0
  <2>1. \A e : {k \in DOMAIN edges : edges[k].id = e} = {}
    BY DEF Init
  <2> QED BY <2>1, FS_EmptySet DEF Count
<1> QED BY <1>2, <1>3, <1>4 DEF Graph!Init, Known, Count

LEMMA NextGraph ==
    ASSUME GraphInv, [Next]_vars
    PROVE  /\ GraphInv'
           /\ [Graph!Next]_<<Known(nodes), Copies(edges)>>
<1>1. ASSUME UNCHANGED vars
      PROVE  GraphInv' /\ UNCHANGED <<Known(nodes), Copies(edges)>>
  <2>1. State' = State /\ nodes' = nodes /\ edges' = edges
    BY <1>1 DEF vars, State
  <2> QED BY <2>1 DEF GraphInv, Known, Copies, Count
<1>2. ASSUME NEW e \in EdgeId, AddEdge(e) PROVE GraphInv' /\ Graph!Next
  BY <1>2, AddStep DEF Graph!Next
<1>3. ASSUME NEW e \in EdgeId, RemoveEdgeById(e) PROVE GraphInv' /\ Graph!Next
  BY <1>3, RemoveOneStep DEF Graph!Next
<1>4. ASSUME NEW f \in Fact, RemoveEdgesByFact(f) PROVE GraphInv' /\ Graph!Next
  BY <1>4, RemoveEdgesStep DEF Graph!Next
<1>5. ASSUME NEW f \in Fact, RemoveNode(f)
      PROVE  GraphInv' /\ (Graph!Next \/ UNCHANGED vars)
  <2>1. CASE f \notin DOMAIN nodeMap
    <3>1. UNCHANGED vars
      BY <1>5, <2>1 DEF RemoveNode
    <3> QED BY <1>1, <3>1
  <2>2. CASE f \in DOMAIN nodeMap
    BY <1>5, <2>2, RemoveNodeStep DEF Graph!Next
  <2> QED BY <2>1, <2>2
<1>6. ASSUME NEW rows \in SUBSET EdgeId, FromActiveEdges(rows) PROVE GraphInv' /\ Graph!Next
  BY <1>6, RebuildStep DEF Graph!Next
<1>7. ASSUME NEW existing \in SUBSET Fact, FromSnapshot(existing)
      PROVE  GraphInv' /\ (Graph!Next \/ UNCHANGED vars)
  BY <1>7, ReloadStep DEF Graph!Next
<1> QED BY <1>1, <1>2, <1>3, <1>4, <1>5, <1>6, <1>7 DEF Next

LEMMA AlwaysGraph == Spec => []GraphInv
<1>1. Init => GraphInv
  BY InitGraph
<1>2. GraphInv /\ [Next]_vars => GraphInv'
  BY NextGraph
<1> QED BY <1>1, <1>2, PTL DEF Spec

(* The arrays refer to each other by indexes that exist, and node_map is     *)
(* exactly the inverse of the node array, after any sequence of operations.  *)
THEOREM GraphTypeCorrect == Spec => []TypeOK
<1>1. GraphInv => TypeOK
  BY InvIsType
<1> QED BY <1>1, AlwaysGraph, PTL

(* Each edge still connects the two facts of its row, through all the        *)
(* renumbering of remove_node, remove_edge and remove_edges_by_fact.         *)
THEOREM EdgesAlwaysKeepTheirEnds == Spec => []EdgesKeepTheirEnds
<1>1. GraphInv => EdgesKeepTheirEnds
  BY InvIsType
<1> QED BY <1>1, AlwaysGraph, PTL

(* MemoryGraph implements FactGraph: each operation on petgraph's arrays     *)
(* does to the facts and the bag of edges exactly what its name says.        *)
THEOREM ImplementsGraph == Spec => ImplementsFactGraph
<1>1. Init => Graph!Init
  BY InitGraph
<1>2. GraphInv /\ [Next]_vars => [Graph!Next]_<<Known(nodes), Copies(edges)>>
  BY NextGraph
<1>3. Spec => Graph!Init /\ [][Graph!Next]_<<Known(nodes), Copies(edges)>>
  BY <1>1, <1>2, AlwaysGraph, PTL DEF Spec
<1> QED BY <1>3, PTL DEF ImplementsFactGraph, Graph!Spec, Known, Copies, Count

-----------------------------------------------------------------------------
(* The queries.  An edge starts at a fact's node exactly if its row names  *)
(* that fact as its source, and ends there if it names it as its target.   *)

LEMMA EndsAre ==
    ASSUME GraphInv, NEW k \in DOMAIN edges
    PROVE  /\ edges[k].from \in DOMAIN nodes /\ nodes[edges[k].from] = Source[edges[k].id]
           /\ edges[k].to \in DOMAIN nodes /\ nodes[edges[k].to] = Target[edges[k].id]
           /\ Ends(edges[k].id) \subseteq DOMAIN nodeMap
           /\ \A f \in DOMAIN nodeMap : /\ edges[k].from = nodeMap[f] <=> Source[edges[k].id] = f
                                        /\ edges[k].to = nodeMap[f] <=> Target[edges[k].id] = f
<1>1. nodes \in Seq(Fact) /\ edges \in Seq(Edge) /\ Inverts(nodeMap, nodes) /\ Joins(edges, nodes)
  BY InvIs
<1>2. /\ edges[k].from \in DOMAIN nodes /\ nodes[edges[k].from] = Source[edges[k].id]
      /\ edges[k].to \in DOMAIN nodes /\ nodes[edges[k].to] = Target[edges[k].id]
  BY <1>1 DEF Joins, Names
<1>3. DOMAIN nodeMap = {nodes[i] : i \in DOMAIN nodes} /\ \A i \in DOMAIN nodes : nodeMap[nodes[i]] = i
  BY <1>1 DEF Inverts
<1>4. Ends(edges[k].id) \subseteq DOMAIN nodeMap
  BY <1>2, <1>3 DEF Ends
<1>5. \A f \in DOMAIN nodeMap : nodeMap[f] \in DOMAIN nodes /\ nodes[nodeMap[f]] = f
  BY <1>3
<1> QED BY <1>2, <1>3, <1>4, <1>5

LEMMA HeldIs ==
    ASSUME GraphInv
    PROVE  Graph!Held = {edges[k].id : k \in DOMAIN edges}
<1>1. edges \in Seq(Edge)
  BY InvIs
<1>2. \A k \in DOMAIN edges : edges[k].id \in EdgeId
  <2>1. \A k \in DOMAIN edges : edges[k] \in Edge
    BY <1>1
  <2> QED BY <2>1 DEF Edge
<1>3. \A e \in EdgeId : /\ Cardinality({k \in DOMAIN edges : edges[k].id = e}) \in Nat
                        /\ Cardinality({k \in DOMAIN edges : edges[k].id = e}) = 0
                              <=> \A k \in DOMAIN edges : edges[k].id # e
  BY <1>1, IdsFinite
<1>4. \A e \in EdgeId : Cardinality({k \in DOMAIN edges : edges[k].id = e}) > 0
                           <=> \E k \in DOMAIN edges : edges[k].id = e
  BY <1>3
<1>5. Graph!Held = {e \in EdgeId : Cardinality({k \in DOMAIN edges : edges[k].id = e}) > 0}
  BY DEF Graph!Held
<1> QED BY <1>2, <1>4, <1>5

LEMMA NeighborsAre ==
    ASSUME GraphInv, NEW f \in Fact
    PROVE  /\ Neighbors(f) = Graph!Successors(f)
           /\ NeighborsUndirected(f) = Graph!Adjacent(f) \ {f}
<1> DEFINE out == {k \in DOMAIN edges : Source[edges[k].id] = f}
           into == {k \in DOMAIN edges : Target[edges[k].id] = f}
<1>1. Graph!Successors(f) = {Target[edges[k].id] : k \in out}
  BY HeldIs DEF Graph!Successors
<1>2. Graph!Adjacent(f) = {Target[edges[k].id] : k \in out} \cup {Source[edges[k].id] : k \in into}
  BY <1>1, HeldIs DEF Graph!Adjacent
<1>3. CASE f \notin DOMAIN nodeMap
  <2>1. out = {} /\ into = {}
    BY <1>3, EndsAre DEF Ends
  <2> HIDE DEF out, into
  <2> QED BY <1>1, <1>2, <1>3, <2>1 DEF Neighbors, NeighborsUndirected
<1>4. CASE f \in DOMAIN nodeMap
  <2>1. {k \in DOMAIN edges : edges[k].from = nodeMap[f]} = out
    BY <1>4, EndsAre
  <2>2. {k \in DOMAIN edges : edges[k].to = nodeMap[f]} = into
    BY <1>4, EndsAre
  <2>3. /\ {nodes[edges[k].to] : k \in out} = {Target[edges[k].id] : k \in out}
        /\ {nodes[edges[k].from] : k \in into} = {Source[edges[k].id] : k \in into}
    BY EndsAre
  <2> HIDE DEF out, into
  <2>4. Neighbors(f) = {Target[edges[k].id] : k \in out}
    BY <1>4, <2>1, <2>3 DEF Neighbors
  <2>5. NeighborsUndirected(f) = Graph!Adjacent(f) \ {f}
    BY <1>2, <1>4, <2>2, <2>3, <2>4 DEF NeighborsUndirected
  <2> QED BY <1>1, <2>4, <2>5
<1> QED BY <1>3, <1>4

-----------------------------------------------------------------------------
(* A degree is a sum over the rows: each row adds its copies once for each *)
(* of its ends that is the fact.                                           *)
Copied(E, X, role, f) == {k \in DOMAIN E : E[k].id \in X /\ role[E[k].id] = f}

LEMMA CopiedFinite ==
    ASSUME NEW E \in Seq(Edge), NEW X, NEW role, NEW f
    PROVE  IsFiniteSet(Copied(E, X, role, f)) /\ Cardinality(Copied(E, X, role, f)) \in Nat
<1>1. DOMAIN E = 1..Len(E) /\ Len(E) \in Nat
  OBVIOUS
<1>2. IsFiniteSet(DOMAIN E) /\ Copied(E, X, role, f) \in SUBSET DOMAIN E
  BY <1>1, FS_Interval DEF Copied
<1>3. IsFiniteSet(Copied(E, X, role, f))
  BY <1>2, FS_Subset
<1> QED BY <1>3, FS_CardinalityType

LEMMA CountIsNat ==
    ASSUME NEW E \in Seq(Edge), NEW e
    PROVE  Count(E, e) \in Nat
<1>1. DOMAIN E \in SUBSET DOMAIN E
  OBVIOUS
<1> QED BY <1>1, IdsFinite DEF Count

Splits(E, X, x, role, f) ==
    /\ role[x] # f => Cardinality(Copied(E, X, role, f))
                         = Cardinality(Copied(E, X \ {x}, role, f))
    /\ role[x] = f => Cardinality(Copied(E, X, role, f))
                         = Count(E, x) + Cardinality(Copied(E, X \ {x}, role, f))

LEMMA CopiedSplit ==
    ASSUME NEW E \in Seq(Edge), NEW X, NEW x \in X, NEW role, NEW f
    PROVE  Splits(E, X, x, role, f)
<1> DEFINE rest == Copied(E, X \ {x}, role, f)
           at == {k \in DOMAIN E : E[k].id = x}
<1>0. IsFiniteSet(rest) /\ Cardinality(rest) \in Nat
  BY CopiedFinite
<1>1. CASE role[x] # f
  <2>1. Copied(E, X, role, f) = rest
    BY <1>1 DEF Copied
  <2> QED BY <1>0, <1>1, <2>1 DEF Splits
<1>2. CASE role[x] = f
  <2>1. Copied(E, X, role, f) = rest \cup at
    BY <1>2 DEF Copied
  <2>2. rest \cap at = {}
    BY DEF Copied
  <2>3. IsFiniteSet(at) /\ Cardinality(at) \in Nat
    BY IdsFinite
  <2>4. Cardinality(at) = Count(E, x)
    BY DEF Count
  <2> HIDE DEF rest, at
  <2>5. Cardinality(rest \cup at) = Cardinality(rest) + Cardinality(at)
    <3>1. Cardinality(rest \cup at) = Cardinality(rest) + Cardinality(at) - Cardinality(rest \cap at)
      BY <1>0, <2>3, FS_Union
    <3>2. Cardinality(rest \cap at) = 0
      BY <2>2, FS_EmptySet
    <3> QED BY <1>0, <2>3, <3>1, <3>2
  <2> QED BY <1>0, <1>2, <2>1, <2>3, <2>4, <2>5 DEF rest, Splits
<1> QED BY <1>1, <1>2

DegreeOver(E, f) ==
    [e \in EdgeId |-> (IF Source[e] = f THEN Count(E, e) ELSE 0)
                      + (IF Target[e] = f THEN Count(E, e) ELSE 0)]

Picks(pick, S) == \A X \in SUBSET S : X # {} => pick[X] \in X

AddsUp(it, g, pick) ==
    \A X \in SUBSET EdgeId : it[X] = IF X = {} THEN 0 ELSE g[pick[X]] + it[X \ {pick[X]}]

LEMMA DegreeSums ==
    ASSUME NEW E \in Seq(Edge), NEW f, NEW it, NEW pick, Picks(pick, EdgeId),
           AddsUp(it, DegreeOver(E, f), pick), NEW X \in SUBSET EdgeId
    PROVE  it[X] = Cardinality(Copied(E, X, Source, f)) + Cardinality(Copied(E, X, Target, f))
<1> DEFINE Right(Y) == it[Y] = Cardinality(Copied(E, Y, Source, f))
                               + Cardinality(Copied(E, Y, Target, f))
           bad == {Y \in SUBSET EdgeId : ~Right(Y)}
<1>1. Right({})
  <2>1. Copied(E, {}, Source, f) = {} /\ Copied(E, {}, Target, f) = {}
    BY DEF Copied
  <2>2. Cardinality({}) = 0
    BY FS_EmptySet
  <2>3. it[{}] = 0
    BY DEF AddsUp
  <2>4. Cardinality(Copied(E, {}, Source, f)) = 0 /\ Cardinality(Copied(E, {}, Target, f)) = 0
    BY Zenon, <2>1, <2>2
  <2> QED BY <2>3, <2>4
<1>2. ASSUME NEW Y \in SUBSET EdgeId, Y # {}, Right(Y \ {pick[Y]}) PROVE Right(Y)
  <2> DEFINE x == pick[Y]
             a == IF Source[x] = f THEN Count(E, x) ELSE 0
             b == IF Target[x] = f THEN Count(E, x) ELSE 0
             c == Cardinality(Copied(E, Y \ {x}, Source, f))
             d == Cardinality(Copied(E, Y \ {x}, Target, f))
  <2>1. x \in Y /\ x \in EdgeId
    BY <1>2 DEF Picks
  <2>2. it[Y] = DegreeOver(E, f)[x] + it[Y \ {x}]
    BY <1>2 DEF AddsUp
  <2>3. DegreeOver(E, f)[x] = a + b
    BY <2>1 DEF DegreeOver
  <2>4. it[Y \ {x}] = c + d
    BY <1>2
  <2>5. Count(E, x) \in Nat
    BY CountIsNat
  <2>6. c \in Nat /\ d \in Nat
    BY CopiedFinite
  <2> HIDE DEF x
  <2>7. Cardinality(Copied(E, Y, Source, f)) = a + c /\ Cardinality(Copied(E, Y, Target, f)) = b + d
    <3>1. /\ Source[x] # f => Cardinality(Copied(E, Y, Source, f)) = c
          /\ Source[x] = f => Cardinality(Copied(E, Y, Source, f)) = Count(E, x) + c
      <4>1. Splits(E, Y, x, Source, f)
        BY <2>1, CopiedSplit
      <4> QED BY Zenon, <4>1 DEF Splits
    <3>2. /\ Target[x] # f => Cardinality(Copied(E, Y, Target, f)) = d
          /\ Target[x] = f => Cardinality(Copied(E, Y, Target, f)) = Count(E, x) + d
      <4>1. Splits(E, Y, x, Target, f)
        BY <2>1, CopiedSplit
      <4> QED BY Zenon, <4>1 DEF Splits
    <3> HIDE DEF c, d
    <3> QED BY <2>6, <3>1, <3>2
  <2> HIDE DEF c, d
  <2>8. a \in Nat /\ b \in Nat
    BY <2>5
  <2> HIDE DEF a, b
  <2> QED BY <2>2, <2>3, <2>4, <2>6, <2>7, <2>8
<1> HIDE DEF Right
<1>3. bad = {}
  <2> SUFFICES ASSUME bad # {} PROVE FALSE
    OBVIOUS
  <2>1. bad \in SUBSET SUBSET EdgeId
    OBVIOUS
  <2> HIDE DEF bad
  <2>2. PICK Y \in bad : \A Z \in bad : Z \subseteq Y => Z = Y
    BY <2>1, SmallestSet, RowsHaveEndpoints
  <2> USE DEF bad
  <2>3. Y # {}
    BY <1>1, <2>2
  <2>4. Y \ {pick[Y]} \in SUBSET EdgeId /\ Y \ {pick[Y]} \subseteq Y /\ Y \ {pick[Y]} # Y
    BY <2>2, <2>3 DEF Picks
  <2>5. Right(Y \ {pick[Y]})
    BY <2>2, <2>4
  <2> QED BY <1>2, <2>2, <2>3, <2>5
<1>4. Right(X)
  BY <1>3
<1> QED BY <1>4 DEF Right

LEMMA DegreeOverIs ==
    ASSUME NEW E \in Seq(Edge), NEW f
    PROVE  DegreeOver(E, f) \in [EdgeId -> Nat]
<1>1. \A e \in EdgeId : Count(E, e) \in Nat
  BY CountIsNat
<1> QED BY <1>1 DEF DegreeOver

LEMMA SumExists ==
    ASSUME NEW g \in [EdgeId -> Nat], NEW pick, Picks(pick, EdgeId)
    PROVE  \E it \in [SUBSET EdgeId -> Nat] : AddsUp(it, g, pick)
<1> DEFINE step == [p \in Nat \X EdgeId |-> g[p[2]] + p[1]]
<1>1. step \in [Nat \X EdgeId -> Nat] /\ \A n \in Nat, e \in EdgeId : step[<<n, e>>] = g[e] + n
  OBVIOUS
<1> HIDE DEF step
<1>2. PICK it \in [SUBSET EdgeId -> Nat] : Folds(it, EdgeId, 0, step, pick)
  BY <1>1, FoldExists, RowsHaveEndpoints DEF Picks
<1>3. ASSUME NEW X \in SUBSET EdgeId, X # {}
      PROVE  it[X] = g[pick[X]] + it[X \ {pick[X]}]
  <2>1. pick[X] \in EdgeId /\ it[X \ {pick[X]}] \in Nat
    BY <1>3 DEF Picks
  <2>2. it[X] = step[<<it[X \ {pick[X]}], pick[X]>>]
    BY <1>2, <1>3 DEF Folds
  <2> QED BY <1>1, <2>1, <2>2
<1>4. it[{}] = 0
  BY <1>2 DEF Folds
<1>5. AddsUp(it, g, pick)
  BY <1>3, <1>4 DEF AddsUp
<1> QED BY <1>5

LEMMA DegreeIsSum ==
    ASSUME GraphInv, NEW f \in Fact
    PROVE  Graph!Degree(f) = Cardinality(Copied(edges, EdgeId, Source, f))
                             + Cardinality(Copied(edges, EdgeId, Target, f))
<1> DEFINE g == DegreeOver(edges, f)
           pick == [X \in SUBSET EdgeId |-> CHOOSE x \in X : TRUE]
           Body(it) == [X \in SUBSET EdgeId |->
                          IF X = {} THEN 0
                          ELSE (IF Source[CHOOSE x \in X : TRUE] = f
                                THEN Copies(edges)[CHOOSE x \in X : TRUE] ELSE 0)
                               + (IF Target[CHOOSE x \in X : TRUE] = f
                                  THEN Copies(edges)[CHOOSE x \in X : TRUE] ELSE 0)
                               + it[X \ {CHOOSE x \in X : TRUE}]]
           F == CHOOSE it : it = Body(it)
<1>1. Graph!Degree(f) = F[EdgeId]
  BY Zenon DEF Graph!Degree, Graph!MapThenSumSet, Graph!MapThenFoldSet, Copies, Count
<1>2. edges \in Seq(Edge)
  BY InvIs
<1>3. g \in [EdgeId -> Nat]
  BY <1>2, DegreeOverIs
<1>4. Picks(pick, EdgeId) /\ \A X \in SUBSET EdgeId : pick[X] = CHOOSE x \in X : TRUE
  BY DEF Picks
<1>5. \A e \in EdgeId : g[e] = (IF Source[e] = f THEN Copies(edges)[e] ELSE 0)
                               + (IF Target[e] = f THEN Copies(edges)[e] ELSE 0)
  BY DEF DegreeOver, Copies
<1> HIDE DEF g, pick
<1>6. \A X \in SUBSET EdgeId : X # {} =>
        /\ (CHOOSE x \in X : TRUE) \in EdgeId /\ pick[X] = CHOOSE x \in X : TRUE
        /\ g[pick[X]] = (IF Source[CHOOSE x \in X : TRUE] = f
                           THEN Copies(edges)[CHOOSE x \in X : TRUE] ELSE 0)
                          + (IF Target[CHOOSE x \in X : TRUE] = f
                             THEN Copies(edges)[CHOOSE x \in X : TRUE] ELSE 0)
  BY <1>4, <1>5 DEF Picks
<1>7. PICK G \in [SUBSET EdgeId -> Nat] : AddsUp(G, g, pick)
  BY <1>3, <1>4, SumExists
<1>8. G = Body(G)
  BY <1>6, <1>7 DEF AddsUp
<1>9. F = Body(F)
  <2> HIDE DEF Body
  <2> QED BY <1>8
<1> HIDE DEF F
<1>10. AddsUp(F, g, pick)
  <2> SUFFICES ASSUME NEW X \in SUBSET EdgeId
               PROVE  F[X] = IF X = {} THEN 0 ELSE g[pick[X]] + F[X \ {pick[X]}]
    BY DEF AddsUp
  <2> DEFINE some == CHOOSE x \in X : TRUE
             sum == (IF Source[some] = f THEN Copies(edges)[some] ELSE 0)
                    + (IF Target[some] = f THEN Copies(edges)[some] ELSE 0)
  <2>1. F[X] = IF X = {} THEN 0 ELSE sum + F[X \ {some}]
    BY Zenon, <1>9
  <2>2. X # {} => pick[X] = some /\ g[pick[X]] = sum
    BY Zenon, <1>6
  <2> HIDE DEF some, sum
  <2> QED BY <2>1, <2>2
<1>11. EdgeId \in SUBSET EdgeId
  OBVIOUS
<1>12. F[EdgeId] = Cardinality(Copied(edges, EdgeId, Source, f))
                   + Cardinality(Copied(edges, EdgeId, Target, f))
  BY <1>2, <1>4, <1>10, <1>11, DegreeSums DEF g
<1> QED BY <1>1, <1>12

LEMMA DegreeIs ==
    ASSUME GraphInv, NEW f \in Fact
    PROVE  NodeDegree(f) = Graph!Degree(f)
<1>1. \A k \in DOMAIN edges : edges[k].id \in EdgeId
  <2>1. \A k \in DOMAIN edges : edges[k] \in Edge
    BY InvIs
  <2> QED BY <2>1 DEF Edge
<1>2. CASE f \notin DOMAIN nodeMap
  <2>1. Copied(edges, EdgeId, Source, f) = {} /\ Copied(edges, EdgeId, Target, f) = {}
    BY <1>2, EndsAre DEF Copied, Ends
  <2>2. Cardinality({}) = 0
    BY FS_EmptySet
  <2>3. /\ Cardinality(Copied(edges, EdgeId, Source, f)) = 0
        /\ Cardinality(Copied(edges, EdgeId, Target, f)) = 0
    BY Zenon, <2>1, <2>2
  <2>4. Graph!Degree(f) = 0
    BY <2>3, DegreeIsSum
  <2> QED BY <1>2, <2>4 DEF NodeDegree
<1>3. CASE f \in DOMAIN nodeMap
  <2>1. {k \in DOMAIN edges : edges[k].from = nodeMap[f]} = Copied(edges, EdgeId, Source, f)
    BY <1>1, <1>3, EndsAre DEF Copied
  <2>2. {k \in DOMAIN edges : edges[k].to = nodeMap[f]} = Copied(edges, EdgeId, Target, f)
    BY <1>1, <1>3, EndsAre DEF Copied
  <2>3. NodeDegree(f) = Cardinality(Copied(edges, EdgeId, Source, f))
                        + Cardinality(Copied(edges, EdgeId, Target, f))
    BY <1>3, <2>1, <2>2 DEF NodeDegree
  <2> QED BY <2>3, DegreeIsSum
<1> QED BY <1>2, <1>3

-----------------------------------------------------------------------------
(* A component is found in layers.  Every round that adds nothing has      *)
(* closed the set, and every other adds a node, so that there are enough   *)
(* rounds; and no round leaves a closed set around the first node.         *)
Closing(V) == Layer(V) = V

LEMMA LayerIs ==
    ASSUME GraphInv, NEW V \in SUBSET DOMAIN nodes
    PROVE  /\ Layer(V) \in SUBSET DOMAIN nodes /\ V \subseteq Layer(V)
           /\ Closing(V) <=> \A k \in DOMAIN edges : edges[k].from \in V <=> edges[k].to \in V
           /\ \A W \in SUBSET DOMAIN nodes : V \subseteq W => Layer(V) \subseteq Layer(W)
<1>1. \A k \in DOMAIN edges : edges[k].from \in DOMAIN nodes /\ edges[k].to \in DOMAIN nodes
  BY EndsAre
<1>2. Layer(V) \in SUBSET DOMAIN nodes /\ V \subseteq Layer(V)
  BY <1>1 DEF Layer
<1>3. Closing(V) <=> \A k \in DOMAIN edges : edges[k].from \in V <=> edges[k].to \in V
  BY <1>1 DEF Layer, Closing
<1>4. \A W \in SUBSET DOMAIN nodes : V \subseteq W => Layer(V) \subseteq Layer(W)
  BY DEF Layer
<1> QED BY <1>2, <1>3, <1>4

Rounds(visited, i) ==
    visited = [n \in 0..Len(nodes) |-> IF n = 0 THEN {i} ELSE Layer(visited[n - 1])]

LEMMA RoundsExist ==
    ASSUME GraphInv, NEW i \in DOMAIN nodes
    PROVE  \E visited : Rounds(visited, i)
<1> DEFINE L == Len(nodes)
           D == SUBSET DOMAIN nodes
           pick == [X \in SUBSET (1..L) |-> Max(X)]
           step == [p \in D \X (1..L) |-> Layer(p[1])]
<1>1. L \in Nat /\ IsFiniteSet(1..L)
  BY InvIs, FS_Interval
<1>2. \A X \in SUBSET (1..L) : X # {} => pick[X] \in X
  BY <1>1, Largest
<1>3. step \in [D \X (1..L) -> D] /\ \A V \in D, n \in 1..L : step[<<V, n>>] = Layer(V)
  BY LayerIs
<1>4. {i} \in D
  OBVIOUS
<1> HIDE DEF step, D
<1>5. PICK it \in [SUBSET (1..L) -> D] : Folds(it, 1..L, {i}, step, pick)
  BY <1>1, <1>2, <1>3, <1>4, FoldExists
<1> DEFINE G == [n \in 0..L |-> it[1..n]]
<1>6. G[0] = {i}
  <2>1. 1..0 = {} /\ 0 \in 0..L
    BY <1>1
  <2>2. it[{}] = {i}
    BY <1>5 DEF Folds
  <2> QED BY <2>1, <2>2
<1>7. ASSUME NEW n \in 0..L, n # 0 PROVE G[n] = Layer(G[n - 1])
  <2>1. n \in Nat /\ n \in 1..L /\ n - 1 \in 0..L /\ 1..n \in SUBSET (1..L) /\ 1..n # {}
        /\ 1..(n - 1) \in SUBSET (1..L)
    BY <1>1, <1>7
  <2>2. pick[1..n] = n /\ (1..n) \ {n} = 1..(n - 1)
    BY <1>7, <2>1, TopOfInterval
  <2> HIDE DEF pick
  <2>3. it[1..n] = step[<<it[(1..n) \ {pick[1..n]}], pick[1..n]>>]
    BY <1>5, <2>1 DEF Folds
  <2>4. it[1..(n - 1)] \in D
    BY <1>5, <2>1
  <2>5. it[1..n] = Layer(it[1..(n - 1)])
    BY <1>3, <2>1, <2>2, <2>3, <2>4
  <2> QED BY <2>1, <2>5
<1>8. G = [n \in 0..L |-> IF n = 0 THEN {i} ELSE Layer(G[n - 1])]
  <2>1. G = [n \in 0..L |-> G[n]]
    OBVIOUS
  <2>2. \A n \in 0..L : G[n] = IF n = 0 THEN {i} ELSE Layer(G[n - 1])
    BY <1>6, <1>7
  <2> HIDE DEF G
  <2> QED BY <2>1, <2>2
<1> HIDE DEF G
<1> QED BY <1>8 DEF Rounds

InRound(V, n, i) ==
    /\ V \in SUBSET DOMAIN nodes /\ i \in V
    /\ Closing(V) \/ Cardinality(V) > n
    /\ \A W \in SUBSET DOMAIN nodes : i \in W /\ Closing(W) => V \subseteq W

LEMMA FirstRound ==
    ASSUME GraphInv, NEW i \in DOMAIN nodes
    PROVE  InRound({i}, 0, i)
<1>1. Cardinality({i}) = 1
  BY FS_Singleton
<1> QED BY <1>1 DEF InRound

LEMMA NextRound ==
    ASSUME GraphInv, NEW i \in DOMAIN nodes, NEW V, NEW n \in Nat, InRound(V, n, i)
    PROVE  InRound(Layer(V), n + 1, i)
<1>1. V \in SUBSET DOMAIN nodes /\ i \in V
  BY DEF InRound
<1>2. Layer(V) \in SUBSET DOMAIN nodes /\ V \subseteq Layer(V)
  BY <1>1, LayerIs
<1>3. IsFiniteSet(DOMAIN nodes)
  BY InvIs, FS_Interval
<1>4. ASSUME NEW W \in SUBSET DOMAIN nodes, i \in W, Closing(W) PROVE Layer(V) \subseteq W
  <2>1. V \subseteq W
    BY <1>4 DEF InRound
  <2>2. Layer(V) \subseteq Layer(W)
    BY <1>1, <2>1, LayerIs
  <2> QED BY <1>4, <2>2 DEF Closing
<1>5. CASE Closing(V)
  BY <1>1, <1>4, <1>5 DEF InRound, Closing
<1>6. CASE ~Closing(V)
  <2>1. Cardinality(V) > n /\ V # Layer(V)
    BY <1>6 DEF InRound, Closing
  <2>2. IsFiniteSet(V) /\ IsFiniteSet(Layer(V))
    BY <1>1, <1>2, <1>3, FS_Subset
  <2>3. Cardinality(V) \in Nat /\ Cardinality(Layer(V)) \in Nat
    BY <2>2, FS_CardinalityType
  <2>4. Cardinality(V) <= Cardinality(Layer(V))
        /\ (Cardinality(Layer(V)) = Cardinality(V) => Layer(V) = V)
    BY <1>2, <2>2, FS_Subset
  <2>5. Cardinality(Layer(V)) > n + 1
    BY <2>1, <2>3, <2>4
  <2> QED BY <1>1, <1>2, <1>4, <2>5 DEF InRound
<1> QED BY <1>5, <1>6

LEMMA LastRound ==
    ASSUME GraphInv, NEW i \in DOMAIN nodes, NEW visited, Rounds(visited, i)
    PROVE  /\ InRound(visited[Len(nodes)], Len(nodes), i)
           /\ Closing(visited[Len(nodes)])
<1> DEFINE L == Len(nodes)
           bad == {n \in 0..L : ~InRound(visited[n], n, i)}
<1>1. L \in Nat /\ DOMAIN nodes = 1..L
  BY InvIs
<1>2. visited[0] = {i} /\ \A n \in 0..L : n # 0 => visited[n] = Layer(visited[n - 1])
  <2>1. \A n \in 0..L : visited[n] = IF n = 0 THEN {i} ELSE Layer(visited[n - 1])
    BY Zenon DEF Rounds
  <2>2. 0 \in 0..L
    BY <1>1
  <2> QED BY <2>1, <2>2
<1>3. bad = {}
  <2> SUFFICES ASSUME bad # {} PROVE FALSE
    OBVIOUS
  <2>1. bad \in SUBSET Nat
    BY <1>1
  <2> HIDE DEF bad
  <2>2. PICK n \in bad : \A m \in bad : n <= m
    BY <2>1, Smallest
  <2>3. n \in 0..L /\ ~InRound(visited[n], n, i) /\ n \in Nat
    BY <1>1, <2>2 DEF bad
  <2>4. n # 0
    BY <1>2, <2>3, FirstRound
  <2>5. n - 1 \in Nat /\ n - 1 \in 0..L /\ n - 1 \notin bad
    BY <1>1, <2>2, <2>3, <2>4
  <2>6. InRound(visited[n - 1], n - 1, i)
    BY <2>5 DEF bad
  <2>7. InRound(Layer(visited[n - 1]), (n - 1) + 1, i)
    BY <2>5, <2>6, NextRound
  <2>8. (n - 1) + 1 = n /\ visited[n] = Layer(visited[n - 1])
    BY <1>2, <2>3, <2>4
  <2> QED BY <2>3, <2>7, <2>8
<1>4. InRound(visited[L], L, i)
  BY <1>1, <1>3
<1>5. ~(Cardinality(visited[L]) > L)
  <2>1. IsFiniteSet(1..L) /\ Cardinality(1..L) = L
    <3> HIDE DEF L
    <3> QED BY <1>1, FS_Interval
  <2>2. visited[L] \in SUBSET (1..L)
    BY <1>1, <1>4 DEF InRound
  <2>3. Cardinality(visited[L]) <= L /\ Cardinality(visited[L]) \in Nat
    BY <2>1, <2>2, FS_Subset, FS_CardinalityType
  <2> QED BY <1>1, <2>3
<1> QED BY <1>4, <1>5 DEF InRound

Closed(S) == \A e \in Graph!Held : Ends(e) \cap S # {} => Ends(e) \subseteq S

\* A set of facts is closed exactly if the set of their indexes is.
LEMMA ClosedIs ==
    ASSUME GraphInv, NEW S \in SUBSET Known(nodes)
    PROVE  Closed(S) <=> Closing({j \in DOMAIN nodes : nodes[j] \in S})
<1> DEFINE V == {j \in DOMAIN nodes : nodes[j] \in S}
<1>1. V \in SUBSET DOMAIN nodes
  OBVIOUS
<1>2. \A k \in DOMAIN edges : /\ Source[edges[k].id] \in S <=> edges[k].from \in V
                              /\ Target[edges[k].id] \in S <=> edges[k].to \in V
  BY EndsAre
<1>3. Closed(S) <=> \A k \in DOMAIN edges : Source[edges[k].id] \in S <=> Target[edges[k].id] \in S
  BY HeldIs DEF Closed, Ends
<1>4. Closing(V) <=> \A k \in DOMAIN edges : edges[k].from \in V <=> edges[k].to \in V
  <2> HIDE DEF V
  <2> QED BY <1>1, LayerIs
<1> HIDE DEF V
<1>5. Closed(S) <=> Closing(V)
  BY <1>2, <1>3, <1>4
<1> QED BY <1>5 DEF V

SmallestAround(S, f) ==
    /\ f \in S /\ Closed(S)
    /\ \A T \in SUBSET Known(nodes) : f \in T /\ Closed(T) => S \subseteq T

LEMMA ComponentIs ==
    ASSUME GraphInv, NEW f \in Fact
    PROVE  ConnectedComponent(f) = Graph!Component(f)
<1>1. Graph!Component(f) = IF f \notin Known(nodes) THEN {}
                           ELSE CHOOSE S \in SUBSET Known(nodes) : SmallestAround(S, f)
  BY Zenon DEF Graph!Component, Graph!Ends, Ends, Closed, SmallestAround, Known
<1>2. Known(nodes) = DOMAIN nodeMap
  BY KnownIsMapped
<1>3. CASE f \notin DOMAIN nodeMap
  BY <1>1, <1>2, <1>3 DEF ConnectedComponent
<1>4. CASE f \in DOMAIN nodeMap
  <2> DEFINE i == nodeMap[f]
             visited == CHOOSE layers : Rounds(layers, i)
             V == visited[Len(nodes)]
             C == {nodes[j] : j \in V}
  <2>1. ConnectedComponent(f) = C
    BY Zenon, <1>4 DEF ConnectedComponent, Rounds
  <2>2. i \in DOMAIN nodes /\ nodes[i] = f
    BY <1>4, InvIs, MapFinds
  <2>3. \A j \in DOMAIN nodes : nodeMap[nodes[j]] = j
    BY InvIs DEF Inverts
  <2> HIDE DEF i
  <2>4. Rounds(visited, i)
    BY Zenon, <2>2, RoundsExist
  <2> HIDE DEF visited
  <2>5. InRound(V, Len(nodes), i) /\ Closing(V)
    BY <2>2, <2>4, LastRound
  <2> HIDE DEF V
  <2>6. C \in SUBSET Known(nodes) /\ f \in C
    BY <2>2, <2>5 DEF InRound, Known
  <2>7. {j \in DOMAIN nodes : nodes[j] \in C} = V
    BY <2>3, <2>5 DEF InRound
  <2>8. Closed(C)
    <3> HIDE DEF C
    <3> QED BY <2>5, <2>6, <2>7, ClosedIs
  <2>9. ASSUME NEW T \in SUBSET Known(nodes), f \in T, Closed(T) PROVE C \subseteq T
    <3> DEFINE W == {j \in DOMAIN nodes : nodes[j] \in T}
    <3>1. Closing(W)
      BY <2>9, ClosedIs
    <3>2. W \in SUBSET DOMAIN nodes /\ i \in W
      BY <2>2, <2>9
    <3> HIDE DEF W
    <3>3. V \subseteq W
      BY <2>5, <3>1, <3>2 DEF InRound
    <3> QED BY <3>3 DEF W
  <2> HIDE DEF C
  <2>10. SmallestAround(C, f)
    BY <2>6, <2>8, <2>9 DEF SmallestAround
  <2>11. \A S \in SUBSET Known(nodes) : SmallestAround(S, f) => S = C
    BY <2>6, <2>10 DEF SmallestAround
  <2>12. C = CHOOSE S \in SUBSET Known(nodes) : SmallestAround(S, f)
    BY <2>6, <2>10, <2>11
  <2> QED BY <1>1, <1>2, <1>4, <2>1, <2>12
<1> QED BY <1>3, <1>4

(* Whatever was added and removed before, the queries on indexes answer what *)
(* the bag of edges means: the neighbours and the degree by which conflicts  *)
(* are resolved and facts forgotten, and the component that explain_fact     *)
(* reports.                                                                  *)
THEOREM QueriesAlwaysAgree == Spec => []QueriesAgree
<1>1. GraphInv => QueriesAgree
  <2> SUFFICES ASSUME GraphInv, NEW f \in Fact
               PROVE  /\ Neighbors(f) = Graph!Successors(f)
                      /\ GraphContext(f) = [degree |-> Graph!Degree(f),
                                            neighbors |-> Graph!Adjacent(f) \ {f},
                                            component_size |-> Cardinality(Graph!Component(f))]
    BY DEF QueriesAgree
  <2>1. Neighbors(f) = Graph!Successors(f) /\ NeighborsUndirected(f) = Graph!Adjacent(f) \ {f}
    BY NeighborsAre
  <2>2. NodeDegree(f) = Graph!Degree(f)
    BY DegreeIs
  <2>3. ConnectedComponent(f) = Graph!Component(f)
    BY ComponentIs
  <2> QED BY Zenon, <2>1, <2>2, <2>3 DEF GraphContext
<1> QED BY <1>1, AlwaysGraph, PTL
=============================================================================
