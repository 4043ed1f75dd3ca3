-------------------------- MODULE ScopeCacheProofs --------------------------
(***************************************************************************)
(* Theorems about ScopeCache, for every set of paths and of callers.       *)
(***************************************************************************)
EXTENDS ScopeCache, SequenceTheorems, FiniteSetTheorems, TLAPS

(* Whatever the tree is to hold, or an image of it holds, is in the table.   *)
RowsBehind ==
    /\ IsFiniteSet(scopes) /\ tree \subseteq scopes
    /\ \A i \in sidecar : i.nodes \subseteq scopes
    /\ \A t \in Task : /\ task[t].nodes \subseteq scopes
                       /\ \A i \in task[t].image : i.nodes \subseteq scopes

(* A walk has read what lies between its path and its cursor; what lies      *)
(* above the cursor was committed with the path.                             *)
WalksKeepTheirChain ==
    \A t \in Task : At(t, "walk") =>
        /\ task[t].path \in Path
        /\ Chain(task[t].path) \subseteq task[t].nodes \cup Chain(task[t].cursor)
        /\ Chain(task[t].cursor) \subseteq scopes

CacheInv == TypeOK /\ RowsBehind /\ WalksKeepTheirChain

(* With close() as the only flush: whoever flushes is alone.                 *)
FlushesAlone ==
    \A t \in Task : task[t].at \in {"stamp", "save"} =>
        \A u \in Task : u # t => At(u, "idle")

Covers(nodes, rows) == \A p \in rows : \E q \in nodes : p \in Chain(q)

(* What an operation under way is going to put into the tree.                *)
Carried(t) ==
    IF At(t, "walk") THEN {task[t].path}
    ELSE IF task[t].at \in {"fetch", "insert"} THEN task[t].nodes ELSE {}

(* No row is forgotten between the commit that made it and the tree.         *)
RowsOnTheWay ==
    up => Covers(tree \cup UNION {Carried(t) : t \in Task}, scopes)

(* The nodes of an image cover a set of rows as large as the count beside    *)
(* them.  Rows are not deleted: while the count is right, that set is the    *)
(* table.                                                                    *)
Sound(i) ==
    \E rows \in SUBSET scopes : /\ Cardinality(rows) = i.scope_count
                                /\ Covers(i.nodes, rows)

ImagesCover ==
    /\ \A i \in sidecar : Sound(i)
    /\ \A t \in Task : \A i \in task[t].image :
          /\ At(t, "stamp") => Covers(i.nodes, scopes)
          /\ At(t, "save") => Sound(i)

CoverInv == CacheInv /\ FlushesAlone /\ RowsOnTheWay /\ ImagesCover

-----------------------------------------------------------------------------
(* Paths and their chains.                                                 *)

LEMMA PathIsSeq ==
    ASSUME NEW p \in Path
    PROVE  p \in Seq(Label) /\ Len(p) \in Nat /\ Len(p) > 0
<1>1. p \in Seq(Label) /\ p # <<>>
  BY ScopePaths
<1> QED BY <1>1, EmptySeq, LenProperties

LEMMA ChainElements ==
    ASSUME NEW p, NEW q
    PROVE  q \in Chain(p) <=> q # <<>> /\ \E l \in 0..Len(p) : q = SubSeq(p, 1, l)
BY DEF Chain, Prefixes

\* A path is a row of its own chain.
LEMMA InOwnChain ==
    ASSUME NEW p \in Path
    PROVE  p \in Chain(p)
<1>1. SubSeq(p, 1, Len(p)) = p /\ p # <<>>
  BY PathIsSeq, SubSeqFull, ScopePaths
<1>2. Len(p) \in 0..Len(p)
  BY PathIsSeq
<1> QED BY <1>1, <1>2, ChainElements

LEMMA ChainInPath ==
    ASSUME NEW p \in Path
    PROVE  Chain(p) \subseteq Path
BY ScopePaths

LEMMA ChainOfRoot == Chain(<<>>) = {}
<1> SUFFICES ASSUME NEW q \in Chain(<<>>) PROVE FALSE
  OBVIOUS
<1>1. PICK l \in 0..Len(<<>>) : q = SubSeq(<<>>, 1, l)
  BY ChainElements
<1>2. l = 0
  BY <1>1, EmptySeq
<1>3. q = <<>>
  BY <1>1, <1>2, SubSeqEmpty
<1> QED BY <1>3, ChainElements

\* Cutting the last label leaves the rest of the chain.
LEMMA FrontLen ==
    ASSUME NEW p \in Path
    PROVE  /\ Front(p) \in Seq(Label) /\ Len(Front(p)) = Len(p) - 1
           /\ \A l \in 0..Len(p) - 1 : SubSeq(Front(p), 1, l) = SubSeq(p, 1, l)
<1>0. p \in Seq(Label) /\ Len(p) \in Nat /\ Len(p) > 0
  BY PathIsSeq
<1>1. \A i \in 1..Len(p) - 1 : p[i] \in Label
  BY <1>0, ElementOfSeq
<1>2. Front(p) \in Seq(Label) /\ Len(Front(p)) = Len(p) - 1
  <2> DEFINE n == Len(p) - 1
  <2>1. n \in Nat /\ 1 \in Int /\ n \in Int /\ n - 1 + 1 = n
    BY <1>0
  <2>2. SubSeq(p, 1, n) \in Seq(Label)
        /\ Len(SubSeq(p, 1, n)) = IF 1 <= n THEN n - 1 + 1 ELSE 0
    <3> HIDE DEF n
    <3>1. \A i \in 1..n : p[i] \in Label
      BY <1>1 DEF n
    <3> QED BY <2>1, <3>1, SubSeqProperties
  <2> QED BY <2>1, <2>2 DEF Front
<1>3. ASSUME NEW l \in 0..Len(p) - 1
      PROVE  SubSeq(Front(p), 1, l) = SubSeq(p, 1, l)
  <2>1. CASE l = 0
    BY <2>1, SubSeqEmpty
  <2>2. CASE l # 0
    <3>1. /\ 1 \in 1..Len(p) /\ Len(p) - 1 \in 1..Len(p)
          /\ 1 \in 1..(Len(p) - 1) - 1 + 1 /\ l \in 1..(Len(p) - 1) - 1 + 1
          /\ 1 + 1 - 1 = 1 /\ 1 + l - 1 = l
      BY <1>0, <2>2
    <3> QED BY <1>0, <3>1, SubSeqOfSubSeq DEF Front
  <2> QED BY <2>1, <2>2
<1> QED BY <1>2, <1>3

LEMMA FrontInPath ==
    ASSUME NEW p \in Path
    PROVE  Front(p) \in Path \cup {<<>>}
<1>1. Front(p) = SubSeq(p, 1, Len(p) - 1) /\ Len(p) - 1 \in 0..Len(p)
  BY PathIsSeq DEF Front
<1>2. Front(p) # <<>> => Front(p) \in Chain(p)
  BY <1>1, ChainElements
<1> QED BY <1>2, ChainInPath

LEMMA ChainSplit ==
    ASSUME NEW p \in Path
    PROVE  Chain(p) \subseteq {p} \cup Chain(Front(p))
<1> SUFFICES ASSUME NEW q \in Chain(p), q # p
             PROVE  q \in Chain(Front(p))
  OBVIOUS
<1>0. q # <<>>
  BY ChainElements
<1>1. PICK l \in 0..Len(p) : q = SubSeq(p, 1, l)
  BY ChainElements
<1>2. l # Len(p)
  BY <1>1, PathIsSeq, SubSeqFull
<1>3. l \in 0..Len(p) - 1
  BY <1>1, <1>2, PathIsSeq
<1>4. l \in 0..Len(Front(p)) /\ q = SubSeq(Front(p), 1, l)
  BY <1>1, <1>3, FrontLen
<1> QED BY <1>0, <1>4, ChainElements

LEMMA FrontChain ==
    ASSUME NEW p \in Path
    PROVE  Chain(Front(p)) \subseteq Chain(p)
<1> SUFFICES ASSUME NEW q \in Chain(Front(p)) PROVE q \in Chain(p)
  OBVIOUS
<1>1. q # <<>> /\ \E l \in 0..Len(Front(p)) : q = SubSeq(Front(p), 1, l)
  BY ChainElements
<1>2. PICK l \in 0..Len(p) - 1 : q = SubSeq(Front(p), 1, l)
  BY <1>1, FrontLen
<1>3. l \in 0..Len(p) /\ q = SubSeq(p, 1, l)
  BY <1>2, FrontLen, PathIsSeq
<1> QED BY <1>1, <1>3, ChainElements

LEMMA ChainFinite ==
    ASSUME NEW p \in Path
    PROVE  IsFiniteSet(Chain(p))
<1>0. Len(p) \in Nat
  BY PathIsSeq
<1> DEFINE f == [l \in 0..Len(p) |-> SubSeq(p, 1, l)]
           S == {f[l] : l \in 0..Len(p)}
<1>1. IsFiniteSet(0..Len(p))
  BY <1>0, FS_Interval
<1>2. f \in Surjection(0..Len(p), S)
  BY DEF Surjection
<1>3. IsFiniteSet(S)
  BY <1>1, <1>2, FS_Surjection
<1>4. Chain(p) \in SUBSET S
  BY ChainElements
<1> QED BY <1>3, <1>4, FS_Subset

-----------------------------------------------------------------------------
(* The states of a task.                                                   *)

LEMMA IdleState ==
    /\ Idle \in TaskState /\ Idle.at = "idle" /\ Idle.nodes = {} /\ Idle.image = {}
BY DEF Idle, TaskState, Stage

LEMMA StateFields ==
    ASSUME NEW s \in TaskState
    PROVE  /\ s.at \in Stage /\ s.path \in Path \cup {<<>>}
           /\ s.cursor \in Path \cup {<<>>}
           /\ s.nodes \in SUBSET Path /\ s.image \in SUBSET Image
BY DEF TaskState

LEMMA WalkState ==
    ASSUME NEW p \in Path
    PROVE  LET s == [Idle EXCEPT !.at = "walk", !.path = p, !.cursor = p]
           IN  /\ s \in TaskState /\ s.at = "walk" /\ s.path = p /\ s.cursor = p
               /\ s.nodes = {} /\ s.image = {}
BY DEF Idle, TaskState, Stage

LEMMA StepState ==
    ASSUME NEW s \in TaskState, s.cursor \in Path
    PROVE  LET r == [s EXCEPT !.nodes = @ \cup {s.cursor}, !.cursor = Front(@)]
           IN  /\ r \in TaskState /\ r.at = s.at /\ r.path = s.path
               /\ r.cursor = Front(s.cursor)
               /\ r.nodes = s.nodes \cup {s.cursor} /\ r.image = s.image
<1>1. Front(s.cursor) \in Path \cup {<<>>}
  BY FrontInPath
<1> QED BY <1>1 DEF TaskState

LEMMA FetchState ==
    ASSUME NEW n \in SUBSET Path
    PROVE  LET s == [Idle EXCEPT !.at = "fetch", !.nodes = n]
           IN  s \in TaskState /\ s.at = "fetch" /\ s.nodes = n /\ s.image = {}
BY DEF Idle, TaskState, Stage

LEMMA InsertState ==
    ASSUME NEW s \in TaskState, NEW n \in SUBSET Path
    PROVE  LET r == [s EXCEPT !.at = "insert", !.nodes = n]
           IN  r \in TaskState /\ r.at = "insert" /\ r.nodes = n /\ r.image = s.image
BY DEF TaskState, Stage

LEMMA FlushState ==
    ASSUME NEW a \in {"stamp", "save"}, NEW im \in SUBSET Image
    PROVE  LET s == [Idle EXCEPT !.at = a, !.image = im]
           IN  s \in TaskState /\ s.at = a /\ s.nodes = {} /\ s.image = im
BY DEF Idle, TaskState, Stage

LEMMA Stamped ==
    ASSUME NEW i \in Image, NEW n \in Nat
    PROVE  LET j == [i EXCEPT !.scope_count = n]
           IN  j \in Image /\ j.nodes = i.nodes /\ j.scope_count = n
BY DEF Image

-----------------------------------------------------------------------------
(* What each action makes of its task, in the fields.                      *)

Others(t) == \A u \in Task : u # t => task'[u] = task[u]

LEMMA Becomes ==
    ASSUME task \in [Task -> TaskState], NEW t \in Task, NEW s \in TaskState,
           Become(t, s)
    PROVE  task' \in [Task -> TaskState] /\ task'[t] = s /\ Others(t)
BY DEF Become, Others

LEMMA EnsureDoes ==
    ASSUME TypeOK, NEW t \in Task, EnsurePath(t)
    PROVE  \E p \in Path :
              /\ task' \in [Task -> TaskState] /\ Others(t)
              /\ scopes' = scopes \cup Chain(p)
              /\ task'[t].at = "walk" /\ task'[t].path = p /\ task'[t].cursor = p
              /\ task'[t].nodes = {} /\ task'[t].image = {}
<1>1. PICK p \in Path :
         /\ scopes' = scopes \cup Chain(p)
         /\ Become(t, [Idle EXCEPT !.at = "walk", !.path = p, !.cursor = p])
  BY DEF EnsurePath
<1> DEFINE s == [Idle EXCEPT !.at = "walk", !.path = p, !.cursor = p]
<1>2. /\ s \in TaskState /\ s.at = "walk" /\ s.path = p /\ s.cursor = p
      /\ s.nodes = {} /\ s.image = {}
  BY WalkState
<1>3. Become(t, s) /\ task \in [Task -> TaskState]
  BY <1>1, Zenon DEF TypeOK
<1> HIDE DEF s
<1>4. task' \in [Task -> TaskState] /\ task'[t] = s /\ Others(t)
  BY <1>2, <1>3, Becomes
<1> QED BY <1>1, <1>2, <1>4

LEMMA WalkUpDoes ==
    ASSUME TypeOK, NEW t \in Task, WalkUp(t)
    PROVE  /\ task' \in [Task -> TaskState] /\ Others(t)
           /\ task[t].cursor \in Path
           /\ task'[t].at = "walk" /\ task'[t].path = task[t].path
           /\ task'[t].cursor = Front(task[t].cursor)
           /\ task'[t].nodes = task[t].nodes \cup {task[t].cursor}
           /\ task'[t].image = task[t].image
<1> DEFINE s == [task[t] EXCEPT !.nodes = @ \cup {task[t].cursor},
                                !.cursor = Front(@)]
<1>1. task \in [Task -> TaskState] /\ task[t] \in TaskState
  BY DEF TypeOK
<1>2. task[t].cursor \in Path
  BY <1>1, StateFields DEF WalkUp
<1>3. Become(t, s) /\ task[t].at = "walk"
  BY Zenon DEF WalkUp, At
<1>4. /\ s \in TaskState /\ s.at = task[t].at /\ s.path = task[t].path
      /\ s.cursor = Front(task[t].cursor)
      /\ s.nodes = task[t].nodes \cup {task[t].cursor}
      /\ s.image = task[t].image
  BY <1>1, <1>2, StepState
<1> HIDE DEF s
<1>5. task' \in [Task -> TaskState] /\ task'[t] = s /\ Others(t)
  BY <1>1, <1>3, <1>4, Becomes
<1> QED BY <1>2, <1>3, <1>4, <1>5

\* CacheChain, CacheLeaves, FlushSave and Abandon leave the task idle.
LEMMA EndDoes ==
    ASSUME TypeOK, NEW t \in Task, Become(t, Idle)
    PROVE  /\ task' \in [Task -> TaskState] /\ Others(t)
           /\ task'[t].at = "idle" /\ task'[t].nodes = {} /\ task'[t].image = {}
<1>1. task \in [Task -> TaskState]
  BY DEF TypeOK
<1>2. task' \in [Task -> TaskState] /\ task'[t] = Idle /\ Others(t)
  BY <1>1, IdleState, Becomes
<1> QED BY <1>2, IdleState

LEMMA BatchDoes ==
    ASSUME TypeOK, NEW t \in Task, BatchCommit(t)
    PROVE  \E leaves \in SUBSET Path :
              /\ task' \in [Task -> TaskState] /\ Others(t)
              /\ IsFiniteSet(leaves)
              /\ scopes' = scopes \cup UNION {Chain(p) : p \in leaves}
              /\ task'[t].at = "fetch" /\ task'[t].nodes = leaves
              /\ task'[t].image = {}
<1>1. PICK leaves \in SUBSET Path :
         /\ IsFiniteSet(leaves)
         /\ scopes' = scopes \cup UNION {Chain(p) : p \in leaves}
         /\ Become(t, [Idle EXCEPT !.at = "fetch", !.nodes = leaves])
  BY DEF BatchCommit
<1> DEFINE s == [Idle EXCEPT !.at = "fetch", !.nodes = leaves]
<1>2. s \in TaskState /\ s.at = "fetch" /\ s.nodes = leaves /\ s.image = {}
  BY FetchState
<1>3. Become(t, s) /\ task \in [Task -> TaskState]
  BY <1>1, Zenon DEF TypeOK
<1> HIDE DEF s
<1>4. task' \in [Task -> TaskState] /\ task'[t] = s /\ Others(t)
  BY <1>2, <1>3, Becomes
<1> QED BY <1>1, <1>2, <1>4

LEMMA FetchDoes ==
    ASSUME TypeOK, NEW t \in Task, FetchLeaves(t)
    PROVE  /\ task' \in [Task -> TaskState] /\ Others(t)
           /\ task'[t].at = "insert" /\ task'[t].image = task[t].image
           /\ task'[t].nodes \subseteq task[t].nodes
           /\ "abandon" \notin Op => task'[t].nodes = task[t].nodes
<1>1. PICK read \in SUBSET task[t].nodes :
         /\ "abandon" \notin Op => read = task[t].nodes
         /\ Become(t, [task[t] EXCEPT !.at = "insert", !.nodes = read])
  BY DEF FetchLeaves
<1> DEFINE s == [task[t] EXCEPT !.at = "insert", !.nodes = read]
<1>2. task \in [Task -> TaskState] /\ task[t] \in TaskState /\ read \in SUBSET Path
  BY StateFields DEF TypeOK
<1>3. s \in TaskState /\ s.at = "insert" /\ s.nodes = read /\ s.image = task[t].image
  BY <1>2, InsertState
<1>4. Become(t, s)
  BY <1>1
<1> HIDE DEF s
<1>5. task' \in [Task -> TaskState] /\ task'[t] = s /\ Others(t)
  BY <1>2, <1>3, <1>4, Becomes
<1> QED BY <1>1, <1>3, <1>5

LEMMA CaptureDoes ==
    ASSUME TypeOK, NEW t \in Task, FlushCapture(t)
    PROVE  /\ task' \in [Task -> TaskState] /\ Others(t)
           /\ task'[t].at = "stamp" /\ task'[t].nodes = {}
           /\ \A i \in task'[t].image : i.nodes = tree
<1> DEFINE im == {[nodes |-> tree, scope_count |-> 0]}
           s == [Idle EXCEPT !.at = "stamp", !.image = im]
<1>1. task \in [Task -> TaskState] /\ tree \in SUBSET Path
  BY DEF TypeOK
<1>2. im \in SUBSET Image /\ \A i \in im : i.nodes = tree
  BY <1>1 DEF Image
<1>3. Become(t, s)
  BY Zenon DEF FlushCapture
<1>4. s \in TaskState /\ s.at = "stamp" /\ s.nodes = {} /\ s.image = im
  <2> HIDE DEF im
  <2> QED BY <1>2, FlushState
<1> HIDE DEF s
<1>5. task' \in [Task -> TaskState] /\ task'[t] = s /\ Others(t)
  BY <1>1, <1>3, <1>4, Becomes
<1> QED BY <1>2, <1>4, <1>5

LEMMA StampDoes ==
    ASSUME TypeOK, IsFiniteSet(scopes), NEW t \in Task, FlushStamp(t)
    PROVE  /\ task' \in [Task -> TaskState] /\ Others(t)
           /\ task'[t].at = "save" /\ task'[t].nodes = {}
           /\ \A j \in task'[t].image :
                 /\ j.scope_count = Cardinality(scopes)
                 /\ \E i \in task[t].image : j.nodes = i.nodes
<1> DEFINE im == {[i EXCEPT !.scope_count = Fingerprint] : i \in task[t].image}
           s == [Idle EXCEPT !.at = "save", !.image = im]
<1>1. task \in [Task -> TaskState] /\ task[t].image \in SUBSET Image
  BY StateFields DEF TypeOK
<1>2. Fingerprint = Cardinality(scopes) /\ Fingerprint \in Nat
  BY FS_CardinalityType DEF Fingerprint
<1>3. /\ im \in SUBSET Image
      /\ \A j \in im : /\ j.scope_count = Cardinality(scopes)
                       /\ \E i \in task[t].image : j.nodes = i.nodes
  <2> SUFFICES ASSUME NEW j \in im
               PROVE  /\ j \in Image /\ j.scope_count = Cardinality(scopes)
                      /\ \E i \in task[t].image : j.nodes = i.nodes
    BY Zenon
  <2>1. PICK i \in task[t].image : j = [i EXCEPT !.scope_count = Fingerprint]
    OBVIOUS
  <2> QED BY <1>1, <1>2, <2>1, Stamped
<1>4. Become(t, s)
  BY Zenon DEF FlushStamp
<1>5. s \in TaskState /\ s.at = "save" /\ s.nodes = {} /\ s.image = im
  <2> HIDE DEF im
  <2> QED BY <1>3, FlushState
<1> HIDE DEF s
<1>6. task' \in [Task -> TaskState] /\ task'[t] = s /\ Others(t)
  BY <1>1, <1>4, <1>5, Becomes
<1> QED BY <1>3, <1>5, <1>6

-----------------------------------------------------------------------------
(* Types, rows and walks: what holds with every kind of flush, with calls  *)
(* dropped at any await.                                                   *)

LEMMA InitCache == Init => CacheInv
<1> SUFFICES ASSUME Init PROVE CacheInv
  OBVIOUS
<1>1. \A t \in Task : task[t] = Idle
  BY DEF Init
<1>2. TypeOK
  BY IdleState DEF Init, TypeOK
<1>3. RowsBehind
  BY <1>1, IdleState, FS_EmptySet DEF Init, RowsBehind
<1>4. WalksKeepTheirChain
  BY <1>1, IdleState DEF WalksKeepTheirChain, At
<1> QED BY <1>2, <1>3, <1>4 DEF CacheInv

\* Where the rows only grow and one task takes a step, the other tasks are as
\* they were.
LEMMA OtherRows ==
    ASSUME CacheInv, NEW t \in Task, Others(t), scopes \subseteq scopes',
           task'[t].nodes \subseteq scopes',
           \A i \in task'[t].image : i.nodes \subseteq scopes'
    PROVE  \A u \in Task : /\ task'[u].nodes \subseteq scopes'
                           /\ \A i \in task'[u].image : i.nodes \subseteq scopes'
BY DEF CacheInv, RowsBehind, Others

LEMMA OtherWalks ==
    ASSUME CacheInv, NEW t \in Task, Others(t), scopes \subseteq scopes',
           task'[t].at = "walk" =>
              /\ task'[t].path \in Path
              /\ Chain(task'[t].path)
                    \subseteq task'[t].nodes \cup Chain(task'[t].cursor)
              /\ Chain(task'[t].cursor) \subseteq scopes'
    PROVE  WalksKeepTheirChain'
<1> SUFFICES ASSUME NEW u \in Task, task'[u].at = "walk"
             PROVE  /\ task'[u].path \in Path
                    /\ Chain(task'[u].path)
                          \subseteq task'[u].nodes \cup Chain(task'[u].cursor)
                    /\ Chain(task'[u].cursor) \subseteq scopes'
  BY DEF WalksKeepTheirChain, At
<1>1. CASE u = t
  BY <1>1
<1>2. CASE u # t
  <2>1. task'[u] = task[u]
    BY <1>2 DEF Others
  <2> QED BY <2>1 DEF CacheInv, WalksKeepTheirChain, At
<1> QED BY <1>1, <1>2

LEMMA EnsureCache ==
    ASSUME CacheInv, NEW t \in Task, EnsurePath(t)
    PROVE  CacheInv'
<1>1. PICK p \in Path :
         /\ task' \in [Task -> TaskState] /\ Others(t)
         /\ scopes' = scopes \cup Chain(p)
         /\ task'[t].at = "walk" /\ task'[t].path = p /\ task'[t].cursor = p
         /\ task'[t].nodes = {} /\ task'[t].image = {}
  BY EnsureDoes DEF CacheInv
<1>2. UNCHANGED <<tree, sidecar, up>>
  BY DEF EnsurePath
<1>3. TypeOK'
  BY <1>1, <1>2, ChainInPath DEF CacheInv, TypeOK
<1>4. IsFiniteSet(scopes') /\ scopes \subseteq scopes'
  BY <1>1, ChainFinite, FS_Union DEF CacheInv, RowsBehind
<1>5. RowsBehind'
  <2>1. \A u \in Task : /\ task'[u].nodes \subseteq scopes'
                        /\ \A i \in task'[u].image : i.nodes \subseteq scopes'
    BY <1>1, <1>4, OtherRows
  <2> QED BY <1>2, <1>4, <2>1 DEF CacheInv, RowsBehind
<1>6. WalksKeepTheirChain'
  BY <1>1, <1>4, OtherWalks
<1> QED BY <1>3, <1>5, <1>6 DEF CacheInv

LEMMA BatchCache ==
    ASSUME CacheInv, NEW t \in Task, BatchCommit(t)
    PROVE  CacheInv'
<1>1. PICK leaves \in SUBSET Path :
         /\ task' \in [Task -> TaskState] /\ Others(t)
         /\ IsFiniteSet(leaves)
         /\ scopes' = scopes \cup UNION {Chain(p) : p \in leaves}
         /\ task'[t].at = "fetch" /\ task'[t].nodes = leaves
         /\ task'[t].image = {}
  BY BatchDoes DEF CacheInv
<1>2. UNCHANGED <<tree, sidecar, up>>
  BY DEF BatchCommit
<1>3. TypeOK'
  BY <1>1, <1>2, ChainInPath DEF CacheInv, TypeOK
<1>4. IsFiniteSet(scopes') /\ scopes \subseteq scopes'
  <2> DEFINE f == [p \in leaves |-> Chain(p)]
             S == {Chain(p) : p \in leaves}
  <2>1. f \in Surjection(leaves, S)
    BY DEF Surjection
  <2>2. IsFiniteSet(S)
    <3> HIDE DEF f, S
    <3> QED BY <1>1, <2>1, FS_Surjection
  <2>3. \A T \in S : IsFiniteSet(T)
    BY ChainFinite
  <2>4. IsFiniteSet(UNION S)
    <3> HIDE DEF S
    <3> QED BY <2>2, <2>3, FS_UNION
  <2> QED BY <1>1, <2>4, FS_Union DEF CacheInv, RowsBehind
<1>5. leaves \subseteq scopes'
  BY <1>1, InOwnChain
<1>6. RowsBehind'
  <2>1. \A u \in Task : /\ task'[u].nodes \subseteq scopes'
                        /\ \A i \in task'[u].image : i.nodes \subseteq scopes'
    BY <1>1, <1>4, <1>5, OtherRows
  <2> QED BY <1>2, <1>4, <2>1 DEF CacheInv, RowsBehind
<1>7. WalksKeepTheirChain'
  BY <1>1, <1>4, OtherWalks
<1> QED BY <1>3, <1>6, <1>7 DEF CacheInv

LEMMA WalkUpCache ==
    ASSUME CacheInv, NEW t \in Task, WalkUp(t)
    PROVE  CacheInv'
<1> DEFINE c == task[t].cursor
<1>1. /\ task' \in [Task -> TaskState] /\ Others(t)
      /\ c \in Path
      /\ task'[t].at = "walk" /\ task'[t].path = task[t].path
      /\ task'[t].cursor = Front(c)
      /\ task'[t].nodes = task[t].nodes \cup {c}
      /\ task'[t].image = task[t].image
  BY WalkUpDoes DEF CacheInv
<1>2. UNCHANGED <<scopes, tree, sidecar, up>>
  BY DEF WalkUp
<1>3. TypeOK'
  BY <1>1, <1>2 DEF CacheInv, TypeOK
<1>4. /\ task[t].path \in Path /\ Chain(c) \subseteq scopes
      /\ Chain(task[t].path) \subseteq task[t].nodes \cup Chain(c)
  BY DEF CacheInv, WalksKeepTheirChain, WalkUp
<1>5. Chain(c) \subseteq {c} \cup Chain(Front(c)) /\ c \in Chain(c)
  BY <1>1, ChainSplit, InOwnChain
<1>6. Chain(Front(c)) \subseteq Chain(c)
  BY <1>1, FrontChain
<1> HIDE DEF c
<1>7. RowsBehind'
  <2>1. /\ task[t].nodes \subseteq scopes
        /\ \A i \in task[t].image : i.nodes \subseteq scopes
    BY DEF CacheInv, RowsBehind
  <2>2. \A u \in Task : /\ task'[u].nodes \subseteq scopes'
                        /\ \A i \in task'[u].image : i.nodes \subseteq scopes'
    BY <1>1, <1>2, <1>4, <1>5, <2>1, OtherRows
  <2> QED BY <1>2, <2>2 DEF CacheInv, RowsBehind
<1>8. WalksKeepTheirChain'
  BY <1>1, <1>2, <1>4, <1>5, <1>6, OtherWalks
<1> QED BY <1>3, <1>7, <1>8 DEF CacheInv

\* CacheChain and CacheLeaves.
LEMMA CacheNodesCache ==
    ASSUME CacheInv, NEW t \in Task, tree' = tree \cup task[t].nodes,
           Become(t, Idle), UNCHANGED <<scopes, sidecar, up>>
    PROVE  CacheInv'
<1>1. /\ task' \in [Task -> TaskState] /\ Others(t)
      /\ task'[t].at = "idle" /\ task'[t].nodes = {} /\ task'[t].image = {}
  BY EndDoes DEF CacheInv
<1>2. task[t] \in TaskState
  BY DEF CacheInv, TypeOK
<1>3. TypeOK'
  BY <1>1, <1>2, StateFields DEF CacheInv, TypeOK
<1>4. RowsBehind'
  <2>1. \A u \in Task : /\ task'[u].nodes \subseteq scopes'
                        /\ \A i \in task'[u].image : i.nodes \subseteq scopes'
    BY <1>1, OtherRows
  <2> QED BY <2>1 DEF CacheInv, RowsBehind
<1>5. WalksKeepTheirChain'
  BY <1>1, OtherWalks
<1> QED BY <1>3, <1>4, <1>5 DEF CacheInv

LEMMA FetchCache ==
    ASSUME CacheInv, NEW t \in Task, FetchLeaves(t)
    PROVE  CacheInv'
<1>1. /\ task' \in [Task -> TaskState] /\ Others(t)
      /\ task'[t].at = "insert" /\ task'[t].image = task[t].image
      /\ task'[t].nodes \subseteq task[t].nodes
  BY FetchDoes DEF CacheInv
<1>2. UNCHANGED <<scopes, tree, sidecar, up>>
  BY DEF FetchLeaves
<1>3. TypeOK'
  BY <1>1, <1>2 DEF CacheInv, TypeOK
<1>4. RowsBehind'
  <2>1. /\ task[t].nodes \subseteq scopes
        /\ \A i \in task[t].image : i.nodes \subseteq scopes
    BY DEF CacheInv, RowsBehind
  <2>2. \A u \in Task : /\ task'[u].nodes \subseteq scopes'
                        /\ \A i \in task'[u].image : i.nodes \subseteq scopes'
    BY <1>1, <1>2, <2>1, OtherRows
  <2> QED BY <1>2, <2>2 DEF CacheInv, RowsBehind
<1>5. WalksKeepTheirChain'
  BY <1>1, <1>2, OtherWalks
<1> QED BY <1>3, <1>4, <1>5 DEF CacheInv

LEMMA CaptureCache ==
    ASSUME CacheInv, NEW t \in Task, FlushCapture(t)
    PROVE  CacheInv'
<1>1. /\ task' \in [Task -> TaskState] /\ Others(t)
      /\ task'[t].at = "stamp" /\ task'[t].nodes = {}
      /\ \A i \in task'[t].image : i.nodes = tree
  BY CaptureDoes DEF CacheInv
<1>2. UNCHANGED <<scopes, tree, sidecar, up>>
  BY DEF FlushCapture
<1>3. TypeOK'
  BY <1>1, <1>2 DEF CacheInv, TypeOK
<1>4. RowsBehind'
  <2>1. \A u \in Task : /\ task'[u].nodes \subseteq scopes'
                        /\ \A i \in task'[u].image : i.nodes \subseteq scopes'
    BY <1>1, <1>2, OtherRows DEF CacheInv, RowsBehind
  <2> QED BY <1>2, <2>1 DEF CacheInv, RowsBehind
<1>5. WalksKeepTheirChain'
  BY <1>1, <1>2, OtherWalks
<1> QED BY <1>3, <1>4, <1>5 DEF CacheInv

LEMMA StampCache ==
    ASSUME CacheInv, NEW t \in Task, FlushStamp(t)
    PROVE  CacheInv'
<1>1. /\ task' \in [Task -> TaskState] /\ Others(t)
      /\ task'[t].at = "save" /\ task'[t].nodes = {}
      /\ \A j \in task'[t].image : \E i \in task[t].image : j.nodes = i.nodes
  BY StampDoes DEF CacheInv, RowsBehind
<1>2. UNCHANGED <<scopes, tree, sidecar, up>>
  BY DEF FlushStamp
<1>3. TypeOK'
  BY <1>1, <1>2 DEF CacheInv, TypeOK
<1>4. RowsBehind'
  <2>1. \A i \in task[t].image : i.nodes \subseteq scopes
    BY DEF CacheInv, RowsBehind
  <2>2. \A j \in task'[t].image : j.nodes \subseteq scopes
    BY <1>1, <2>1
  <2>3. \A u \in Task : /\ task'[u].nodes \subseteq scopes'
                        /\ \A i \in task'[u].image : i.nodes \subseteq scopes'
    BY <1>1, <1>2, <2>2, OtherRows
  <2> QED BY <1>2, <2>3 DEF CacheInv, RowsBehind
<1>5. WalksKeepTheirChain'
  BY <1>1, <1>2, OtherWalks
<1> QED BY <1>3, <1>4, <1>5 DEF CacheInv

LEMMA SaveCache ==
    ASSUME CacheInv, NEW t \in Task, FlushSave(t)
    PROVE  CacheInv'
<1>1. /\ task' \in [Task -> TaskState] /\ Others(t)
      /\ task'[t].at = "idle" /\ task'[t].nodes = {} /\ task'[t].image = {}
  BY EndDoes DEF CacheInv, FlushSave
<1>2. sidecar' = task[t].image /\ UNCHANGED <<scopes, tree, up>>
  BY DEF FlushSave
<1>3. task[t].image \subseteq Image /\ \A i \in task[t].image : i.nodes \subseteq scopes
  BY StateFields DEF CacheInv, RowsBehind, TypeOK
<1>4. TypeOK'
  BY <1>1, <1>2, <1>3 DEF CacheInv, TypeOK
<1>5. RowsBehind'
  <2>1. \A u \in Task : /\ task'[u].nodes \subseteq scopes'
                        /\ \A i \in task'[u].image : i.nodes \subseteq scopes'
    BY <1>1, <1>2, OtherRows
  <2> QED BY <1>2, <1>3, <2>1 DEF CacheInv, RowsBehind
<1>6. WalksKeepTheirChain'
  BY <1>1, <1>2, OtherWalks
<1> QED BY <1>4, <1>5, <1>6 DEF CacheInv

LEMMA AbandonCache ==
    ASSUME CacheInv, NEW t \in Task, Abandon(t)
    PROVE  CacheInv'
<1>1. /\ task' \in [Task -> TaskState] /\ Others(t)
      /\ task'[t].at = "idle" /\ task'[t].nodes = {} /\ task'[t].image = {}
  BY EndDoes DEF CacheInv, Abandon
<1>2. UNCHANGED <<scopes, tree, sidecar, up>>
  BY DEF Abandon
<1>3. TypeOK'
  BY <1>1, <1>2 DEF CacheInv, TypeOK
<1>4. RowsBehind'
  <2>1. \A u \in Task : /\ task'[u].nodes \subseteq scopes'
                        /\ \A i \in task'[u].image : i.nodes \subseteq scopes'
    BY <1>1, <1>2, OtherRows
  <2> QED BY <1>2, <2>1 DEF CacheInv, RowsBehind
<1>5. WalksKeepTheirChain'
  BY <1>1, <1>2, OtherWalks
<1> QED BY <1>3, <1>4, <1>5 DEF CacheInv

LEMMA CrashCache ==
    ASSUME CacheInv, Crash
    PROVE  CacheInv'
<1>1. \A t \in Task : task'[t] = Idle
  BY DEF Crash
<1>2. TypeOK'
  BY IdleState DEF CacheInv, TypeOK, Crash
<1>3. RowsBehind'
  BY <1>1, IdleState DEF CacheInv, RowsBehind, Crash
<1>4. WalksKeepTheirChain'
  BY <1>1, IdleState DEF WalksKeepTheirChain, At
<1> QED BY <1>2, <1>3, <1>4 DEF CacheInv

LEMMA OpenCache ==
    ASSUME CacheInv, Open
    PROVE  CacheInv'
<1>1. tree' = scopes \/ \E i \in sidecar : tree' = i.nodes
  BY DEF Open
<1>2. TypeOK'
  BY <1>1 DEF CacheInv, TypeOK, RowsBehind, Open
<1>3. RowsBehind'
  BY <1>1 DEF CacheInv, RowsBehind, Open
<1>4. WalksKeepTheirChain'
  BY DEF CacheInv, WalksKeepTheirChain, At, Open
<1> QED BY <1>2, <1>3, <1>4 DEF CacheInv

LEMMA StepCache == CacheInv /\ [Next]_vars => CacheInv'
<1> SUFFICES ASSUME CacheInv, [Next]_vars PROVE CacheInv'
  OBVIOUS
<1>1. CASE UNCHANGED vars
  BY <1>1 DEF vars, CacheInv, TypeOK, RowsBehind, WalksKeepTheirChain, At
<1>2. CASE Crash
  BY <1>2, CrashCache
<1>3. CASE Open
  BY <1>3, OpenCache
<1>4. ASSUME NEW t \in Task, CacheChain(t) \/ CacheLeaves(t)
      PROVE  CacheInv'
  BY <1>4, CacheNodesCache DEF CacheChain, CacheLeaves
<1>5. ASSUME NEW t \in Task,
             EnsurePath(t) \/ BatchCommit(t) \/ FlushCapture(t) \/ Continue(t)
                \/ Abandon(t)
      PROVE  CacheInv'
  BY <1>4, <1>5, EnsureCache, BatchCache, CaptureCache, WalkUpCache, FetchCache,
     StampCache, SaveCache, AbandonCache DEF Continue
<1> QED BY <1>1, <1>2, <1>3, <1>5 DEF Next

THEOREM InvariantCache == Spec => []CacheInv
<1> QED BY InitCache, StepCache, PTL DEF Spec

(* The registers of the scope cache stay in range: no chain ever holds the   *)
(* root, and an image never a node that is no path.                          *)
THEOREM CacheTypeCorrect == Spec => []TypeOK
<1>1. CacheInv => TypeOK
  BY DEF CacheInv
<1> QED BY <1>1, InvariantCache, PTL

(* cache_scope_chain: when ensure_scope_path has mirrored its chain the path *)
(* resolves, and it goes on resolving until the process ends, whatever other *)
(* callers do and wherever their calls are dropped.                          *)
THEOREM EnsuredAlwaysResolves == Spec => EnsuredPathResolves
<1>1. ASSUME CacheInv, [Next]_vars, NEW t \in Task, CacheChain(t)
      PROVE  Chain(task[t].path) \subseteq tree'
  <2>1. task[t].cursor = <<>> /\ At(t, "walk") /\ tree' = tree \cup task[t].nodes
    BY <1>1 DEF CacheChain
  <2>2. Chain(task[t].path) \subseteq task[t].nodes \cup Chain(<<>>)
    BY <1>1, <2>1 DEF CacheInv, WalksKeepTheirChain
  <2> QED BY <2>1, <2>2, ChainOfRoot
<1>2. ASSUME [Next]_vars, up, up'
      PROVE  tree \subseteq tree'
  BY <1>2 DEF Next, vars, Crash, Open, EnsurePath, BatchCommit, FlushCapture,
     Continue, WalkUp, CacheChain, FetchLeaves, CacheLeaves, FlushStamp, FlushSave,
     Abandon
<1>3. CacheInv /\ [Next]_vars =>
        [/\ \A t \in Task : CacheChain(t) => Chain(task[t].path) \subseteq tree'
         /\ up /\ up' => tree \subseteq tree']_vars
  BY <1>1, <1>2
<1> QED BY <1>3, InvariantCache, PTL DEF Spec, EnsuredPathResolves

-----------------------------------------------------------------------------
(* The tree between operations, where every flush is a close() and no call *)
(* is dropped before its chain is cached.                                  *)

CloseOnly == ~SharedFlush /\ "abandon" \notin Op

LEMMA InitCover == Init => CoverInv
<1> SUFFICES ASSUME Init PROVE CoverInv
  OBVIOUS
<1>1. \A t \in Task : task[t] = Idle
  BY DEF Init
<1>2. FlushesAlone
  BY <1>1, IdleState DEF FlushesAlone, At
<1>3. RowsOnTheWay
  BY DEF Init, RowsOnTheWay, Covers
<1>4. ImagesCover
  BY <1>1, IdleState DEF Init, ImagesCover
<1> QED BY <1>2, <1>3, <1>4, InitCache DEF CoverInv

\* Nobody flushes while an operation of another kind is under way or begins.
LEMMA NoFlush ==
    ASSUME CoverInv, CloseOnly, NEW t \in Task,
           Free(t) \/ task[t].at \in {"walk", "fetch", "insert"}
    PROVE  \A u \in Task : task[u].at \notin {"stamp", "save"}
BY DEF CoverInv, FlushesAlone, CloseOnly, Free, Closing, At

\* One task goes on and carries what it carried, or has put it into the tree.
LEMMA StillOnTheWay ==
    ASSUME RowsOnTheWay, up, NEW t \in Task, Others(t), tree \subseteq tree',
           Carried(t) \subseteq tree' \cup Carried(t)'
    PROVE  Covers(tree' \cup UNION {Carried(u)' : u \in Task}, scopes)
<1> SUFFICES ASSUME NEW p \in scopes
             PROVE  \E q \in tree' \cup UNION {Carried(u)' : u \in Task} : p \in Chain(q)
  BY DEF Covers
<1>1. PICK q \in tree \cup UNION {Carried(u) : u \in Task} : p \in Chain(q)
  BY DEF RowsOnTheWay, Covers
<1>2. CASE q \in tree
  BY <1>1, <1>2
<1>3. ASSUME NEW u \in Task, q \in Carried(u)
      PROVE  q \in tree' \cup UNION {Carried(v)' : v \in Task}
  <2>1. CASE u = t
    BY <1>3, <2>1
  <2>2. CASE u # t
    <3>1. Carried(u)' = Carried(u)
      BY <2>2 DEF Others, Carried, At
    <3> QED BY <1>3, <3>1
  <2> QED BY <2>1, <2>2
<1> QED BY <1>1, <1>2, <1>3

LEMMA SoundGrows ==
    ASSUME scopes \subseteq scopes', NEW i, Sound(i)
    PROVE  Sound(i)'
BY DEF Sound

\* The images, where the step is not one of a flush.
LEMMA ImagesKept ==
    ASSUME CoverInv, scopes \subseteq scopes', sidecar' = sidecar,
           \A u \in Task : task'[u].at \notin {"stamp", "save"}
    PROVE  FlushesAlone' /\ ImagesCover'
<1>1. FlushesAlone'
  BY DEF FlushesAlone
<1>2. ImagesCover'
  BY SoundGrows DEF CoverInv, ImagesCover, At
<1> QED BY <1>1, <1>2

LEMMA OthersDoNotFlush ==
    ASSUME NEW t \in Task, Others(t), task'[t].at \notin {"stamp", "save"},
           \A u \in Task : task[u].at \notin {"stamp", "save"}
    PROVE  \A u \in Task : task'[u].at \notin {"stamp", "save"}
BY DEF Others

LEMMA EnsureCover ==
    ASSUME CoverInv, CloseOnly, NEW t \in Task, EnsurePath(t)
    PROVE  FlushesAlone' /\ RowsOnTheWay' /\ ImagesCover'
<1>1. PICK p \in Path :
         /\ task' \in [Task -> TaskState] /\ Others(t)
         /\ scopes' = scopes \cup Chain(p)
         /\ task'[t].at = "walk" /\ task'[t].path = p /\ task'[t].cursor = p
         /\ task'[t].nodes = {} /\ task'[t].image = {}
  BY EnsureDoes DEF CoverInv, CacheInv
<1>2. Free(t) /\ UNCHANGED <<tree, sidecar, up>> /\ At(t, "idle") /\ up
  BY DEF EnsurePath, Free
<1>3. \A u \in Task : task'[u].at \notin {"stamp", "save"}
  BY <1>1, <1>2, NoFlush, OthersDoNotFlush
<1>4. FlushesAlone' /\ ImagesCover'
  BY <1>1, <1>2, <1>3, ImagesKept
<1>5. Carried(t) = {} /\ Carried(t)' = {p}
  BY <1>1, <1>2 DEF Carried, At
<1>6. Covers(tree' \cup UNION {Carried(u)' : u \in Task}, scopes)
  BY <1>1, <1>2, <1>5, StillOnTheWay DEF CoverInv
<1>7. \A q \in Chain(p) : q \in Chain(p) /\ p \in UNION {Carried(u)' : u \in Task}
  BY <1>5
<1>8. Covers(tree' \cup UNION {Carried(u)' : u \in Task}, scopes')
  BY <1>1, <1>6, <1>7 DEF Covers
<1> QED BY <1>4, <1>8 DEF RowsOnTheWay

LEMMA BatchCover ==
    ASSUME CoverInv, CloseOnly, NEW t \in Task, BatchCommit(t)
    PROVE  FlushesAlone' /\ RowsOnTheWay' /\ ImagesCover'
<1>1. PICK leaves \in SUBSET Path :
         /\ task' \in [Task -> TaskState] /\ Others(t)
         /\ IsFiniteSet(leaves)
         /\ scopes' = scopes \cup UNION {Chain(p) : p \in leaves}
         /\ task'[t].at = "fetch" /\ task'[t].nodes = leaves
         /\ task'[t].image = {}
  BY BatchDoes DEF CoverInv, CacheInv
<1>2. Free(t) /\ UNCHANGED <<tree, sidecar, up>> /\ At(t, "idle") /\ up
  BY DEF BatchCommit, Free
<1>3. \A u \in Task : task'[u].at \notin {"stamp", "save"}
  BY <1>1, <1>2, NoFlush, OthersDoNotFlush
<1>4. FlushesAlone' /\ ImagesCover'
  BY <1>1, <1>2, <1>3, ImagesKept
<1>5. Carried(t) = {} /\ Carried(t)' = leaves
  BY <1>1, <1>2 DEF Carried, At
<1>6. Covers(tree' \cup UNION {Carried(u)' : u \in Task}, scopes)
  BY <1>1, <1>2, <1>5, StillOnTheWay DEF CoverInv
<1>7. \A p \in leaves : p \in UNION {Carried(u)' : u \in Task}
  BY <1>5
<1>8. Covers(tree' \cup UNION {Carried(u)' : u \in Task}, scopes')
  BY <1>1, <1>6, <1>7 DEF Covers
<1> QED BY <1>4, <1>8 DEF RowsOnTheWay

\* WalkUp and FetchLeaves go on with what the task carries.
LEMMA ReadCover ==
    ASSUME CoverInv, CloseOnly, NEW t \in Task, WalkUp(t) \/ FetchLeaves(t)
    PROVE  FlushesAlone' /\ RowsOnTheWay' /\ ImagesCover'
<1>1. TypeOK /\ RowsOnTheWay
  BY DEF CoverInv, CacheInv
<1>2. /\ Others(t) /\ task[t].at \in {"walk", "fetch"}
      /\ task'[t].at \notin {"stamp", "save"}
      /\ UNCHANGED <<scopes, tree, sidecar, up>>
  BY <1>1, WalkUpDoes, FetchDoes DEF WalkUp, FetchLeaves, At
<1>3. \A u \in Task : task'[u].at \notin {"stamp", "save"}
  BY <1>2, NoFlush, OthersDoNotFlush
<1>4. FlushesAlone' /\ ImagesCover'
  BY <1>2, <1>3, ImagesKept
<1>5. Carried(t)' = Carried(t)
  <2>1. CASE WalkUp(t)
    <3>1. At(t, "walk") /\ task'[t].at = "walk" /\ task'[t].path = task[t].path
      BY <1>1, <2>1, WalkUpDoes DEF WalkUp
    <3> QED BY <3>1 DEF Carried, At
  <2>2. CASE FetchLeaves(t)
    <3>1. At(t, "fetch") /\ task'[t].at = "insert" /\ task'[t].nodes = task[t].nodes
      BY <1>1, <2>2, FetchDoes DEF FetchLeaves, CloseOnly
    <3> QED BY <3>1 DEF Carried, At
  <2> QED BY <2>1, <2>2
<1>6. up => Covers(tree' \cup UNION {Carried(u)' : u \in Task}, scopes)
  BY <1>1, <1>2, <1>5, StillOnTheWay
<1> QED BY <1>2, <1>4, <1>6 DEF RowsOnTheWay

\* CacheChain and CacheLeaves put it into the tree.
LEMMA CacheNodesCover ==
    ASSUME CoverInv, CloseOnly, NEW t \in Task, CacheChain(t) \/ CacheLeaves(t)
    PROVE  FlushesAlone' /\ RowsOnTheWay' /\ ImagesCover'
<1>1. TypeOK /\ RowsOnTheWay
  BY DEF CoverInv, CacheInv
<1>2. /\ task[t].at \in {"walk", "insert"} /\ Become(t, Idle)
      /\ tree' = tree \cup task[t].nodes
      /\ UNCHANGED <<scopes, sidecar, up>>
  BY DEF CacheChain, CacheLeaves, At
<1>3. Others(t) /\ task'[t].at = "idle"
  BY <1>1, <1>2, EndDoes
<1>4. \A u \in Task : task'[u].at \notin {"stamp", "save"}
  BY <1>2, <1>3, NoFlush, OthersDoNotFlush
<1>5. FlushesAlone' /\ ImagesCover'
  BY <1>2, <1>4, ImagesKept
<1>6. Carried(t) \subseteq task[t].nodes
  <2>1. CASE CacheChain(t)
    <3>1. At(t, "walk") /\ task[t].cursor = <<>>
      BY <2>1 DEF CacheChain
    <3>2. /\ task[t].path \in Path
          /\ Chain(task[t].path) \subseteq task[t].nodes \cup Chain(<<>>)
      BY <3>1 DEF CoverInv, CacheInv, WalksKeepTheirChain
    <3>3. task[t].path \in task[t].nodes
      BY <3>2, InOwnChain, ChainOfRoot
    <3> QED BY <3>1, <3>3 DEF Carried
  <2>2. CASE CacheLeaves(t)
    BY <2>2 DEF Carried, CacheLeaves, At
  <2> QED BY <2>1, <2>2
<1>7. up => Covers(tree' \cup UNION {Carried(u)' : u \in Task}, scopes)
  BY <1>1, <1>2, <1>3, <1>6, StillOnTheWay
<1> QED BY <1>2, <1>5, <1>7 DEF RowsOnTheWay

\* Where nobody carries anything, the tree covers the table by itself.
LEMMA QuietTreeCovers ==
    ASSUME RowsOnTheWay, up, \A t \in Task : At(t, "idle")
    PROVE  Covers(tree, scopes)
<1>1. \A t \in Task : Carried(t) = {}
  BY DEF Carried, At
<1>2. tree \cup UNION {Carried(t) : t \in Task} = tree
  BY <1>1
<1> QED BY <1>2 DEF RowsOnTheWay

LEMMA CaptureCover ==
    ASSUME CoverInv, CloseOnly, NEW t \in Task, FlushCapture(t)
    PROVE  FlushesAlone' /\ RowsOnTheWay' /\ ImagesCover'
<1>1. TypeOK /\ RowsOnTheWay
  BY DEF CoverInv, CacheInv
<1>2. /\ Others(t) /\ task'[t].at = "stamp"
      /\ \A i \in task'[t].image : i.nodes = tree
  BY <1>1, CaptureDoes
<1>3. /\ up /\ \A u \in Task : At(u, "idle")
      /\ UNCHANGED <<scopes, tree, sidecar, up>>
  BY DEF FlushCapture, CloseOnly, Free
<1>4. Covers(tree, scopes)
  BY <1>1, <1>3, QuietTreeCovers
<1>5. FlushesAlone'
  BY <1>2, <1>3 DEF FlushesAlone, At, Others
<1>6. RowsOnTheWay'
  BY <1>3, <1>4 DEF RowsOnTheWay, Covers
<1>7. ImagesCover'
  <2>1. \A i \in sidecar : Sound(i)'
    BY <1>3, SoundGrows DEF CoverInv, ImagesCover
  <2>2. ASSUME NEW u \in Task, NEW i \in task'[u].image
        PROVE  /\ task'[u].at = "stamp" => Covers(i.nodes, scopes')
               /\ task'[u].at = "save" => Sound(i)'
    <3>1. CASE u = t
      BY <1>2, <1>3, <1>4, <3>1
    <3>2. CASE u # t
      BY <1>2, <1>3, <3>2 DEF Others, At
    <3> QED BY <3>1, <3>2
  <2> QED BY <1>3, <2>1, <2>2 DEF ImagesCover, At
<1> QED BY <1>5, <1>6, <1>7

LEMMA StampCover ==
    ASSUME CoverInv, CloseOnly, NEW t \in Task, FlushStamp(t)
    PROVE  FlushesAlone' /\ RowsOnTheWay' /\ ImagesCover'
<1>1. TypeOK /\ RowsOnTheWay /\ IsFiniteSet(scopes)
  BY DEF CoverInv, CacheInv, RowsBehind
<1>2. /\ Others(t) /\ task'[t].at = "save"
      /\ \A j \in task'[t].image :
            /\ j.scope_count = Cardinality(scopes)
            /\ \E i \in task[t].image : j.nodes = i.nodes
  BY <1>1, StampDoes
<1>3. At(t, "stamp") /\ UNCHANGED <<scopes, tree, sidecar, up>>
  BY DEF FlushStamp
<1>4. \A u \in Task : u # t => At(u, "idle")
  BY <1>3 DEF CoverInv, FlushesAlone, At
<1>5. FlushesAlone'
  BY <1>2, <1>4 DEF FlushesAlone, At, Others
<1>6. Carried(t) = {}
  BY <1>3 DEF Carried, At
<1>7. up => Covers(tree' \cup UNION {Carried(u)' : u \in Task}, scopes)
  BY <1>1, <1>2, <1>3, <1>6, StillOnTheWay
<1>8. ASSUME NEW j \in task'[t].image
      PROVE  Sound(j)'
  <2>1. PICK i \in task[t].image : j.nodes = i.nodes
    BY <1>2
  <2>2. Covers(j.nodes, scopes)
    BY <1>3, <2>1 DEF CoverInv, ImagesCover
  <2> QED BY <1>2, <1>3, <2>2 DEF Sound
<1>9. ImagesCover'
  <2>1. \A i \in sidecar : Sound(i)'
    BY <1>3, SoundGrows DEF CoverInv, ImagesCover
  <2>2. \A u \in Task : u # t => task'[u].at = "idle"
    BY <1>2, <1>4 DEF Others, At
  <2> QED BY <1>2, <1>3, <1>8, <2>1, <2>2 DEF ImagesCover, At
<1> QED BY <1>3, <1>5, <1>7, <1>9 DEF RowsOnTheWay

\* FlushSave, and a flush that fails.
LEMMA FlushEndCover ==
    ASSUME CoverInv, CloseOnly, NEW t \in Task, FlushSave(t) \/ Abandon(t)
    PROVE  FlushesAlone' /\ RowsOnTheWay' /\ ImagesCover'
<1>1. TypeOK /\ RowsOnTheWay
  BY DEF CoverInv, CacheInv
<1>2. /\ task[t].at \in {"stamp", "save"} /\ Become(t, Idle)
      /\ UNCHANGED <<scopes, tree, up>>
      /\ sidecar' = sidecar \/ (At(t, "save") /\ sidecar' = task[t].image)
  BY DEF FlushSave, Abandon, CloseOnly, At
<1>3. Others(t) /\ task'[t].at = "idle"
  BY <1>1, <1>2, EndDoes
<1>4. \A u \in Task : task'[u].at = "idle"
  BY <1>2, <1>3 DEF CoverInv, FlushesAlone, Others, At
<1>5. FlushesAlone'
  BY <1>4 DEF FlushesAlone
<1>6. Carried(t) = {}
  BY <1>2 DEF Carried, At
<1>7. up => Covers(tree' \cup UNION {Carried(u)' : u \in Task}, scopes)
  BY <1>1, <1>2, <1>3, <1>6, StillOnTheWay
<1>8. \A i \in sidecar' : Sound(i)
  BY <1>2 DEF CoverInv, ImagesCover
<1>9. ImagesCover'
  BY <1>2, <1>4, <1>8, SoundGrows DEF ImagesCover, At
<1> QED BY <1>2, <1>5, <1>7, <1>9 DEF RowsOnTheWay

LEMMA CrashCover ==
    ASSUME CoverInv, Crash
    PROVE  FlushesAlone' /\ RowsOnTheWay' /\ ImagesCover'
<1>1. \A t \in Task : task'[t].at = "idle"
  BY IdleState DEF Crash
<1>2. RowsOnTheWay'
  BY DEF RowsOnTheWay, Crash
<1>3. FlushesAlone' /\ ImagesCover'
  BY <1>1, ImagesKept DEF Crash
<1> QED BY <1>2, <1>3

\* An accepted image covers the whole table: there are as many rows as it
\* counted, and those it covers are still there.
LEMMA AcceptedCovers ==
    ASSUME CoverInv, NEW i \in sidecar, i.scope_count = Fingerprint
    PROVE  Covers(i.nodes, scopes)
<1>1. IsFiniteSet(scopes)
  BY DEF CoverInv, CacheInv, RowsBehind
<1>2. PICK rows \in SUBSET scopes :
         Cardinality(rows) = Cardinality(scopes) /\ Covers(i.nodes, rows)
  BY DEF CoverInv, ImagesCover, Sound, Fingerprint
<1>3. rows = scopes
  BY <1>1, <1>2, FS_Subset
<1> QED BY <1>2, <1>3

LEMMA OpenCover ==
    ASSUME CoverInv, Open
    PROVE  FlushesAlone' /\ RowsOnTheWay' /\ ImagesCover'
<1>1. UNCHANGED <<scopes, sidecar, task>>
  BY DEF Open
<1>2. FlushesAlone' /\ ImagesCover'
  BY <1>1, SoundGrows DEF CoverInv, FlushesAlone, ImagesCover, At
<1>3. CASE tree' = scopes
  <2>1. \A p \in scopes : p \in tree' /\ p \in Chain(p)
    BY <1>3, InOwnChain DEF CoverInv, CacheInv, TypeOK
  <2>2. RowsOnTheWay'
    BY <1>1, <2>1 DEF RowsOnTheWay, Covers
  <2> QED BY <1>2, <2>2
<1>4. CASE \E i \in sidecar : i.scope_count = Fingerprint /\ tree' = i.nodes
  <2>1. Covers(tree', scopes)
    BY <1>4, AcceptedCovers
  <2>2. RowsOnTheWay'
    BY <1>1, <2>1 DEF RowsOnTheWay, Covers
  <2> QED BY <1>2, <2>2
<1> QED BY <1>3, <1>4 DEF Open

LEMMA StepCover == CloseOnly /\ CoverInv /\ [Next]_vars => CoverInv'
<1> SUFFICES ASSUME CloseOnly, CoverInv, [Next]_vars PROVE CoverInv'
  OBVIOUS
<1>0. CacheInv'
  BY StepCache DEF CoverInv
<1>1. CASE UNCHANGED vars
  <2>1. FlushesAlone' /\ ImagesCover'
    BY <1>1, SoundGrows DEF vars, CoverInv, FlushesAlone, ImagesCover, At
  <2>2. \A t \in Task : Carried(t)' = Carried(t)
    BY <1>1 DEF vars, Carried, At
  <2>3. RowsOnTheWay'
    BY <1>1, <2>2 DEF vars, CoverInv, RowsOnTheWay
  <2> QED BY <1>0, <2>1, <2>3 DEF CoverInv
<1>2. CASE Crash \/ Open
  BY <1>0, <1>2, CrashCover, OpenCover DEF CoverInv
<1>3. ASSUME NEW t \in Task,
             EnsurePath(t) \/ BatchCommit(t) \/ FlushCapture(t) \/ Continue(t)
                \/ Abandon(t)
      PROVE  CoverInv'
  BY <1>0, <1>3, EnsureCover, BatchCover, CaptureCover, ReadCover, CacheNodesCover,
     StampCover, FlushEndCover DEF Continue, CoverInv
<1> QED BY <1>1, <1>2, <1>3 DEF Next

(* ScopeTree, init_from_pool and the scope counters of DbFingerprint: where  *)
(* close() is the only flush and no call is dropped before its rows are      *)
(* cached, the tree between operations holds no row the table lacks, and     *)
(* every row is cached or lies above a cached one, also after a restart from *)
(* the sidecar.                                                              *)
THEOREM TreeAlwaysCoversScopes == CloseOnly => (Spec => []TreeCoversScopes)
<1> SUFFICES ASSUME CloseOnly PROVE Spec => []TreeCoversScopes
  OBVIOUS
<1>1. CoverInv /\ [Next]_vars => CoverInv'
  BY StepCover
<1>2. CoverInv => TreeCoversScopes
  <2> SUFFICES ASSUME CoverInv, up, \A t \in Task : At(t, "idle")
               PROVE  tree \subseteq scopes /\ Covers(tree, scopes)
    BY DEF TreeCoversScopes, Covers
  <2> QED BY QuietTreeCovers DEF CoverInv, CacheInv, RowsBehind
<1> QED BY <1>1, <1>2, InitCover, PTL DEF Spec

=============================================================================
