---------------------------- MODULE ImportProofs ----------------------------
(***************************************************************************)
(* Theorems about BootstrapImport, for any importers, directories and      *)
(* contents, and any number of calls, failures and crashes: first what     *)
(* the callers and the markers do, then, by induction over the mentions of *)
(* a file and over sets of files and rows, what the facts table holds.     *)
(***************************************************************************)
EXTENDS BootstrapImport, SequenceTheorems, FiniteSetTheorems, WellFoundedInduction,
        TLAPS

\* The type of everything but the facts table.
Tasks == [at : Working \cup {"idle"}, todo : Seq(File)]
ControlOK ==
    /\ skip \in BOOLEAN
    /\ markers \in [Session -> Nat]
    /\ imported \in [File -> Nat]
    /\ orphans \subseteq Importer \X File
    /\ task \in [Importer -> Tasks]
    /\ \A i \in Importer : task[i].at \in {"preparing", "ready"} => task[i].todo # <<>>

(* Whoever imported a session log left its marker. *)
ImportsMarked ==
    skip => \A f \in File : imported[f] > 0 /\ IsSession(f) => markers[SessionOf[f]] > 0

ImportInv == ControlOK /\ ImportsMarked /\ SessionImportedOnce

-----------------------------------------------------------------------------
(* The tasks: what they work on is a file.                                 *)

LEMMA CurrentIsFile ==
    ASSUME ControlOK, NEW i \in Importer, task[i].todo # <<>>
    PROVE  Current(i) \in File /\ Tail(task[i].todo) \in Seq(File)
<1>1. task[i].todo \in Seq(File)
  BY DEF ControlOK, Tasks
<1> QED BY <1>1, HeadTailProperties DEF Current

\* The three ways a task moves on.
LEMMA TaskMoves ==
    ASSUME ControlOK, NEW i \in Importer
    PROVE  /\ task[i].todo # <<>> => [at |-> "next", todo |-> Tail(task[i].todo)] \in Tasks
           /\ [at |-> "next", todo |-> Directory[i]] \in Tasks
           /\ Idle \in Tasks
           /\ \A at \in Working : [task[i] EXCEPT !.at = at] \in Tasks
                  /\ [task[i] EXCEPT !.at = at].todo = task[i].todo
                  /\ [task[i] EXCEPT !.at = at].at = at
<1>1. task[i] \in Tasks
  BY DEF ControlOK
<1>2. task[i].todo # <<>> => Tail(task[i].todo) \in Seq(File)
  BY CurrentIsFile
<1>3. Directory[i] \in Seq(File)
  BY ImportAssumption
<1>4. <<>> \in Seq(File)
  BY EmptySeq
<1> QED BY <1>1, <1>2, <1>3, <1>4 DEF Tasks, Working, Idle

TasksOK ==
    /\ task \in [Importer -> Tasks]
    /\ \A i \in Importer : task[i].at \in {"preparing", "ready"} => task[i].todo # <<>>

LEMMA TaskStep ==
    ASSUME ControlOK, NEW i \in Importer,
           \/ task[i].todo # <<>> /\ NextFile(i)
           \/ task[i].todo # <<>> /\ \E at \in Working : Goto(i, at)
           \/ task' = [task EXCEPT ![i] = [at |-> "next", todo |-> Directory[i]]]
           \/ task' = [task EXCEPT ![i] = Idle]
    PROVE  TasksOK'
<1>1. task \in [Importer -> Tasks]
      /\ \A j \in Importer : task[j].at \in {"preparing", "ready"} => task[j].todo # <<>>
  BY DEF ControlOK
<1>2. CASE task[i].todo # <<>> /\ NextFile(i)
  BY <1>1, <1>2, TaskMoves DEF NextFile, TasksOK
<1>3. ASSUME NEW at \in Working, task[i].todo # <<>>, Goto(i, at) PROVE TasksOK'
  <2> DEFINE t == [task[i] EXCEPT !.at = at]
  <2>1. t \in Tasks /\ t.todo = task[i].todo
    BY TaskMoves
  <2>2. task' = [task EXCEPT ![i] = t]
    BY <1>3, Zenon DEF Goto
  <2> HIDE DEF t
  <2> QED BY <1>1, <1>3, <2>1, <2>2 DEF TasksOK
<1>4. CASE task' = [task EXCEPT ![i] = [at |-> "next", todo |-> Directory[i]]]
  BY <1>1, <1>4, TaskMoves DEF TasksOK
<1>5. CASE task' = [task EXCEPT ![i] = Idle]
  BY <1>1, <1>5, TaskMoves DEF TasksOK, Idle
<1> QED BY <1>2, <1>3, <1>4, <1>5

-----------------------------------------------------------------------------
(* The transaction: with skip_existing a marked session is left alone, so  *)
(* an unmarked one has no imported file yet.                               *)
LEMMA IngestOnce ==
    ASSUME ImportInv, NEW f \in File, Ingest(f), UNCHANGED skip
    PROVE  /\ markers' \in [Session -> Nat] /\ imported' \in [File -> Nat]
           /\ ImportsMarked' /\ SessionImportedOnce'
<1>0. /\ markers \in [Session -> Nat] /\ imported \in [File -> Nat] /\ skip \in BOOLEAN
      /\ SessionOf \in [File -> Session \cup {NoSession}] /\ NoSession \notin Session
  BY ImportAssumption DEF ImportInv, ControlOK
<1>1. CASE Marked(f)
  BY <1>0, <1>1 DEF Ingest, ImportInv, ImportsMarked, SessionImportedOnce, IsSession
<1>2. CASE ~Marked(f)
  <2>1. /\ imported' = [imported EXCEPT ![f] = @ + 1]
        /\ markers' = IF IsSession(f) THEN [markers EXCEPT ![SessionOf[f]] = @ + 1] ELSE markers
    BY <1>2 DEF Ingest, Batch
  <2>2. /\ \A g \in File : imported'[g] = IF g = f THEN imported[g] + 1 ELSE imported[g]
        /\ \A s \in Session : markers'[s] = IF s = SessionOf[f] THEN markers[s] + 1 ELSE markers[s]
        /\ markers' \in [Session -> Nat] /\ imported' \in [File -> Nat]
    BY <1>0, <2>1 DEF IsSession
  <2>3. ASSUME skip, IsSession(f)
        PROVE  /\ markers[SessionOf[f]] = 0
               /\ \A g \in File : SessionOf[g] = SessionOf[f] => imported[g] = 0
    <3>1. markers[SessionOf[f]] = 0 /\ SessionOf[f] \in Session
      BY <1>0, <1>2, <2>3 DEF Marked, IsSession
    <3>2. ASSUME NEW g \in File, SessionOf[g] = SessionOf[f] PROVE ~(imported[g] > 0)
      BY <2>3, <3>1, <3>2 DEF ImportInv, ImportsMarked, IsSession
    <3> QED BY <1>0, <3>1, <3>2
  <2>4. ImportsMarked'
    <3> SUFFICES ASSUME skip, NEW g \in File, imported'[g] > 0, IsSession(g)
                 PROVE  markers'[SessionOf[g]] > 0
      BY DEF ImportsMarked, IsSession
    <3>1. SessionOf[g] \in Session
      BY <1>0 DEF IsSession
    <3>2. g # f => markers[SessionOf[g]] > 0
      BY <2>2 DEF ImportInv, ImportsMarked
    <3> QED BY <1>0, <2>2, <3>1, <3>2
  <2>5. SessionImportedOnce'
    <3> SUFFICES ASSUME skip, NEW s \in Session
                 PROVE  /\ markers'[s] <= 1
                        /\ \A g, h \in File : SessionOf[g] = s /\ SessionOf[h] = s
                               /\ imported'[g] > 0 /\ imported'[h] > 0 => g = h
      BY DEF SessionImportedOnce
    <3>1. /\ markers[s] <= 1
          /\ \A g, h \in File : SessionOf[g] = s /\ SessionOf[h] = s
                 /\ imported[g] > 0 /\ imported[h] > 0 => g = h
      BY DEF ImportInv, SessionImportedOnce
    <3>2. CASE s = SessionOf[f]
      <4>1. IsSession(f)
        BY <1>0, <3>2 DEF IsSession
      <4>2. markers[s] = 0 /\ \A g \in File : SessionOf[g] = s => imported[g] = 0
        BY <2>3, <3>2, <4>1
      <4> QED BY <1>0, <2>2, <3>2, <4>2
    <3>3. CASE s # SessionOf[f]
      BY <2>2, <3>1, <3>3
    <3> QED BY <3>2, <3>3
  <2> QED BY <2>2, <2>4, <2>5
<1> QED BY <1>1, <1>2

-----------------------------------------------------------------------------
LEMMA InitImport == Init => ImportInv
<1> SUFFICES ASSUME Init PROVE ImportInv
  OBVIOUS
<1>1. Idle \in Tasks /\ Idle.at = "idle"
  BY EmptySeq DEF Idle, Tasks
<1> QED BY <1>1 DEF Init, ImportInv, ControlOK, ImportsMarked, SessionImportedOnce

\* A step that leaves markers and imports alone has only tasks to answer for.
LEMMA ControlStep ==
    ASSUME ImportInv, TasksOK', orphans' \subseteq Importer \X File,
           UNCHANGED <<skip, markers, imported>>
    PROVE  ImportInv'
BY DEF ImportInv, ControlOK, TasksOK, ImportsMarked, SessionImportedOnce, IsSession

LEMMA NextImport == ImportInv /\ [Next]_vars => ImportInv'
<1> SUFFICES ASSUME ImportInv, [Next]_vars PROVE ImportInv'
  OBVIOUS
<1>0. ControlOK /\ TasksOK /\ orphans \subseteq Importer \X File
  BY DEF ImportInv, ControlOK, TasksOK
<1>1. CASE Crash
  <2>1. Idle \in Tasks /\ Idle.at = "idle"
    BY EmptySeq DEF Idle, Tasks
  <2>2. TasksOK'
    BY <1>1, <2>1 DEF Crash, TasksOK
  <2> QED BY <1>1, <2>2, ControlStep DEF Crash
<1>2. ASSUME NEW r \in DOMAIN rows, Expire(r) PROVE ImportInv'
  <2>1. TasksOK'
    BY <1>0, <1>2 DEF Expire, TasksOK
  <2> QED BY <1>0, <1>2, <2>1, ControlStep DEF Expire
<1>3. ASSUME NEW o \in orphans, OrphanCommits(o) PROVE ImportInv'
  <2>1. o[2] \in File /\ Ingest(o[2]) /\ orphans' \subseteq orphans /\ UNCHANGED <<skip, task>>
    BY <1>0, <1>3 DEF OrphanCommits
  <2>2. /\ markers' \in [Session -> Nat] /\ imported' \in [File -> Nat]
        /\ ImportsMarked' /\ SessionImportedOnce'
    BY <2>1, IngestOnce
  <2> QED BY <1>0, <2>1, <2>2 DEF ImportInv, ControlOK
<1>4. ASSUME NEW i \in Importer, Commit(i) PROVE ImportInv'
  <2>1. task[i].todo # <<>>
    BY <1>0, <1>4 DEF Commit, ControlOK
  <2>2. Current(i) \in File /\ TasksOK'
    BY <1>0, <1>4, <2>1, CurrentIsFile, TaskStep DEF Commit
  <2>3. Ingest(Current(i)) /\ UNCHANGED <<skip, orphans>>
    BY <1>4 DEF Commit
  <2>4. /\ markers' \in [Session -> Nat] /\ imported' \in [File -> Nat]
        /\ ImportsMarked' /\ SessionImportedOnce'
    BY <2>2, <2>3, IngestOnce
  <2> QED BY <1>0, <2>2, <2>3, <2>4 DEF ImportInv, ControlOK, TasksOK
<1>5. ASSUME NEW i \in Importer,
             Begin(i) \/ Unreadable(i) \/ CheckMarker(i) \/ Return(i)
      PROVE  ImportInv'
  <2>1. TasksOK'
    <3>1. CASE Begin(i)
      BY <1>0, <3>1, TaskStep DEF Begin
    <3>2. CASE Unreadable(i)
      BY <1>0, <3>2, TaskStep DEF Unreadable
    <3>3. CASE CheckMarker(i)
      <4>1. "preparing" \in Working
        BY DEF Working
      <4> QED BY <1>0, <3>3, <4>1, TaskStep DEF CheckMarker
    <3>4. CASE Return(i)
      BY <1>0, <3>4, TaskStep DEF Return
    <3> QED BY <1>5, <3>1, <3>2, <3>3, <3>4
  <2>2. UNCHANGED <<skip, markers, imported, orphans>>
    BY <1>5 DEF Begin, Unreadable, CheckMarker, Return
  <2> QED BY <1>0, <2>1, <2>2, ControlStep
<1>6. ASSUME NEW i \in Importer, Prepare(i) \/ CommitFails(i) PROVE ImportInv'
  <2>1. task[i].todo # <<>> /\ "ready" \in Working
    BY <1>0, <1>6 DEF Prepare, CommitFails, ControlOK, Working
  <2>2. Goto(i, "ready") \/ Fail(i)
    BY <1>6 DEF Prepare, CommitFails
  <2>3. TasksOK'
    BY <1>0, <2>1, <2>2, TaskStep DEF Fail
  <2>4. UNCHANGED <<skip, markers, imported, orphans>>
    BY <1>6 DEF Prepare, CommitFails
  <2> QED BY <1>0, <2>3, <2>4, ControlStep
<1>7. ASSUME NEW i \in Importer, Drop(i) PROVE ImportInv'
  <2>1. TasksOK'
    BY <1>0, <1>7, TaskStep DEF Drop
  <2>2. orphans' \subseteq Importer \X File
    <3>1. CASE task[i].at = "ready"
      <4>1. Current(i) \in File
        BY <1>0, <3>1, CurrentIsFile DEF ControlOK
      <4> QED BY <1>0, <1>7, <4>1 DEF Drop
    <3>2. CASE task[i].at # "ready"
      BY <1>0, <1>7, <3>2 DEF Drop
    <3> QED BY <3>1, <3>2
  <2>3. UNCHANGED <<skip, markers, imported>>
    BY <1>7 DEF Drop
  <2> QED BY <2>1, <2>2, <2>3, ControlStep
<1>8. CASE UNCHANGED vars
  <2>1. TasksOK'
    BY <1>0, <1>8 DEF vars, TasksOK
  <2> QED BY <1>0, <1>8, <2>1, ControlStep DEF vars
<1> QED BY <1>1, <1>2, <1>3, <1>4, <1>5, <1>6, <1>7, <1>8 DEF Next

(* With skip_existing no session is imported twice, for any number of        *)
(* importers, cancelled calls whose closure goes on, failures and crashes:   *)
(* the guard of ingest_bootstrap_batch_atomic decides under the write lock.  *)
THEOREM NoSessionImportedTwice == Spec => []SessionImportedOnce
<1>1. Spec => []ImportInv
  BY InitImport, NextImport, PTL DEF Spec
<1>2. ImportInv => SessionImportedOnce
  BY DEF ImportInv
<1> QED BY <1>1, <1>2, PTL

-----------------------------------------------------------------------------
(* Induction over data.  A false instance of what is to be shown would     *)
(* have a smallest one, and a fold over a finite set is a function on its  *)
(* subsets that exists because it does so for the smaller ones.            *)

LEMMA Smallest ==
    ASSUME NEW N \in SUBSET Nat, N # {}
    PROVE  \E n \in N : \A m \in N : n <= m
<1>1. PICK n \in N : \A m \in N : <<m, n>> \notin OpToRel(<, Nat)
  BY NatLessThanWellFounded, WFMin, Zenon
<1>2. \A m \in N : ~(m < n)
  BY <1>1 DEF OpToRel
<1> QED BY <1>2

LEMMA SmallestSet ==
    ASSUME NEW S, IsFiniteSet(S), NEW Sets \in SUBSET SUBSET S, Sets # {}
    PROVE  \E X \in Sets : \A Y \in Sets : Y \subseteq X => Y = X
<1> DEFINE sizes == {Cardinality(X) : X \in Sets}
<1>1. \A X \in Sets : IsFiniteSet(X) /\ Cardinality(X) \in Nat
  BY FS_Subset, FS_CardinalityType
<1>2. sizes \in SUBSET Nat /\ sizes # {}
  BY <1>1
<1>3. PICK n \in sizes : \A m \in sizes : n <= m
  BY <1>2, Smallest
<1>4. PICK X \in Sets : n = Cardinality(X)
  BY <1>3
<1>5. \A Y \in Sets : Y \subseteq X => Cardinality(Y) = Cardinality(X)
  BY <1>1, <1>3, <1>4, FS_Subset
<1> QED BY <1>1, <1>5, FS_Subset

\* Every set of numbers below a bound has a largest element.
LEMMA Largest ==
    ASSUME NEW n \in Nat, NEW N \in SUBSET (1..n), N # {}
    PROVE  Max(N) \in N /\ \A m \in N : m <= Max(N)
<1> DEFINE above == {n - m : m \in N}
<1>1. above \in SUBSET Nat /\ above # {}
  OBVIOUS
<1>2. PICK d \in above : \A e \in above : d <= e
  BY <1>1, Smallest
<1>3. PICK m \in N : d = n - m
  BY <1>2
<1>4. \A k \in N : k <= m
  <2> SUFFICES ASSUME NEW k \in N PROVE k <= m
    OBVIOUS
  <2>1. n - k \in above
    OBVIOUS
  <2>2. n - m <= n - k
    BY <1>2, <1>3, <2>1
  <2> QED BY <2>2
<1>5. \E k \in N : \A j \in N : k >= j
  BY <1>4
<1>6. Max(N) \in N /\ \A j \in N : Max(N) >= j
  BY <1>5 DEF Max
<1> QED BY <1>6

Folds(it, S, base, step, pick) ==
    \A X \in SUBSET S :
        it[X] = IF X = {} THEN base ELSE step[<<it[X \ {pick[X]}], pick[X]>>]

LEMMA FoldExists ==
    ASSUME NEW S, IsFiniteSet(S), NEW A, NEW base \in A, NEW step \in [A \X S -> A],
           NEW pick, \A X \in SUBSET S : X # {} => pick[X] \in X
    PROVE  \E it \in [SUBSET S -> A] : Folds(it, S, base, step, pick)
<1> DEFINE Upto(n) == {X \in SUBSET S : Cardinality(X) <= n}
           Good(n) == \E it \in [Upto(n) -> A] :
                        \A X \in Upto(n) :
                          it[X] = IF X = {} THEN base
                                  ELSE step[<<it[X \ {pick[X]}], pick[X]>>]
           bad == {n \in Nat : ~Good(n)}
<1>1. \A X \in SUBSET S : IsFiniteSet(X) /\ Cardinality(X) \in Nat
  BY FS_Subset, FS_CardinalityType
<1>2. \A X \in SUBSET S : X # {} =>
        /\ X \ {pick[X]} \in SUBSET S
        /\ Cardinality(X \ {pick[X]}) = Cardinality(X) - 1
  BY <1>1, FS_RemoveElement
<1>3. \A X \in SUBSET S : Cardinality(X) = 0 <=> X = {}
  BY <1>1, FS_EmptySet
<1>4. Good(0)
  <2>1. Upto(0) = {{}}
    BY <1>1, <1>3
  <2>2. [X \in {{}} |-> base] \in [{{}} -> A]
    OBVIOUS
  <2>3. \A X \in {{}} : [Y \in {{}} |-> base][X] =
          IF X = {} THEN base
          ELSE step[<<[Y \in {{}} |-> base][X \ {pick[X]}], pick[X]>>]
    OBVIOUS
  <2> HIDE DEF Upto
  <2> QED BY <2>1, <2>2, <2>3
<1>5. ASSUME NEW n \in Nat, Good(n) PROVE Good(n + 1)
  <2>1. PICK it \in [Upto(n) -> A] :
          \A X \in Upto(n) :
            it[X] = IF X = {} THEN base ELSE step[<<it[X \ {pick[X]}], pick[X]>>]
    BY <1>5
  <2>2. \A X \in Upto(n + 1) : X # {} => X \ {pick[X]} \in Upto(n) /\ pick[X] \in S
    BY <1>1, <1>2
  <2>3. Upto(n) \subseteq Upto(n + 1) /\ {} \in Upto(n)
    BY <1>1, <1>3
  <2> HIDE DEF Upto
  <2> DEFINE jt == [X \in Upto(n + 1) |->
                      IF X = {} THEN base
                      ELSE step[<<it[X \ {pick[X]}], pick[X]>>]]
  <2>4. \A X \in Upto(n) : jt[X] = it[X]
    BY <2>1, <2>3
  <2>5. jt \in [Upto(n + 1) -> A]
    <3> SUFFICES ASSUME NEW X \in Upto(n + 1), X # {}
                 PROVE  step[<<it[X \ {pick[X]}], pick[X]>>] \in A
      OBVIOUS
    <3>1. it[X \ {pick[X]}] \in A /\ pick[X] \in S
      BY <2>2
    <3> QED BY <3>1
  <2>6. \A X \in Upto(n + 1) :
          jt[X] = IF X = {} THEN base ELSE step[<<jt[X \ {pick[X]}], pick[X]>>]
    <3> SUFFICES ASSUME NEW X \in Upto(n + 1), X # {}
                 PROVE  jt[X] = step[<<jt[X \ {pick[X]}], pick[X]>>]
      OBVIOUS
    <3>1. jt[X \ {pick[X]}] = it[X \ {pick[X]}]
      BY <2>2, <2>4
    <3> QED BY <3>1
  <2> HIDE DEF jt
  <2> QED BY <2>5, <2>6
<1> HIDE DEF Good
<1>6. bad = {}
  <2> SUFFICES ASSUME bad # {} PROVE FALSE
    OBVIOUS
  <2>1. PICK n \in bad : \A m \in bad : n <= m
    BY Smallest
  <2>2. n # 0
    BY <1>4
  <2>3. n - 1 \in Nat /\ n - 1 \notin bad
    BY <2>1, <2>2
  <2>4. Good((n - 1) + 1)
    BY <1>5, <2>3
  <2> QED BY <2>4
<1>7. Cardinality(S) \in Nat
  BY FS_CardinalityType
<1>8. Good(Cardinality(S))
  BY <1>6, <1>7
<1>9. Upto(Cardinality(S)) = SUBSET S
  BY FS_Subset
<1> QED BY <1>8, <1>9 DEF Good, Folds

-----------------------------------------------------------------------------
(* One insert.                                                             *)
Mention == [content : Content, at : Nat, weight : Nat]

LEMMA RowMaths ==
    ASSUME NEW row \in Row, NEW m \in Mention
    PROVE  LET new == Reinforced(row, m) IN
           /\ new \in Row
           /\ new.content = row.content /\ new.active = row.active
           /\ new.access = row.access + 1
           /\ new.created = IF row.created < m.at THEN row.created ELSE m.at
           /\ new.accessed = IF row.accessed < m.at THEN m.at ELSE row.accessed
           /\ new.weight = IF row.weight < m.weight THEN m.weight ELSE row.weight
<1> DEFINE new == Reinforced(row, m)
<1>1. /\ row \in [content : Content, active : BOOLEAN, access : Nat,
                  created : Nat, accessed : Nat, weight : Nat]
      /\ m.at \in Nat /\ m.weight \in Nat
  BY DEF Row, Mention
<1>2. /\ Smaller(row.created, m.at) = (IF row.created < m.at THEN row.created ELSE m.at)
      /\ Larger(row.accessed, m.at) = (IF row.accessed < m.at THEN m.at ELSE row.accessed)
      /\ Larger(row.weight, m.weight) = (IF row.weight < m.weight THEN m.weight ELSE row.weight)
  BY DEF Smaller, Larger
<1>3. /\ Smaller(row.created, m.at) \in Nat /\ Larger(row.accessed, m.at) \in Nat
      /\ Larger(row.weight, m.weight) \in Nat
  BY <1>1, <1>2
<1>4. /\ new \in Row
      /\ new.content = row.content /\ new.active = row.active
      /\ new.access = row.access + 1
      /\ new.created = Smaller(row.created, m.at)
      /\ new.accessed = Larger(row.accessed, m.at)
      /\ new.weight = Larger(row.weight, m.weight)
  <2> DEFINE n == row.access + 1
             c == Smaller(row.created, m.at)
             d == Larger(row.accessed, m.at)
             w == Larger(row.weight, m.weight)
  <2>1. n \in Nat /\ c \in Nat /\ d \in Nat /\ w \in Nat
    BY <1>1, <1>3
  <2>2. new = [row EXCEPT !.access = n, !.created = c, !.accessed = d, !.weight = w]
    BY DEF Reinforced
  <2> HIDE DEF new, n, c, d, w
  <2>3. /\ new \in Row /\ new.content = row.content /\ new.active = row.active
        /\ new.access = n /\ new.created = c /\ new.accessed = d /\ new.weight = w
    BY <2>1, <2>2 DEF Row
  <2> QED BY <2>3 DEF n, c, d, w
<1> HIDE DEF new
<1> QED BY <1>2, <1>4 DEF new

\* The two things an insert does to a table.
NewRowIn(table, m, new) ==
    /\ Same(table, m.content) = {}
    /\ new = Append(table, NewRow(m)) /\ NewRow(m) \in Row
    /\ DOMAIN new = DOMAIN table \cup {Len(table) + 1}
    /\ Len(table) + 1 \notin DOMAIN table
    /\ new[Len(table) + 1] = NewRow(m)
    /\ \A r \in DOMAIN table : new[r] = table[r]
ReinforcedIn(table, m, new, r) ==
    /\ r \in Same(table, m.content)
    /\ new = [table EXCEPT ![r] = Reinforced(table[r], m)]
    /\ Reinforced(table[r], m) \in Row
    /\ DOMAIN new = DOMAIN table
    /\ new[r] = Reinforced(table[r], m)
    /\ \A q \in DOMAIN table \ {r} : new[q] = table[q]

LEMMA InsertShape ==
    ASSUME NEW table \in Seq(Row), NEW m \in Mention
    PROVE  \/ NewRowIn(table, m, InsertOrReinforce(table, m))
           \/ \E r \in DOMAIN table : ReinforcedIn(table, m, InsertOrReinforce(table, m), r)
<1> DEFINE same == Same(table, m.content)
           new == InsertOrReinforce(table, m)
<1>1. CASE same = {}
  <2>1. new = Append(table, NewRow(m))
    BY <1>1 DEF InsertOrReinforce
  <2>2. NewRow(m) \in Row
    BY DEF NewRow, Row, Mention
  <2>3. /\ DOMAIN table = 1..Len(table) /\ Len(table) \in Nat
        /\ DOMAIN new = 1..(Len(table) + 1)
        /\ new[Len(table) + 1] = NewRow(m)
        /\ \A r \in 1..Len(table) : new[r] = table[r]
    <3> HIDE DEF new
    <3> QED BY <2>1, <2>2, AppendProperties
  <2>4. 1..(Len(table) + 1) = 1..Len(table) \cup {Len(table) + 1}
    BY <2>3
  <2> HIDE DEF new, same
  <2>5. NewRowIn(table, m, new)
    BY <1>1, <2>1, <2>2, <2>3, <2>4 DEF NewRowIn, same
  <2> QED BY <2>5 DEF new
<1>2. CASE same # {}
  <2>1. DOMAIN table = 1..Len(table) /\ Len(table) \in Nat /\ same \in SUBSET (1..Len(table))
    BY DEF Same
  <2>2. PICK least \in same : \A q \in same : least <= q
    <3>1. same \in SUBSET Nat
      BY <2>1
    <3> QED BY <1>2, <3>1, Smallest
  <2> DEFINE r == Min(same)
  <2>3. r \in same
    <3> HIDE DEF same
    <3> QED BY <2>2 DEF Min
  <2>4. new = [table EXCEPT ![r] = Reinforced(table[r], m)]
    BY <1>2 DEF InsertOrReinforce
  <2>5. r \in DOMAIN table /\ r \in Same(table, m.content)
    BY <2>1, <2>3
  <2> HIDE DEF r, same, new
  <2>6. Reinforced(table[r], m) \in Row
    <3>1. table[r] \in Row
      BY <2>1, <2>5
    <3> QED BY <3>1, RowMaths
  <2>7. DOMAIN new = DOMAIN table
        /\ \A q \in DOMAIN table :
              new[q] = IF q = r THEN Reinforced(table[r], m) ELSE table[q]
    BY <2>4
  <2>8. ReinforcedIn(table, m, new, r)
    <3>1. new[r] = Reinforced(table[r], m) /\ \A q \in DOMAIN table \ {r} : new[q] = table[q]
      BY <2>5, <2>7
    <3> QED BY <2>4, <2>5, <2>6, <2>7, <3>1 DEF ReinforcedIn
  <2> QED BY <2>5, <2>8 DEF new
<1> QED BY <1>1, <1>2

LEMMA InsertTyped ==
    ASSUME NEW table \in Seq(Row), NEW m \in Mention
    PROVE  InsertOrReinforce(table, m) \in Seq(Row)
<1> DEFINE new == InsertOrReinforce(table, m)
<1>1. CASE NewRowIn(table, m, new)
  <2> HIDE DEF new
  <2>1. NewRow(m) \in Row /\ new = Append(table, NewRow(m))
    BY <1>1 DEF NewRowIn
  <2>2. new \in Seq(Row)
    BY <2>1, AppendProperties
  <2> QED BY <2>2 DEF new
<1>2. ASSUME NEW r \in DOMAIN table, ReinforcedIn(table, m, new, r)
      PROVE  new \in Seq(Row)
  <2>1. r \in 1..Len(table)
    OBVIOUS
  <2> HIDE DEF new
  <2> QED BY <1>2, <2>1, ExceptSeq DEF ReinforcedIn
<1> QED BY <1>1, <1>2, InsertShape

(* A batch is its mentions inserted one after the other. *)
LEMMA FoldInserts ==
    ASSUME NEW table \in Seq(Row), NEW s \in Seq(Mention)
    PROVE  \E it \in [0..Len(s) -> Seq(Row)] :
              /\ it[0] = table
              /\ \A k \in 1..Len(s) : it[k] = InsertOrReinforce(it[k - 1], s[k])
              /\ FoldLeft(InsertOrReinforce, table, s) = it[Len(s)]
<1> DEFINE S == DOMAIN s
           step == [p \in Seq(Row) \X S |-> InsertOrReinforce(p[1], s[p[2]])]
           pick == [X \in SUBSET S |-> Max(X)]
           Body(it) == [t \in SUBSET S |->
                          IF t = {} THEN table
                          ELSE InsertOrReinforce(it[t \ {Max(t)}], s[Max(t)])]
           F == CHOOSE it : it = Body(it)
<1>1. FoldLeft(InsertOrReinforce, table, s) = F[S]
  BY Zenon DEF FoldLeft, MapThenFoldSet
<1>2. S = 1..Len(s) /\ Len(s) \in Nat /\ IsFiniteSet(S) /\ \A k \in S : s[k] \in Mention
  BY FS_Interval
<1>3. \A X \in SUBSET S : X # {} => pick[X] = Max(X) /\ Max(X) \in X
  BY <1>2, Largest
<1>4. step \in [Seq(Row) \X S -> Seq(Row)]
  <2> SUFFICES ASSUME NEW t \in Seq(Row), NEW k \in S
               PROVE  InsertOrReinforce(t, s[k]) \in Seq(Row)
    OBVIOUS
  <2>1. s[k] \in Mention
    BY <1>2
  <2> QED BY <2>1, InsertTyped
<1>5. F = Body(F)
  <2>1. PICK it \in [SUBSET S -> Seq(Row)] : Folds(it, S, table, step, pick)
    <3>1. \A X \in SUBSET S : X # {} => pick[X] \in X
      BY <1>3
    <3> HIDE DEF step, pick, S, Body, F
    <3> QED BY <1>2, <1>4, <3>1, FoldExists
  <2>2. \A X \in SUBSET S : X # {} =>
          step[<<it[X \ {pick[X]}], pick[X]>>] = InsertOrReinforce(it[X \ {Max(X)}], s[Max(X)])
    <3> SUFFICES ASSUME NEW X \in SUBSET S, X # {}
                 PROVE  step[<<it[X \ {pick[X]}], pick[X]>>]
                            = InsertOrReinforce(it[X \ {Max(X)}], s[Max(X)])
      OBVIOUS
    <3>1. pick[X] = Max(X) /\ Max(X) \in S /\ it[X \ {Max(X)}] \in Seq(Row)
      BY <1>3
    <3> HIDE DEF pick, S
    <3> QED BY <3>1
  <2>3. it = Body(it)
    <3> HIDE DEF S, step, pick
    <3> QED BY <2>1, <2>2 DEF Folds
  <2> HIDE DEF Body
  <2> QED BY <2>3
<1> DEFINE G == [k \in 0..Len(s) |-> F[1..k]]
<1>6. \A k \in 0..Len(s) : 1..k \in SUBSET S /\ G[k] = F[1..k]
  BY <1>2
<1>7. F[1..0] = table
  <2> HIDE DEF F
  <2>1. 1..0 = {}
    OBVIOUS
  <2> QED BY <1>5, <2>1
<1>8. \A k \in 1..Len(s) : F[1..k] = InsertOrReinforce(F[1..(k - 1)], s[k])
  <2> SUFFICES ASSUME NEW k \in 1..Len(s)
               PROVE  F[1..k] = InsertOrReinforce(F[1..(k - 1)], s[k])
    OBVIOUS
  <2>1. 1..k \in SUBSET S /\ k \in 1..k /\ k \in Nat
    BY <1>2
  <2>2. Max(1..k) = k
    <3>1. Max(1..k) \in 1..k /\ \A m \in 1..k : m <= Max(1..k)
      <4>1. 1..k \in SUBSET (1..k) /\ 1..k # {}
        BY <2>1
      <4> QED BY <2>1, <4>1, Largest
    <3> QED BY <2>1, <3>1
  <2>3. (1..k) \ {k} = 1..(k - 1)
    BY <2>1
  <2>4. 1..k # {}
    BY <2>1
  <2> HIDE DEF F, S
  <2> QED BY <1>5, <2>1, <2>2, <2>3, <2>4
<1> HIDE DEF F, Body, step, pick
<1>9. \A k \in 0..Len(s) : G[k] \in Seq(Row)
  <2> DEFINE bad == {k \in 0..Len(s) : G[k] \notin Seq(Row)}
  <2> SUFFICES ASSUME bad # {} PROVE FALSE
    OBVIOUS
  <2>1. PICK k \in bad : \A j \in bad : k <= j
    <3>1. bad \in SUBSET Nat
      BY <1>2
    <3> HIDE DEF bad
    <3> QED BY <3>1, Smallest
  <2>2. k # 0
    BY <1>2, <1>6, <1>7
  <2>3. k - 1 \in 0..Len(s) /\ k - 1 \notin bad /\ k \in 1..Len(s)
    BY <1>2, <2>1, <2>2
  <2>4. F[1..(k - 1)] \in Seq(Row)
    BY <1>6, <2>3
  <2>5. s[k] \in Mention
    BY <1>2, <2>3
  <2>6. F[1..k] \in Seq(Row)
    BY <1>8, <2>3, <2>4, <2>5, InsertTyped
  <2> QED BY <1>6, <2>6
<1>10. G \in [0..Len(s) -> Seq(Row)]
  BY <1>9
<1>11. G[0] = table /\ G[Len(s)] = FoldLeft(InsertOrReinforce, table, s)
  BY <1>1, <1>2, <1>6, <1>7
<1>12. \A k \in 1..Len(s) : G[k] = InsertOrReinforce(G[k - 1], s[k])
  <2> SUFFICES ASSUME NEW k \in 1..Len(s) PROVE G[k] = InsertOrReinforce(G[k - 1], s[k])
    OBVIOUS
  <2>1. k \in 0..Len(s) /\ k - 1 \in 0..Len(s)
    BY <1>2
  <2> QED BY <1>6, <1>8, <2>1
<1> HIDE DEF G
<1> QED BY <1>10, <1>11, <1>12

-----------------------------------------------------------------------------
(* Sums over finite sets, in whatever order the elements are taken.        *)
Some(X) == CHOOSE x \in X : TRUE

Sums(F, g, S) ==
    \A X \in SUBSET S : F[X] = IF X = {} THEN 0 ELSE g[Some(X)] + F[X \ {Some(X)}]

\* What is summed are numbers.
AreNaturals(g, S) == \A x \in S : g[x] \in Nat

Total(g, S) == LET F == CHOOSE F \in [SUBSET S -> Nat] : Sums(F, g, S) IN F[S]

LEMMA SumsExist ==
    ASSUME NEW g, NEW S, IsFiniteSet(S), AreNaturals(g, S)
    PROVE  \E F \in [SUBSET S -> Nat] : Sums(F, g, S)
<1> DEFINE step == [p \in Nat \X S |-> g[p[2]] + p[1]]
           pick == [X \in SUBSET S |-> Some(X)]
<1>1. step \in [Nat \X S -> Nat]
  BY DEF AreNaturals
<1>2. \A X \in SUBSET S : X # {} => pick[X] = Some(X) /\ Some(X) \in X
  BY DEF Some
<1>3. PICK F \in [SUBSET S -> Nat] : Folds(F, S, 0, step, pick)
  <2>1. \A X \in SUBSET S : X # {} => pick[X] \in X
    BY <1>2
  <2>2. 0 \in Nat
    OBVIOUS
  <2> HIDE DEF step, pick
  <2> QED BY <1>1, <2>1, <2>2, FoldExists
<1>4. ASSUME NEW X \in SUBSET S, X # {}
      PROVE  F[X] = g[Some(X)] + F[X \ {Some(X)}]
  <2>1. F[X] = step[<<F[X \ {pick[X]}], pick[X]>>]
    BY <1>3, <1>4 DEF Folds
  <2>2. pick[X] = Some(X) /\ Some(X) \in S /\ F[X \ {Some(X)}] \in Nat
    BY <1>2, <1>4
  <2> HIDE DEF pick
  <2> QED BY <2>1, <2>2
<1>5. F[{}] = 0
  BY <1>3 DEF Folds
<1> QED BY <1>4, <1>5 DEF Sums

(* Two sums agree wherever their summands do. *)
LEMMA SumsAgree ==
    ASSUME NEW S, NEW R, NEW X \in SUBSET (S \cap R), IsFiniteSet(X),
           NEW F, NEW G, NEW g, NEW h,
           Sums(F, g, S), Sums(G, h, R), \A x \in X : g[x] = h[x]
    PROVE  F[X] = G[X]
<1> DEFINE bad == {Y \in SUBSET X : F[Y] # G[Y]}
<1> SUFFICES ASSUME bad # {} PROVE FALSE
  OBVIOUS
<1>1. PICK Y \in bad : \A Z \in bad : Z \subseteq Y => Z = Y
  <2>1. bad \in SUBSET SUBSET X
    OBVIOUS
  <2> HIDE DEF bad
  <2> QED BY <2>1, SmallestSet
<1>2. Y \in SUBSET S /\ Y \in SUBSET R /\ Y \in SUBSET X /\ F[Y] # G[Y]
  OBVIOUS
<1>3. Y # {}
  BY <1>2 DEF Sums
<1>4. Some(Y) \in Y
  BY <1>3 DEF Some
<1>5. F[Y \ {Some(Y)}] = G[Y \ {Some(Y)}]
  BY <1>1, <1>4
<1> QED BY <1>2, <1>3, <1>4, <1>5 DEF Sums

LEMMA TotalIs ==
    ASSUME NEW g, NEW S, IsFiniteSet(S), AreNaturals(g, S), NEW F,
           Sums(F, g, S)
    PROVE  Total(g, S) = F[S]
<1> DEFINE G == CHOOSE F_1 \in [SUBSET S -> Nat] : Sums(F_1, g, S)
<1>1. G \in [SUBSET S -> Nat] /\ Sums(G, g, S)
  BY SumsExist
<1>2. Total(g, S) = G[S]
  BY DEF Total
<1> HIDE DEF G
<1> QED BY <1>1, <1>2, SumsAgree

(* An element may be taken first. *)
LEMMA SumsTake ==
    ASSUME NEW g, NEW S, IsFiniteSet(S), AreNaturals(g, S),
           NEW F, Sums(F, g, S), \A X \in SUBSET S : F[X] \in Nat, NEW x \in S
    PROVE  F[S] = g[x] + F[S \ {x}]
<1> DEFINE bad == {Y \in SUBSET S : \E z \in Y : F[Y] # g[z] + F[Y \ {z}]}
<1>1. CASE bad = {}
  BY <1>1
<1>2. CASE bad # {}
  <2>1. PICK Y \in bad : \A Z \in bad : Z \subseteq Y => Z = Y
    <3>1. bad \in SUBSET SUBSET S
      OBVIOUS
    <3> HIDE DEF bad
    <3> QED BY <1>2, <3>1, SmallestSet
  <2>2. Y \in SUBSET S
    OBVIOUS
  <2>3. PICK z \in Y : F[Y] # g[z] + F[Y \ {z}]
    OBVIOUS
  <2> DEFINE y == Some(Y)
  <2>4. y \in Y
    BY <2>3 DEF Some
  <2>5. F[Y] = g[y] + F[Y \ {y}]
    BY <2>2, <2>3 DEF Sums
  <2> HIDE DEF y
  <2>6. y # z
    BY <2>3, <2>5
  <2>7. \A w \in Y : \A v \in Y \ {w} :
          F[Y \ {w}] = g[v] + F[(Y \ {w}) \ {v}]
    <3> SUFFICES ASSUME NEW w \in Y PROVE Y \ {w} \notin bad
      BY <2>2
    <3> HIDE DEF bad
    <3> QED BY <2>1
  <2>8. F[Y \ {y}] = g[z] + F[(Y \ {y}) \ {z}] /\ F[Y \ {z}] = g[y] + F[(Y \ {z}) \ {y}]
    BY <2>4, <2>6, <2>7
  <2>9. (Y \ {y}) \ {z} = (Y \ {z}) \ {y}
    OBVIOUS
  <2>10. g[y] \in Nat /\ g[z] \in Nat /\ F[(Y \ {z}) \ {y}] \in Nat
    BY <2>2, <2>4 DEF AreNaturals
  <2> DEFINE p == g[y]
             q == g[z]
             rest == F[(Y \ {z}) \ {y}]
             without == F[Y \ {z}]
  <2>11. p \in Nat /\ q \in Nat /\ rest \in Nat /\ without = p + rest
         /\ F[Y] = p + (q + rest)
    BY <2>5, <2>8, <2>9, <2>10
  <2>12. F[Y] # q + without
    BY <2>3
  <2> HIDE DEF p, q, rest, without, bad
  <2> QED BY <2>11, <2>12
<1> QED BY <1>1, <1>2

LEMMA TotalTake ==
    ASSUME NEW g, NEW S, IsFiniteSet(S), AreNaturals(g, S), NEW x \in S
    PROVE  Total(g, S) = g[x] + Total(g, S \ {x})
<1>1. PICK F \in [SUBSET S -> Nat] : Sums(F, g, S)
  BY SumsExist
<1>2. Total(g, S) = F[S]
  BY <1>1, TotalIs
<1>3. AreNaturals(g, S \ {x}) /\ IsFiniteSet(S \ {x}) /\ Sums(F, g, S \ {x})
  <2>1. IsFiniteSet(S \ {x})
    BY FS_Subset
  <2>2. SUBSET (S \ {x}) \subseteq SUBSET S
    OBVIOUS
  <2> QED BY <1>1, <2>1, <2>2 DEF Sums, AreNaturals
<1>4. Total(g, S \ {x}) = F[S \ {x}]
  BY <1>3, TotalIs
<1>5. F[S] = g[x] + F[S \ {x}]
  <2>1. \A X \in SUBSET S : F[X] \in Nat
    BY <1>1
  <2> QED BY <1>1, <2>1, SumsTake
<1> QED BY <1>2, <1>4, <1>5

LEMMA TotalAgrees ==
    ASSUME NEW g, NEW h, NEW S, IsFiniteSet(S), AreNaturals(g, S), \A x \in S : g[x] = h[x]
    PROVE  Total(g, S) = Total(h, S) /\ Total(g, S) \in Nat
<1>0. AreNaturals(h, S)
  BY DEF AreNaturals
<1>1. PICK F \in [SUBSET S -> Nat] : Sums(F, g, S)
  BY SumsExist
<1>2. PICK G \in [SUBSET S -> Nat] : Sums(G, h, S)
  BY <1>0, SumsExist
<1>3. Total(g, S) = F[S] /\ Total(h, S) = G[S]
  BY <1>0, <1>1, <1>2, TotalIs
<1>4. F[S] = G[S]
  BY <1>1, <1>2, SumsAgree
<1> QED BY <1>3, <1>4

-----------------------------------------------------------------------------
(* First seen, last seen, strongest signal: what the rows of a content and *)
(* its mentions have for an extreme stays the same number.                 *)
SameLeast(N, M) == \E v \in N \cap M : \A n \in N \cup M : v <= n
SameMost(N, M) == \E v \in N \cap M : \A n \in N \cup M : n <= v

\* Numbers N become N2 when x is taken into one of them, or comes as a new one.
TakesLeast(N, N2, x) ==
    N2 \subseteq N \cup {x} /\ \A n \in N \cup {x} : \E k \in N2 : k <= n
TakesMost(N, N2, x) ==
    N2 \subseteq N \cup {x} /\ \A n \in N \cup {x} : \E k \in N2 : n <= k

LEMMA LeastOfMore ==
    ASSUME NEW N \in SUBSET Nat, NEW N2 \in SUBSET Nat, NEW M \in SUBSET Nat, NEW x \in Nat,
           SameLeast(N, M) \/ (N = {} /\ M = {}), TakesLeast(N, N2, x)
    PROVE  SameLeast(N2, M \cup {x})
<1>1. PICK v \in (M \cup {x}) \cap (N \cup {x}) : \A n \in N \cup M \cup {x} : v <= n
  <2>1. CASE N = {} /\ M = {}
    BY <2>1
  <2>2. CASE SameLeast(N, M)
    <3>1. PICK w \in N \cap M : \A n \in N \cup M : w <= n
      BY <2>2 DEF SameLeast
    <3>2. w \in Nat
      BY <3>1
    <3>3. CASE x < w
      BY <3>1, <3>2, <3>3
    <3>4. CASE ~(x < w)
      BY <3>1, <3>2, <3>4
    <3> QED BY <3>3, <3>4
  <2> QED BY <2>1, <2>2
<1>2. PICK k \in N2 : k <= v
  BY <1>1 DEF TakesLeast
<1>3. k \in N \cup {x} /\ k \in Nat /\ v \in Nat
  BY DEF TakesLeast
<1>4. v <= k
  BY <1>1, <1>3
<1>5. k = v
  BY <1>2, <1>3, <1>4
<1> QED BY <1>1, <1>5 DEF SameLeast, TakesLeast

LEMMA MostOfMore ==
    ASSUME NEW N \in SUBSET Nat, NEW N2 \in SUBSET Nat, NEW M \in SUBSET Nat, NEW x \in Nat,
           SameMost(N, M) \/ (N = {} /\ M = {}), TakesMost(N, N2, x)
    PROVE  SameMost(N2, M \cup {x})
<1>1. PICK v \in (M \cup {x}) \cap (N \cup {x}) : \A n \in N \cup M \cup {x} : n <= v
  <2>1. CASE N = {} /\ M = {}
    BY <2>1
  <2>2. CASE SameMost(N, M)
    <3>1. PICK w \in N \cap M : \A n \in N \cup M : n <= w
      BY <2>2 DEF SameMost
    <3>2. w \in Nat
      BY <3>1
    <3>3. CASE w < x
      BY <3>1, <3>2, <3>3
    <3>4. CASE ~(w < x)
      BY <3>1, <3>2, <3>4
    <3> QED BY <3>3, <3>4
  <2> QED BY <2>1, <2>2
<1>2. PICK k \in N2 : v <= k
  BY <1>1 DEF TakesMost
<1>3. k \in N \cup {x} /\ k \in Nat /\ v \in Nat
  BY DEF TakesMost
<1>4. k <= v
  BY <1>1, <1>3
<1>5. k = v
  BY <1>2, <1>3, <1>4
<1> QED BY <1>1, <1>5 DEF SameMost, TakesMost

\* The rows of a content, and the numbers in them and in its mentions.
RowsOf(table, c) == {r \in DOMAIN table : table[r].content = c}
Created(table, c) == {table[r].created : r \in RowsOf(table, c)}
Accessed(table, c) == {table[r].accessed : r \in RowsOf(table, c)}
Weights(table, c) == {table[r].weight : r \in RowsOf(table, c)}
About(seen, c) == {m \in seen : m.content = c}
Times(seen, c) == {m.at : m \in About(seen, c)}
Signals(seen, c) == {m.weight : m \in About(seen, c)}

StatsOf(table, seen, c) ==
    /\ \A q, r \in Same(table, c) : q = r
    /\ RowsOf(table, c) = {} <=> About(seen, c) = {}
    /\ RowsOf(table, c) # {} =>
          /\ SameLeast(Created(table, c), Times(seen, c))
          /\ SameMost(Accessed(table, c), Times(seen, c))
          /\ SameMost(Weights(table, c), Signals(seen, c))

\* What one insert does to the numbers of its content.
Moved(table, m, c, new) ==
    /\ \A q, r \in Same(new, c) : q = r
    /\ RowsOf(new, c) # {}
    /\ TakesLeast(Created(table, c), Created(new, c), m.at)
    /\ TakesMost(Accessed(table, c), Accessed(new, c), m.at)
    /\ TakesMost(Weights(table, c), Weights(new, c), m.weight)

LEMMA InsertStats ==
    ASSUME NEW table \in Seq(Row), NEW seen \in SUBSET Mention, NEW m \in Mention,
           NEW c, StatsOf(table, seen, c)
    PROVE  StatsOf(InsertOrReinforce(table, m), seen \cup {m}, c)
<1> DEFINE new == InsertOrReinforce(table, m)
           all == seen \cup {m}
<1>0. DOMAIN table = 1..Len(table) /\ \A r \in DOMAIN table : table[r] \in Row
  OBVIOUS
<1>1. CASE c # m.content
  <2>1. About(all, c) = About(seen, c)
    BY <1>1 DEF About
  <2>2. /\ RowsOf(new, c) = RowsOf(table, c) /\ Same(new, c) = Same(table, c)
        /\ \A r \in RowsOf(table, c) : new[r] = table[r]
    <3>1. ASSUME NEW r \in DOMAIN table, ReinforcedIn(table, m, new, r)
          PROVE  /\ RowsOf(new, c) = RowsOf(table, c) /\ Same(new, c) = Same(table, c)
                 /\ \A q \in RowsOf(table, c) : new[q] = table[q]
      <4> HIDE DEF new
      <4>1. /\ r \in Same(table, m.content)
            /\ DOMAIN new = DOMAIN table
            /\ new[r] = Reinforced(table[r], m)
            /\ \A q \in DOMAIN table \ {r} : new[q] = table[q]
        BY <3>1 DEF ReinforcedIn
      <4>2. r \in DOMAIN table /\ table[r].content = m.content
        BY <4>1 DEF Same
      <4>3. new[r].content = m.content
        BY <1>0, <4>1, <4>2, RowMaths
      <4> QED BY <1>1, <4>1, <4>2, <4>3 DEF RowsOf, Same
    <3>2. CASE NewRowIn(table, m, new)
      <4> HIDE DEF new
      <4>0. /\ Same(table, m.content) = {}
            /\ DOMAIN new = DOMAIN table \cup {Len(table) + 1}
            /\ Len(table) + 1 \notin DOMAIN table
            /\ new[Len(table) + 1] = NewRow(m)
            /\ \A r \in DOMAIN table : new[r] = table[r]
        BY <3>2 DEF NewRowIn
      <4>1. NewRow(m).content = m.content
        BY DEF NewRow
      <4> QED BY <1>1, <4>0, <4>1 DEF RowsOf, Same
    <3> QED BY <3>1, <3>2, InsertShape
  <2>3. /\ Created(new, c) = Created(table, c) /\ Accessed(new, c) = Accessed(table, c)
        /\ Weights(new, c) = Weights(table, c)
    BY <2>2 DEF Created, Accessed, Weights
  <2>4. Times(all, c) = Times(seen, c) /\ Signals(all, c) = Signals(seen, c)
    BY <2>1 DEF Times, Signals
  <2> HIDE DEF new, all
  <2>5. StatsOf(new, all, c)
    BY <2>1, <2>2, <2>3, <2>4 DEF StatsOf
  <2> QED BY <2>5 DEF new, all
<1>2. CASE c = m.content
  <2>1. /\ Times(all, c) = Times(seen, c) \cup {m.at}
        /\ Signals(all, c) = Signals(seen, c) \cup {m.weight}
        /\ About(all, c) # {}
    BY <1>2 DEF Times, Signals, About
  <2>2. /\ Created(table, c) \in SUBSET Nat /\ Accessed(table, c) \in SUBSET Nat
        /\ Weights(table, c) \in SUBSET Nat
    BY <1>0 DEF Created, Accessed, Weights, RowsOf, Row
  <2>3. Times(seen, c) \in SUBSET Nat /\ Signals(seen, c) \in SUBSET Nat
        /\ m.at \in Nat /\ m.weight \in Nat
    BY DEF Times, Signals, About, Mention
  <2>4. /\ SameLeast(Created(table, c), Times(seen, c))
           \/ (Created(table, c) = {} /\ Times(seen, c) = {})
        /\ SameMost(Accessed(table, c), Times(seen, c))
           \/ (Accessed(table, c) = {} /\ Times(seen, c) = {})
        /\ SameMost(Weights(table, c), Signals(seen, c))
           \/ (Weights(table, c) = {} /\ Signals(seen, c) = {})
    BY DEF StatsOf, Created, Accessed, Weights, Times, Signals
  <2>5. Moved(table, m, c, new)
    <3>1. ASSUME NEW r \in DOMAIN table, ReinforcedIn(table, m, new, r)
          PROVE  Moved(table, m, c, new)
      <4>1. /\ r \in Same(table, c)
            /\ DOMAIN new = DOMAIN table
            /\ new[r] = Reinforced(table[r], m)
            /\ \A q \in DOMAIN table \ {r} : new[q] = table[q]
        BY <1>2, <3>1 DEF ReinforcedIn
      <4> DEFINE old == table[r]
                 now == new[r]
      <4>2. r \in DOMAIN table /\ old.content = c /\ old.active
        BY <4>1 DEF Same
      <4>3. old \in Row
        BY <1>0, <4>2
      <4>4. /\ now.content = c /\ now.active
            /\ now.created = IF old.created < m.at THEN old.created ELSE m.at
            /\ now.accessed = IF old.accessed < m.at THEN m.at ELSE old.accessed
            /\ now.weight = IF old.weight < m.weight THEN m.weight ELSE old.weight
        BY <4>1, <4>2, <4>3, RowMaths
      <4>5. old.created \in Nat /\ old.accessed \in Nat /\ old.weight \in Nat
        BY <4>3 DEF Row
      <4>6. r \in RowsOf(table, c) /\ RowsOf(new, c) = RowsOf(table, c)
            /\ Same(new, c) = Same(table, c)
        <5> HIDE DEF new
        <5> QED BY <4>1, <4>2, <4>4 DEF RowsOf, Same
      <4>7. \A q \in RowsOf(table, c) : q # r => new[q] = table[q]
        BY <4>1 DEF RowsOf
      <4> HIDE DEF new
      <4>8. \A q, s \in Same(new, c) : q = s
        BY <4>6 DEF StatsOf
      <4>9. TakesLeast(Created(table, c), Created(new, c), m.at)
        <5>1. now.created \in Created(new, c) /\ now.created <= m.at
              /\ now.created <= old.created /\ now.created \in {m.at, old.created}
              /\ old.created \in Created(table, c)
          BY <2>3, <4>4, <4>5, <4>6 DEF Created
        <5>2. \A n \in Created(table, c) : n = old.created \/ n \in Created(new, c)
          BY <4>6, <4>7 DEF Created
        <5>3. \A n \in Created(new, c) : n = now.created \/ n \in Created(table, c)
          BY <4>6, <4>7 DEF Created
        <5>4. \A n \in Created(table, c) : n <= n
          BY <2>2
        <5> HIDE DEF now, old
        <5> QED BY <5>1, <5>2, <5>3, <5>4 DEF TakesLeast
      <4>10. TakesMost(Accessed(table, c), Accessed(new, c), m.at)
        <5>1. now.accessed \in Accessed(new, c) /\ m.at <= now.accessed
              /\ old.accessed <= now.accessed /\ now.accessed \in {m.at, old.accessed}
              /\ old.accessed \in Accessed(table, c)
          BY <2>3, <4>4, <4>5, <4>6 DEF Accessed
        <5>2. \A n \in Accessed(table, c) : n = old.accessed \/ n \in Accessed(new, c)
          BY <4>6, <4>7 DEF Accessed
        <5>3. \A n \in Accessed(new, c) : n = now.accessed \/ n \in Accessed(table, c)
          BY <4>6, <4>7 DEF Accessed
        <5>4. \A n \in Accessed(table, c) : n <= n
          BY <2>2
        <5> HIDE DEF now, old
        <5> QED BY <5>1, <5>2, <5>3, <5>4 DEF TakesMost
      <4>11. TakesMost(Weights(table, c), Weights(new, c), m.weight)
        <5>1. now.weight \in Weights(new, c) /\ m.weight <= now.weight
              /\ old.weight <= now.weight /\ now.weight \in {m.weight, old.weight}
              /\ old.weight \in Weights(table, c)
          BY <2>3, <4>4, <4>5, <4>6 DEF Weights
        <5>2. \A n \in Weights(table, c) : n = old.weight \/ n \in Weights(new, c)
          BY <4>6, <4>7 DEF Weights
        <5>3. \A n \in Weights(new, c) : n = now.weight \/ n \in Weights(table, c)
          BY <4>6, <4>7 DEF Weights
        <5>4. \A n \in Weights(table, c) : n <= n
          BY <2>2
        <5> HIDE DEF now, old
        <5> QED BY <5>1, <5>2, <5>3, <5>4 DEF TakesMost
      <4> QED BY <1>2, <4>6, <4>8, <4>9, <4>10, <4>11 DEF Moved
    <3>2. CASE NewRowIn(table, m, new)
      <4>0. /\ Same(table, m.content) = {}
            /\ DOMAIN new = DOMAIN table \cup {Len(table) + 1}
            /\ Len(table) + 1 \notin DOMAIN table
            /\ new[Len(table) + 1] = NewRow(m)
            /\ \A r \in DOMAIN table : new[r] = table[r]
        BY <3>2 DEF NewRowIn
      <4> DEFINE n == Len(table) + 1
                 now == new[n]
      <4>1. /\ now.content = c /\ now.active /\ now.created = m.at
            /\ now.accessed = m.at /\ now.weight = m.weight
        BY <1>2, <4>0 DEF NewRow
      <4>2. /\ RowsOf(new, c) = RowsOf(table, c) \cup {n} /\ Same(new, c) = {n}
            /\ \A r \in RowsOf(table, c) : new[r] = table[r]
        <5> HIDE DEF new, n
        <5> QED BY <1>2, <4>0, <4>1 DEF RowsOf, Same, n
      <4> HIDE DEF new
      <4>3. Created(new, c) = Created(table, c) \cup {m.at}
        BY <4>1, <4>2 DEF Created
      <4>4. Accessed(new, c) = Accessed(table, c) \cup {m.at}
        BY <4>1, <4>2 DEF Accessed
      <4>5. Weights(new, c) = Weights(table, c) \cup {m.weight}
        BY <4>1, <4>2 DEF Weights
      <4> HIDE DEF n
      <4>6. \A q, s \in Same(new, c) : q = s
        BY <4>2
      <4>7. RowsOf(new, c) # {}
        BY <4>2
      <4>8. \A k \in Nat : k <= k
        OBVIOUS
      <4>9. TakesLeast(Created(table, c), Created(new, c), m.at)
        BY <2>2, <2>3, <4>3, <4>8 DEF TakesLeast
      <4>10. TakesMost(Accessed(table, c), Accessed(new, c), m.at)
        BY <2>2, <2>3, <4>4, <4>8 DEF TakesMost
      <4>11. TakesMost(Weights(table, c), Weights(new, c), m.weight)
        BY <2>2, <2>3, <4>5, <4>8 DEF TakesMost
      <4> QED BY <4>6, <4>7, <4>9, <4>10, <4>11 DEF Moved
    <3> QED BY <3>1, <3>2, InsertShape
  <2> HIDE DEF new, all
  <2>6. /\ TakesLeast(Created(table, c), Created(new, c), m.at)
        /\ TakesMost(Accessed(table, c), Accessed(new, c), m.at)
        /\ TakesMost(Weights(table, c), Weights(new, c), m.weight)
    BY <2>5 DEF Moved
  <2>7. /\ Created(new, c) \in SUBSET Nat /\ Accessed(new, c) \in SUBSET Nat
        /\ Weights(new, c) \in SUBSET Nat
    BY <2>2, <2>3, <2>6 DEF TakesLeast, TakesMost
  <2>8. SameLeast(Created(new, c), Times(seen, c) \cup {m.at})
    BY <2>2, <2>3, <2>4, <2>6, <2>7, LeastOfMore
  <2>9. SameMost(Accessed(new, c), Times(seen, c) \cup {m.at})
    BY <2>2, <2>3, <2>4, <2>6, <2>7, MostOfMore
  <2>10. SameMost(Weights(new, c), Signals(seen, c) \cup {m.weight})
    BY <2>2, <2>3, <2>4, <2>6, <2>7, MostOfMore
  <2>11. StatsOf(new, all, c)
    BY <1>2, <2>1, <2>5, <2>8, <2>9, <2>10 DEF StatsOf, Moved
  <2> QED BY <2>11 DEF new, all
<1> QED BY <1>1, <1>2

\* A whole batch, one mention after the other.
LEMMA BatchStats ==
    ASSUME NEW table \in Seq(Row), NEW seen \in SUBSET Mention, NEW s \in Seq(Mention),
           NEW c, StatsOf(table, seen, c)
    PROVE  StatsOf(FoldLeft(InsertOrReinforce, table, s), seen \cup ToSet(s), c)
<1> DEFINE end == FoldLeft(InsertOrReinforce, table, s)
<1>1. PICK it \in [0..Len(s) -> Seq(Row)] :
         /\ it[0] = table
         /\ \A k \in 1..Len(s) : it[k] = InsertOrReinforce(it[k - 1], s[k])
         /\ end = it[Len(s)]
  BY FoldInserts
<1> HIDE DEF end
<1> DEFINE sofar(k) == seen \cup {s[j] : j \in 1..k}
           bad == {k \in 0..Len(s) : ~StatsOf(it[k], sofar(k), c)}
<1>2. Len(s) \in Nat /\ DOMAIN s = 1..Len(s) /\ \A k \in 1..Len(s) : s[k] \in Mention
  OBVIOUS
<1>3. bad = {}
  <2> SUFFICES ASSUME bad # {} PROVE FALSE
    OBVIOUS
  <2>1. PICK k \in bad : \A j \in bad : k <= j
    <3>1. bad \in SUBSET Nat
      BY <1>2
    <3> HIDE DEF bad
    <3> QED BY <3>1, Smallest
  <2>2. k # 0
    <3>1. sofar(0) = seen
      OBVIOUS
    <3> HIDE DEF sofar
    <3> QED BY <1>1, <1>2, <3>1
  <2>3. k - 1 \in 0..Len(s) /\ k - 1 \notin bad /\ k \in 1..Len(s)
    BY <1>2, <2>1, <2>2
  <2>4. StatsOf(it[k - 1], sofar(k - 1), c)
    BY <2>3
  <2>5. it[k - 1] \in Seq(Row) /\ sofar(k - 1) \in SUBSET Mention /\ s[k] \in Mention
    <3>1. 1..(k - 1) \subseteq 1..Len(s)
      BY <1>2, <2>3
    <3>2. sofar(k - 1) \in SUBSET Mention
      BY <1>2, <3>1
    <3> QED BY <1>2, <2>3, <3>2
  <2>6. sofar(k) = sofar(k - 1) \cup {s[k]}
    <3>1. 1..k = 1..(k - 1) \cup {k}
      BY <2>3
    <3> QED BY <3>1
  <2> HIDE DEF sofar
  <2>7. StatsOf(InsertOrReinforce(it[k - 1], s[k]), sofar(k - 1) \cup {s[k]}, c)
    BY <2>4, <2>5, InsertStats
  <2>8. it[k] = InsertOrReinforce(it[k - 1], s[k])
    BY <1>1, <2>3
  <2> QED BY <2>6, <2>7, <2>8
<1>4. sofar(Len(s)) = seen \cup ToSet(s)
  BY <1>2 DEF ToSet
<1> HIDE DEF sofar
<1>5. StatsOf(it[Len(s)], sofar(Len(s)), c)
  BY <1>2, <1>3
<1> QED BY <1>1, <1>4, <1>5 DEF end

LEMMA BatchTyped ==
    ASSUME NEW table \in Seq(Row), NEW s \in Seq(Mention)
    PROVE  FoldLeft(InsertOrReinforce, table, s) \in Seq(Row)
<1> DEFINE end == FoldLeft(InsertOrReinforce, table, s)
<1>1. PICK it \in [0..Len(s) -> Seq(Row)] : end = it[Len(s)]
  BY FoldInserts
<1> HIDE DEF end
<1>2. end \in Seq(Row)
  BY <1>1
<1> QED BY <1>2 DEF end

-----------------------------------------------------------------------------
(* A mention is a row or one access of a row.                              *)
Uses(table) == [r \in DOMAIN table |-> 1 + table[r].access]

LEMMA UsesAre ==
    ASSUME NEW table \in Seq(Row), NEW c
    PROVE  /\ AreNaturals(Uses(table), RowsOf(table, c))
           /\ IsFiniteSet(RowsOf(table, c)) /\ RowsOf(table, c) \in SUBSET DOMAIN table
           /\ \A r \in DOMAIN table : Uses(table)[r] = 1 + table[r].access
<1>1. DOMAIN table = 1..Len(table) /\ Len(table) \in Nat
      /\ \A r \in DOMAIN table : table[r] \in Row
  OBVIOUS
<1>2. IsFiniteSet(DOMAIN table)
  BY <1>1, FS_Interval
<1>3. RowsOf(table, c) \in SUBSET DOMAIN table
  BY DEF RowsOf
<1>4. \A r \in DOMAIN table : table[r].access \in Nat
  BY <1>1 DEF Row
<1>5. \A r \in DOMAIN table : Uses(table)[r] = 1 + table[r].access
  BY DEF Uses
<1>6. AreNaturals(Uses(table), RowsOf(table, c))
  BY <1>3, <1>4, <1>5 DEF AreNaturals
<1> QED BY <1>2, <1>3, <1>5, <1>6, FS_Subset

Used(table, c) == Total(Uses(table), RowsOf(table, c))

LEMMA InsertUses ==
    ASSUME NEW table \in Seq(Row), NEW m \in Mention, NEW c
    PROVE  Used(InsertOrReinforce(table, m), c)
               = Used(table, c) + (IF m.content = c THEN 1 ELSE 0)
<1> DEFINE new == InsertOrReinforce(table, m)
           old == RowsOf(table, c)
           now == RowsOf(new, c)
           g == Uses(table)
           h == Uses(new)
<1>1. new \in Seq(Row)
  BY InsertTyped
<1>2. /\ AreNaturals(g, old) /\ IsFiniteSet(old) /\ old \in SUBSET DOMAIN table
      /\ \A r \in DOMAIN table : g[r] = 1 + table[r].access
  BY UsesAre
<1>3. /\ AreNaturals(h, now) /\ IsFiniteSet(now) /\ now \in SUBSET DOMAIN new
      /\ \A r \in DOMAIN new : h[r] = 1 + new[r].access
  <2> HIDE DEF new
  <2> QED BY <1>1, UsesAre
<1>4. \A r \in DOMAIN table : table[r] \in Row
  OBVIOUS
<1>5. ASSUME NEW r \in DOMAIN table, ReinforcedIn(table, m, new, r)
      PROVE  Total(h, now) = Total(g, old) + (IF m.content = c THEN 1 ELSE 0)
  <2>1. /\ r \in Same(table, m.content) /\ DOMAIN new = DOMAIN table
        /\ new[r] = Reinforced(table[r], m)
        /\ \A q \in DOMAIN table \ {r} : new[q] = table[q]
    BY <1>5 DEF ReinforcedIn
  <2>2. table[r].content = m.content
    BY <2>1 DEF Same
  <2>3. new[r].content = m.content /\ new[r].access = table[r].access + 1
    BY <1>4, <2>1, <2>2, RowMaths
  <2> HIDE DEF new
  <2>4. now = old
    BY <2>1, <2>2, <2>3 DEF RowsOf
  <2>5. \A q \in DOMAIN table \ {r} : g[q] = h[q]
    BY <1>2, <1>3, <2>1
  <2>6. g[r] \in Nat /\ h[r] = g[r] + 1
    <3>1. g[r] \in Nat /\ table[r].access \in Nat
      BY <1>2, <1>4 DEF Row
    <3> QED BY <1>2, <1>3, <2>1, <2>3, <3>1
  <2>7. CASE m.content = c
    <3> DEFINE rest == old \ {r}
    <3>1. r \in old
      BY <2>2, <2>7 DEF RowsOf
    <3>2. IsFiniteSet(rest) /\ AreNaturals(g, rest) /\ \A q \in rest : g[q] = h[q]
      <4>1. \A q \in rest : g[q] = h[q]
        BY <1>2, <2>5
      <4>2. IsFiniteSet(rest)
        <5> HIDE DEF old, now, g, h
        <5> QED BY <1>2, FS_Subset
      <4> QED BY <1>2, <4>1, <4>2 DEF AreNaturals
    <3> HIDE DEF g, h, old, now
    <3>3. Total(g, old) = g[r] + Total(g, rest)
      BY <1>2, <3>1, TotalTake
    <3>4. Total(h, now) = h[r] + Total(h, rest)
      BY <1>3, <2>4, <3>1, TotalTake
    <3> HIDE DEF rest
    <3>5. Total(g, rest) = Total(h, rest) /\ Total(g, rest) \in Nat
      BY <3>2, TotalAgrees
    <3> QED BY <2>6, <2>7, <3>3, <3>4, <3>5
  <2>8. CASE m.content # c
    <3>1. \A q \in old : g[q] = h[q]
      BY <2>2, <2>5, <2>8 DEF RowsOf
    <3> HIDE DEF g, h, old, now
    <3>3. Total(g, old) = Total(h, old) /\ Total(g, old) \in Nat
      BY <1>2, <3>1, TotalAgrees
    <3> QED BY <2>4, <2>8, <3>3
  <2> QED BY <2>7, <2>8
<1>6. ASSUME NewRowIn(table, m, new)
      PROVE  Total(h, now) = Total(g, old) + (IF m.content = c THEN 1 ELSE 0)
  <2> DEFINE n == Len(table) + 1
  <2>1. /\ DOMAIN new = DOMAIN table \cup {n} /\ n \notin DOMAIN table
        /\ new[n] = NewRow(m)
        /\ \A r \in DOMAIN table : new[r] = table[r]
    BY <1>6 DEF NewRowIn
  <2>2. new[n].content = m.content /\ new[n].access = 0
    BY <2>1 DEF NewRow
  <2> HIDE DEF new, n
  <2>3. now = IF m.content = c THEN old \cup {n} ELSE old
    BY <2>1, <2>2 DEF RowsOf
  <2>4. n \notin old /\ h[n] = 1 /\ \A q \in old : g[q] = h[q]
    BY <1>2, <1>3, <2>1, <2>2
  <2> HIDE DEF g, h, old, now
  <2>6. Total(g, old) = Total(h, old) /\ Total(g, old) \in Nat
    BY <1>2, <2>4, TotalAgrees
  <2>7. CASE m.content = c
    <3>1. now \ {n} = old /\ n \in now
      BY <2>3, <2>4, <2>7
    <3>2. Total(h, now) = h[n] + Total(h, now \ {n})
      BY <1>3, <3>1, TotalTake
    <3>3. Total(h, now) = 1 + Total(h, old)
      BY <2>4, <3>1, <3>2
    <3> QED BY <2>6, <2>7, <3>3
  <2>8. CASE m.content # c
    <3>1. now = old
      BY <2>3, <2>8
    <3> QED BY <2>6, <2>8, <3>1
  <2> QED BY <2>7, <2>8
<1>7. Total(h, now) = Total(g, old) + (IF m.content = c THEN 1 ELSE 0)
  BY <1>5, <1>6, InsertShape
<1> QED BY <1>7 DEF Used

MentionsOf(s, c) == {k \in DOMAIN s : s[k].content = c}

LEMMA BatchUses ==
    ASSUME NEW table \in Seq(Row), NEW s \in Seq(Mention), NEW c
    PROVE  /\ Cardinality(MentionsOf(s, c)) \in Nat
           /\ Used(FoldLeft(InsertOrReinforce, table, s), c)
                  = Used(table, c) + Cardinality(MentionsOf(s, c))
<1> DEFINE end == FoldLeft(InsertOrReinforce, table, s)
<1>1. PICK it \in [0..Len(s) -> Seq(Row)] :
         /\ it[0] = table
         /\ \A k \in 1..Len(s) : it[k] = InsertOrReinforce(it[k - 1], s[k])
         /\ end = it[Len(s)]
  BY FoldInserts
<1> HIDE DEF end
<1> DEFINE of(k) == {j \in 1..k : s[j].content = c}
           bad == {k \in 0..Len(s) : Used(it[k], c) # Used(table, c) + Cardinality(of(k))}
<1>2. Len(s) \in Nat /\ DOMAIN s = 1..Len(s) /\ \A k \in 1..Len(s) : s[k] \in Mention
  OBVIOUS
<1>3. \A k \in 0..Len(s) : IsFiniteSet(of(k)) /\ Cardinality(of(k)) \in Nat
  <2> SUFFICES ASSUME NEW k \in 0..Len(s)
               PROVE  IsFiniteSet(of(k)) /\ Cardinality(of(k)) \in Nat
    OBVIOUS
  <2>1. IsFiniteSet(1..k) /\ of(k) \subseteq 1..k
    BY <1>2, FS_Interval
  <2> HIDE DEF of
  <2> QED BY <2>1, FS_Subset, FS_CardinalityType
<1>4. \A t \in Seq(Row) : Used(t, c) \in Nat
  <2> SUFFICES ASSUME NEW t \in Seq(Row) PROVE Used(t, c) \in Nat
    OBVIOUS
  <2>1. AreNaturals(Uses(t), RowsOf(t, c)) /\ IsFiniteSet(RowsOf(t, c))
    BY UsesAre
  <2> QED BY <2>1, TotalAgrees DEF Used
<1>5. bad = {}
  <2> SUFFICES ASSUME bad # {} PROVE FALSE
    OBVIOUS
  <2>1. PICK k \in bad : \A j \in bad : k <= j
    <3>1. bad \in SUBSET Nat
      BY <1>2
    <3> HIDE DEF bad
    <3> QED BY <3>1, Smallest
  <2>2. k # 0
    <3>1. of(0) = {}
      OBVIOUS
    <3>2. Cardinality(of(0)) = 0
      BY <3>1, FS_EmptySet
    <3>3. k = 0 => Used(it[0], c) # Used(table, c) + Cardinality(of(0))
      OBVIOUS
    <3>4. Used(table, c) \in Nat
      BY <1>4
    <3>5. Used(it[0], c) = Used(table, c)
      BY <1>1
    <3> HIDE DEF of, bad
    <3> QED BY <3>2, <3>3, <3>4, <3>5
  <2>3. k - 1 \in 0..Len(s) /\ k - 1 \notin bad /\ k \in 1..Len(s) /\ k \in 0..Len(s)
    <3>1. k \in 0..Len(s)
      OBVIOUS
    <3> HIDE DEF bad
    <3> QED BY <1>2, <2>1, <2>2, <3>1
  <2>4. Used(it[k - 1], c) = Used(table, c) + Cardinality(of(k - 1))
    BY <2>3
  <2>5. it[k - 1] \in Seq(Row) /\ s[k] \in Mention
    BY <1>2, <2>3
  <2>6. it[k] = InsertOrReinforce(it[k - 1], s[k])
    BY <1>1, <2>3
  <2>7. Used(it[k], c) = Used(it[k - 1], c) + (IF s[k].content = c THEN 1 ELSE 0)
    BY <2>5, <2>6, InsertUses
  <2>8. Cardinality(of(k)) = Cardinality(of(k - 1)) + (IF s[k].content = c THEN 1 ELSE 0)
    <3>1. k \notin of(k - 1) /\ of(k) = IF s[k].content = c THEN of(k - 1) \cup {k} ELSE of(k - 1)
      <4>1. 1..k = 1..(k - 1) \cup {k} /\ k \notin 1..(k - 1)
        BY <2>3
      <4> QED BY <4>1
    <3>2. IsFiniteSet(of(k - 1)) /\ Cardinality(of(k - 1)) \in Nat
      BY <1>3, <2>3
    <3>3. Cardinality(of(k - 1) \cup {k}) = Cardinality(of(k - 1)) + 1
      <4> HIDE DEF of, bad
      <4> QED BY <3>1, <3>2, FS_AddElement
    <3> HIDE DEF of, bad
    <3> QED BY <3>1, <3>2, <3>3
  <2>9. Used(it[k], c) # Used(table, c) + Cardinality(of(k))
    OBVIOUS
  <2>10. Used(table, c) \in Nat /\ Cardinality(of(k - 1)) \in Nat
    BY <1>3, <1>4, <2>3
  <2> HIDE DEF of, bad
  <2> QED BY <2>4, <2>7, <2>8, <2>9, <2>10
<1>6. of(Len(s)) = MentionsOf(s, c) /\ Len(s) \in 0..Len(s)
  BY <1>2 DEF MentionsOf
<1>7. Used(it[Len(s)], c) = Used(table, c) + Cardinality(of(Len(s)))
  BY <1>5, <1>6
<1> HIDE DEF of
<1> QED BY <1>1, <1>3, <1>6, <1>7 DEF end

-----------------------------------------------------------------------------
(* The facts table against the files imported so far.                      *)
Mentioned(done) == UNION {ToSet(Mentions[f]) : f \in {f \in File : done[f] > 0}}
PerFile(done, c) == [f \in File |-> done[f] * Count(f, c)]

RowsOK(table, done) ==
    /\ table \in Seq(Row)
    /\ \A c \in Content : StatsOf(table, Mentioned(done), c)
    /\ \A c \in Content : Used(table, c) = Total(PerFile(done, c), File)

LEMMA FilesAre ==
    ASSUME NEW f \in File, NEW c
    PROVE  /\ Mentions[f] \in Seq(Mention)
           /\ Count(f, c) = Cardinality(MentionsOf(Mentions[f], c)) /\ Count(f, c) \in Nat
<1>1. Mentions[f] \in Seq(Mention)
  BY ImportAssumption DEF Mention
<1>2. <<>> \in Seq(Row)
  BY EmptySeq
<1>3. Cardinality(MentionsOf(Mentions[f], c)) \in Nat
  BY <1>1, <1>2, BatchUses
<1> QED BY <1>1, <1>3 DEF Count, MentionsOf

LEMMA PerFileIs ==
    ASSUME NEW done \in [File -> Nat], NEW c
    PROVE  /\ AreNaturals(PerFile(done, c), File)
           /\ \A f \in File : PerFile(done, c)[f] = done[f] * Count(f, c)
<1>1. \A f \in File : PerFile(done, c)[f] = done[f] * Count(f, c)
  BY DEF PerFile
<1>2. \A f \in File : done[f] * Count(f, c) \in Nat
  <2> SUFFICES ASSUME NEW f \in File PROVE done[f] * Count(f, c) \in Nat
    OBVIOUS
  <2>1. done[f] \in Nat /\ Count(f, c) \in Nat
    BY FilesAre
  <2> QED BY <2>1
<1> QED BY <1>1, <1>2 DEF AreNaturals

(* The transaction of one file. *)
LEMMA ImportRows ==
    ASSUME NEW table, NEW done \in [File -> Nat], NEW f \in File, RowsOK(table, done)
    PROVE  RowsOK(FoldLeft(InsertOrReinforce, table, Mentions[f]), [done EXCEPT ![f] = @ + 1])
<1> DEFINE new == FoldLeft(InsertOrReinforce, table, Mentions[f])
           now == [done EXCEPT ![f] = @ + 1]
<1>1. Mentions[f] \in Seq(Mention) /\ table \in Seq(Row)
  BY FilesAre DEF RowsOK
<1>2. new \in Seq(Row)
  BY <1>1, BatchTyped
<1>3. now \in [File -> Nat] /\ now[f] = done[f] + 1 /\ \A g \in File \ {f} : now[g] = done[g]
  OBVIOUS
<1>4. ASSUME NEW c \in Content PROVE StatsOf(new, Mentioned(now), c)
  <2>1. Mentioned(done) \in SUBSET Mention
    <3>1. \A g \in File : ToSet(Mentions[g]) \subseteq Mention
      BY FilesAre DEF ToSet
    <3> QED BY <3>1 DEF Mentioned
  <2>2. Mentioned(now) = Mentioned(done) \cup ToSet(Mentions[f])
    <3>1. \A g \in File : now[g] > 0 <=> (done[g] > 0 \/ g = f)
      BY <1>3
    <3> HIDE DEF now
    <3> QED BY <3>1 DEF Mentioned
  <2>3. StatsOf(table, Mentioned(done), c)
    BY DEF RowsOK
  <2>4. StatsOf(new, Mentioned(done) \cup ToSet(Mentions[f]), c)
    BY <1>1, <2>1, <2>3, BatchStats
  <2> HIDE DEF new, now
  <2> QED BY <2>2, <2>4
<1>5. ASSUME NEW c \in Content PROVE Used(new, c) = Total(PerFile(now, c), File)
  <2> DEFINE g == PerFile(done, c)
             h == PerFile(now, c)
             n == Count(f, c)
             rest == File \ {f}
  <2>1. Used(new, c) = Used(table, c) + n /\ n \in Nat
    BY <1>1, BatchUses, FilesAre
  <2>2. Used(table, c) = Total(g, File)
    BY DEF RowsOK
  <2>3. AreNaturals(g, File) /\ \A e \in File : g[e] = done[e] * Count(e, c)
    BY PerFileIs
  <2>4. AreNaturals(h, File) /\ \A e \in File : h[e] = now[e] * Count(e, c)
    <3> HIDE DEF now
    <3> QED BY <1>3, PerFileIs
  <2>5. h[f] = g[f] + n /\ g[f] \in Nat
    <3>1. \A k, j \in Nat : (k + 1) * j = k * j + j
      OBVIOUS
    <3>2. done[f] \in Nat
      OBVIOUS
    <3> HIDE DEF g, h, now, n
    <3>3. h[f] = (done[f] + 1) * n /\ g[f] = done[f] * n /\ g[f] \in Nat
      BY <1>3, <2>3, <2>4 DEF n, AreNaturals
    <3> QED BY <2>1, <3>1, <3>2, <3>3
  <2>6. \A e \in rest : g[e] = h[e]
    <3> HIDE DEF g, h, now
    <3> QED BY <1>3, <2>3, <2>4
  <2>7. IsFiniteSet(File) /\ IsFiniteSet(rest) /\ AreNaturals(g, rest)
    BY <2>3, ImportAssumption, FS_Subset DEF AreNaturals
  <2> HIDE DEF g, h, n, new, now
  <2>8. Total(g, File) = g[f] + Total(g, rest)
    BY <2>3, <2>7, TotalTake
  <2>9. Total(h, File) = h[f] + Total(h, rest)
    BY <2>4, <2>7, TotalTake
  <2> HIDE DEF rest
  <2>10. Total(g, rest) = Total(h, rest) /\ Total(g, rest) \in Nat
    BY <2>6, <2>7, TotalAgrees
  <2> QED BY <2>1, <2>2, <2>5, <2>8, <2>9, <2>10 DEF h
<1> HIDE DEF new, now
<1>6. RowsOK(new, now)
  BY <1>2, <1>4, <1>5 DEF RowsOK
<1> QED BY <1>6 DEF new, now

(* Forgetting a fact leaves its numbers. *)
LEMMA ExpireRow ==
    ASSUME NEW table, NEW done, NEW r \in DOMAIN table, RowsOK(table, done)
    PROVE  RowsOK([table EXCEPT ![r].active = FALSE], done)
<1> DEFINE row == [table[r] EXCEPT !.active = FALSE]
           new == [table EXCEPT ![r] = row]
<1>1. table \in Seq(Row) /\ DOMAIN table = 1..Len(table) /\ table[r] \in Row
  BY DEF RowsOK
<1>2. /\ row \in Row /\ row.content = table[r].content /\ row.active = FALSE
      /\ row.created = table[r].created /\ row.accessed = table[r].accessed
      /\ row.weight = table[r].weight /\ row.access = table[r].access
  BY <1>1 DEF Row
<1>3. new = [table EXCEPT ![r].active = FALSE]
  BY Zenon
<1> HIDE DEF row
<1>4. new \in Seq(Row)
  BY <1>1, <1>2, ExceptSeq
<1>5. DOMAIN new = DOMAIN table /\ \A q \in DOMAIN table : new[q] = IF q = r THEN row ELSE table[q]
  OBVIOUS
<1> HIDE DEF new
<1>6. /\ \A q \in DOMAIN table :
            /\ new[q].content = table[q].content /\ new[q].created = table[q].created
            /\ new[q].accessed = table[q].accessed /\ new[q].weight = table[q].weight
            /\ new[q].access = table[q].access
            /\ new[q].active => table[q].active
  BY <1>2, <1>5
<1>7. ASSUME NEW c \in Content
      PROVE  StatsOf(new, Mentioned(done), c) /\ Used(new, c) = Used(table, c)
  <2>1. StatsOf(table, Mentioned(done), c)
    BY DEF RowsOK
  <2>2. RowsOf(new, c) = RowsOf(table, c) /\ Same(new, c) \subseteq Same(table, c)
        /\ \A q \in RowsOf(table, c) : q \in DOMAIN table
    BY <1>5, <1>6 DEF RowsOf, Same
  <2>3. /\ Created(new, c) = Created(table, c) /\ Accessed(new, c) = Accessed(table, c)
        /\ Weights(new, c) = Weights(table, c)
    BY <1>6, <2>2 DEF Created, Accessed, Weights
  <2>4. Uses(new) = Uses(table)
    BY <1>5, <1>6 DEF Uses
  <2> QED BY <2>1, <2>2, <2>3, <2>4 DEF StatsOf, Used
<1>8. RowsOK(new, done)
  BY <1>4, <1>7 DEF RowsOK
<1> QED BY <1>3, <1>8

FactsInv ==
    /\ ImportInv
    /\ runs \in 0..MaxRuns
    /\ RowsOK(rows, imported)

\* The transaction, whether its caller is there or gone.
LEMMA IngestRows ==
    ASSUME FactsInv, NEW f \in File, Ingest(f)
    PROVE  RowsOK(rows', imported')
<1>1. RowsOK(rows, imported) /\ imported \in [File -> Nat]
  BY DEF FactsInv, ImportInv, ControlOK
<1>2. CASE Marked(f)
  BY <1>1, <1>2 DEF Ingest
<1>3. CASE ~Marked(f)
  <2>1. /\ rows' = FoldLeft(InsertOrReinforce, rows, Mentions[f])
        /\ imported' = [imported EXCEPT ![f] = @ + 1]
    BY <1>3 DEF Ingest, Batch
  <2> DEFINE new == FoldLeft(InsertOrReinforce, rows, Mentions[f])
             now == [imported EXCEPT ![f] = @ + 1]
  <2>2. RowsOK(new, now)
    BY <1>1, ImportRows
  <2>3. rows' = new /\ imported' = now
    BY <2>1
  <2> HIDE DEF new, now
  <2> QED BY <2>2, <2>3
<1> QED BY <1>2, <1>3

LEMMA InitFacts == Init => FactsInv
<1> SUFFICES ASSUME Init PROVE FactsInv
  OBVIOUS
<1>1. ImportInv
  BY InitImport
<1>2. rows = <<>> /\ rows \in Seq(Row) /\ DOMAIN rows = {}
  BY EmptySeq DEF Init
<1>3. runs \in 0..MaxRuns
  BY ImportAssumption DEF Init
<1>4. imported \in [File -> Nat] /\ \A f \in File : imported[f] = 0
  BY DEF Init
<1>5. ASSUME NEW c \in Content
      PROVE  StatsOf(rows, Mentioned(imported), c)
             /\ Used(rows, c) = Total(PerFile(imported, c), File)
  <2>1. RowsOf(rows, c) = {} /\ Same(rows, c) = {} /\ About(Mentioned(imported), c) = {}
    BY <1>2, <1>4 DEF RowsOf, Same, Mentioned, About
  <2>2. StatsOf(rows, Mentioned(imported), c)
    BY <2>1 DEF StatsOf
  <2> DEFINE g == PerFile(imported, c)
             F == [X \in SUBSET File |-> 0]
  <2>3. AreNaturals(g, File) /\ IsFiniteSet(File)
    BY <1>4, PerFileIs, ImportAssumption
  <2>4. \A f \in File : g[f] = 0
    <3> SUFFICES ASSUME NEW f \in File PROVE g[f] = 0
      OBVIOUS
    <3>1. Count(f, c) \in Nat /\ g[f] = 0 * Count(f, c)
      BY <1>4, PerFileIs, FilesAre
    <3> HIDE DEF g
    <3> QED BY <3>1
  <2>5. Sums(F, g, File)
    <3>1. \A X \in SUBSET File : X # {} => Some(X) \in X
      BY DEF Some
    <3>2. \A X \in SUBSET File : X # {} => g[Some(X)] = 0 /\ X \ {Some(X)} \in SUBSET File
      BY <2>4, <3>1
    <3> HIDE DEF g
    <3> QED BY <3>2 DEF Sums
  <2>6. Total(g, File) = 0
    <3>1. F[File] = 0
      OBVIOUS
    <3> HIDE DEF g, F
    <3> QED BY <2>3, <2>5, <3>1, TotalIs
  <2>7. Used(rows, c) = 0
    <3> DEFINE h == Uses(rows)
               H == [X \in SUBSET {} |-> 0]
    <3>1. Sums(H, h, {}) /\ H[{}] = 0
      BY DEF Sums
    <3>2. AreNaturals(h, {}) /\ IsFiniteSet({})
      BY FS_EmptySet DEF AreNaturals
    <3> HIDE DEF h, H
    <3>3. Total(h, {}) = 0
      BY <3>1, <3>2, TotalIs
    <3> QED BY <2>1, <3>3 DEF Used, h
  <2> HIDE DEF g
  <2>8. Used(rows, c) = Total(g, File)
    BY <2>6, <2>7
  <2> QED BY <2>2, <2>8 DEF g
<1>6. RowsOK(rows, imported)
  BY <1>2, <1>5 DEF RowsOK
<1> QED BY <1>1, <1>3, <1>6 DEF FactsInv

LEMMA NextFacts == FactsInv /\ [Next]_vars => FactsInv'
<1> SUFFICES ASSUME FactsInv, [Next]_vars PROVE FactsInv'
  OBVIOUS
<1>0. ImportInv /\ ControlOK /\ RowsOK(rows, imported) /\ runs \in 0..MaxRuns
  BY DEF FactsInv, ImportInv
<1>1. ImportInv'
  BY <1>0, NextImport
<1>2. runs' \in 0..MaxRuns /\ RowsOK(rows', imported')
  <2>1. CASE Crash
    BY <1>0, <2>1 DEF Crash
  <2>2. ASSUME NEW r \in DOMAIN rows, Expire(r)
        PROVE  runs' \in 0..MaxRuns /\ RowsOK(rows', imported')
    <3>1. rows' = [rows EXCEPT ![r].active = FALSE] /\ UNCHANGED <<imported, runs>>
      BY <2>2 DEF Expire
    <3>2. RowsOK([rows EXCEPT ![r].active = FALSE], imported)
      BY <1>0, ExpireRow
    <3> QED BY <1>0, <3>1, <3>2
  <2>3. ASSUME NEW o \in orphans, OrphanCommits(o)
        PROVE  runs' \in 0..MaxRuns /\ RowsOK(rows', imported')
    <3>1. o[2] \in File /\ Ingest(o[2]) /\ UNCHANGED runs
      BY <1>0, <2>3 DEF OrphanCommits, ControlOK
    <3> QED BY <1>0, <3>1, IngestRows
  <2>4. ASSUME NEW i \in Importer, Commit(i)
        PROVE  runs' \in 0..MaxRuns /\ RowsOK(rows', imported')
    <3>1. task[i].todo # <<>> /\ Ingest(Current(i)) /\ UNCHANGED runs
      BY <1>0, <2>4 DEF Commit, ControlOK
    <3>2. Current(i) \in File
      BY <1>0, <3>1, CurrentIsFile
    <3> QED BY <1>0, <3>1, <3>2, IngestRows
  <2>5. ASSUME NEW i \in Importer, Begin(i)
        PROVE  runs' \in 0..MaxRuns /\ RowsOK(rows', imported')
    BY <1>0, <2>5, ImportAssumption DEF Begin
  <2>6. ASSUME NEW i \in Importer,
               Unreadable(i) \/ CheckMarker(i) \/ Prepare(i) \/ CommitFails(i) \/ Drop(i) \/ Return(i)
        PROVE  runs' \in 0..MaxRuns /\ RowsOK(rows', imported')
    BY <1>0, <2>6 DEF Unreadable, CheckMarker, Prepare, CommitFails, Drop, Return
  <2>7. CASE UNCHANGED vars
    BY <1>0, <2>7 DEF vars
  <2> QED BY <2>1, <2>2, <2>3, <2>4, <2>5, <2>6, <2>7 DEF Next
<1> QED BY <1>1, <1>2 DEF FactsInv

LEMMA AlwaysFacts == Spec => []FactsInv
BY InitFacts, NextFacts, PTL DEF Spec

(* The types of the import's state, the facts table included: a batch is a   *)
(* fold over the mentions of a file, of any length.                          *)
THEOREM ImportTypeCorrect == Spec => []TypeOK
<1>1. FactsInv => TypeOK
  BY DEF FactsInv, RowsOK, ImportInv, ControlOK, Tasks, TypeOK
<1> QED BY <1>1, AlwaysFacts, PTL

-----------------------------------------------------------------------------
\* The library's sums, of the rows of a content and of the files.
LEMMA SumOfRows ==
    ASSUME NEW table \in Seq(Row), NEW c
    PROVE  MapThenSumSet(LAMBDA r : 1 + table[r].access, RowsOf(table, c)) = Used(table, c)
<1> DEFINE S == RowsOf(table, c)
           g == Uses(table)
           Body(it) == [X \in SUBSET S |->
                          IF X = {} THEN 0
                          ELSE (1 + table[CHOOSE x \in X : TRUE].access)
                                 + it[X \ {CHOOSE x \in X : TRUE}]]
           F == CHOOSE it : it = Body(it)
<1>1. MapThenSumSet(LAMBDA r : 1 + table[r].access, S) = F[S]
  BY Zenon DEF MapThenSumSet, MapThenFoldSet
<1>2. /\ AreNaturals(g, S) /\ IsFiniteSet(S)
      /\ \A r \in S : g[r] = 1 + table[r].access
  BY UsesAre
<1>3. \A X \in SUBSET S : X # {} =>
         /\ Some(X) \in X
         /\ g[Some(X)] = 1 + table[CHOOSE x \in X : TRUE].access
  <2> HIDE DEF S, g
  <2>1. \A X \in SUBSET S : X # {} => Some(X) \in X
    BY DEF Some
  <2> QED BY <1>2, <2>1 DEF Some
<1> HIDE DEF S, g
<1>4. PICK G \in [SUBSET S -> Nat] : Sums(G, g, S)
  BY <1>2, SumsExist
<1>5. G = Body(G)
  BY <1>3, <1>4 DEF Sums, Some
<1>6. F = Body(F)
  <2> HIDE DEF Body
  <2> QED BY <1>5
<1> HIDE DEF F
<1>7. Sums(F, g, S)
  BY <1>3, <1>6 DEF Sums, Some
<1>8. F[S] = Total(g, S)
  BY <1>2, <1>7, TotalIs
<1> QED BY <1>1, <1>8 DEF Used, S, g

LEMMA SumOfFiles ==
    ASSUME NEW done \in [File -> Nat], NEW c
    PROVE  MapThenSumSet(LAMBDA f : done[f] * Count(f, c), File) = Total(PerFile(done, c), File)
<1> DEFINE g == PerFile(done, c)
           Body(it) == [X \in SUBSET File |->
                          IF X = {} THEN 0
                          ELSE done[CHOOSE x \in X : TRUE] * Count(CHOOSE x \in X : TRUE, c)
                                 + it[X \ {CHOOSE x \in X : TRUE}]]
           F == CHOOSE it : it = Body(it)
<1>1. MapThenSumSet(LAMBDA f : done[f] * Count(f, c), File) = F[File]
  BY Zenon DEF MapThenSumSet, MapThenFoldSet
<1>2. /\ AreNaturals(g, File) /\ IsFiniteSet(File)
      /\ \A f \in File : g[f] = done[f] * Count(f, c)
  BY PerFileIs, ImportAssumption
<1>3. \A X \in SUBSET File : X # {} =>
         /\ Some(X) \in X
         /\ g[Some(X)] = done[CHOOSE x \in X : TRUE] * Count(CHOOSE x \in X : TRUE, c)
  <2> HIDE DEF g
  <2>1. \A X \in SUBSET File : X # {} => Some(X) \in X
    BY DEF Some
  <2> QED BY <1>2, <2>1 DEF Some
<1> HIDE DEF g
<1>4. PICK G \in [SUBSET File -> Nat] : Sums(G, g, File)
  BY <1>2, SumsExist
<1>5. G = Body(G)
  BY <1>3, <1>4 DEF Sums, Some
<1>6. F = Body(F)
  <2> HIDE DEF Body
  <2> QED BY <1>5
<1> HIDE DEF F
<1>7. Sums(F, g, File)
  BY <1>3, <1>6 DEF Sums, Some
<1>8. F[File] = Total(g, File)
  BY <1>2, <1>7, TotalIs
<1> QED BY <1>1, <1>8 DEF g

(* An import is all or nothing, for any files, importers, failures and       *)
(* crashes: the rows of a content count its mentions in the committed files, *)
(* each as often as it was imported.                                         *)
THEOREM MentionsAlwaysCounted == Spec => []EveryMentionCounted
<1>1. FactsInv => EveryMentionCounted
  <2> SUFFICES ASSUME FactsInv, NEW c \in Content
               PROVE  MapThenSumSet(LAMBDA r : 1 + rows[r].access, Of(c))
                         = MapThenSumSet(LAMBDA f : imported[f] * Count(f, c), File)
    BY DEF EveryMentionCounted
  <2>1. rows \in Seq(Row) /\ imported \in [File -> Nat]
        /\ Used(rows, c) = Total(PerFile(imported, c), File)
    BY DEF FactsInv, RowsOK, ImportInv, ControlOK
  <2>2. Of(c) = RowsOf(rows, c)
    BY DEF Of, RowsOf
  <2>3. MapThenSumSet(LAMBDA r : 1 + rows[r].access, RowsOf(rows, c)) = Used(rows, c)
    BY <2>1, SumOfRows
  <2>4. MapThenSumSet(LAMBDA f : imported[f] * Count(f, c), File)
            = Total(PerFile(imported, c), File)
    BY <2>1, SumOfFiles
  <2> QED BY <2>1, <2>2, <2>3, <2>4
<1> QED BY <1>1, AlwaysFacts, PTL

LEMMA LeastIsMin ==
    ASSUME NEW N \in SUBSET Nat, NEW M \in SUBSET Nat, SameLeast(N, M)
    PROVE  Min(N) = Min(M)
<1>1. PICK v \in N \cap M : \A n \in N \cup M : v <= n
  BY DEF SameLeast
<1>2. Min(N) \in N /\ \A n \in N : Min(N) <= n
  BY <1>1 DEF Min
<1>3. Min(M) \in M /\ \A n \in M : Min(M) <= n
  BY <1>1 DEF Min
<1>4. v \in Nat /\ Min(N) \in Nat /\ Min(M) \in Nat
  BY <1>1, <1>2, <1>3
<1>5. v <= Min(N) /\ Min(N) <= v /\ v <= Min(M) /\ Min(M) <= v
  BY <1>1, <1>2, <1>3
<1> QED BY <1>4, <1>5

LEMMA MostIsMax ==
    ASSUME NEW N \in SUBSET Nat, NEW M \in SUBSET Nat, SameMost(N, M)
    PROVE  Max(N) = Max(M)
<1>1. PICK v \in N \cap M : \A n \in N \cup M : n <= v
  BY DEF SameMost
<1>2. Max(N) \in N /\ \A n \in N : n <= Max(N)
  BY <1>1 DEF Max
<1>3. Max(M) \in M /\ \A n \in M : n <= Max(M)
  BY <1>1 DEF Max
<1>4. v \in Nat /\ Max(N) \in Nat /\ Max(M) \in Nat
  BY <1>1, <1>2, <1>3
<1>5. v <= Max(N) /\ Max(N) <= v /\ v <= Max(M) /\ Max(M) <= v
  BY <1>1, <1>2, <1>3
<1> QED BY <1>4, <1>5

(* First seen, last seen and the strongest signal of a content are those of  *)
(* its mentions, in whatever order any number of importers commit the files, *)
(* and a content that is not forgotten has one row.                          *)
THEOREM StatsAlwaysIndependent == Spec => []StatsIndependentOfOrder
<1>1. FactsInv => StatsIndependentOfOrder
  <2> SUFFICES ASSUME FactsInv, NEW c \in Content
               PROVE  /\ Cardinality(Same(rows, c)) <= 1
                      /\ Of(c) # {} =>
                            /\ Min({rows[r].created : r \in Of(c)}) = Min({m.at : m \in Seen(c)})
                            /\ Max({rows[r].accessed : r \in Of(c)}) = Max({m.at : m \in Seen(c)})
                            /\ Max({rows[r].weight : r \in Of(c)}) = Max({m.weight : m \in Seen(c)})
    BY DEF StatsIndependentOfOrder
  <2>1. rows \in Seq(Row) /\ StatsOf(rows, Mentioned(imported), c)
    BY DEF FactsInv, RowsOK
  <2>2. Cardinality(Same(rows, c)) <= 1
    <3>1. CASE Same(rows, c) = {}
      BY <3>1, FS_EmptySet
    <3>2. CASE Same(rows, c) # {}
      <4>1. PICK r : r \in Same(rows, c)
        BY <3>2
      <4>2. Same(rows, c) = {r}
        BY <2>1, <4>1 DEF StatsOf
      <4> QED BY <4>2, FS_Singleton
    <3> QED BY <3>1, <3>2
  <2>3. /\ {rows[r].created : r \in Of(c)} = Created(rows, c)
        /\ {rows[r].accessed : r \in Of(c)} = Accessed(rows, c)
        /\ {rows[r].weight : r \in Of(c)} = Weights(rows, c)
        /\ Of(c) = RowsOf(rows, c)
    BY DEF Of, RowsOf, Created, Accessed, Weights
  <2>4. /\ {m.at : m \in Seen(c)} = Times(Mentioned(imported), c)
        /\ {m.weight : m \in Seen(c)} = Signals(Mentioned(imported), c)
    BY DEF Seen, Mentioned, About, Times, Signals
  <2>5. /\ Created(rows, c) \in SUBSET Nat /\ Accessed(rows, c) \in SUBSET Nat
        /\ Weights(rows, c) \in SUBSET Nat
    <3>1. \A r \in DOMAIN rows : rows[r] \in Row
      BY <2>1
    <3> QED BY <3>1 DEF Created, Accessed, Weights, RowsOf, Row
  <2>6. Times(Mentioned(imported), c) \in SUBSET Nat /\ Signals(Mentioned(imported), c) \in SUBSET Nat
    <3>1. Mentioned(imported) \in SUBSET Mention
      <4>1. \A g \in File : ToSet(Mentions[g]) \subseteq Mention
        BY FilesAre DEF ToSet
      <4> QED BY <4>1 DEF Mentioned
    <3> QED BY <3>1 DEF Times, Signals, About, Mention
  <2>7. RowsOf(rows, c) # {} =>
           /\ SameLeast(Created(rows, c), Times(Mentioned(imported), c))
           /\ SameMost(Accessed(rows, c), Times(Mentioned(imported), c))
           /\ SameMost(Weights(rows, c), Signals(Mentioned(imported), c))
    BY <2>1 DEF StatsOf
  <2>8. RowsOf(rows, c) # {} =>
           /\ Min(Created(rows, c)) = Min(Times(Mentioned(imported), c))
           /\ Max(Accessed(rows, c)) = Max(Times(Mentioned(imported), c))
           /\ Max(Weights(rows, c)) = Max(Signals(Mentioned(imported), c))
    BY <2>5, <2>6, <2>7, LeastIsMin, MostIsMax
  <2> QED BY <2>2, <2>3, <2>4, <2>8
<1> QED BY <1>1, AlwaysFacts, PTL
=============================================================================
