------------------------- MODULE MemoryEngineProofs -------------------------
(***************************************************************************)
(* Theorems about MemoryEngine, for every bound, every set of callers and  *)
(* every set of operations: its types; its tables implement the bitemporal *)
(* ledger, a fact has at most one successor, and cold storage loses no     *)
(* fact.  Without the dream cycle an expiry takes the edges of its fact    *)
(* along; and with one caller who abandons nothing the in-memory graph and *)
(* its sidecar hold exactly the active edges.                              *)
(***************************************************************************)
EXTENDS MemoryEngine, FiniteSetTheorems, TLAPS

\* The part of the state the transactions change.
TablesOK ==
    /\ Ledger!LedgerTypeOK
    /\ pinned \subseteq FactId
    /\ nextFact \in 1..(MaxFacts + 1) /\ nextEdge \in 1..(MaxEdges + 1)

RowType == [st : {"active"}, src : FactId, tgt : FactId, rel : Ledger!Relation]

\* Changing the status of a row changes nothing else of it.
LEMMA MarkedRow ==
    ASSUME NEW r \in Ledger!EdgeRow, NEW s \in {"expired", "purged"}
    PROVE  /\ Ledger!Marked(r, s) \in Ledger!EdgeRow
           /\ Ledger!Marked(r, s).st = s
           /\ Ledger!Marked(r, s).src = r.src
           /\ Ledger!Marked(r, s).tgt = r.tgt
           /\ Ledger!Marked(r, s).rel = r.rel
  BY DEF Ledger!Marked, Ledger!EdgeRow, Ledger!Status

\* Write keeps the tables well typed, whatever rows it is given.
LEMMA WriteTables ==
    ASSUME TablesOK, NEW born \in SUBSET {nextFact}, NEW dead, NEW cut,
           NEW new \in Seq(RowType), Write(born, dead, cut, new)
    PROVE  TablesOK'
<1> USE EngineBounds DEF FactId, EdgeId
<1>1. fact' \in [FactId -> Ledger!Status]
  BY DEF Write, TablesOK, Ledger!LedgerTypeOK, Ledger!Status, Ledger!FactId
<1>2. edge' \in [EdgeId -> Ledger!EdgeRow \cup {Ledger!NoEdge}]
  <2> SUFFICES ASSUME NEW e \in EdgeId
               PROVE  edge'[e] \in Ledger!EdgeRow \cup {Ledger!NoEdge}
    BY DEF Write
  <2>1. CASE e \in nextEdge..(nextEdge + Len(new) - 1)
    <3>1. e - nextEdge + 1 \in 1..Len(new)
      BY <2>1 DEF TablesOK
    <3>2. new[e - nextEdge + 1] \in RowType
      BY <3>1
    <3> QED BY <2>1, <3>2 DEF Write, RowType, Ledger!EdgeRow, Ledger!Status,
                              Ledger!FactId
  <2>2. CASE e \notin nextEdge..(nextEdge + Len(new) - 1)
    <3>1. edge[e] \in Ledger!EdgeRow \cup {Ledger!NoEdge}
      BY DEF TablesOK, Ledger!LedgerTypeOK, Ledger!EdgeId
    <3>2. edge[e].st = "active" => edge[e] \in Ledger!EdgeRow
      BY <3>1 DEF Ledger!NoEdge
    <3> QED BY <2>2, <3>1, <3>2, MarkedRow DEF Write
  <2> QED BY <2>1, <2>2
<1>3. pinned' \subseteq FactId
  BY DEF Write, TablesOK
<1>4. nextFact' \in 1..(MaxFacts + 1)
  BY DEF Write, TablesOK
<1>5. nextEdge' \in 1..(MaxEdges + 1)
  BY DEF Write, TablesOK
<1> QED BY <1>1, <1>2, <1>3, <1>4, <1>5
       DEF TablesOK, Ledger!LedgerTypeOK, Ledger!FactId, Ledger!EdgeId

-----------------------------------------------------------------------------
(* Every step that touches the tables is one of three kinds of             *)
(* transaction.                                                            *)

\* The rows appended join facts of the table, or the fact inserted with them;
\* a row of succession expires its target in the same transaction, once.
SoundRows(born, dead, new) ==
    \A i \in 1..Len(new) :
        /\ Exists(new[i].src) \/ new[i].src \in born
        /\ Exists(new[i].tgt)
        /\ new[i].rel \in Succession =>
            /\ new[i].tgt \in dead
            /\ \A j \in 1..Len(new) : new[j].tgt = new[i].tgt => j = i

WriteStep ==
    \E born \in SUBSET {nextFact}, dead \in SUBSET ActiveFacts :
    \E cut \in SUBSET dead, new \in Seq(RowType) :
        SoundRows(born, dead, new) /\ Write(born, dead, cut, new)

ExpireEdgeStep ==
    /\ \E e \in ActiveEdges :
         edge' = [edge EXCEPT ![e] = Ledger!Marked(@, "expired")]
    /\ UNCHANGED <<fact, pinned, nextFact, nextEdge>>

PurgeStep ==
    \E t \in Task :
        /\ ArchiveCommit(t) /\ At(t, "archive")
        /\ fact' = [f \in FactId |-> IF f \in task[t].facts THEN "purged"
                                                          ELSE fact[f]]
        /\ edge' = [e \in EdgeId |->
                      IF e \in ArchivedEdges(task[t].facts)
                      THEN Ledger!Marked(edge[e], "purged") ELSE edge[e]]
        /\ pinned' \subseteq pinned
        /\ UNCHANGED <<nextFact, nextEdge>>

QuietStep ==
    /\ UNCHANGED <<fact, edge, nextFact, nextEdge>>
    /\ pinned' \subseteq FactId

TasksOK == task \in [Task -> TaskState]

LEMMA Transactions ==
    ASSUME TablesOK, TasksOK, [Next]_vars
    PROVE  WriteStep \/ ExpireEdgeStep \/ PurgeStep \/ QuietStep
<1> USE EngineBounds DEF FactId, EdgeId
<1>a. ActiveFacts \subseteq FactId /\ \A f \in ActiveFacts : Exists(f)
  BY DEF ActiveFacts, Active, Exists
<1>b. ASSUME NEW old \in ActiveFacts, nextFact \in FactId, NEW r \in Ledger!Relation
      PROVE  /\ <<Row(nextFact, old, r)>> \in Seq(RowType)
             /\ Len(<<Row(nextFact, old, r)>>) = 1
             /\ <<Row(nextFact, old, r)>>[1] = Row(nextFact, old, r)
             /\ Row(nextFact, old, r).src = nextFact
             /\ Row(nextFact, old, r).tgt = old
             /\ Row(nextFact, old, r).rel = r
  <2>1. Row(nextFact, old, r) \in RowType
    BY <1>a, <1>b DEF Row, RowType
  <2> QED BY <2>1 DEF Row
<1>d. ASSUME NEW old \in ActiveFacts, nextFact \in FactId,
             NEW r \in Ledger!Relation, NEW dead,
             r \in Succession => old \in dead
      PROVE  SoundRows({nextFact}, dead, <<Row(nextFact, old, r)>>)
  <2> DEFINE rows == <<Row(nextFact, old, r)>>
  <2>1. /\ Len(rows) = 1 /\ rows[1].src = nextFact
        /\ rows[1].tgt = old /\ rows[1].rel = r
    BY <1>b, <1>d
  <2>2. Exists(old)
    BY <1>a
  <2>3. \A i \in 1..Len(rows) : i = 1
    BY <2>1
  <2> HIDE DEF rows
  <2>4. SoundRows({nextFact}, dead, rows)
    BY <2>1, <2>2, <2>3, <1>d DEF SoundRows
  <2> QED BY <2>4 DEF rows
<1>c. <<>> \in Seq(RowType) /\ \A born, dead : SoundRows(born, dead, <<>>)
  BY DEF SoundRows
<1>1. ASSUME NEW t \in Task, Step(t)
      PROVE  WriteStep \/ ExpireEdgeStep \/ PurgeStep \/ QuietStep
  <2>1. CASE AddFact(t)
    BY <1>c, <2>1 DEF AddFact, WriteStep
  <2>2. CASE SetPinned(t)
    BY <2>2 DEF SetPinned, QuietStep, OnlyTables, TablesOK
  <2>3. CASE ResolveAdd(t)
    <3>1. PICK old \in task[t].facts :
            /\ Active(old)
            /\ Write({nextFact}, {}, {}, <<Row(nextFact, old, "supplements")>>)
      BY <2>3 DEF ResolveAdd
    <3>2. old \in ActiveFacts /\ nextFact \in FactId
      BY <3>1 DEF ActiveFacts, Write, TasksOK, TaskState
    <3>3. SoundRows({nextFact}, {}, <<Row(nextFact, old, "supplements")>>)
      BY <1>a, <1>d, <3>2 DEF Succession, Ledger!Relation
    <3> QED BY <1>b, <3>1, <3>2, <3>3 DEF WriteStep, Ledger!Relation
  <2>4. CASE ResolveUpdate(t)
    <3>1. PICK old \in task[t].facts :
            /\ Active(old)
            /\ Write({nextFact}, {old}, {old},
                     <<Row(nextFact, old, "contradicts")>>)
      BY <2>4 DEF ResolveUpdate
    <3>2. old \in ActiveFacts /\ nextFact \in FactId
      BY <3>1 DEF ActiveFacts, Write, TasksOK, TaskState
    <3>3. SoundRows({nextFact}, {old}, <<Row(nextFact, old, "contradicts")>>)
      BY <1>a, <1>d, <3>2 DEF Succession, Ledger!Relation
    <3> QED BY <1>b, <3>1, <3>2, <3>3 DEF WriteStep, Ledger!Relation
  <2>5. CASE ResolveDelete(t)
    <3>1. PICK old \in task[t].facts : Active(old) /\ Write({}, {old}, {old}, <<>>)
      BY <2>5 DEF ResolveDelete
    <3>2. {old} \in SUBSET ActiveFacts
      BY <3>1 DEF ActiveFacts, TasksOK, TaskState
    <3> QED BY <1>c, <3>1, <3>2 DEF WriteStep
  <2>6. CASE LinkCommit(t)
    <3> DEFINE S == task[t].facts
    <3>0. PICK n \in 0..MaxEdges :
            \E pairs \in [1..n -> Missing(S)] :
            Write({}, {}, {}, [i \in 1..n |->
                                Row(pairs[i][1], pairs[i][2], "co_session")])
      BY <2>6 DEF LinkCommit
    <3>1. PICK pairs \in [1..n -> Missing(S)] :
            Write({}, {}, {}, [i \in 1..n |->
                                Row(pairs[i][1], pairs[i][2], "co_session")])
      BY <3>0
    <3> DEFINE rows == [i \in 1..n |->
                         Row(pairs[i][1], pairs[i][2], "co_session")]
    <3>2. \A i \in 1..n : pairs[i][1] \in S /\ pairs[i][2] \in S
      BY DEF Missing
    <3>3. \A f \in S : Exists(f) /\ f \in FactId
      BY <2>6 DEF LinkCommit, TasksOK, TaskState
    <3>4. rows \in [1..n -> RowType] /\ n \in Nat
      BY <3>2, <3>3 DEF Row, RowType, Ledger!Relation
    <3>5. rows \in Seq(RowType) /\ Len(rows) = n
      BY <3>4
    <3>6. SoundRows({}, {}, rows)
      BY <3>2, <3>3, <3>5 DEF SoundRows, Row, Succession
    <3> QED BY <3>1, <3>5, <3>6 DEF WriteStep
  <2>7. CASE ExpireEdge(t)
    BY <2>7 DEF ExpireEdge, ExpireEdgeStep
  <2>8. CASE PruneCommit(t)
    BY <1>c, <2>8 DEF PruneCommit, WriteStep
  <2>9. CASE ConsolidateApply(t)
    <3>1. MergeLosers(task[t].plan) \in SUBSET ActiveFacts
      BY DEF MergeLosers
    <3> QED BY <1>c, <2>9, <3>1 DEF ConsolidateApply, WriteStep
  <2>10. CASE CycleCommit(t)
    <3>1. PICK born \in SUBSET ({nextFact} \cap FactId),
               quarantine \in SUBSET ActiveFacts, n \in 0..MaxDeltas :
            \E succ \in [1..n -> (ActiveFacts \cup born) \X ActiveFacts] :
              /\ ValidSuccession(succ, born, quarantine)
              /\ Write(born, quarantine \cup {succ[i][2] : i \in 1..n}, {},
                       [i \in 1..n |->
                          Row(succ[i][1], succ[i][2], "supersedes")])
      BY <2>10, ZenonT(60) DEF CycleCommit
    <3>2. PICK succ \in [1..n -> (ActiveFacts \cup born) \X ActiveFacts] :
              /\ ValidSuccession(succ, born, quarantine)
              /\ Write(born, quarantine \cup {succ[i][2] : i \in 1..n}, {},
                       [i \in 1..n |->
                          Row(succ[i][1], succ[i][2], "supersedes")])
      BY <3>1
    <3> DEFINE olds == {succ[i][2] : i \in 1..n}
               rows == [i \in 1..n |->
                          Row(succ[i][1], succ[i][2], "supersedes")]
    <3>3. \A i \in 1..n : /\ succ[i][1] \in ActiveFacts \cup born
                          /\ succ[i][2] \in ActiveFacts
      OBVIOUS
    <3>a. ActiveFacts \cup born \subseteq FactId
      BY <1>a
    <3>b. \A i \in 1..n : succ[i][1] \in FactId /\ succ[i][2] \in FactId
      BY <3>3, <3>a
    <3>4. rows \in [1..n -> RowType] /\ n \in Nat
      BY <3>b DEF Row, RowType, Ledger!Relation
    <3>5. rows \in Seq(RowType) /\ Len(rows) = n
      BY <3>4
    <3>6. \A i, j \in 1..n : succ[i][2] = succ[j][2] => i = j
      <4>1. \A i, j \in 1..n : j < i => succ[j][2] # succ[i][2]
        BY <3>2 DEF ValidSuccession
      <4> QED BY <4>1
    <3>7. \A i \in 1..n : rows[i].src = succ[i][1] /\ rows[i].tgt = succ[i][2]
      BY DEF Row
    <3>8. SoundRows(born, quarantine \cup olds, rows)
      <4> SUFFICES ASSUME NEW i \in 1..n
                   PROVE  /\ Exists(rows[i].src) \/ rows[i].src \in born
                          /\ Exists(rows[i].tgt)
                          /\ rows[i].tgt \in quarantine \cup olds
                          /\ \A j \in 1..n : rows[j].tgt = rows[i].tgt => j = i
        BY <3>5 DEF SoundRows
      <4>1. succ[i][2] \in olds
        OBVIOUS
      <4>2. \A j \in 1..n : rows[j].tgt = rows[i].tgt => j = i
        BY <3>6, <3>7
      <4> QED BY <1>a, <3>3, <3>7, <4>1, <4>2
    <3>9. olds \subseteq ActiveFacts
      BY <3>3
    <3> HIDE DEF rows, olds
    <3>10. Write(born, quarantine \cup olds, {}, rows)
      BY <3>2 DEF rows, olds
    <3> QED BY <3>5, <3>8, <3>9, <3>10 DEF WriteStep
  <2>11. CASE ArchiveCommit(t)
    BY <2>11 DEF ArchiveCommit, PurgeStep
  <2>12. CASE \/ Mirror(t) \/ Unlink(t) \/ ConsolidateSwap(t) \/ CycleMirror(t)
              \/ ArchivePack(t) \/ ArchiveRollback(t) \/ FlushSave(t)
    BY <2>12 DEF Mirror, Unlink, ConsolidateSwap, CycleMirror, ArchivePack,
                 ArchiveRollback, FlushSave, NoTables, db, QuietStep, TablesOK
  <2>13. CASE \/ Rollback(t) \/ ResolveRead(t) \/ LinkRead(t) \/ PruneRead(t)
              \/ ConsolidateRead(t) \/ ConsolidateReload(t)
              \/ FlushCapture(t) \/ FlushStamp(t) \/ Abandon(t)
    BY <2>13 DEF Rollback, ResolveRead, LinkRead, PruneRead, ConsolidateRead,
                 ConsolidateReload, FlushCapture, FlushStamp, Abandon,
                 OnlyTask, NoTables, db, QuietStep, TablesOK
  <2> QED BY <1>1, <2>1, <2>2, <2>3, <2>4, <2>5, <2>6, <2>7, <2>8, <2>9,
             <2>10, <2>11, <2>12, <2>13 DEF Step
<1>2. CASE Crash \/ Open
  BY <1>2 DEF Crash, Open, NoTables, db, QuietStep, TablesOK
<1>3. CASE UNCHANGED vars
  BY <1>3 DEF vars, QuietStep, TablesOK
<1> QED BY <1>1, <1>2, <1>3 DEF Next

-----------------------------------------------------------------------------
(* Type correctness.                                                       *)

LEMMA TablesStep ==
    ASSUME TablesOK, TasksOK, [Next]_vars
    PROVE  TablesOK'
<1> USE EngineBounds DEF FactId, EdgeId
<1>1. CASE WriteStep
  <2>1. PICK born \in SUBSET {nextFact}, dead \in SUBSET ActiveFacts :
          \E cut \in SUBSET dead, new \in Seq(RowType) :
            SoundRows(born, dead, new) /\ Write(born, dead, cut, new)
    BY <1>1 DEF WriteStep
  <2> QED BY <2>1, WriteTables
<1>2. CASE ExpireEdgeStep
  <2>1. PICK e \in ActiveEdges :
          edge' = [edge EXCEPT ![e] = Ledger!Marked(@, "expired")]
    BY <1>2 DEF ExpireEdgeStep
  <2>2. e \in EdgeId /\ edge[e] \in Ledger!EdgeRow
    BY DEF ActiveEdges, TablesOK, Ledger!LedgerTypeOK, Ledger!EdgeId,
           Ledger!NoEdge
  <2>3. Ledger!Marked(edge[e], "expired") \in Ledger!EdgeRow
    BY <2>2, MarkedRow
  <2> QED BY <1>2, <2>1, <2>2, <2>3
          DEF ExpireEdgeStep, TablesOK, Ledger!LedgerTypeOK, Ledger!EdgeId
<1>3. CASE PurgeStep
  <2>1. PICK t \in Task :
          /\ fact' = [f \in FactId |-> IF f \in task[t].facts THEN "purged"
                                                            ELSE fact[f]]
          /\ edge' = [e \in EdgeId |->
                        IF e \in ArchivedEdges(task[t].facts)
                        THEN Ledger!Marked(edge[e], "purged") ELSE edge[e]]
    BY <1>3 DEF PurgeStep
  <2>2. \A e \in EdgeId : EdgeExists(e) => edge[e] \in Ledger!EdgeRow
    BY DEF EdgeExists, TablesOK, Ledger!LedgerTypeOK, Ledger!EdgeId,
           Ledger!NoEdge
  <2>3. \A e \in ArchivedEdges(task[t].facts) :
          Ledger!Marked(edge[e], "purged") \in Ledger!EdgeRow
    BY <2>2, MarkedRow DEF ArchivedEdges
  <2>4. Ledger!LedgerTypeOK'
    BY <2>1, <2>3 DEF TablesOK, Ledger!LedgerTypeOK, Ledger!EdgeId,
                      Ledger!FactId, Ledger!Status
  <2> QED BY <1>3, <2>4 DEF PurgeStep, TablesOK
<1>4. CASE QuietStep
  BY <1>4 DEF QuietStep, TablesOK, Ledger!LedgerTypeOK
<1> QED BY <1>1, <1>2, <1>3, <1>4, Transactions

\* Every stage but the one between packing an archive and committing it; a
\* merge plan under way is one compute_dedup can return.
Working == {s \in TaskState : /\ s.at # "archive"
                              /\ s.at = "dedup" => DedupPlan(s.plan)}

\* The registers a stage leaves its task with.
LEMMA Registers ==
    /\ Idle \in Working
    /\ \A s \in Stage \ {"archive"} :
         /\ [Idle EXCEPT !.at = s] \in Working
         /\ \A facts \in SUBSET FactId, edges \in SUBSET EdgeId :
              [Idle EXCEPT !.at = s, !.facts = facts, !.edges = edges] \in Working
         /\ \A facts \in SUBSET FactId :
              [Idle EXCEPT !.at = s, !.facts = facts] \in Working
         /\ \A edges \in SUBSET EdgeId :
              [Idle EXCEPT !.at = s, !.edges = edges] \in Working
         /\ \A plan \in SUBSET (FactId \X FactId) : DedupPlan(plan) =>
              [Idle EXCEPT !.at = s, !.plan = plan] \in Working
         /\ \A image \in SUBSET Image :
              [Idle EXCEPT !.at = s, !.image = image] \in Working
    /\ \A facts \in SUBSET FactId :
         [Idle EXCEPT !.at = "archive", !.facts = facts] \in TaskState
<1>0. DedupPlan({})
  BY DEF DedupPlan, Losers
<1>1. Idle \in Working
  BY DEF Idle, TaskState, Stage, Working
<1> SUFFICES ASSUME NEW s \in Stage
             PROVE  /\ s # "archive" => [Idle EXCEPT !.at = s] \in Working
                    /\ \A facts \in SUBSET FactId, edges \in SUBSET EdgeId :
                         s # "archive" =>
                           [Idle EXCEPT !.at = s, !.facts = facts,
                                        !.edges = edges] \in Working
                    /\ \A facts \in SUBSET FactId :
                         /\ [Idle EXCEPT !.at = s, !.facts = facts] \in TaskState
                         /\ s # "archive" =>
                              [Idle EXCEPT !.at = s, !.facts = facts] \in Working
                    /\ \A edges \in SUBSET EdgeId : s # "archive" =>
                         [Idle EXCEPT !.at = s, !.edges = edges] \in Working
                    /\ \A plan \in SUBSET (FactId \X FactId) :
                         s # "archive" /\ DedupPlan(plan) =>
                           [Idle EXCEPT !.at = s, !.plan = plan] \in Working
                    /\ \A image \in SUBSET Image : s # "archive" =>
                         [Idle EXCEPT !.at = s, !.image = image] \in Working
  BY <1>1 DEF Stage
<1> USE DEF Idle, TaskState, Working
<1>2. s # "archive" => [Idle EXCEPT !.at = s] \in Working
  BY <1>0
<1>3. \A facts \in SUBSET FactId, edges \in SUBSET EdgeId : s # "archive" =>
        [Idle EXCEPT !.at = s, !.facts = facts, !.edges = edges] \in Working
  BY <1>0
<1>4. \A facts \in SUBSET FactId :
        /\ [Idle EXCEPT !.at = s, !.facts = facts] \in TaskState
        /\ s # "archive" => [Idle EXCEPT !.at = s, !.facts = facts] \in Working
  BY <1>0
<1>5. \A edges \in SUBSET EdgeId : s # "archive" =>
        [Idle EXCEPT !.at = s, !.edges = edges] \in Working
  BY <1>0
<1>6. \A plan \in SUBSET (FactId \X FactId) :
        s # "archive" /\ DedupPlan(plan) => [Idle EXCEPT !.at = s, !.plan = plan] \in Working
  BY <1>0
<1>7. \A image \in SUBSET Image : s # "archive" =>
        [Idle EXCEPT !.at = s, !.image = image] \in Working
  BY <1>0
<1> HIDE DEF Idle, TaskState, Working
<1> QED BY <1>2, <1>3, <1>4, <1>5, <1>6, <1>7, Zenon

\* DbFingerprint holds four natural numbers.
LEMMA FingerprintType ==
    Fingerprint \in [max_fact_id : Nat, active_fact_count : Nat,
                     max_edge_id : Nat, active_edge_count : Nat]
<1>1. ASSUME NEW n \in Nat
      PROVE  \A S \in SUBSET (1..n) : Cardinality(S) \in Nat
  <2>1. IsFiniteSet(1..n)
    BY FS_Interval
  <2>2. \A S \in SUBSET (1..n) : IsFiniteSet(S)
    BY <2>1, FS_Subset
  <2> QED BY <2>2, FS_CardinalityType
<1>2. /\ \A S \in SUBSET (1..MaxFacts) : Cardinality(S) \in Nat
      /\ \A S \in SUBSET (1..MaxEdges) : Cardinality(S) \in Nat
  BY <1>1, EngineBounds
<1>3. ActiveFacts \in SUBSET (1..MaxFacts) /\ ActiveEdges \in SUBSET (1..MaxEdges)
  BY DEF ActiveFacts, ActiveEdges, FactId, EdgeId
<1>4. /\ \A ids : Highest(ids, MaxFacts) \in Nat
      /\ \A ids : Highest(ids, MaxEdges) \in Nat
  BY <1>2 DEF Highest
<1> QED BY <1>2, <1>3, <1>4 DEF Fingerprint

LEMMA StepRegisters ==
    ASSUME TypeOK, NEW t \in Task, Step(t)
    PROVE  \/ \E s \in Working : task' = task \/ Become(t, s)
           \/ ArchivePack(t) /\ \E s \in TaskState : Become(t, s)
<1> USE EngineBounds DEF FactId, EdgeId, MirrorOf, Finish
<1>a. ActiveFacts \subseteq FactId /\ ActiveEdges \subseteq EdgeId
  BY DEF ActiveFacts, ActiveEdges
<1>b. task[t] \in TaskState /\ nextEdge \in Nat \ {0}
  BY DEF TypeOK
<1>c. Idle \in Working
  BY Registers
<1>d. \A n \in Nat : nextEdge + n <= MaxEdges + 1 => AppendedIds(n) \subseteq EdgeId
  BY <1>b DEF AppendedIds
<1>1. CASE AddFact(t) \/ SetPinned(t)
  BY <1>1, <1>c DEF AddFact, SetPinned
<1>2. CASE \/ Mirror(t) \/ Rollback(t) \/ Unlink(t) \/ ConsolidateSwap(t)
           \/ CycleMirror(t) \/ ArchiveRollback(t) \/ FlushSave(t) \/ Abandon(t)
  BY <1>2, <1>c DEF Mirror, Rollback, Unlink, ConsolidateSwap, CycleMirror,
                    ArchiveRollback, FlushSave, Abandon
<1>3. CASE ResolveRead(t) \/ LinkRead(t) \/ PruneRead(t)
  <2>1. PICK F \in SUBSET FactId, s \in Stage \ {"archive"} :
          Become(t, [Idle EXCEPT !.at = s, !.facts = F])
    BY <1>3, <1>a DEF ResolveRead, LinkRead, PruneRead, Stage
  <2> QED BY <2>1, Registers
<1>4. CASE ResolveAdd(t) \/ ResolveUpdate(t) \/ ResolveDelete(t)
  <2>1. PICK F \in SUBSET FactId, E \in SUBSET EdgeId :
          Become(t, [Idle EXCEPT !.at = "mirror", !.facts = F, !.edges = E])
    <3>1. task[t].facts \subseteq FactId /\ {} \in SUBSET EdgeId
      BY <1>b DEF TaskState
    <3>2. CASE ResolveAdd(t)
      <4>1. nextEdge + 1 <= MaxEdges + 1
        BY <3>2 DEF ResolveAdd, Write
      <4>2. AppendedIds(1) \subseteq EdgeId
        BY <4>1, <1>d
      <4> QED BY <3>2, <4>2 DEF ResolveAdd
    <3>3. CASE ResolveUpdate(t)
      <4>1. nextEdge + 1 <= MaxEdges + 1
        BY <3>3 DEF ResolveUpdate, Write
      <4>2. AppendedIds(1) \subseteq EdgeId
        BY <4>1, <1>d
      <4>3. PICK old \in task[t].facts : Become(t, MirrorOf({old}, AppendedIds(1)))
        BY <3>3 DEF ResolveUpdate
      <4> QED BY <3>1, <4>2, <4>3
    <3>4. CASE ResolveDelete(t)
      BY <3>1, <3>4 DEF ResolveDelete
    <3> QED BY <1>4, <3>2, <3>3, <3>4
  <2> QED BY <2>1, Registers DEF Stage
<1>5. CASE LinkCommit(t)
  <2>1. PICK n \in 0..MaxEdges :
          \E pairs \in [1..n -> Missing(task[t].facts)] :
            /\ Write({}, {}, {}, [i \in 1..n |->
                                Row(pairs[i][1], pairs[i][2], "co_session")])
            /\ Become(t, MirrorOf({}, AppendedIds(n)))
    BY <1>5 DEF LinkCommit
  <2>2. nextEdge + n <= MaxEdges + 1
    BY <2>1 DEF Write
  <2>3. AppendedIds(n) \in SUBSET EdgeId /\ {} \in SUBSET FactId
    BY <1>d, <2>2
  <2> QED BY <2>1, <2>3, Registers DEF Stage
<1>6. CASE ExpireEdge(t)
  <2>1. PICK e \in EdgeId : Become(t, [Idle EXCEPT !.at = "unlink", !.edges = {e}])
    BY <1>6, <1>a DEF ExpireEdge
  <2> QED BY <2>1, Registers DEF Stage
<1>7. CASE PruneCommit(t) \/ ArchiveCommit(t)
  <2>1. Become(t, MirrorOf(task[t].facts, {}))
    BY <1>7 DEF PruneCommit, ArchiveCommit
  <2>2. task[t].facts \in SUBSET FactId /\ {} \in SUBSET EdgeId
    BY <1>b DEF TaskState
  <2> QED BY <2>1, <2>2, Registers DEF Stage
<1>8. CASE ConsolidateRead(t)
  <2>1. PICK plan \in SUBSET ((ActiveFacts \ pinned) \X (ActiveFacts \ pinned)) :
          DedupPlan(plan) /\ Become(t, [Idle EXCEPT !.at = "dedup", !.plan = plan])
    BY <1>8 DEF ConsolidateRead
  <2>2. plan \in SUBSET (FactId \X FactId)
    BY <1>a
  <2> QED BY <2>1, <2>2, Registers DEF Stage
<1>9. CASE ConsolidateApply(t)
  BY <1>9, <1>c, Registers DEF ConsolidateApply, Stage
<1>10. CASE ConsolidateReload(t)
  BY <1>10, <1>a, Registers DEF ConsolidateReload, Stage
<1>11. CASE CycleCommit(t)
  <2>1. PICK n \in 0..MaxDeltas, olds \in SUBSET ActiveFacts :
          /\ nextEdge + n <= MaxEdges + 1
          /\ \/ Finish(t)
             \/ Become(t, [Idle EXCEPT !.at = "cycled", !.facts = olds,
                                       !.edges = AppendedIds(n)])
    <3>1. PICK born \in SUBSET ({nextFact} \cap FactId),
               quarantine \in SUBSET ActiveFacts, n \in 0..MaxDeltas :
            \E succ \in [1..n -> (ActiveFacts \cup born) \X ActiveFacts] :
              LET olds == {succ[i][2] : i \in 1..n}
              IN  /\ Write(born, quarantine \cup olds, {},
                       [i \in 1..n |->
                          Row(succ[i][1], succ[i][2], "supersedes")])
                  /\ IF n = 0 THEN Finish(t)
                     ELSE Become(t, [Idle EXCEPT !.at = "cycled",
                                       !.facts = olds,
                                       !.edges = AppendedIds(n)])
      BY <1>11, ZenonT(60) DEF CycleCommit
    <3>2. PICK succ \in [1..n -> (ActiveFacts \cup born) \X ActiveFacts] :
              LET olds == {succ[i][2] : i \in 1..n}
              IN  /\ Write(born, quarantine \cup olds, {},
                       [i \in 1..n |->
                          Row(succ[i][1], succ[i][2], "supersedes")])
                  /\ IF n = 0 THEN Finish(t)
                     ELSE Become(t, [Idle EXCEPT !.at = "cycled",
                                       !.facts = olds,
                                       !.edges = AppendedIds(n)])
      BY <3>1
    <3>3. {succ[i][2] : i \in 1..n} \in SUBSET ActiveFacts
      OBVIOUS
    <3>4. nextEdge + n <= MaxEdges + 1
      BY <3>2 DEF Write
    <3> QED BY <3>2, <3>3, <3>4
  <2>2. AppendedIds(n) \in SUBSET EdgeId /\ olds \in SUBSET FactId
    BY <1>a, <1>d, <2>1
  <2> QED BY <2>1, <2>2, <1>c, Registers DEF Stage
<1>12. CASE ArchivePack(t)
  <2>1. PICK A \in SUBSET FactId : Become(t, [Idle EXCEPT !.at = "archive", !.facts = A])
    BY <1>12 DEF ArchivePack
  <2>2. \E s \in TaskState : Become(t, s)
    BY <2>1, Registers
  <2> QED BY <1>12, <2>2
<1>13. CASE FlushCapture(t)
  <2>1. {[graph |-> graph, fp |-> Unstamped]} \in SUBSET Image
    BY DEF TypeOK, Image, Unstamped
  <2> QED BY <1>13, <2>1, Registers DEF FlushCapture, Stage
<1>14. CASE FlushStamp(t)
  <2>1. \A i \in task[t].image : [i EXCEPT !.fp = Fingerprint] \in Image
    BY <1>b, FingerprintType DEF TaskState, Image
  <2>2. {[i EXCEPT !.fp = Fingerprint] : i \in task[t].image} \in SUBSET Image
    BY <2>1
  <2> QED BY <1>14, <2>2, Registers DEF FlushStamp, Stage
<1> QED BY <1>1, <1>2, <1>3, <1>4, <1>5, <1>6, <1>7, <1>8, <1>9, <1>10, <1>11,
           <1>12, <1>13, <1>14 DEF Step

LEMMA TypeInit == Init => TypeOK
<1> SUFFICES ASSUME Init PROVE TypeOK
  OBVIOUS
<1> USE EngineBounds DEF Init
<1>1. Ledger!LedgerTypeOK
  BY DEF Ledger!LedgerTypeOK, Ledger!FactId, Ledger!EdgeId, Ledger!Status,
         FactId, EdgeId
<1>2. graph \in [EdgeId -> Nat] /\ task \in [Task -> TaskState]
  BY Registers DEF Working
<1> QED BY <1>1, <1>2 DEF TypeOK

LEMMA TypeStep ==
    ASSUME TypeOK, [Next]_vars
    PROVE  TypeOK'
<1>1. TablesOK /\ TasksOK
  BY DEF TypeOK, TablesOK, TasksOK
<1>2. TablesOK'
  BY <1>1, TablesStep
<1>3. task' \in [Task -> TaskState]
  <2>1. ASSUME NEW t \in Task, Step(t) PROVE task' \in [Task -> TaskState]
    <3>1. PICK s \in TaskState : task' = task \/ Become(t, s)
      BY <2>1, StepRegisters DEF Working
    <3> QED BY <1>1, <3>1 DEF Become, TasksOK
  <2>2. CASE Crash \/ Open \/ UNCHANGED vars
    BY <1>1, <2>2, Registers DEF Crash, Open, vars, TasksOK, Working
  <2> QED BY <2>1, <2>2 DEF Next
<1>4. graph' \in [EdgeId -> Nat]
  <2>a. graph \in [EdgeId -> Nat]
    BY DEF TypeOK
  <2>1. ASSUME NEW t \in Task, Step(t) PROVE graph' \in [EdgeId -> Nat]
    <3>1. CASE Mirror(t)
      BY <2>a, <3>1 DEF Mirror, Mirrored
    <3>2. CASE Unlink(t)
      BY <2>a, <3>2 DEF Unlink
    <3>3. CASE ConsolidateSwap(t)
      BY <3>3 DEF ConsolidateSwap
    <3>4. CASE CycleMirror(t)
      BY <2>a, <3>4 DEF CycleMirror
    <3>5. CASE graph' = graph
      BY <2>a, <3>5
    <3>6. \/ Mirror(t) \/ Unlink(t) \/ ConsolidateSwap(t) \/ CycleMirror(t)
          \/ graph' = graph
      BY <2>1 DEF Step, AddFact, SetPinned, Rollback, ResolveRead, ResolveAdd,
             ResolveUpdate, ResolveDelete, LinkRead, LinkCommit, ExpireEdge,
             PruneRead, PruneCommit, ConsolidateRead, ConsolidateApply,
             ConsolidateReload, CycleCommit, ArchivePack, ArchiveCommit,
             ArchiveRollback, FlushCapture, FlushStamp, FlushSave, Abandon,
             OnlyTables, OnlyTask
    <3> QED BY <3>1, <3>2, <3>3, <3>4, <3>5, <3>6
  <2>2. CASE Crash
    BY <2>2 DEF Crash
  <2>3. CASE Open
    BY <2>3 DEF Open, ActiveGraph, TypeOK, Image
  <2>4. CASE UNCHANGED vars
    BY <2>4, <2>a DEF vars
  <2> QED BY <2>1, <2>2, <2>3, <2>4 DEF Next
<1>5. sidecar' \subseteq Image
  <2>1. ASSUME NEW t \in Task, Step(t)
        PROVE  sidecar' = sidecar \/ sidecar' = task[t].image
    BY <2>1 DEF Step, Mirror, Unlink, ConsolidateSwap, CycleMirror,
           AddFact, SetPinned, Rollback, ResolveRead, ResolveAdd,
           ResolveUpdate, ResolveDelete, LinkRead, LinkCommit, ExpireEdge,
           PruneRead, PruneCommit, ConsolidateRead, ConsolidateApply,
           ConsolidateReload, CycleCommit, ArchivePack, ArchiveCommit,
           ArchiveRollback, FlushCapture, FlushStamp, FlushSave, Abandon,
           OnlyTables, OnlyTask
  <2>2. \A t \in Task : task[t].image \subseteq Image
    BY DEF TypeOK, TaskState
  <2> QED BY <2>1, <2>2 DEF Next, Crash, Open, vars, TypeOK
<1>6. disk' \subseteq Pak /\ manifest' \subseteq Pak
  <2>a. disk \subseteq Pak /\ manifest \subseteq Pak
    BY DEF TypeOK
  <2>1. ASSUME NEW t \in Task, Step(t)
        PROVE  disk' \subseteq Pak /\ manifest' \subseteq Pak
    <3>1. CASE ArchivePack(t)
      BY <2>a, <3>1 DEF ArchivePack, Pak, NoTables, db
    <3>2. CASE ArchiveCommit(t)
      BY <2>a, <3>2 DEF ArchiveCommit, Pak, TypeOK, TaskState
    <3>3. CASE ArchiveRollback(t)
      BY <2>a, <3>3 DEF ArchiveRollback, NoTables, db
    <3>4. CASE UNCHANGED <<disk, manifest>>
      BY <2>a, <3>4
    <3>5. \/ ArchivePack(t) \/ ArchiveCommit(t) \/ ArchiveRollback(t)
          \/ UNCHANGED <<disk, manifest>>
      BY <2>1 DEF Step, Mirror, Unlink, ConsolidateSwap, CycleMirror,
             AddFact, SetPinned, Rollback, ResolveRead, ResolveAdd,
             ResolveUpdate, ResolveDelete, LinkRead, LinkCommit, ExpireEdge,
             PruneRead, PruneCommit, ConsolidateRead, ConsolidateApply,
             ConsolidateReload, CycleCommit, FlushCapture, FlushStamp,
             FlushSave, Abandon, OnlyTables, OnlyTask, NoTables, db
    <3> QED BY <3>1, <3>2, <3>3, <3>4, <3>5
  <2> QED BY <2>a, <2>1 DEF Next, Crash, Open, vars, NoTables, db
<1>7. up' \in BOOLEAN
  <2>1. ASSUME NEW t \in Task, Step(t) PROVE up' = up
    BY <2>1 DEF Step, Mirror, Unlink, ConsolidateSwap, CycleMirror,
           AddFact, SetPinned, Rollback, ResolveRead, ResolveAdd,
           ResolveUpdate, ResolveDelete, LinkRead, LinkCommit, ExpireEdge,
           PruneRead, PruneCommit, ConsolidateRead, ConsolidateApply,
           ConsolidateReload, CycleCommit, ArchivePack, ArchiveCommit,
           ArchiveRollback, FlushCapture, FlushStamp, FlushSave, Abandon,
           OnlyTables, OnlyTask
  <2> QED BY <2>1 DEF Next, Crash, Open, vars, TypeOK
<1> QED BY <1>2, <1>3, <1>4, <1>5, <1>6, <1>7 DEF TypeOK, TablesOK

\* Type correctness: the tables hold rows, the graph never holds a negative
\* number of copies, tasks carry rowids in range, under every interleaving.
THEOREM TypeCorrect == Spec => []TypeOK
<1>1. Init => TypeOK
  BY TypeInit
<1>2. TypeOK /\ [Next]_vars => TypeOK'
  BY TypeStep
<1> QED BY <1>1, <1>2, PTL DEF Spec

-----------------------------------------------------------------------------
\* Rowids are handed out in order: the used ones are those below the sequence.
UsedIds ==
    /\ \A f \in FactId : fact[f] = "none" <=> f >= nextFact
    /\ \A e \in EdgeId : edge[e] = Ledger!NoEdge <=> e >= nextEdge

Gone(f) == fact[f] \in {"expired", "purged"}

\* AtMostOneSuccessor, with the replaced fact known to have had a row.
Replaced ==
    \A f \in FactId :
        /\ \A d, e \in Successors(f) : d = e
        /\ Successors(f) # {} => Gone(f)

TableInv == UsedIds /\ Ledger!NoDanglingEdge(fact, edge) /\ Replaced

-----------------------------------------------------------------------------
(* One transaction of each kind is a step of the ledger.                   *)

\* A row left alone is a move of the ledger.
LEMMA SameRow ==
    ASSUME NEW r \in Ledger!EdgeRow \cup {Ledger!NoEdge}
    PROVE  /\ <<r.st, r.st>> \in Ledger!EdgeMove
           /\ r # Ledger!NoEdge => r = Ledger!Marked(r, r.st)
           /\ ~(Ledger!InTable(r.st) /\ r.st = "purged")
<1>1. r.st \in Ledger!Status
  BY DEF Ledger!EdgeRow, Ledger!NoEdge, Ledger!Status
<1>2. <<r.st, r.st>> \in Ledger!EdgeMove
  BY <1>1 DEF Ledger!Status, Ledger!EdgeMove, Ledger!FactMove
<1>3. r \in Ledger!EdgeRow => r = Ledger!Marked(r, r.st)
  BY DEF Ledger!Marked, Ledger!EdgeRow
<1> QED BY <1>2, <1>3 DEF Ledger!InTable

LEMMA WriteLedger ==
    ASSUME TablesOK, TableInv,
           NEW born \in SUBSET {nextFact}, NEW dead \in SUBSET ActiveFacts,
           NEW cut \in SUBSET dead, NEW new \in Seq(RowType),
           SoundRows(born, dead, new), Write(born, dead, cut, new)
    PROVE  /\ TableInv' /\ Ledger!LedgerStep
           /\ \A f \in FactId : fact'[f] = "purged" => fact[f] = "purged"
<1> DEFINE Appended == nextEdge..(nextEdge + Len(new) - 1)
<1> USE EngineBounds DEF FactId, EdgeId
<1>0. /\ fact \in [FactId -> Ledger!Status]
      /\ edge \in [EdgeId -> Ledger!EdgeRow \cup {Ledger!NoEdge}]
      /\ nextFact \in Nat \ {0} /\ nextEdge \in Nat \ {0} /\ Len(new) \in Nat
  BY DEF TablesOK, Ledger!LedgerTypeOK, Ledger!FactId, Ledger!EdgeId
<1>1. \A f \in FactId :
        \/ f \in born /\ f = nextFact /\ fact[f] = "none" /\ fact'[f] = "active"
        \/ f \in dead /\ fact[f] = "active" /\ fact'[f] = "expired"
        \/ f \notin born /\ f \notin dead /\ fact'[f] = fact[f]
  BY <1>0 DEF Write, TableInv, UsedIds, ActiveFacts, Active
<1>2. \A e \in Appended :
        /\ e \in EdgeId /\ edge[e] = Ledger!NoEdge
        /\ e - nextEdge + 1 \in 1..Len(new)
        /\ edge'[e] = new[e - nextEdge + 1] /\ edge'[e] \in RowType
  <2> SUFFICES ASSUME NEW e \in Appended
               PROVE  /\ e \in EdgeId /\ edge[e] = Ledger!NoEdge
                      /\ e - nextEdge + 1 \in 1..Len(new)
                      /\ edge'[e] = new[e - nextEdge + 1] /\ edge'[e] \in RowType
    OBVIOUS
  <2>1. e \in EdgeId /\ e >= nextEdge /\ e - nextEdge + 1 \in 1..Len(new)
    BY <1>0 DEF Write
  <2>2. edge[e] = Ledger!NoEdge
    BY <2>1 DEF TableInv, UsedIds
  <2>3. edge'[e] = new[e - nextEdge + 1]
    BY <2>1 DEF Write
  <2> QED BY <2>1, <2>2, <2>3
<1>3. \A e \in EdgeId \ Appended :
        \/ edge'[e] = edge[e]
        \/ /\ edge[e] \in Ledger!EdgeRow /\ edge[e].st = "active"
           /\ edge'[e] = Ledger!Marked(edge[e], "expired")
  BY <1>0 DEF Write, Ledger!NoEdge
<1>4. \A e \in EdgeId \ Appended :
        /\ edge'[e].src = edge[e].src /\ edge'[e].tgt = edge[e].tgt
        /\ edge'[e].rel = edge[e].rel
        /\ Ledger!InTable(edge'[e].st) <=> Ledger!InTable(edge[e].st)
        /\ edge[e] \in Ledger!EdgeRow => edge'[e] = Ledger!Marked(edge[e], edge'[e].st)
        /\ edge'[e] = Ledger!NoEdge <=> edge[e] = Ledger!NoEdge
        /\ <<edge[e].st, edge'[e].st>> \in Ledger!EdgeMove
        /\ edge'[e].st = "purged" => edge[e].st = "purged"
  <2> SUFFICES ASSUME NEW e \in EdgeId \ Appended
               PROVE  /\ edge'[e].src = edge[e].src /\ edge'[e].tgt = edge[e].tgt
                      /\ edge'[e].rel = edge[e].rel
                      /\ Ledger!InTable(edge'[e].st) <=> Ledger!InTable(edge[e].st)
                      /\ edge[e] \in Ledger!EdgeRow =>
                           edge'[e] = Ledger!Marked(edge[e], edge'[e].st)
                      /\ edge'[e] = Ledger!NoEdge <=> edge[e] = Ledger!NoEdge
                      /\ <<edge[e].st, edge'[e].st>> \in Ledger!EdgeMove
                      /\ edge'[e].st = "purged" => edge[e].st = "purged"
    OBVIOUS
  <2>1. CASE edge'[e] = edge[e]
    <3>1. /\ <<edge[e].st, edge[e].st>> \in Ledger!EdgeMove
          /\ edge[e] # Ledger!NoEdge => edge[e] = Ledger!Marked(edge[e], edge[e].st)
      BY <1>0, SameRow
    <3>2. edge[e] \in Ledger!EdgeRow => edge[e] # Ledger!NoEdge
      BY DEF Ledger!EdgeRow, Ledger!NoEdge, Ledger!Status
    <3> QED BY <2>1, <3>1, <3>2
  <2>2. CASE /\ edge[e] \in Ledger!EdgeRow /\ edge[e].st = "active"
             /\ edge'[e] = Ledger!Marked(edge[e], "expired")
    <3>1. /\ edge'[e] \in Ledger!EdgeRow /\ edge'[e].st = "expired"
          /\ edge'[e].src = edge[e].src /\ edge'[e].tgt = edge[e].tgt
          /\ edge'[e].rel = edge[e].rel
      BY <2>2, MarkedRow
    <3> QED BY <2>2, <3>1 DEF Ledger!InTable, Ledger!NoEdge, Ledger!EdgeMove,
                              Ledger!FactMove
  <2> QED BY <1>3, <2>1, <2>2
<1>5. UsedIds'
  <2>1. \A f \in FactId : fact'[f] = "none" <=> f >= nextFact'
    BY <1>0, <1>1 DEF Write, TableInv, UsedIds
  <2>2. ASSUME NEW e \in EdgeId
        PROVE  edge'[e] = Ledger!NoEdge <=> e >= nextEdge'
    <3>1. nextEdge' = nextEdge + Len(new)
      BY DEF Write
    <3>2. edge[e] = Ledger!NoEdge <=> e >= nextEdge
      BY DEF TableInv, UsedIds
    <3>3. CASE e \in Appended
      <4>1. edge'[e] # Ledger!NoEdge
        BY <1>2, <3>3 DEF RowType, Ledger!NoEdge
      <4>2. e < nextEdge + Len(new)
        BY <1>0, <3>3
      <4> QED BY <1>0, <3>1, <4>1, <4>2
    <3>4. CASE e \notin Appended
      <4>1. edge'[e] = Ledger!NoEdge <=> edge[e] = Ledger!NoEdge
        BY <1>4, <3>4
      <4>2. e >= nextEdge <=> e >= nextEdge + Len(new)
        BY <1>0, <3>4
      <4> QED BY <3>1, <3>2, <4>1, <4>2
    <3> QED BY <3>3, <3>4
  <2> QED BY <2>1, <2>2 DEF UsedIds
<1>6. Ledger!NoDanglingEdge(fact', edge')
  <2>1. \A f \in FactId : Ledger!InTable(fact[f]) \/ f \in born => Ledger!InTable(fact'[f])
    BY <1>1 DEF Ledger!InTable
  <2>2. ASSUME NEW e \in Appended
        PROVE  Ledger!InTable(fact'[edge'[e].src]) /\ Ledger!InTable(fact'[edge'[e].tgt])
    <3> DEFINE i == e - nextEdge + 1
    <3>1. i \in 1..Len(new) /\ edge'[e] = new[i] /\ edge'[e] \in RowType
      BY <1>2
    <3> HIDE DEF i
    <3>2. /\ Exists(new[i].src) \/ new[i].src \in born
          /\ Exists(new[i].tgt)
      BY <3>1 DEF SoundRows
    <3>3. edge'[e].src \in FactId /\ edge'[e].tgt \in FactId
      BY <3>1 DEF RowType
    <3> QED BY <2>1, <3>1, <3>2, <3>3 DEF Exists, Ledger!InTable
  <2>3. ASSUME NEW e \in EdgeId \ Appended, Ledger!InTable(edge'[e].st)
        PROVE  Ledger!InTable(fact'[edge'[e].src]) /\ Ledger!InTable(fact'[edge'[e].tgt])
    <3>1. Ledger!InTable(edge[e].st) /\ edge'[e].src = edge[e].src
          /\ edge'[e].tgt = edge[e].tgt
      BY <1>4, <2>3
    <3>2. edge[e] \in Ledger!EdgeRow
      BY <1>0, <3>1 DEF Ledger!InTable, Ledger!NoEdge
    <3>3. edge[e].src \in FactId /\ edge[e].tgt \in FactId
      BY <3>2 DEF Ledger!EdgeRow, Ledger!FactId
    <3>4. Ledger!InTable(fact[edge[e].src]) /\ Ledger!InTable(fact[edge[e].tgt])
      BY <3>1 DEF TableInv, Ledger!NoDanglingEdge, Ledger!EdgeId
    <3> QED BY <2>1, <3>1, <3>3, <3>4
  <2> QED BY <2>2, <2>3 DEF Ledger!NoDanglingEdge, Ledger!EdgeId
<1>7. Replaced'
  <2>1. \A f \in FactId : Gone(f) => Gone(f)'
    BY <1>1 DEF Gone
  <2>2. \A f \in FactId, e \in EdgeId \ Appended :
          e \in Successors(f)' <=> e \in Successors(f)
    BY <1>4 DEF Successors
  <2>3. ASSUME NEW f \in FactId, NEW e \in Appended, e \in Successors(f)'
        PROVE  /\ Gone(f)' /\ Successors(f) = {}
               /\ \A d \in Appended : d \in Successors(f)' => d = e
    <3> DEFINE i(x) == x - nextEdge + 1
    <3>1. \A x \in Appended : /\ i(x) \in 1..Len(new) /\ edge'[x] = new[i(x)]
      BY <1>2
    <3>2. \A x, y \in Appended : i(x) = i(y) => x = y
      BY <1>0
    <3> HIDE DEF i
    <3>3. /\ new[i(e)].tgt = f /\ new[i(e)].rel \in Succession
      BY <2>3, <3>1 DEF Successors
    <3>4. /\ f \in dead
          /\ \A j \in 1..Len(new) : new[j].tgt = f => j = i(e)
      BY <3>1, <3>3 DEF SoundRows
    <3>5. Gone(f)' /\ fact[f] = "active"
      BY <1>1, <3>4 DEF Gone, ActiveFacts, Active
    <3>6. Successors(f) = {}
      BY <3>5 DEF TableInv, Replaced, Gone
    <3>7. \A d \in Appended : d \in Successors(f)' => new[i(d)].tgt = f
      BY <3>1 DEF Successors
    <3> QED BY <3>1, <3>2, <3>4, <3>5, <3>6, <3>7
  <2>4. \A f \in FactId : Successors(f)' \subseteq EdgeId /\ Successors(f) \subseteq EdgeId
    BY DEF Successors
  <2>5. \A f \in FactId : /\ \A d, e \in Successors(f) : d = e
                          /\ Successors(f) # {} => Gone(f)
    BY DEF TableInv, Replaced
  <2> SUFFICES ASSUME NEW f \in FactId
               PROVE  /\ \A d, e \in Successors(f)' : d = e
                      /\ Successors(f)' # {} => Gone(f)'
    BY DEF Replaced
  <2>6. CASE \E e \in Appended : e \in Successors(f)'
    <3>1. PICK e \in Appended : e \in Successors(f)'
      BY <2>6
    <3>2. /\ Gone(f)' /\ Successors(f) = {}
          /\ \A d \in Appended : d \in Successors(f)' => d = e
      BY <2>3, <3>1
    <3>3. \A d \in Successors(f)' : d = e
      BY <2>2, <2>4, <3>2
    <3> QED BY <3>2, <3>3
  <2>7. CASE \A e \in Appended : e \notin Successors(f)'
    <3>1. \A e \in Successors(f)' : e \in Successors(f)
      BY <2>2, <2>4, <2>7
    <3> QED BY <2>1, <2>5, <3>1
  <2> QED BY <2>6, <2>7
<1>8. Ledger!LedgerStep
  <2>1. TablesOK'
    BY WriteTables
  <2>2. /\ fact' \in [FactId -> Ledger!Status]
        /\ edge' \in [EdgeId -> Ledger!EdgeRow \cup {Ledger!NoEdge}]
    BY <2>1 DEF TablesOK, Ledger!LedgerTypeOK, Ledger!FactId, Ledger!EdgeId
  <2>3. \A f \in FactId : <<fact[f], fact'[f]>> \in Ledger!FactMove
    BY <1>0, <1>1 DEF Ledger!FactMove, Ledger!Status
  <2>4. \A e \in Appended : /\ <<edge[e].st, edge'[e].st>> \in Ledger!EdgeMove
                            /\ edge[e] = Ledger!NoEdge /\ edge'[e].st # "purged"
    BY <1>2 DEF Ledger!EdgeMove, Ledger!FactMove, Ledger!NoEdge, RowType
  <2>5. \A e \in EdgeId \ Appended :
          Ledger!InTable(edge[e].st) => edge'[e].st # "purged"
    BY <1>4 DEF Ledger!InTable
  <2>6. \A e \in EdgeId : edge[e] # Ledger!NoEdge => edge[e] \in Ledger!EdgeRow
    BY <1>0
  <2> QED BY <1>4, <1>6, <2>2, <2>3, <2>4, <2>5, <2>6
          DEF Ledger!LedgerStep, Ledger!FactId, Ledger!EdgeId
<1>9. \A f \in FactId : fact'[f] = "purged" => fact[f] = "purged"
  BY <1>1
<1> QED BY <1>5, <1>6, <1>7, <1>8, <1>9 DEF TableInv

LEMMA ExpireEdgeLedger ==
    ASSUME TablesOK, TableInv, ExpireEdgeStep
    PROVE  TableInv' /\ Ledger!LedgerStep
<1> USE EngineBounds DEF FactId, EdgeId
<1>0. /\ fact \in [FactId -> Ledger!Status]
      /\ edge \in [EdgeId -> Ledger!EdgeRow \cup {Ledger!NoEdge}]
  BY DEF TablesOK, Ledger!LedgerTypeOK, Ledger!FactId, Ledger!EdgeId
<1>1. PICK x \in ActiveEdges :
        edge' = [edge EXCEPT ![x] = Ledger!Marked(@, "expired")]
  BY DEF ExpireEdgeStep
<1>2. x \in EdgeId /\ edge[x] \in Ledger!EdgeRow /\ edge[x].st = "active"
  BY <1>0 DEF ActiveEdges, Ledger!NoEdge
<1>3. edge'[x] = Ledger!Marked(edge[x], "expired")
  BY <1>0, <1>1, <1>2
<1>4. \A e \in EdgeId : e # x => edge'[e] = edge[e]
  BY <1>0, <1>1
<1>5. /\ edge'[x] \in Ledger!EdgeRow /\ edge'[x].st = "expired"
      /\ edge'[x].src = edge[x].src /\ edge'[x].tgt = edge[x].tgt
      /\ edge'[x].rel = edge[x].rel
  BY <1>2, <1>3, MarkedRow
<1>6. fact' = fact /\ nextFact' = nextFact /\ nextEdge' = nextEdge
  BY DEF ExpireEdgeStep
<1>7. UsedIds'
  BY <1>2, <1>4, <1>5, <1>6 DEF TableInv, UsedIds, Ledger!NoEdge
<1>8. Ledger!NoDanglingEdge(fact', edge')
  <2>1. \A e \in EdgeId : /\ edge'[e].src = edge[e].src
                          /\ edge'[e].tgt = edge[e].tgt
                          /\ Ledger!InTable(edge'[e].st) => Ledger!InTable(edge[e].st)
    BY <1>2, <1>4, <1>5 DEF Ledger!InTable
  <2> QED BY <1>6, <2>1 DEF TableInv, Ledger!NoDanglingEdge, Ledger!EdgeId
<1>9. Replaced'
  <2>1. \A f : Successors(f)' = Successors(f)
    BY <1>2, <1>4, <1>5 DEF Successors
  <2> QED BY <1>6, <2>1 DEF TableInv, Replaced, Gone
<1>10. Ledger!LedgerStep
  <2>1. \A f \in FactId : <<fact[f], fact'[f]>> \in Ledger!FactMove
    BY <1>0, <1>6 DEF Ledger!FactMove, Ledger!Status
  <2>2. \A e \in EdgeId : e # x =>
          /\ <<edge[e].st, edge'[e].st>> \in Ledger!EdgeMove
          /\ edge[e] # Ledger!NoEdge => edge'[e] = Ledger!Marked(edge[e], edge'[e].st)
          /\ ~(Ledger!InTable(edge[e].st) /\ edge'[e].st = "purged")
    BY <1>0, <1>4, SameRow
  <2>3. /\ <<edge[x].st, edge'[x].st>> \in Ledger!EdgeMove
        /\ edge'[x] = Ledger!Marked(edge[x], edge'[x].st)
        /\ edge'[x].st # "purged"
    BY <1>2, <1>3, <1>5 DEF Ledger!EdgeMove, Ledger!FactMove
  <2>4. edge' \in [EdgeId -> Ledger!EdgeRow \cup {Ledger!NoEdge}]
    BY <1>0, <1>1, <1>3, <1>5
  <2> QED BY <1>0, <1>6, <1>8, <2>1, <2>2, <2>3, <2>4
          DEF Ledger!LedgerStep, Ledger!FactId, Ledger!EdgeId
<1> QED BY <1>7, <1>8, <1>9, <1>10 DEF TableInv

\* What a task has packed has been expired, and stays so until it commits.
Doomed == \A t \in Task : At(t, "archive") => \A f \in task[t].facts : Gone(f)

LEMMA PurgeLedger ==
    ASSUME TablesOK, TasksOK, TableInv, Doomed, PurgeStep
    PROVE  TableInv' /\ Ledger!LedgerStep
<1> USE EngineBounds DEF FactId, EdgeId
<1>0. /\ fact \in [FactId -> Ledger!Status]
      /\ edge \in [EdgeId -> Ledger!EdgeRow \cup {Ledger!NoEdge}]
  BY DEF TablesOK, Ledger!LedgerTypeOK, Ledger!FactId, Ledger!EdgeId
<1>1. PICK t \in Task :
        /\ At(t, "archive")
        /\ fact' = [f \in FactId |-> IF f \in task[t].facts THEN "purged"
                                                          ELSE fact[f]]
        /\ edge' = [e \in EdgeId |->
                      IF e \in ArchivedEdges(task[t].facts)
                      THEN Ledger!Marked(edge[e], "purged") ELSE edge[e]]
  BY DEF PurgeStep
<1> DEFINE A == task[t].facts
<1>2. A \subseteq FactId /\ \A f \in A : Gone(f) /\ fact'[f] = "purged"
  BY <1>1 DEF TasksOK, TaskState, Doomed
<1>3. \A f \in FactId \ A : fact'[f] = fact[f]
  BY <1>1
<1>4. nextFact' = nextFact /\ nextEdge' = nextEdge
  BY DEF PurgeStep
<1>5. \A e \in EdgeId : edge[e] # Ledger!NoEdge => edge[e] \in Ledger!EdgeRow
  BY <1>0
<1>6. \A e \in ArchivedEdges(A) :
        /\ e \in EdgeId /\ Ledger!InTable(edge[e].st) /\ Incident(e, A)
        /\ edge[e] \in Ledger!EdgeRow /\ edge'[e] \in Ledger!EdgeRow
        /\ edge'[e] = Ledger!Marked(edge[e], "purged") /\ edge'[e].st = "purged"
        /\ edge'[e].src = edge[e].src /\ edge'[e].tgt = edge[e].tgt
        /\ edge'[e].rel = edge[e].rel
  <2> SUFFICES ASSUME NEW e \in ArchivedEdges(A)
               PROVE  /\ e \in EdgeId /\ Ledger!InTable(edge[e].st) /\ Incident(e, A)
                      /\ edge[e] \in Ledger!EdgeRow /\ edge'[e] \in Ledger!EdgeRow
                      /\ edge'[e] = Ledger!Marked(edge[e], "purged")
                      /\ edge'[e].st = "purged"
                      /\ edge'[e].src = edge[e].src /\ edge'[e].tgt = edge[e].tgt
                      /\ edge'[e].rel = edge[e].rel
    OBVIOUS
  <2>1. e \in EdgeId /\ Ledger!InTable(edge[e].st) /\ Incident(e, A)
    BY DEF ArchivedEdges, EdgeExists, Ledger!InTable
  <2>2. edge[e] \in Ledger!EdgeRow
    BY <1>5, <2>1 DEF Ledger!NoEdge, Ledger!InTable
  <2>3. edge'[e] = Ledger!Marked(edge[e], "purged")
    BY <1>1, <2>1
  <2> QED BY <2>1, <2>2, <2>3, MarkedRow
<1>7. \A e \in EdgeId : e \notin ArchivedEdges(A) => edge'[e] = edge[e]
  BY <1>1
<1>8. UsedIds'
  <2>1. \A f \in FactId : fact'[f] = "none" <=> fact[f] = "none"
    BY <1>2, <1>3 DEF Gone
  <2>2. \A e \in EdgeId : edge'[e] = Ledger!NoEdge <=> edge[e] = Ledger!NoEdge
    BY <1>6, <1>7 DEF Ledger!NoEdge, Ledger!EdgeRow, Ledger!Status
  <2> QED BY <1>4, <2>1, <2>2 DEF TableInv, UsedIds
<1>9. Ledger!NoDanglingEdge(fact', edge')
  <2> SUFFICES ASSUME NEW e \in EdgeId, Ledger!InTable(edge'[e].st)
               PROVE  /\ Ledger!InTable(fact'[edge'[e].src])
                      /\ Ledger!InTable(fact'[edge'[e].tgt])
    BY DEF Ledger!NoDanglingEdge, Ledger!EdgeId
  <2>1. e \notin ArchivedEdges(A)
    BY <1>6 DEF Ledger!InTable
  <2>2. edge'[e] = edge[e] /\ Ledger!InTable(edge[e].st)
    BY <1>7, <2>1
  <2>3. ~Incident(e, A)
    BY <2>1, <2>2 DEF ArchivedEdges, EdgeExists, Ledger!InTable
  <2>4. edge[e].src \in FactId \ A /\ edge[e].tgt \in FactId \ A
    BY <1>5, <2>2, <2>3 DEF Incident, Ledger!NoEdge, Ledger!InTable,
                            Ledger!EdgeRow, Ledger!FactId
  <2>5. Ledger!InTable(fact[edge[e].src]) /\ Ledger!InTable(fact[edge[e].tgt])
    BY <2>2 DEF TableInv, Ledger!NoDanglingEdge, Ledger!EdgeId
  <2> QED BY <1>3, <2>2, <2>4, <2>5
<1>10. Replaced'
  <2>1. \A f : Successors(f)' = Successors(f)
    BY <1>6, <1>7 DEF Successors
  <2>2. \A f \in FactId : Gone(f) => Gone(f)'
    BY <1>2, <1>3 DEF Gone
  <2> QED BY <2>1, <2>2 DEF TableInv, Replaced
<1>11. Ledger!LedgerStep
  <2>1. TablesOK'
    <3>1. TablesOK /\ TasksOK /\ PurgeStep
      OBVIOUS
    <3>2. edge' \in [EdgeId -> Ledger!EdgeRow \cup {Ledger!NoEdge}]
      BY <1>0, <1>1, <1>6, <1>7
    <3>3. fact' \in [FactId -> Ledger!Status]
      BY <1>0, <1>1 DEF Ledger!Status
    <3> QED BY <3>1, <3>2, <3>3 DEF TablesOK, PurgeStep, Ledger!LedgerTypeOK,
                                    Ledger!FactId, Ledger!EdgeId
  <2>2. \A f \in FactId : <<fact[f], fact'[f]>> \in Ledger!FactMove
    BY <1>0, <1>2, <1>3 DEF Gone, Ledger!FactMove, Ledger!Status
  <2>3. \A e \in ArchivedEdges(A) :
          /\ <<edge[e].st, edge'[e].st>> \in Ledger!EdgeMove
          /\ edge'[e] = Ledger!Marked(edge[e], edge'[e].st)
          /\ \/ <<fact[edge[e].src], fact'[edge[e].src]>> = <<"expired", "purged">>
             \/ <<fact[edge[e].tgt], fact'[edge[e].tgt]>> = <<"expired", "purged">>
    <3> SUFFICES ASSUME NEW e \in ArchivedEdges(A)
                 PROVE  /\ <<edge[e].st, edge'[e].st>> \in Ledger!EdgeMove
                        /\ edge'[e] = Ledger!Marked(edge[e], edge'[e].st)
                        /\ \/ <<fact[edge[e].src], fact'[edge[e].src]>>
                                = <<"expired", "purged">>
                           \/ <<fact[edge[e].tgt], fact'[edge[e].tgt]>>
                                = <<"expired", "purged">>
      OBVIOUS
    <3>1. /\ e \in EdgeId /\ Ledger!InTable(edge[e].st) /\ Incident(e, A)
          /\ edge'[e] = Ledger!Marked(edge[e], "purged") /\ edge'[e].st = "purged"
      BY <1>6
    <3>2. <<edge[e].st, edge'[e].st>> \in Ledger!EdgeMove
      BY <3>1 DEF Ledger!InTable, Ledger!EdgeMove, Ledger!FactMove
    <3>3. Ledger!InTable(fact[edge[e].src]) /\ Ledger!InTable(fact[edge[e].tgt])
      BY <3>1 DEF TableInv, Ledger!NoDanglingEdge, Ledger!EdgeId
    <3>4. \A f \in A : Ledger!InTable(fact[f]) => fact[f] = "expired"
      BY <1>2 DEF Gone, Ledger!InTable
    <3> QED BY <1>2, <3>1, <3>2, <3>3, <3>4 DEF Incident
  <2>4. \A e \in EdgeId : e \notin ArchivedEdges(A) =>
          /\ <<edge[e].st, edge'[e].st>> \in Ledger!EdgeMove
          /\ edge[e] # Ledger!NoEdge => edge'[e] = Ledger!Marked(edge[e], edge'[e].st)
          /\ ~(Ledger!InTable(edge[e].st) /\ edge'[e].st = "purged")
    BY <1>0, <1>7, SameRow
  <2> QED BY <1>9, <2>1, <2>2, <2>3, <2>4
          DEF TablesOK, Ledger!LedgerTypeOK, Ledger!LedgerStep, Ledger!FactId,
              Ledger!EdgeId
<1> QED BY <1>8, <1>9, <1>10, <1>11 DEF TableInv

-----------------------------------------------------------------------------
(* Only ArchivePack enters the archive stage, and only its own task.       *)

LEMMA ArchivingTasks ==
    ASSUME TypeOK, [Next]_vars
    PROVE  \A u \in Task : At(u, "archive")' =>
             \/ At(u, "archive") /\ task'[u] = task[u]
             \/ ArchivePack(u)
<1> USE DEF TypeOK
<1>1. ASSUME NEW t \in Task, Step(t), NEW u \in Task, At(u, "archive")'
      PROVE  \/ At(u, "archive") /\ task'[u] = task[u]
             \/ ArchivePack(u)
  <2>1. CASE ArchivePack(t)
    BY <1>1, <2>1 DEF ArchivePack, Become, At
  <2>2. CASE UNCHANGED task
    BY <1>1, <2>2 DEF At
  <2>3. ASSUME NEW s \in Working, Become(t, s)
        PROVE  At(u, "archive") /\ task'[u] = task[u]
    BY <1>1, <2>3 DEF Become, At, Working
  <2> QED BY <1>1, <2>1, <2>2, <2>3, StepRegisters
<1>2. CASE Crash
  BY <1>2 DEF Crash, At, Idle
<1>3. CASE Open \/ UNCHANGED vars
  BY <1>3 DEF Open, vars, At
<1> QED BY <1>1, <1>2, <1>3 DEF Next
-----------------------------------------------------------------------------
(* The inductive invariant of the tables.                                  *)

\* Every step is a ledger step or leaves both tables alone; only a commit of
\* the archive deletes a row.
LEMMA LedgerMove ==
    ASSUME TypeOK, TableInv, Doomed, [Next]_vars
    PROVE  /\ TableInv'
           /\ Ledger!LedgerStep \/ UNCHANGED <<fact, edge>>
           /\ PurgeStep \/ \A f \in FactId : fact'[f] = "purged" => fact[f] = "purged"
<1>1. TablesOK /\ TasksOK
  BY DEF TypeOK, TablesOK, TasksOK
<1>2. CASE WriteStep
  <2>1. PICK born \in SUBSET {nextFact}, dead \in SUBSET ActiveFacts :
          \E cut \in SUBSET dead, new \in Seq(RowType) :
            SoundRows(born, dead, new) /\ Write(born, dead, cut, new)
    BY <1>2 DEF WriteStep
  <2> QED BY <1>1, <2>1, WriteLedger
<1>3. CASE ExpireEdgeStep
  BY <1>1, <1>3, ExpireEdgeLedger DEF ExpireEdgeStep
<1>4. CASE PurgeStep
  BY <1>1, <1>4, PurgeLedger
<1>5. CASE QuietStep
  <2>1. UsedIds'
    BY <1>5 DEF QuietStep, TableInv, UsedIds
  <2>2. Replaced'
    BY <1>5 DEF QuietStep, TableInv, Replaced, Successors, Gone
  <2>3. Ledger!NoDanglingEdge(fact', edge')
    BY <1>5 DEF QuietStep, TableInv
  <2> QED BY <1>5, <2>1, <2>2, <2>3 DEF QuietStep, TableInv
<1> QED BY <1>1, <1>2, <1>3, <1>4, <1>5, Transactions

\* No transaction revives a row.
LEMMA GoneForGood ==
    ASSUME TypeOK, TableInv, Doomed, [Next]_vars, NEW f \in FactId, Gone(f)
    PROVE  Gone(f)'
<1>1. CASE Ledger!LedgerStep
  <2>1. <<fact[f], fact'[f]>> \in Ledger!FactMove
    BY <1>1 DEF Ledger!LedgerStep, FactId, Ledger!FactId
  <2> QED BY <2>1 DEF Ledger!FactMove, Gone
<1>2. CASE UNCHANGED <<fact, edge>>
  BY <1>2 DEF Gone
<1> QED BY <1>1, <1>2, LedgerMove

LEMMA DoomedStep ==
    ASSUME TypeOK, TableInv, Doomed, [Next]_vars
    PROVE  Doomed'
<1> SUFFICES ASSUME NEW u \in Task, At(u, "archive")',
                    NEW f \in task'[u].facts
             PROVE  Gone(f)'
  BY DEF Doomed
<1>1. CASE At(u, "archive") /\ task'[u] = task[u]
  <2>1. f \in FactId /\ Gone(f)
    BY <1>1 DEF Doomed, TypeOK, TaskState
  <2> QED BY <2>1, GoneForGood
<1>2. CASE ArchivePack(u)
  <2>1. PICK A \in SUBSET {x \in FactId : fact[x] = "expired" /\ x \notin pinned} :
          Become(u, [Idle EXCEPT !.at = "archive", !.facts = A])
    BY <1>2 DEF ArchivePack
  <2>2. task'[u].facts = A
    BY <2>1 DEF Become, TypeOK, Idle
  <2>3. fact' = fact
    BY <1>2 DEF ArchivePack, NoTables, db
  <2> QED BY <2>1, <2>2, <2>3 DEF Gone
<1> QED BY <1>1, <1>2, ArchivingTasks

LedgerInv == TypeOK /\ TableInv /\ Doomed

LEMMA LedgerInvariant == Spec => []LedgerInv
<1>1. Init => LedgerInv
  <2> SUFFICES ASSUME Init PROVE LedgerInv
    OBVIOUS
  <2>1. TypeOK
    BY TypeInit
  <2>2. UsedIds
    BY EngineBounds DEF Init, UsedIds, FactId, EdgeId
  <2>3. \A e \in EdgeId : edge[e].st = "none" /\ edge[e].rel = "none"
    BY DEF Init, Ledger!NoEdge
  <2>4. Ledger!NoDanglingEdge(fact, edge)
    BY <2>3 DEF Ledger!NoDanglingEdge, Ledger!InTable, EdgeId, Ledger!EdgeId
  <2>5. Replaced
    BY <2>3 DEF Replaced, Successors, Succession
  <2>6. Doomed
    BY DEF Init, Doomed, At, Idle
  <2> QED BY <2>1, <2>2, <2>4, <2>5, <2>6 DEF LedgerInv, TableInv
<1>2. LedgerInv /\ [Next]_vars => LedgerInv'
  <2> SUFFICES ASSUME LedgerInv, [Next]_vars PROVE LedgerInv'
    OBVIOUS
  <2> QED BY TypeStep, LedgerMove, DoomedStep DEF LedgerInv
<1> QED BY <1>1, <1>2, PTL DEF Spec

\* The tables implement the bitemporal ledger: every interleaving of the
\* operations' commits, aborts and restarts is a behaviour of LedgerSpec.
THEOREM ImplementsLedger == Spec => LedgerRefinement
<1>1. Init => Ledger!LedgerInit
  BY DEF Init, Ledger!LedgerInit, FactId, EdgeId, Ledger!FactId, Ledger!EdgeId
<1>2. LedgerInv /\ [Next]_vars => [Ledger!LedgerStep]_<<fact, edge>>
  BY LedgerMove DEF LedgerInv
<1> QED BY <1>1, <1>2, LedgerInvariant, PTL
       DEF Spec, LedgerRefinement, Ledger!LedgerSpec

\* No two arbitrations or dream cycles replace the same fact, and a replaced
\* fact is never active again (#335).
THEOREM OneSuccessor == Spec => []AtMostOneSuccessor
<1>1. LedgerInv => AtMostOneSuccessor
  BY DEF LedgerInv, TableInv, Replaced, AtMostOneSuccessor, Gone, Active
<1> QED BY <1>1, LedgerInvariant, PTL

-----------------------------------------------------------------------------
(* Cold storage.                                                           *)

PakOf(t) == [by |-> t, facts |-> task[t].facts]

\* A listed file is on disk and its facts are deleted; the file of a commit
\* still to come is on disk, has facts in it, and is not listed.  No two
\* tasks' files have the same name, so that a rollback removes its own.
ColdInv ==
    /\ manifest \subseteq disk
    /\ \A p \in manifest : p.facts # {} /\ \A f \in p.facts : fact[f] = "purged"
    /\ \A t \in Task : At(t, "archive") =>
        /\ PakOf(t) \in disk \ manifest
        /\ task[t].facts # {}
    /\ PurgedIsArchived

\* Steps that touch neither the disk nor the manifest, and delete nothing.
LEMMA ColdQuiet ==
    ASSUME LedgerInv, ColdInv, [Next]_vars, UNCHANGED <<disk, manifest>>,
           \A u \in Task : At(u, "archive")' =>
             At(u, "archive") /\ task'[u] = task[u],
           \A f \in FactId : fact'[f] = "purged" <=> fact[f] = "purged"
    PROVE  ColdInv'
<1>1. \A p \in manifest : p.facts \subseteq FactId
  BY DEF LedgerInv, TypeOK, Pak
<1>2. \A u \in Task : At(u, "archive")' => PakOf(u)' = PakOf(u)
  BY DEF PakOf
<1>3. PurgedIsArchived'
  BY DEF ColdInv, PurgedIsArchived
<1>4. \A p \in manifest : p.facts # {} /\ \A f \in p.facts : fact'[f] = "purged"
  BY <1>1 DEF ColdInv
<1> QED BY <1>2, <1>3, <1>4 DEF ColdInv

LEMMA ColdStep ==
    ASSUME LedgerInv, ColdInv, [Next]_vars
    PROVE  ColdInv'
<1>a. \A t \in Task : task[t].facts \subseteq FactId
  BY DEF LedgerInv, TypeOK, TaskState
<1>b. \A p \in manifest : p.facts \subseteq FactId
  BY DEF LedgerInv, TypeOK, Pak
<1>c. task \in [Task -> TaskState]
  BY DEF LedgerInv, TypeOK
<1>1. CASE \E t \in Task : ArchivePack(t)
  <2>1. PICK t \in Task : ArchivePack(t)
    BY <1>1
  <2>2. PICK A \in SUBSET {f \in FactId : fact[f] = "expired" /\ f \notin pinned} :
          /\ Cardinality(A) >= MinFacts
          /\ disk' = disk \cup {[by |-> t, facts |-> A]}
          /\ Become(t, [Idle EXCEPT !.at = "archive", !.facts = A])
    BY <2>1 DEF ArchivePack
  <2>3. A # {}
    <3>1. Cardinality({}) = 0
      BY FS_EmptySet
    <3> QED BY <2>2, <3>1, EngineBounds
  <2>4. fact' = fact /\ manifest' = manifest
    BY <2>1 DEF ArchivePack, NoTables, db
  <2>5. task'[t].facts = A /\ \A u \in Task : u # t => task'[u] = task[u]
    BY <1>c, <2>2 DEF Become, Idle
  <2>6. PakOf(t)' = [by |-> t, facts |-> A]
    BY <2>5 DEF PakOf
  <2>7. [by |-> t, facts |-> A] \notin manifest
    BY <2>2, <2>3 DEF ColdInv
  <2>8. \A u \in Task : At(u, "archive")' =>
          PakOf(u)' \in disk' \ manifest' /\ task'[u].facts # {}
    <3> SUFFICES ASSUME NEW u \in Task, At(u, "archive")'
                 PROVE  PakOf(u)' \in disk' \ manifest' /\ task'[u].facts # {}
      OBVIOUS
    <3>1. CASE u = t
      BY <2>2, <2>3, <2>4, <2>5, <2>6, <2>7, <3>1
    <3>2. CASE u # t
      <4>1. At(u, "archive") /\ PakOf(u)' = PakOf(u) /\ task'[u] = task[u]
        BY <2>5, <3>2 DEF At, PakOf
      <4> QED BY <2>2, <2>4, <4>1 DEF ColdInv
    <3> QED BY <3>1, <3>2
  <2>9. PurgedIsArchived'
    BY <2>2, <2>4 DEF ColdInv, PurgedIsArchived
  <2>10. manifest' \subseteq disk'
    BY <2>2, <2>4 DEF ColdInv
  <2> QED BY <2>4, <2>8, <2>9, <2>10 DEF ColdInv
<1>2. CASE \E t \in Task : ArchiveCommit(t)
  <2>1. PICK t \in Task : ArchiveCommit(t)
    BY <1>2
  <2> DEFINE A == task[t].facts
  <2>2. /\ At(t, "archive")
        /\ manifest' = manifest \cup {PakOf(t)}
        /\ fact' = [f \in FactId |-> IF f \in A THEN "purged" ELSE fact[f]]
        /\ task' = [task EXCEPT ![t] = [Idle EXCEPT !.at = "mirror", !.facts = A,
                                                    !.edges = {}]]
        /\ disk' = disk
    BY <2>1 DEF ArchiveCommit, PakOf, Become, MirrorOf
  <2>3. PakOf(t) \in disk /\ PakOf(t).facts = A /\ A # {}
    BY <2>2 DEF ColdInv, PakOf
  <2>4. \A u \in Task : At(u, "archive")' =>
          u # t /\ At(u, "archive") /\ task'[u] = task[u]
    BY <1>c, <2>2 DEF At, Idle
  <2>5. \A u \in Task : u # t => PakOf(u) # PakOf(t)
    BY DEF PakOf
  <2>6. \A u \in Task : At(u, "archive")' =>
          PakOf(u)' \in disk' \ manifest' /\ task'[u].facts # {}
    <3> SUFFICES ASSUME NEW u \in Task, At(u, "archive")'
                 PROVE  PakOf(u)' \in disk' \ manifest' /\ task'[u].facts # {}
      OBVIOUS
    <3>1. u # t /\ At(u, "archive") /\ task'[u] = task[u]
      BY <2>4
    <3>2. PakOf(u)' = PakOf(u)
      BY <3>1 DEF PakOf
    <3> QED BY <2>2, <2>5, <3>1, <3>2 DEF ColdInv
  <2>7. \A p \in manifest' : p.facts # {} /\ \A f \in p.facts : fact'[f] = "purged"
    BY <1>a, <1>b, <2>2, <2>3 DEF ColdInv
  <2>8. PurgedIsArchived'
    <3> SUFFICES ASSUME NEW f \in FactId, fact'[f] = "purged"
                 PROVE  \E p \in manifest' \cap disk' : f \in p.facts
      BY DEF PurgedIsArchived
    <3>1. CASE f \in A
      BY <2>2, <2>3, <3>1
    <3>2. CASE f \notin A
      <4>1. fact[f] = "purged"
        BY <2>2, <3>2
      <4> QED BY <2>2, <4>1 DEF ColdInv, PurgedIsArchived
    <3> QED BY <3>1, <3>2
  <2>9. manifest' \subseteq disk'
    BY <2>2, <2>3 DEF ColdInv
  <2> QED BY <2>6, <2>7, <2>8, <2>9 DEF ColdInv
<1>3. CASE \E t \in Task : ArchiveRollback(t)
  <2>1. PICK t \in Task : ArchiveRollback(t)
    BY <1>3
  <2>2. /\ At(t, "archive") /\ disk' = disk \ {PakOf(t)}
        /\ task' = [task EXCEPT ![t] = Idle]
        /\ fact' = fact /\ manifest' = manifest
    BY <2>1 DEF ArchiveRollback, PakOf, Finish, Become, NoTables, db
  <2>3. \A u \in Task : At(u, "archive")' =>
          u # t /\ At(u, "archive") /\ task'[u] = task[u]
    BY <1>c, <2>2 DEF At, Idle
  <2>4. \A u \in Task : u # t => PakOf(u) # PakOf(t)
    BY DEF PakOf
  <2>5. \A u \in Task : At(u, "archive")' =>
          PakOf(u)' \in disk' \ manifest' /\ task'[u].facts # {}
    <3> SUFFICES ASSUME NEW u \in Task, At(u, "archive")'
                 PROVE  PakOf(u)' \in disk' \ manifest' /\ task'[u].facts # {}
      OBVIOUS
    <3>1. u # t /\ At(u, "archive") /\ task'[u] = task[u]
      BY <2>3
    <3>2. PakOf(u)' = PakOf(u)
      BY <3>1 DEF PakOf
    <3> QED BY <2>2, <2>4, <3>1, <3>2 DEF ColdInv
  <2>6. PakOf(t) \notin manifest
    BY <2>2 DEF ColdInv
  <2>7. manifest' \subseteq disk'
    BY <2>2, <2>6 DEF ColdInv
  <2>8. PurgedIsArchived'
    BY <2>2, <2>6 DEF ColdInv, PurgedIsArchived
  <2> QED BY <2>2, <2>5, <2>7, <2>8 DEF ColdInv
<1>4. CASE ~\E t \in Task : ArchivePack(t) \/ ArchiveCommit(t) \/ ArchiveRollback(t)
  <2>1. UNCHANGED <<disk, manifest>>
    <3>1. ASSUME NEW t \in Task, Step(t) PROVE UNCHANGED <<disk, manifest>>
      BY <1>4, <3>1 DEF Step, Mirror, Unlink, ConsolidateSwap, CycleMirror,
             AddFact, SetPinned, Rollback, ResolveRead, ResolveAdd,
             ResolveUpdate, ResolveDelete, LinkRead, LinkCommit, ExpireEdge,
             PruneRead, PruneCommit, ConsolidateRead, ConsolidateApply,
             ConsolidateReload, CycleCommit, FlushCapture, FlushStamp,
             FlushSave, Abandon, OnlyTables, OnlyTask, NoTables, db
    <3> QED BY <3>1 DEF Next, Crash, Open, vars, NoTables, db
  <2>2. \A u \in Task : At(u, "archive")' => At(u, "archive") /\ task'[u] = task[u]
    BY <1>4, ArchivingTasks DEF LedgerInv
  <2>3. \A f \in FactId : fact[f] = "purged" => fact'[f] = "purged"
    <3>1. ASSUME NEW f \in FactId, fact[f] = "purged" PROVE fact'[f] = "purged"
      <4>1. CASE Ledger!LedgerStep
        <5>1. <<fact[f], fact'[f]>> \in Ledger!FactMove
          BY <4>1 DEF Ledger!LedgerStep, FactId, Ledger!FactId
        <5> QED BY <3>1, <5>1 DEF Ledger!FactMove
      <4>2. CASE UNCHANGED <<fact, edge>>
        BY <3>1, <4>2
      <4> QED BY <4>1, <4>2, LedgerMove DEF LedgerInv
    <3> QED BY <3>1
  <2>4. \A f \in FactId : fact'[f] = "purged" => fact[f] = "purged"
    BY <1>4, LedgerMove DEF LedgerInv, PurgeStep
  <2> QED BY <2>1, <2>2, <2>3, <2>4, ColdQuiet
<1> QED BY <1>1, <1>2, <1>3, <1>4

\* A hard-deleted fact is in a .pak file on disk that the manifest lists, also
\* when archives of the same facts overlap, fail, or die before their commit.
THEOREM ColdStorageKeepsAll == Spec => []PurgedIsArchived
<1>1. Init => ColdInv
  BY DEF Init, ColdInv, PurgedIsArchived, At, Idle
<1>2. LedgerInv /\ ColdInv /\ [Next]_vars => ColdInv'
  BY ColdStep
<1>3. ColdInv => PurgedIsArchived
  BY DEF ColdInv
<1> QED BY <1>1, <1>2, <1>3, LedgerInvariant, PTL DEF Spec

-----------------------------------------------------------------------------
(* Deduplication.                                                          *)

PlansOK == \A t \in Task : At(t, "dedup") => DedupPlan(task[t].plan)

LEMMA PlansStep ==
    ASSUME TypeOK, PlansOK, [Next]_vars
    PROVE  PlansOK'
<1> USE DEF TypeOK
<1>1. ASSUME NEW t \in Task, Step(t), NEW u \in Task, At(u, "dedup")'
      PROVE  DedupPlan(task'[u].plan)
  <2>1. CASE ArchivePack(t)
    BY <1>1, <2>1 DEF ArchivePack, Become, At, Idle, PlansOK
  <2>2. CASE UNCHANGED task
    BY <1>1, <2>2 DEF At, PlansOK
  <2>3. ASSUME NEW s \in Working, Become(t, s)
        PROVE  DedupPlan(task'[u].plan)
    <3>1. CASE u = t
      BY <1>1, <2>3, <3>1 DEF Become, At, Working
    <3>2. CASE u # t
      BY <1>1, <2>3, <3>2 DEF Become, At, PlansOK
    <3> QED BY <3>1, <3>2
  <2> QED BY <1>1, <2>1, <2>2, <2>3, StepRegisters
<1>2. CASE Crash
  BY <1>2 DEF Crash, At, Idle, PlansOK
<1>3. CASE Open \/ UNCHANGED vars
  BY <1>3 DEF Open, vars, At, PlansOK
<1>4. \A u \in Task : At(u, "dedup")' => DedupPlan(task'[u].plan)
  BY <1>1, <1>2, <1>3 DEF Next, PlansOK
<1> QED BY <1>4 DEF PlansOK, DedupPlan, Losers

\* A set of facts closed under "merged into" is never expired as a whole.
LEMMA GroupKept ==
    ASSUME TypeOK, PlansOK, NEW t \in Task, ConsolidateApply(t),
           NEW S \in SUBSET FactId,
           \A p \in task[t].plan : p[1] \in S => p[2] \in S,
           \E f \in S : Active(f) /\ fact'[f] = "expired"
    PROVE  \E f \in S : fact'[f] = "active"
<1> DEFINE plan == task[t].plan
           live == {f \in S : Active(f)}
<1> SUFFICES ASSUME \A f \in S : fact'[f] # "active" PROVE FALSE
  OBVIOUS
<1>1. plan \subseteq FactId \X FactId /\ DedupPlan(plan)
  BY DEF TypeOK, TaskState, PlansOK, ConsolidateApply
<1>2. fact' = [f \in FactId |-> IF f \in MergeLosers(plan) THEN "expired"
                                                          ELSE fact[f]]
  BY DEF ConsolidateApply, Write
<1>3. live \subseteq MergeLosers(plan) /\ live # {}
  BY <1>2 DEF Active
<1>4. live \in SUBSET Losers(plan)
  <2>1. ASSUME NEW l \in MergeLosers(plan) PROVE l \in Losers(plan)
    <3>1. PICK s \in ActiveFacts : <<l, s>> \in plan
      BY DEF MergeLosers
    <3>2. <<l, s>>[1] = l
      OBVIOUS
    <3> QED BY <3>1, <3>2, Zenon DEF Losers
  <2> QED BY <1>3, <2>1
<1>5. PICK p \in plan : p[1] \in live /\ p[2] \notin live
  BY <1>1, <1>3, <1>4 DEF DedupPlan
<1>6. PICK s \in ActiveFacts : <<p[1], s>> \in plan
  BY <1>3, <1>5 DEF MergeLosers
<1>7. s = p[2]
  BY <1>1, <1>5, <1>6 DEF DedupPlan
<1>8. s \in S /\ Active(s)
  BY <1>5, <1>6, <1>7 DEF ActiveFacts
<1> QED BY <1>5, <1>7, <1>8

\* Deduplication leaves an active member in every group it merges (#409).
THEOREM DedupKeepsAMember == Spec => MergedGroupKeepsAMember
<1>1. Init => PlansOK
  BY DEF Init, PlansOK, At, Idle
<1>2. TypeOK /\ PlansOK /\ [Next]_vars => PlansOK'
  BY PlansStep
<1>3. TypeOK /\ PlansOK /\ [Next]_vars =>
        [\A t \in Task : ConsolidateApply(t) =>
           \A S \in SUBSET FactId :
             /\ \A p \in task[t].plan : p[1] \in S => p[2] \in S
             /\ \E f \in S : Active(f) /\ fact'[f] = "expired"
             => \E f \in S : fact'[f] = "active"]_vars
  BY GroupKept
<1> QED BY <1>1, <1>2, <1>3, TypeCorrect, PTL DEF Spec, MergedGroupKeepsAMember

-----------------------------------------------------------------------------
(* The operations that expire a fact together with its edges: every one    *)
(* but the dream cycle.                                                    *)

OneCaller == \A t, u \in Task : t = u

\* What a link read is still active: nobody else runs between its two stages.
LinksActive ==
    \A t \in Task : At(t, "link") =>
        "link" \in Op /\ task[t].facts \subseteq ActiveFacts

\* The rows appended join facts the transaction leaves active, the target of a
\* "contradicts" row excepted.
FreshRows(born, dead, new) ==
    \A i \in 1..Len(new) :
        /\ new[i].src \in born \/ new[i].src \in ActiveFacts \ dead
        /\ new[i].rel = "contradicts" \/ new[i].tgt \in ActiveFacts \ dead

\* A commit that expires the edges of the facts it expires, and the stage its
\* task goes on to.
Commits(t) ==
    \E born \in SUBSET {nextFact}, dead \in SUBSET ActiveFacts :
    \E new \in Seq(RowType) :
        /\ FreshRows(born, dead, new)
        /\ Write(born, dead, dead, new)
        /\ \/ Become(t, MirrorOf(dead, AppendedIds(Len(new))))
           \/ Become(t, [Idle EXCEPT !.at = "reload"])
           \/ dead = {} /\ new = <<>> /\ Finish(t)
           \/ dead = {} /\ new = <<>> /\ Free(t) /\ UNCHANGED task

CommitAction(t) ==
    \/ AddFact(t) \/ ResolveAdd(t) \/ ResolveUpdate(t) \/ ResolveDelete(t)
    \/ LinkCommit(t) \/ PruneCommit(t) \/ ConsolidateApply(t)

TablesUnchanged == UNCHANGED <<fact, edge, nextFact, nextEdge>>

LEMMA OtherSteps ==
    ASSUME "cycle" \notin Op, NEW t \in Task, Step(t), ~CommitAction(t)
    PROVE  ExpireEdge(t) \/ ArchiveCommit(t) \/ TablesUnchanged
<1>1. CASE CycleCommit(t)
  BY <1>1 DEF CycleCommit
<1>2. CASE \/ SetPinned(t) \/ Mirror(t) \/ Unlink(t) \/ ConsolidateSwap(t)
           \/ CycleMirror(t) \/ ArchivePack(t) \/ ArchiveRollback(t) \/ FlushSave(t)
           \/ Rollback(t) \/ ResolveRead(t) \/ LinkRead(t) \/ PruneRead(t)
           \/ ConsolidateRead(t) \/ ConsolidateReload(t)
           \/ FlushCapture(t) \/ FlushStamp(t) \/ Abandon(t)
  BY <1>2 DEF SetPinned, Mirror, Unlink, ConsolidateSwap, CycleMirror,
              ArchivePack, ArchiveRollback, FlushSave, Rollback, ResolveRead,
              LinkRead, PruneRead, ConsolidateRead, ConsolidateReload,
              FlushCapture, FlushStamp, Abandon, OnlyTask, NoTables, db,
              TablesUnchanged
<1> QED BY <1>1, <1>2 DEF Step, CommitAction

LEMMA CommitSteps ==
    ASSUME TablesOK, TasksOK, LinksActive, NEW t \in Task, CommitAction(t)
    PROVE  OnlyTables /\ Commits(t)
<1> USE EngineBounds DEF FactId, EdgeId
<1>a. ActiveFacts \subseteq FactId
  BY DEF ActiveFacts
<1>b. <<>> \in Seq(RowType) /\ \A born, dead : FreshRows(born, dead, <<>>)
  BY DEF FreshRows
<1>c. AppendedIds(0) = {} /\ Len(<<>>) = 0
  BY DEF AppendedIds, TablesOK
<1>d. ASSUME NEW old \in ActiveFacts, nextFact \in FactId,
             NEW r \in Ledger!Relation, NEW dead \in SUBSET ActiveFacts,
             r = "contradicts" \/ old \notin dead
      PROVE  /\ <<Row(nextFact, old, r)>> \in Seq(RowType)
             /\ Len(<<Row(nextFact, old, r)>>) = 1
             /\ FreshRows({nextFact}, dead, <<Row(nextFact, old, r)>>)
  <2> DEFINE rows == <<Row(nextFact, old, r)>>
  <2>1. Row(nextFact, old, r) \in RowType
    BY <1>a, <1>d DEF Row, RowType
  <2>2. rows \in Seq(RowType) /\ Len(rows) = 1
    BY <2>1
  <2>3. rows[1].src = nextFact /\ rows[1].tgt = old /\ rows[1].rel = r
    BY DEF Row
  <2> HIDE DEF rows
  <2>4. FreshRows({nextFact}, dead, rows)
    BY <1>d, <2>2, <2>3 DEF FreshRows
  <2> QED BY <2>2, <2>4 DEF rows
<1>1. CASE AddFact(t)
  <2>1. /\ Write({nextFact}, {}, {}, <<>>) /\ OnlyTables
        /\ Free(t) /\ UNCHANGED task
    BY <1>1 DEF AddFact
  <2>2. Commits(t)
    BY <1>b, <2>1, Zenon DEF Commits
  <2> QED BY <2>1, <2>2
<1>2. CASE ResolveAdd(t)
  <2>1. PICK old \in task[t].facts :
          /\ Active(old)
          /\ Write({nextFact}, {}, {}, <<Row(nextFact, old, "supplements")>>)
    BY <1>2 DEF ResolveAdd
  <2>2. old \in ActiveFacts /\ nextFact \in FactId
    BY <2>1 DEF ActiveFacts, Write, TasksOK, TaskState
  <2>3. Become(t, MirrorOf({}, AppendedIds(1))) /\ OnlyTables
    BY <1>2 DEF ResolveAdd
  <2> DEFINE rows == <<Row(nextFact, old, "supplements")>>
  <2>4. rows \in Seq(RowType) /\ Len(rows) = 1 /\ FreshRows({nextFact}, {}, rows)
    <3>1. "supplements" \in Ledger!Relation /\ {} \in SUBSET ActiveFacts
      BY DEF Ledger!Relation
    <3> QED BY <1>d, <2>2, <3>1
  <2>5. Write({nextFact}, {}, {}, rows)
    BY <2>1
  <2> HIDE DEF rows
  <2>6. Commits(t)
    BY <2>3, <2>4, <2>5 DEF Commits
  <2> QED BY <2>3, <2>6
<1>3. CASE ResolveUpdate(t)
  <2>1. PICK old \in task[t].facts :
          /\ Active(old)
          /\ Write({nextFact}, {old}, {old},
                   <<Row(nextFact, old, "contradicts")>>)
          /\ Become(t, MirrorOf({old}, AppendedIds(1)))
    BY <1>3 DEF ResolveUpdate
  <2>2. old \in ActiveFacts /\ nextFact \in FactId
    BY <2>1 DEF ActiveFacts, Write, TasksOK, TaskState
  <2>3. OnlyTables
    BY <1>3 DEF ResolveUpdate
  <2> QED BY <1>d, <2>1, <2>2, <2>3 DEF Commits, Ledger!Relation
<1>4. CASE ResolveDelete(t)
  <2>1. PICK old \in task[t].facts :
          /\ Active(old) /\ Write({}, {old}, {old}, <<>>)
          /\ Become(t, MirrorOf({old}, {}))
    BY <1>4 DEF ResolveDelete
  <2>2. {old} \in SUBSET ActiveFacts
    BY <2>1 DEF ActiveFacts, TasksOK, TaskState
  <2> QED BY <1>4, <1>b, <1>c, <2>1, <2>2 DEF Commits, ResolveDelete
<1>5. CASE LinkCommit(t)
  <2> DEFINE S == task[t].facts
  <2>1. PICK n \in 0..MaxEdges :
          \E pairs \in [1..n -> Missing(S)] :
            /\ Write({}, {}, {}, [i \in 1..n |->
                                   Row(pairs[i][1], pairs[i][2], "co_session")])
            /\ Become(t, MirrorOf({}, AppendedIds(n)))
    BY <1>5 DEF LinkCommit
  <2>2. PICK pairs \in [1..n -> Missing(S)] :
          /\ Write({}, {}, {}, [i \in 1..n |->
                                 Row(pairs[i][1], pairs[i][2], "co_session")])
          /\ Become(t, MirrorOf({}, AppendedIds(n)))
    BY <2>1
  <2> DEFINE rows == [i \in 1..n |->
                        Row(pairs[i][1], pairs[i][2], "co_session")]
  <2>3. \A i \in 1..n : pairs[i][1] \in S /\ pairs[i][2] \in S
    BY DEF Missing
  <2>4. S \subseteq ActiveFacts
    BY <1>5 DEF LinkCommit, LinksActive
  <2>a. \A i \in 1..n : pairs[i][1] \in FactId /\ pairs[i][2] \in FactId
    BY <1>a, <2>3, <2>4
  <2>5. rows \in [1..n -> RowType] /\ n \in Nat
    BY <2>a DEF Row, RowType, Ledger!Relation
  <2>6. rows \in Seq(RowType) /\ Len(rows) = n
    BY <2>5
  <2>7. FreshRows({}, {}, rows)
    BY <2>3, <2>4, <2>6 DEF FreshRows, Row
  <2>8. OnlyTables
    BY <1>5 DEF LinkCommit
  <2> HIDE DEF rows
  <2>9. Write({}, {}, {}, rows) /\ Become(t, MirrorOf({}, AppendedIds(Len(rows))))
    BY <2>2, <2>6 DEF rows
  <2> QED BY <2>6, <2>7, <2>8, <2>9 DEF Commits
<1>6. CASE PruneCommit(t)
  BY <1>6, <1>b, <1>c DEF PruneCommit, Commits
<1>7. CASE ConsolidateApply(t)
  <2> DEFINE dead == MergeLosers(task[t].plan)
  <2>1. dead \in SUBSET ActiveFacts
    BY DEF MergeLosers
  <2>2. /\ Write({}, dead, dead, <<>>) /\ OnlyTables
        /\ dead = {} => Finish(t)
        /\ dead # {} => Become(t, [Idle EXCEPT !.at = "reload"])
    BY <1>7 DEF ConsolidateApply
  <2> HIDE DEF dead
  <2> QED BY <1>b, <2>1, <2>2 DEF Commits
<1> QED BY <1>1, <1>2, <1>3, <1>4, <1>5, <1>6, <1>7 DEF CommitAction

\* An expiry takes the edges of the fact along, and new edges join live facts.
LEMMA WriteCascade ==
    ASSUME TablesOK, UsedIds, CascadeComplete,
           NEW born \in SUBSET {nextFact}, NEW dead \in SUBSET ActiveFacts,
           NEW new \in Seq(RowType), FreshRows(born, dead, new),
           Write(born, dead, dead, new)
    PROVE  CascadeComplete'
<1> DEFINE Appended == nextEdge..(nextEdge + Len(new) - 1)
<1> USE EngineBounds DEF FactId, EdgeId
<1>0. /\ fact \in [FactId -> Ledger!Status]
      /\ edge \in [EdgeId -> Ledger!EdgeRow \cup {Ledger!NoEdge}]
      /\ nextEdge \in Nat \ {0} /\ Len(new) \in Nat
  BY DEF TablesOK, Ledger!LedgerTypeOK, Ledger!FactId, Ledger!EdgeId
<1>1. \A f \in FactId : f \in born \/ f \in ActiveFacts \ dead => fact'[f] = "active"
  BY DEF Write, ActiveFacts, Active
<1> SUFFICES ASSUME NEW e \in EdgeId, edge'[e].st = "active"
             PROVE  /\ fact'[edge'[e].src] = "active"
                    /\ \/ edge'[e].rel = "contradicts"
                       \/ fact'[edge'[e].tgt] = "active"
  BY DEF CascadeComplete, ActiveEdges, Active
<1>2. CASE e \in Appended
  <2> DEFINE i == e - nextEdge + 1
  <2>1. i \in 1..Len(new) /\ edge'[e] = new[i]
    BY <1>0, <1>2 DEF Write
  <2>2. new[i] \in RowType
    BY <2>1
  <2> HIDE DEF i
  <2>3. new[i].src \in FactId /\ new[i].tgt \in FactId
    BY <2>2 DEF RowType
  <2>4. /\ new[i].src \in born \/ new[i].src \in ActiveFacts \ dead
        /\ new[i].rel = "contradicts" \/ new[i].tgt \in ActiveFacts \ dead
    BY <2>1 DEF FreshRows
  <2> QED BY <1>1, <2>1, <2>3, <2>4
<1>3. CASE e \notin Appended
  <2>1. edge'[e] = IF edge[e].st = "active" /\ Incident(e, dead)
                   THEN Ledger!Marked(edge[e], "expired") ELSE edge[e]
    BY <1>3 DEF Write
  <2>2. edge[e].st = "active" => edge[e] \in Ledger!EdgeRow
    BY <1>0 DEF Ledger!NoEdge
  <2>3. edge'[e] = edge[e] /\ ~Incident(e, dead) /\ edge[e].st = "active"
    BY <2>1, <2>2, MarkedRow
  <2>4. edge[e].src \in FactId /\ edge[e].tgt \in FactId
    BY <2>2, <2>3 DEF Ledger!EdgeRow, Ledger!FactId
  <2>5. /\ Active(edge[e].src)
        /\ edge[e].rel = "contradicts" \/ Active(edge[e].tgt)
    BY <2>3 DEF CascadeComplete, ActiveEdges
  <2>6. edge[e].src \notin dead /\ edge[e].tgt \notin dead
    BY <2>3 DEF Incident
  <2> QED BY <1>1, <2>3, <2>4, <2>5, <2>6 DEF ActiveFacts
<1> QED BY <1>2, <1>3

LEMMA CascadeStep ==
    ASSUME LedgerInv, LinksActive, CascadeComplete, "cycle" \notin Op, [Next]_vars
    PROVE  CascadeComplete'
<1> USE EngineBounds DEF FactId, EdgeId
<1>0. TablesOK /\ TasksOK /\ UsedIds
  BY DEF LedgerInv, TypeOK, TablesOK, TasksOK, TableInv
<1>a. /\ fact \in [FactId -> Ledger!Status]
      /\ edge \in [EdgeId -> Ledger!EdgeRow \cup {Ledger!NoEdge}]
  BY <1>0 DEF TablesOK, Ledger!LedgerTypeOK, Ledger!FactId, Ledger!EdgeId
<1>1. ASSUME TablesUnchanged PROVE CascadeComplete'
  BY <1>1 DEF TablesUnchanged, CascadeComplete, ActiveEdges, Active
<1>2. ASSUME NEW t \in Task, ExpireEdge(t) PROVE CascadeComplete'
  <2>1. PICK x \in ActiveEdges : edge' = [edge EXCEPT ![x] = Ledger!Marked(@, "expired")]
    BY <1>2 DEF ExpireEdge
  <2>2. x \in EdgeId /\ edge[x] \in Ledger!EdgeRow
    BY <1>a DEF ActiveEdges, Ledger!NoEdge
  <2>3. edge'[x].st = "expired"
    BY <1>a, <2>1, <2>2, MarkedRow
  <2>4. \A e \in EdgeId : edge'[e].st = "active" =>
          edge[e].st = "active" /\ edge'[e] = edge[e]
    BY <1>a, <2>1, <2>3
  <2>5. fact' = fact
    BY <1>2 DEF ExpireEdge
  <2> QED BY <2>4, <2>5 DEF CascadeComplete, ActiveEdges, Active
<1>3. ASSUME NEW t \in Task, ArchiveCommit(t) PROVE CascadeComplete'
  <2> DEFINE A == task[t].facts
  <2>1. /\ At(t, "archive")
        /\ fact' = [f \in FactId |-> IF f \in A THEN "purged" ELSE fact[f]]
        /\ edge' = [e \in EdgeId |->
                      IF e \in ArchivedEdges(A)
                      THEN Ledger!Marked(edge[e], "purged") ELSE edge[e]]
    BY <1>3 DEF ArchiveCommit
  <2>2. \A f \in FactId : Active(f) => f \notin A /\ fact'[f] = fact[f]
    BY <2>1 DEF LedgerInv, Doomed, Gone, Active
  <2>3. ASSUME NEW e \in EdgeId, edge'[e].st = "active"
        PROVE  edge[e].st = "active" /\ edge'[e] = edge[e]
    <3>1. e \in ArchivedEdges(A) => edge[e] \in Ledger!EdgeRow
      BY <1>a DEF ArchivedEdges, EdgeExists, Ledger!NoEdge
    <3>2. e \notin ArchivedEdges(A)
      BY <2>1, <2>3, <3>1, MarkedRow
    <3> QED BY <2>1, <2>3, <3>2
  <2>4. \A e \in EdgeId : edge[e].st = "active" =>
          edge[e].src \in FactId /\ edge[e].tgt \in FactId
    BY <1>a DEF Ledger!NoEdge, Ledger!EdgeRow, Ledger!FactId
  <2> QED BY <2>2, <2>3, <2>4 DEF CascadeComplete, ActiveEdges, Active
<1>4. ASSUME NEW t \in Task, Commits(t) PROVE CascadeComplete'
  <2>1. PICK born \in SUBSET {nextFact}, dead \in SUBSET ActiveFacts :
          \E new \in Seq(RowType) :
            FreshRows(born, dead, new) /\ Write(born, dead, dead, new)
    BY <1>4 DEF Commits
  <2> QED BY <1>0, <2>1, WriteCascade
<1>5. CASE \E t \in Task : Step(t)
  BY <1>0, <1>1, <1>2, <1>3, <1>4, <1>5, CommitSteps, OtherSteps
<1>6. CASE Crash \/ Open \/ UNCHANGED vars
  BY <1>1, <1>6 DEF Crash, Open, NoTables, db, vars, TablesUnchanged
<1> QED BY <1>5, <1>6 DEF Next

\* Only a link's read enters the link stage, and only a flush keeps an image.
LEMMA StageAfter ==
    ASSUME TypeOK, NEW t \in Task, Step(t)
    PROVE  /\ \A v \in Task : v # t => task'[v] = task[v]
           /\ \/ task' = task /\ Free(t)
              \/ LinkRead(t) \/ FlushCapture(t) \/ FlushStamp(t)
              \/ task'[t].at \notin {"link", "stamp", "save"} /\ task'[t].image = {}
<1>a. task \in [Task -> TaskState]
  BY DEF TypeOK
<1>b. /\ Idle.at = "idle" /\ Idle.image = {}
      /\ \A facts, edges : /\ MirrorOf(facts, edges).at = "mirror"
                           /\ MirrorOf(facts, edges).image = {}
  BY DEF Idle, MirrorOf
<1>1. \A v \in Task : v # t => task'[v] = task[v]
  <2>1. \A s : Become(t, s) => \A v \in Task : v # t => task'[v] = task[v]
    BY <1>a DEF Become
  <2>2. \/ task' = task \/ \E s : Become(t, s)
    BY StepRegisters, Zenon
  <2> QED BY <2>1, <2>2
<1>2. CASE AddFact(t) \/ SetPinned(t)
  BY <1>1, <1>2 DEF AddFact, SetPinned
<1>3. CASE CycleCommit(t)
  <2>1. \A olds, new :
          LET s == [Idle EXCEPT !.at = "cycled", !.facts = olds, !.edges = new]
          IN  s.at = "cycled" /\ s.image = {}
    BY DEF Idle
  <2>2. \E s : s.at \in {"idle", "cycled"} /\ s.image = {} /\ Become(t, s)
    BY <1>3, <1>b, <2>1 DEF CycleCommit, Finish
  <2> QED BY <1>a, <1>1, <2>2 DEF Become
<1>4. CASE \/ Mirror(t) \/ Rollback(t) \/ Unlink(t) \/ ConsolidateSwap(t)
           \/ CycleMirror(t) \/ ArchiveRollback(t) \/ FlushSave(t) \/ Abandon(t)
  BY <1>a, <1>b, <1>1, <1>4 DEF Mirror, Rollback, Unlink, ConsolidateSwap,
     CycleMirror, ArchiveRollback, FlushSave, Abandon, Become, Finish
<1>5. CASE \/ ResolveAdd(t) \/ ResolveUpdate(t) \/ ResolveDelete(t)
           \/ LinkCommit(t) \/ PruneCommit(t) \/ ArchiveCommit(t)
  <2>1. \E facts, edges : Become(t, MirrorOf(facts, edges))
    BY <1>5 DEF ResolveAdd, ResolveUpdate, ResolveDelete, LinkCommit,
         PruneCommit, ArchiveCommit
  <2> QED BY <1>a, <1>b, <1>1, <2>1 DEF Become
<1>6. CASE \/ ResolveRead(t) \/ PruneRead(t) \/ ConsolidateRead(t)
           \/ ConsolidateReload(t)
  BY <1>a, <1>1, <1>6 DEF ResolveRead, PruneRead, ConsolidateRead,
     ConsolidateReload, Become, Idle
<1>7. CASE ExpireEdge(t)
  BY <1>a, <1>1, <1>7 DEF ExpireEdge, Become, Idle
<1>8. CASE ConsolidateApply(t)
  <2>1. Finish(t) \/ Become(t, [Idle EXCEPT !.at = "reload"])
    BY <1>8 DEF ConsolidateApply
  <2> QED BY <1>a, <1>1, <2>1 DEF Become, Finish, Idle
<1>9. CASE ArchivePack(t)
  BY <1>a, <1>1, <1>9 DEF ArchivePack, Become, Idle
<1>10. CASE LinkRead(t) \/ FlushCapture(t) \/ FlushStamp(t)
  BY <1>1, <1>10
<1> QED BY <1>2, <1>3, <1>4, <1>5, <1>6, <1>7, <1>8, <1>9, <1>10 DEF Step

\* With one caller, the two stages of a link follow each other.
LEMMA LinksStep ==
    ASSUME TypeOK, LinksActive, "link" \in Op => OneCaller, [Next]_vars
    PROVE  LinksActive'
<1> SUFFICES ASSUME NEW u \in Task, At(u, "link")'
             PROVE  "link" \in Op /\ task'[u].facts \subseteq ActiveFacts'
  BY DEF LinksActive
<1>a. task \in [Task -> TaskState]
  BY DEF TypeOK
<1>1. CASE UNCHANGED <<fact, task>>
  BY <1>1 DEF LinksActive, At, ActiveFacts, Active
<1>2. ASSUME NEW t \in Task, LinkRead(t)
      PROVE  "link" \in Op /\ task'[u].facts \subseteq ActiveFacts'
  <2>1. PICK S \in SUBSET ActiveFacts :
          Become(t, [Idle EXCEPT !.at = "link", !.facts = S])
    BY <1>2 DEF LinkRead
  <2>2. "link" \in Op /\ fact' = fact
    BY <1>2 DEF LinkRead, OnlyTask, NoTables, db
  <2>3. ActiveFacts' = ActiveFacts
    BY <2>2 DEF ActiveFacts, Active
  <2>4. u = t
    BY <2>2 DEF OneCaller
  <2>5. task'[t].facts = S
    BY <1>a, <2>1 DEF Become, Idle
  <2> QED BY <2>2, <2>3, <2>4, <2>5
<1>3. ASSUME NEW t \in Task, Step(t), ~LinkRead(t)
      PROVE  FALSE
  <2>1. /\ \A v \in Task : v # t => task'[v] = task[v]
        /\ \/ task' = task /\ task[t].at = "idle"
           \/ FlushCapture(t) \/ FlushStamp(t) \/ task'[t].at # "link"
    BY <1>3, StageAfter DEF Free
  <2>2. FlushCapture(t) \/ FlushStamp(t) => task'[t].at # "link"
    BY <1>a DEF FlushCapture, FlushStamp, Become, Idle
  <2>3. u = t
    BY <2>1 DEF At, LinksActive, OneCaller
  <2>4. task'[u].at = "link"
    BY DEF At
  <2> QED BY <2>1, <2>2, <2>3, <2>4
<1>4. CASE \E t \in Task : Step(t)
  BY <1>2, <1>3, <1>4
<1>5. CASE Crash
  BY <1>5 DEF Crash, At, Idle
<1>6. CASE Open \/ UNCHANGED vars
  BY <1>1, <1>6 DEF Open, vars, NoTables, db
<1> QED BY <1>4, <1>5, <1>6 DEF Next

\* No dream cycle, whose expiries leave the edges of the fact, and nobody who
\* expires a fact between the two stages of a link.
NothingBetween == "cycle" \notin Op /\ ("link" \in Op => OneCaller)

LEMMA LinksInvariant ==
    ASSUME NothingBetween PROVE Spec => [](LinksActive /\ CascadeComplete)
<1> DEFINE Inv == LinksActive /\ CascadeComplete
<1>1. Init => Inv
  <2> SUFFICES ASSUME Init PROVE Inv
    OBVIOUS
  <2>1. ActiveEdges = {}
    BY DEF Init, ActiveEdges, Ledger!NoEdge
  <2> QED BY <2>1 DEF Init, LinksActive, CascadeComplete, At, Idle
<1>2. LedgerInv /\ Inv /\ [Next]_vars => Inv'
  BY CascadeStep, LinksStep DEF LedgerInv, NothingBetween
<1> QED BY <1>1, <1>2, LedgerInvariant, PTL DEF Spec

\* Expiring a fact leaves no live edge at it, whichever operation expires it,
\* however many callers run and whatever is abandoned or crashes; a link, which
\* does not look at its facts again, needs them left alone meanwhile.
THEOREM CascadeAlwaysComplete == NothingBetween => (Spec => []CascadeComplete)
<1> SUFFICES ASSUME NothingBetween PROVE Spec => []CascadeComplete
  OBVIOUS
<1> QED BY LinksInvariant, PTL

-----------------------------------------------------------------------------
(* The in-memory graph and its sidecar, with one caller.                   *)

\* One caller, who carries every operation to its end unless the process dies,
\* and runs no dream cycle.
Serial ==
    /\ Task # {} /\ OneCaller
    /\ "cycle" \notin Op /\ "abandon" \notin Op

\* The stages at which the graph and the tables agree.
Settled == {"resolve", "link", "prune", "dedup", "archive", "stamp", "save"}

\* What the graph still lacks, stage by stage.
Tracks(t) ==
    /\ task[t].at \in Settled \/ (up /\ At(t, "idle")) => graph = ActiveGraph
    /\ At(t, "mirror") =>
        \A e \in EdgeId :
            (IF Incident(e, task[t].facts) THEN 0 ELSE graph[e])
              + (IF e \in task[t].edges THEN 1 ELSE 0) = ActiveGraph[e]
    /\ At(t, "unlink") =>
        /\ task[t].edges \cap ActiveEdges = {}
        /\ \A e \in EdgeId :
             graph[e] = IF e \in task[t].edges THEN 1 ELSE ActiveGraph[e]
    /\ At(t, "swap") => task[t].edges = ActiveEdges
    /\ At(t, "stamp") => \A i \in task[t].image : i.graph = ActiveGraph
    /\ ~At(t, "cycled")
    /\ ~up => At(t, "idle")

\* An image whose counters were taken of the graph it holds: what is active of
\* the rowids it covers is in it.
Copied(i) == {e \in EdgeId : i.graph[e] = 1}
Sealed(i) ==
    /\ i.graph \in [EdgeId -> {0, 1}]
    /\ Cardinality(Copied(i)) = i.fp.active_edge_count
    /\ i.fp.max_edge_id < nextEdge
    /\ \A d \in ActiveEdges : d <= i.fp.max_edge_id => d \in Copied(i)

Seals ==
    /\ \A i \in sidecar : Sealed(i)
    /\ \A i, j \in sidecar : i = j
    /\ \A t \in Task : \A i, j \in task[t].image : i = j
    /\ \A t \in Task : At(t, "save") => \A i \in task[t].image : Sealed(i)

MirrorInv == Seals /\ \A t \in Task : Tracks(t)

\* COALESCE(MAX(id), 0): no row lies above it, and it is no higher than one.
LEMMA HighestId ==
    ASSUME NEW bound \in Nat, NEW ids \in SUBSET (1..bound)
    PROVE  /\ Highest(ids, bound) \in Nat
           /\ \A j \in ids : j <= Highest(ids, bound)
           /\ \A m \in Nat : (\A j \in ids : j <= m) => Highest(ids, bound) <= m
<1> DEFINE Below == {i \in 1..bound : \E j \in ids : i <= j}
<1>1. Highest(ids, bound) = Cardinality(Below)
  BY Zenon DEF Highest
<1>2. IsFiniteSet(Below) /\ Cardinality(Below) \in Nat
  <2>1. IsFiniteSet(1..bound) /\ Below \in SUBSET (1..bound)
    BY FS_Interval
  <2> QED BY <2>1, FS_Subset, FS_CardinalityType
<1>3. ASSUME NEW j \in ids PROVE j <= Cardinality(Below)
  <2>1. 1..j \in SUBSET Below
    OBVIOUS
  <2>2. Cardinality(1..j) = j
    BY FS_Interval
  <2> HIDE DEF Below
  <2>3. Cardinality(1..j) <= Cardinality(Below)
    BY <1>2, <2>1, FS_Subset
  <2> QED BY <2>2, <2>3
<1>4. ASSUME NEW m \in Nat, \A j \in ids : j <= m PROVE Cardinality(Below) <= m
  <2>1. Below \in SUBSET (1..m)
    BY <1>4
  <2>2. IsFiniteSet(1..m) /\ Cardinality(1..m) = m
    BY FS_Interval
  <2> HIDE DEF Below
  <2>3. Cardinality(Below) <= Cardinality(1..m)
    BY <2>1, <2>2, FS_Subset
  <2> QED BY <2>2, <2>3
<1> HIDE DEF Below
<1> QED BY <1>1, <1>2, <1>3, <1>4

LEMMA TableTypes ==
    ASSUME LedgerInv
    PROVE  /\ edge \in [EdgeId -> Ledger!EdgeRow \cup {Ledger!NoEdge}]
           /\ nextEdge \in Nat \ {0} /\ MaxEdges \in Nat
           /\ TablesOK /\ TasksOK /\ UsedIds
           /\ \A e \in EdgeId : EdgeExists(e) => e < nextEdge
           /\ ActiveEdges \in SUBSET EdgeId
           /\ \A e \in ActiveEdges : EdgeExists(e)
<1> USE EngineBounds
<1>1. /\ edge \in [EdgeId -> Ledger!EdgeRow \cup {Ledger!NoEdge}]
      /\ nextEdge \in Nat \ {0} /\ TablesOK /\ TasksOK /\ UsedIds
  BY DEF LedgerInv, TypeOK, TablesOK, TasksOK, TableInv,
         Ledger!LedgerTypeOK, EdgeId, Ledger!EdgeId
<1>2. \A e \in EdgeId : EdgeExists(e) => e < nextEdge
  BY <1>1 DEF EdgeExists, UsedIds, Ledger!NoEdge, EdgeId
<1> QED BY <1>1, <1>2 DEF ActiveEdges, EdgeExists

\* Only rowids not handed out yet become active.
LEMMA SealedStep ==
    ASSUME LedgerInv, [Next]_vars, NEW i \in Image, Sealed(i)
    PROVE  Sealed(i)'
<1>0. /\ edge \in [EdgeId -> Ledger!EdgeRow \cup {Ledger!NoEdge}]
      /\ nextEdge \in Nat \ {0} /\ UsedIds /\ TablesOK /\ TasksOK
  BY TableTypes
<1>1. nextEdge' >= nextEdge /\ nextEdge' \in Nat
  <2>1. CASE WriteStep
    <3>1. PICK new \in Seq(RowType) : \E born, dead, cut : Write(born, dead, cut, new)
      BY <2>1 DEF WriteStep
    <3>2. \E n \in Nat : nextEdge' = nextEdge + n
      BY <3>1 DEF Write
    <3> QED BY <1>0, <3>2
  <2>2. CASE ExpireEdgeStep \/ PurgeStep \/ QuietStep
    BY <1>0, <2>2 DEF ExpireEdgeStep, PurgeStep, QuietStep
  <2> QED BY <1>0, <2>1, <2>2, Transactions
<1>2. ASSUME NEW d \in EdgeId, edge'[d].st = "active", d < nextEdge
      PROVE  edge[d].st = "active"
  <2>1. edge[d] \in Ledger!EdgeRow
    BY <1>0, <1>2, EngineBounds DEF UsedIds, EdgeId
  <2>2. CASE Ledger!LedgerStep
    <3>1. <<edge[d].st, edge'[d].st>> \in Ledger!EdgeMove
      BY <2>2 DEF Ledger!LedgerStep, EdgeId, Ledger!EdgeId
    <3> QED BY <1>2, <2>1, <3>1 DEF Ledger!EdgeMove, Ledger!FactMove,
                                    Ledger!EdgeRow, Ledger!Status
  <2>3. CASE UNCHANGED <<fact, edge>>
    BY <1>2, <2>3
  <2> QED BY <2>2, <2>3, LedgerMove DEF LedgerInv
<1>3. i.fp.max_edge_id \in Nat
  BY DEF Image
<1>4. \A d \in ActiveEdges' : d <= i.fp.max_edge_id => d \in ActiveEdges
  BY <1>0, <1>2, <1>3, EngineBounds DEF ActiveEdges, Sealed, EdgeId
<1>5. Copied(i)' = Copied(i)
  BY DEF Copied
<1> QED BY <1>0, <1>1, <1>3, <1>4, <1>5 DEF Sealed

\* A stamp taken of the graph just copied seals it.
LEMMA Stamp ==
    ASSUME LedgerInv, NEW i \in Image, i.graph = ActiveGraph
    PROVE  LET j == [i EXCEPT !.fp = Fingerprint] IN j \in Image /\ Sealed(j)
<1> DEFINE j == [i EXCEPT !.fp = Fingerprint]
           ids == {e \in EdgeId : EdgeExists(e)}
<1>1. j \in Image /\ j.graph = ActiveGraph /\ j.fp = Fingerprint
  BY FingerprintType DEF Image
<1> HIDE DEF j
<1>2. Copied(j) = ActiveEdges
  BY <1>1 DEF Copied, ActiveGraph, ActiveEdges
<1>3. /\ Fingerprint.max_edge_id = Highest(ids, MaxEdges)
      /\ Fingerprint.active_edge_count = Cardinality(ActiveEdges)
  BY DEF Fingerprint
<1>4. Highest(ids, MaxEdges) <= nextEdge - 1 /\ Highest(ids, MaxEdges) \in Nat
  <2>1. ids \in SUBSET (1..MaxEdges) /\ nextEdge - 1 \in Nat
    BY TableTypes DEF EdgeId
  <2>2. \A e \in ids : e <= nextEdge - 1
    BY TableTypes DEF EdgeId
  <2> HIDE DEF ids
  <2> QED BY <2>1, <2>2, TableTypes, HighestId
<1>5. Fingerprint.max_edge_id < nextEdge
  BY <1>3, <1>4, TableTypes
<1>6. j.graph \in [EdgeId -> {0, 1}]
  BY <1>1 DEF ActiveGraph
<1> QED BY <1>1, <1>2, <1>3, <1>5, <1>6 DEF Sealed, j

\* What the open path accepts is what the tables hold active.
LEMMA AcceptedIsCurrent ==
    ASSUME LedgerInv, NEW i \in Image, Sealed(i), Accepted(i)
    PROVE  i.graph = ActiveGraph
<1> DEFINE ids == {e \in EdgeId : EdgeExists(e)}
<1>1. /\ i.fp = Fingerprint
      /\ Fingerprint.max_edge_id = Highest(ids, MaxEdges)
      /\ Fingerprint.active_edge_count = Cardinality(ActiveEdges)
  BY DEF Accepted, Fingerprint
<1>2. \A e \in ids : e <= Highest(ids, MaxEdges)
  <2>1. ids \in SUBSET (1..MaxEdges)
    BY DEF EdgeId
  <2> HIDE DEF ids
  <2> QED BY <2>1, TableTypes, HighestId
<1>3. ActiveEdges \in SUBSET Copied(i)
  <2>1. ActiveEdges \in SUBSET ids
    BY TableTypes
  <2> QED BY <1>1, <1>2, <2>1 DEF Sealed
<1>4. IsFiniteSet(Copied(i))
  <2>1. IsFiniteSet(EdgeId) /\ Copied(i) \in SUBSET EdgeId
    BY TableTypes, FS_Interval DEF EdgeId, Copied
  <2> QED BY <2>1, FS_Subset
<1>5. Cardinality(Copied(i)) = Cardinality(ActiveEdges)
  BY <1>1 DEF Sealed
<1>6. Copied(i) = ActiveEdges
  BY <1>3, <1>4, <1>5, FS_Subset
<1>7. i.graph \in [EdgeId -> {0, 1}]
  BY DEF Sealed
<1>8. \A e \in EdgeId : i.graph[e] = IF e \in ActiveEdges THEN 1 ELSE 0
  BY <1>6, <1>7 DEF Copied
<1> QED BY <1>7, <1>8 DEF ActiveGraph

LEMMA SealsStep ==
    ASSUME LedgerInv, MirrorInv, [Next]_vars
    PROVE  Seals'
<1>a. /\ task \in [Task -> TaskState] /\ sidecar \subseteq Image
      /\ \A t \in Task : task[t].image \subseteq Image
  BY DEF LedgerInv, TypeOK, TaskState
<1>b. \A i \in Image : Sealed(i) => Sealed(i)'
  BY SealedStep
<1>c. Seals /\ \A t \in Task : Tracks(t)
  BY DEF MirrorInv
<1>1. /\ \A i \in sidecar' : Sealed(i)'
      /\ \A i, j \in sidecar' : i = j
  <2>1. CASE sidecar' = sidecar
    BY <1>a, <1>b, <1>c, <2>1 DEF Seals
  <2>2. CASE \E t \in Task : FlushSave(t)
    <3>1. PICK t \in Task : At(t, "save") /\ sidecar' = task[t].image
      BY <2>2 DEF FlushSave
    <3>2. \A i \in task[t].image : Sealed(i)
      BY <1>c, <3>1 DEF Seals
    <3>3. \A i, j \in task[t].image : i = j
      BY <1>c DEF Seals
    <3> QED BY <1>a, <1>b, <3>1, <3>2, <3>3
  <2>3. ASSUME NEW t \in Task, Step(t), ~FlushSave(t) PROVE sidecar' = sidecar
    BY <2>3 DEF Step, Mirror, Unlink, ConsolidateSwap, CycleMirror, AddFact,
       SetPinned, Rollback, ResolveRead, ResolveAdd, ResolveUpdate,
       ResolveDelete, LinkRead, LinkCommit, ExpireEdge, PruneRead, PruneCommit,
       ConsolidateRead, ConsolidateApply, ConsolidateReload, CycleCommit,
       ArchivePack, ArchiveCommit, ArchiveRollback, FlushCapture, FlushStamp,
       Abandon, OnlyTables, OnlyTask
  <2>4. CASE Crash \/ Open \/ UNCHANGED vars
    BY <2>1, <2>4 DEF Crash, Open, vars
  <2> QED BY <2>1, <2>2, <2>3, <2>4 DEF Next
<1>2. ASSUME NEW u \in Task
      PROVE  /\ \A i, j \in task'[u].image : i = j
             /\ At(u, "save")' => \A i \in task'[u].image : Sealed(i)'
  <2>1. CASE task'[u] = task[u]
    BY <1>a, <1>b, <1>c, <2>1 DEF Seals, At
  <2>2. CASE task'[u].at # "save" /\ task'[u].image = {}
    BY <2>2 DEF At
  <2>3. CASE LinkRead(u)
    BY <1>a, <2>3 DEF LinkRead, Become, Idle, At
  <2>4. CASE FlushCapture(u)
    BY <1>a, <2>4 DEF FlushCapture, Become, Idle, At
  <2>5. CASE FlushStamp(u)
    <3> DEFINE stamped == {[i EXCEPT !.fp = Fingerprint] : i \in task[u].image}
    <3>1. task'[u].image = stamped /\ At(u, "stamp")
      BY <1>a, <2>5 DEF FlushStamp, Become, Idle
    <3>2. \A i \in task[u].image : i \in Image /\ i.graph = ActiveGraph
      BY <1>a, <1>c, <3>1 DEF Tracks
    <3>3. ASSUME NEW j \in stamped PROVE j \in Image /\ Sealed(j)
      <4>1. PICK i \in task[u].image : j = [i EXCEPT !.fp = Fingerprint]
        OBVIOUS
      <4> QED BY <3>2, <4>1, Stamp
    <3>4. \A i, j \in task[u].image : i = j
      BY <1>c DEF Seals
    <3>5. \A i, j \in stamped : i = j
      BY <3>4
    <3> HIDE DEF stamped
    <3> QED BY <1>b, <3>1, <3>3, <3>5
  <2>6. CASE \E t \in Task : Step(t)
    <3>1. PICK t \in Task : Step(t)
      BY <2>6
    <3>2. CASE u # t
      BY <2>1, <3>1, <3>2, StageAfter DEF LedgerInv
    <3>3. CASE u = t
      <4>1. \/ task' = task \/ LinkRead(u) \/ FlushCapture(u) \/ FlushStamp(u)
            \/ task'[u].at # "save" /\ task'[u].image = {}
        BY <3>1, <3>3, StageAfter DEF LedgerInv
      <4> QED BY <2>1, <2>2, <2>3, <2>4, <2>5, <4>1
    <3> QED BY <3>2, <3>3
  <2>7. CASE Crash
    BY <2>2, <2>7 DEF Crash, Idle
  <2>8. CASE Open \/ UNCHANGED vars
    BY <2>1, <2>8 DEF Open, vars
  <2> QED BY <2>6, <2>7, <2>8 DEF Next
<1> QED BY <1>1, <1>2 DEF Seals

\* The rows a commit leaves active are those its mirror step will arrive at.
LEMMA WriteMirror ==
    ASSUME LedgerInv, graph = ActiveGraph, graph' = graph,
           NEW born \in SUBSET {nextFact}, NEW dead \in SUBSET ActiveFacts,
           NEW new \in Seq(RowType), Write(born, dead, dead, new)
    PROVE  /\ \A e \in EdgeId :
                (IF edge'[e].src \in dead \/ edge'[e].tgt \in dead THEN 0
                                                                  ELSE graph'[e])
                  + (IF e \in AppendedIds(Len(new)) THEN 1 ELSE 0)
                = IF edge'[e].st = "active" THEN 1 ELSE 0
           /\ dead = {} /\ new = <<>> => edge' = edge
<1> USE EngineBounds DEF EdgeId
<1>0. /\ edge \in [EdgeId -> Ledger!EdgeRow \cup {Ledger!NoEdge}]
      /\ nextEdge \in Nat \ {0} /\ Len(new) \in Nat /\ UsedIds
  BY TableTypes
<1>1. \A e \in EdgeId : graph'[e] = IF edge[e].st = "active" THEN 1 ELSE 0
  BY DEF ActiveGraph, ActiveEdges
<1>2. ASSUME NEW e \in EdgeId, e \in AppendedIds(Len(new))
      PROVE  graph'[e] = 0 /\ edge'[e].st = "active"
  <2> DEFINE i == e - nextEdge + 1
  <2>1. e >= nextEdge /\ i \in 1..Len(new) /\ edge'[e] = new[i]
    BY <1>0, <1>2 DEF Write, AppendedIds
  <2>2. new[i] \in RowType
    BY <2>1
  <2>3. edge[e] = Ledger!NoEdge
    BY <1>0, <2>1 DEF UsedIds
  <2> HIDE DEF i
  <2> QED BY <1>1, <2>1, <2>2, <2>3 DEF RowType, Ledger!NoEdge
<1>3. ASSUME NEW e \in EdgeId, e \notin AppendedIds(Len(new))
      PROVE  /\ edge'[e].src = edge[e].src /\ edge'[e].tgt = edge[e].tgt
             /\ edge'[e].st = "active" <=> edge[e].st = "active" /\ ~Incident(e, dead)
             /\ dead = {} => edge'[e] = edge[e]
  <2>1. edge'[e] = IF edge[e].st = "active" /\ Incident(e, dead)
                   THEN Ledger!Marked(edge[e], "expired") ELSE edge[e]
    BY <1>3 DEF Write, AppendedIds
  <2>2. edge[e].st = "active" => edge[e] \in Ledger!EdgeRow
    BY <1>0 DEF Ledger!NoEdge
  <2> QED BY <2>1, <2>2, MarkedRow DEF Incident
<1>4. ASSUME NEW e \in EdgeId
      PROVE  (IF edge'[e].src \in dead \/ edge'[e].tgt \in dead THEN 0
                                                                ELSE graph'[e])
               + (IF e \in AppendedIds(Len(new)) THEN 1 ELSE 0)
             = IF edge'[e].st = "active" THEN 1 ELSE 0
  <2>1. CASE e \in AppendedIds(Len(new))
    BY <1>2, <2>1
  <2>2. CASE e \notin AppendedIds(Len(new))
    BY <1>1, <1>3, <2>2 DEF Incident
  <2> QED BY <2>1, <2>2
<1>5. ASSUME dead = {}, new = <<>> PROVE edge' = edge
  <2>1. AppendedIds(Len(new)) = {}
    BY <1>0, <1>5 DEF AppendedIds
  <2>2. \A e \in EdgeId : edge'[e] = edge[e]
    BY <1>3, <1>5, <2>1
  <2>3. edge' \in [EdgeId -> Ledger!EdgeRow \cup {Ledger!NoEdge}]
    BY <1>0, <1>5, <2>1, <2>2 DEF Write
  <2> QED BY <1>0, <2>2, <2>3
<1> QED BY <1>4, <1>5

\* Arriving at a stage where the graph and the tables agree.
LEMMA Settles ==
    ASSUME NEW t \in Task, graph' = ActiveGraph',
           task'[t].at \in (Settled \ {"stamp"}) \cup {"idle"},
           up' \/ task'[t].at = "idle"
    PROVE  Tracks(t)'
BY DEF Tracks, Settled, At

LEMMA SameEdges ==
    ASSUME edge' = edge
    PROVE  ActiveEdges' = ActiveEdges /\ ActiveGraph' = ActiveGraph
BY DEF ActiveEdges, ActiveGraph

\* The one caller's next step, with the graph and the tables as they are.
LEMMA TracksTask ==
    ASSUME LedgerInv, LinksActive, "cycle" \notin Op, "abandon" \notin Op,
           NEW t \in Task, Tracks(t), Step(t)
    PROVE  Tracks(t)'
<1>a. /\ task \in [Task -> TaskState] /\ graph \in [EdgeId -> Nat]
      /\ TablesOK /\ TasksOK
  BY TableTypes DEF LedgerInv, TypeOK
<1>b. /\ Idle.at = "idle"
      /\ \A s : Become(t, s) => task'[t] = s
      /\ \A s : task[t].at = s /\ s # "idle" => up
  BY <1>a DEF Idle, Become, Tracks, At
<1>c. task[t].at \in Settled \/ Free(t) => graph = ActiveGraph
  BY DEF Tracks, Free, At
<1>1. CASE CommitAction(t)
  <2>1. task[t].at \in Settled \/ Free(t)
    BY <1>1 DEF CommitAction, AddFact, ResolveAdd, ResolveUpdate,
       ResolveDelete, LinkCommit, PruneCommit, ConsolidateApply, At, Settled
  <2>2. graph = ActiveGraph /\ graph' = graph /\ up' = up /\ up
    BY <1>1, <1>a, <1>b, <1>c, <2>1, CommitSteps DEF OnlyTables, Free, Settled
  <2>3. PICK born \in SUBSET {nextFact}, dead \in SUBSET ActiveFacts :
          \E new \in Seq(RowType) :
            /\ Write(born, dead, dead, new)
            /\ \/ Become(t, MirrorOf(dead, AppendedIds(Len(new))))
               \/ Become(t, [Idle EXCEPT !.at = "reload"])
               \/ dead = {} /\ new = <<>> /\ Finish(t)
               \/ dead = {} /\ new = <<>> /\ Free(t) /\ UNCHANGED task
    BY <1>1, <1>a, CommitSteps DEF Commits
  <2>4. PICK new \in Seq(RowType) :
            /\ Write(born, dead, dead, new)
            /\ \/ Become(t, MirrorOf(dead, AppendedIds(Len(new))))
               \/ Become(t, [Idle EXCEPT !.at = "reload"])
               \/ dead = {} /\ new = <<>> /\ Finish(t)
               \/ dead = {} /\ new = <<>> /\ Free(t) /\ UNCHANGED task
    BY <2>3
  <2>5. /\ \A e \in EdgeId :
             (IF edge'[e].src \in dead \/ edge'[e].tgt \in dead THEN 0
                                                               ELSE graph'[e])
               + (IF e \in AppendedIds(Len(new)) THEN 1 ELSE 0)
             = IF edge'[e].st = "active" THEN 1 ELSE 0
        /\ dead = {} /\ new = <<>> => edge' = edge
    BY <2>2, <2>4, WriteMirror
  <2>6. CASE Become(t, MirrorOf(dead, AppendedIds(Len(new))))
    <3>1. /\ task'[t].at = "mirror" /\ task'[t].facts = dead
          /\ task'[t].edges = AppendedIds(Len(new))
      BY <1>b, <2>6 DEF MirrorOf, Idle
    <3>2. \A e \in EdgeId : ActiveGraph'[e] = IF edge'[e].st = "active" THEN 1 ELSE 0
      BY DEF ActiveGraph, ActiveEdges
    <3> QED BY <2>2, <2>5, <3>1, <3>2 DEF Tracks, At, Settled, Incident
  <2>7. CASE Become(t, [Idle EXCEPT !.at = "reload"])
    <3>1. task'[t].at = "reload"
      BY <1>b, <2>7 DEF Idle
    <3> QED BY <2>2, <3>1 DEF Tracks, At, Settled
  <2>8. CASE dead = {} /\ new = <<>> /\ (Finish(t) \/ (Free(t) /\ UNCHANGED task))
    <3>1. task'[t].at = "idle"
      BY <1>b, <2>8 DEF Finish, Free
    <3> QED BY <2>2, <2>5, <2>8, <3>1, SameEdges, Settles
  <2> QED BY <2>4, <2>6, <2>7, <2>8
<1>2. CASE SetPinned(t)
  <2>1. /\ graph' = graph /\ edge' = edge /\ up' = up /\ up
        /\ task'[t].at = "idle" /\ graph = ActiveGraph
    BY <1>2, <1>c DEF SetPinned, OnlyTables, Free
  <2> QED BY <2>1, SameEdges, Settles
<1>3. CASE Mirror(t)
  <2>1. /\ At(t, "mirror") /\ edge' = edge
        /\ graph' = Mirrored(task[t].facts, task[t].edges)
        /\ task'[t].at = "idle"
    BY <1>3, <1>b DEF Mirror, Finish, NoTables, db
  <2>2. graph' = ActiveGraph
    BY <2>1 DEF Mirrored, Tracks, ActiveGraph
  <2> QED BY <2>1, <2>2, SameEdges, Settles
<1>4. CASE Rollback(t) \/ ArchiveRollback(t) \/ FlushSave(t)
  <2>1. /\ task[t].at \in Settled /\ task'[t].at = "idle"
        /\ graph' = graph /\ edge' = edge
    BY <1>4, <1>b DEF Rollback, ArchiveRollback, FlushSave, Finish, OnlyTask,
       NoTables, db, At, Settled
  <2> QED BY <2>1, <1>c, SameEdges, Settles
<1>5. CASE \/ ResolveRead(t) \/ LinkRead(t) \/ PruneRead(t)
           \/ ConsolidateRead(t) \/ ArchivePack(t)
  <2>1. Free(t) /\ graph' = graph /\ edge' = edge /\ up' = up
    BY <1>5 DEF ResolveRead, LinkRead, PruneRead, ConsolidateRead, ArchivePack,
       OnlyTask, NoTables, db
  <2>2. task'[t].at \in Settled \ {"stamp"}
    BY <1>5, <1>a DEF ResolveRead, LinkRead, PruneRead, ConsolidateRead,
       ArchivePack, Become, Idle, Settled
  <2> QED BY <2>1, <2>2, <1>c, SameEdges, Settles DEF Free
<1>6. CASE ExpireEdge(t)
  <2>1. Free(t) /\ graph' = graph /\ up' = up /\ graph = ActiveGraph
    BY <1>6, <1>c DEF ExpireEdge, OnlyTables
  <2>2. PICK x \in ActiveEdges :
          /\ edge' = [edge EXCEPT ![x] = Ledger!Marked(@, "expired")]
          /\ Become(t, [Idle EXCEPT !.at = "unlink", !.edges = {x}])
    BY <1>6 DEF ExpireEdge
  <2>3. task'[t].at = "unlink" /\ task'[t].edges = {x}
    BY <1>b, <2>2 DEF Idle
  <2>4. x \in EdgeId /\ edge[x] \in Ledger!EdgeRow
    BY TableTypes DEF ActiveEdges, Ledger!NoEdge
  <2>5. edge'[x].st = "expired" /\ \A e \in EdgeId : e # x => edge'[e] = edge[e]
    BY <2>2, <2>4, TableTypes, MarkedRow
  <2>6. \A e \in EdgeId : /\ ActiveGraph[e] = IF edge[e].st = "active" THEN 1 ELSE 0
                          /\ ActiveGraph'[e] = IF edge'[e].st = "active" THEN 1 ELSE 0
    BY DEF ActiveGraph, ActiveEdges
  <2>7. edge[x].st = "active" /\ x \notin ActiveEdges'
    BY <2>5 DEF ActiveEdges
  <2>8. \A e \in EdgeId : graph'[e] = IF e \in {x} THEN 1 ELSE ActiveGraph'[e]
    BY <2>1, <2>4, <2>5, <2>6, <2>7
  <2> QED BY <2>1, <2>3, <2>7, <2>8 DEF Tracks, At, Settled, Free
<1>7. CASE Unlink(t)
  <2>1. /\ At(t, "unlink") /\ edge' = edge /\ task'[t].at = "idle"
        /\ graph' = [e \in EdgeId |->
                       IF e \in task[t].edges /\ graph[e] > 0
                       THEN graph[e] - 1 ELSE graph[e]]
    BY <1>7, <1>b DEF Unlink, Finish, NoTables, db
  <2>2. /\ task[t].edges \cap ActiveEdges = {}
        /\ \A e \in EdgeId :
             graph[e] = IF e \in task[t].edges THEN 1 ELSE ActiveGraph[e]
    BY <2>1 DEF Tracks
  <2>3. \A e \in EdgeId : ActiveGraph[e] = IF e \in ActiveEdges THEN 1 ELSE 0
    BY DEF ActiveGraph
  <2>4. \A e \in EdgeId : graph'[e] = ActiveGraph[e]
    BY <2>1, <2>2, <2>3
  <2>5. graph' = ActiveGraph
    BY <2>1, <2>4 DEF ActiveGraph
  <2> QED BY <2>1, <2>5, SameEdges, Settles
<1>8. CASE ConsolidateReload(t)
  <2>1. task'[t].at = "swap" /\ task'[t].edges = ActiveEdges
    BY <1>8, <1>b DEF ConsolidateReload, Idle
  <2>2. edge' = edge /\ up' = up /\ up
    BY <1>8, <1>b DEF ConsolidateReload, OnlyTask, NoTables, db, At
  <2> QED BY <2>1, <2>2, SameEdges DEF Tracks, At, Settled
<1>9. CASE ConsolidateSwap(t)
  <2>1. /\ At(t, "swap") /\ edge' = edge /\ task'[t].at = "idle"
        /\ graph' = [e \in EdgeId |-> IF e \in task[t].edges THEN 1 ELSE 0]
    BY <1>9, <1>b DEF ConsolidateSwap, Finish, NoTables, db
  <2>2. graph' = ActiveGraph
    BY <2>1 DEF Tracks, ActiveGraph
  <2> QED BY <2>1, <2>2, SameEdges, Settles
<1>10. CASE ArchiveCommit(t)
  <2> DEFINE A == task[t].facts
  <2>1. /\ At(t, "archive") /\ graph' = graph /\ up' = up
        /\ Become(t, MirrorOf(A, {}))
        /\ edge' = [e \in EdgeId |->
                      IF e \in ArchivedEdges(A)
                      THEN Ledger!Marked(edge[e], "purged") ELSE edge[e]]
    BY <1>10 DEF ArchiveCommit
  <2>2. graph = ActiveGraph /\ up
    BY <2>1, <1>b, <1>c DEF At, Settled
  <2>3. task'[t].at = "mirror" /\ task'[t].facts = A /\ task'[t].edges = {}
    BY <2>1, <1>b DEF MirrorOf, Idle
  <2>4. \A e \in EdgeId : graph[e] = IF edge[e].st = "active" THEN 1 ELSE 0
    BY <2>2 DEF ActiveGraph, ActiveEdges
  <2>5. \A e \in EdgeId : ActiveGraph'[e] = IF edge'[e].st = "active" THEN 1 ELSE 0
    BY DEF ActiveGraph, ActiveEdges
  <2>6. \A e \in EdgeId :
          /\ edge'[e].src = edge[e].src /\ edge'[e].tgt = edge[e].tgt
          /\ edge'[e].st = "active" <=> edge[e].st = "active" /\ ~Incident(e, A)
    <3> SUFFICES ASSUME NEW e \in EdgeId
                 PROVE  /\ edge'[e].src = edge[e].src /\ edge'[e].tgt = edge[e].tgt
                        /\ edge'[e].st = "active"
                             <=> edge[e].st = "active" /\ ~Incident(e, A)
      OBVIOUS
    <3>1. EdgeExists(e) => edge[e] \in Ledger!EdgeRow
      BY TableTypes DEF EdgeExists, Ledger!NoEdge
    <3>2. CASE e \in ArchivedEdges(A)
      <4>1. EdgeExists(e) /\ Incident(e, A) /\ edge'[e] = Ledger!Marked(edge[e], "purged")
        BY <2>1, <3>2 DEF ArchivedEdges
      <4> QED BY <3>1, <4>1, MarkedRow
    <3>3. CASE e \notin ArchivedEdges(A)
      <4>1. edge'[e] = edge[e] /\ ~(EdgeExists(e) /\ Incident(e, A))
        BY <2>1, <3>3 DEF ArchivedEdges
      <4> QED BY <4>1 DEF EdgeExists
    <3> QED BY <3>2, <3>3
  <2>7. \A e \in EdgeId :
          (IF edge'[e].src \in A \/ edge'[e].tgt \in A THEN 0 ELSE graph'[e])
            + (IF e \in {} THEN 1 ELSE 0) = ActiveGraph'[e]
    BY <2>1, <2>4, <2>5, <2>6 DEF Incident
  <2> QED BY <2>1, <2>2, <2>3, <2>7 DEF Tracks, At, Settled, Incident
<1>11. CASE FlushCapture(t)
  <2>1. /\ Free(t) /\ graph = ActiveGraph /\ graph' = graph /\ edge' = edge /\ up' = up
        /\ task'[t].at = "stamp"
        /\ task'[t].image = {[graph |-> graph, fp |-> Unstamped]}
    BY <1>11, <1>b, <1>c DEF FlushCapture, OnlyTask, NoTables, db, Idle
  <2>2. \A i \in task'[t].image : i.graph = ActiveGraph
    BY <2>1
  <2> QED BY <2>1, <2>2, SameEdges DEF Tracks, At, Settled, Free
<1>12. CASE FlushStamp(t)
  <2>1. /\ At(t, "stamp") /\ graph' = graph /\ edge' = edge /\ up' = up
        /\ task'[t].at = "save"
    BY <1>12, <1>b DEF FlushStamp, OnlyTask, NoTables, db, Idle
  <2>2. graph = ActiveGraph /\ up
    BY <2>1, <1>b, <1>c DEF At, Settled
  <2> QED BY <2>1, <2>2, SameEdges, Settles DEF Settled
<1>13. ~CycleCommit(t) /\ ~CycleMirror(t) /\ ~Abandon(t)
  BY DEF CycleCommit, CycleMirror, Abandon, Tracks
<1> QED BY <1>1, <1>2, <1>3, <1>4, <1>5, <1>6, <1>7, <1>8, <1>9, <1>10, <1>11,
           <1>12, <1>13 DEF Step, CommitAction

\* A start of the engine leaves the graph at the active edges.
LEMMA OpenLoads ==
    ASSUME LedgerInv, MirrorInv, Open
    PROVE  graph' = ActiveGraph
<1>1. PICK g \in {i.graph : i \in sidecar} \cup {ActiveGraph} :
        Loaded(g) /\ graph' = g
  BY DEF Open
<1>2. \A i \in sidecar : i \in Image /\ Sealed(i)
  BY DEF LedgerInv, TypeOK, MirrorInv, Seals
<1>3. CASE \E i \in sidecar : Accepted(i)
  <2>1. PICK i \in sidecar : Accepted(i)
    BY <1>3
  <2>2. PICK j \in sidecar : g = j.graph
    BY <1>1, <1>3 DEF Loaded
  <2>3. i = j
    BY DEF MirrorInv, Seals
  <2> QED BY <1>1, <1>2, <2>1, <2>2, <2>3, AcceptedIsCurrent
<1>4. CASE ~\E i \in sidecar : Accepted(i)
  BY <1>1, <1>4 DEF Loaded
<1> QED BY <1>3, <1>4

LEMMA MirrorStep ==
    ASSUME Serial, LedgerInv, LinksActive, MirrorInv, [Next]_vars
    PROVE  MirrorInv'
<1>1. Seals'
  BY SealsStep
<1>2. ASSUME NEW u \in Task PROVE Tracks(u)'
  <2>1. Tracks(u)
    BY DEF MirrorInv
  <2>2. CASE \E t \in Task : Step(t)
    <3>1. Step(u)
      BY <2>2 DEF Serial, OneCaller
    <3> QED BY <2>1, <3>1, TracksTask DEF Serial
  <2>3. CASE Crash
    BY <2>3 DEF Crash, Tracks, At, Idle, Settled
  <2>4. CASE Open
    <3>1. edge' = edge /\ task' = task /\ ~up
      BY <2>4 DEF Open, NoTables, db
    <3>2. task'[u].at = "idle"
      BY <2>1, <3>1 DEF Tracks, At
    <3> QED BY <2>4, <3>1, <3>2, OpenLoads, SameEdges, Settles
  <2>5. CASE UNCHANGED vars
    <3>1. /\ graph' = graph /\ edge' = edge /\ task' = task /\ up' = up
      BY <2>5 DEF vars
    <3> QED BY <2>1, <3>1, SameEdges DEF Tracks, At, Incident
  <2> QED BY <2>2, <2>3, <2>4, <2>5 DEF Next
<1> QED BY <1>1, <1>2 DEF MirrorInv

LEMMA MirrorInvariant ==
    ASSUME Serial PROVE Spec => []MirrorInv
<1>1. Init => MirrorInv
  <2> SUFFICES ASSUME Init PROVE MirrorInv
    OBVIOUS
  <2>1. graph = ActiveGraph
    BY DEF Init, ActiveGraph, ActiveEdges, Ledger!NoEdge
  <2>2. up /\ sidecar = {} /\ \A t \in Task : task[t] = Idle
    BY DEF Init
  <2> QED BY <2>1, <2>2 DEF MirrorInv, Seals, Tracks, Settled, At, Idle
<1>2. LedgerInv /\ LinksActive /\ MirrorInv /\ [Next]_vars => MirrorInv'
  BY MirrorStep
<1>3. Spec => [](LinksActive /\ CascadeComplete)
  BY LinksInvariant DEF Serial, NothingBetween
<1> QED BY <1>1, <1>2, <1>3, LedgerInvariant, PTL DEF Spec

\* With one caller the graph mirrors the active edges whenever no operation is
\* under way, across restarts from a sidecar too.
THEOREM MirrorAlwaysExact == Serial => (Spec => []MirrorExact)
<1> SUFFICES ASSUME Serial PROVE Spec => []MirrorExact
  OBVIOUS
<1>1. MirrorInv => MirrorExact
  BY DEF Serial, MirrorInv, Tracks, MirrorExact, At
<1> QED BY <1>1, MirrorInvariant, PTL

\* With one caller the open path accepts a sidecar only when it holds exactly
\* the active edges: equal counters leave no room for another graph.
THEOREM SidecarNeverStale == Serial => (Spec => []AcceptedSidecarIsCurrent)
<1> SUFFICES ASSUME Serial PROVE Spec => []AcceptedSidecarIsCurrent
  OBVIOUS
<1>1. LedgerInv /\ MirrorInv => AcceptedSidecarIsCurrent
  BY AcceptedIsCurrent
     DEF LedgerInv, TypeOK, MirrorInv, Seals, AcceptedSidecarIsCurrent
<1> QED BY <1>1, LedgerInvariant, MirrorInvariant, PTL

\* With one caller a start recovers the graph whatever the crash cut short.
THEOREM SerialOpenRecovers == Serial => (Spec => OpenRecovers)
<1> SUFFICES ASSUME Serial PROVE Spec => OpenRecovers
  OBVIOUS
<1>1. LedgerInv /\ MirrorInv /\ [Next]_vars => [Open => graph' = ActiveGraph]_vars
  BY OpenLoads
<1> QED BY <1>1, LedgerInvariant, MirrorInvariant, PTL DEF Spec, OpenRecovers
=============================================================================
