-------------------------- MODULE SessionLogProofs --------------------------
(***************************************************************************)
(* Theorems about SessionLog, for any number of callers, sessions and keys,*)
(* every window and every bound.                                           *)
(***************************************************************************)
EXTENDS SessionLog, SequenceTheorems, TLAPS

(* Two promotions under way are of two activities, neither promoted yet, and *)
(* make two facts, neither linked yet.                                       *)
PromotionsApart ==
    \A c \in Caller : task[c].at \in {"promote", "link"} =>
        /\ acts[task[c].act].status # "promoted"
        /\ \A d \in Caller : task[d].at \in {"promote", "link"}
              /\ task[d].act = task[c].act => d = c
        /\ task[c].at = "link" =>
              /\ \A i \in DOMAIN acts : acts[i].fact # task[c].fact
              /\ \A d \in Caller : task[d].at = "link" /\ task[d].fact = task[c].fact => d = c

(* What a checkpoint under way names is an activity of its session, and what *)
(* a load has read names one that exists.                                    *)
KnownTo(c) ==
    /\ task[c].at = "save" /\ task[c].row.last # NoId =>
          task[c].row.last \in OfSession(task[c].session)
    /\ task[c].at \in {"load", "context"} => task[c].checkpoint.last \in DOMAIN acts \cup {NoId}

CheckpointsKnown == \A c \in Caller : KnownTo(c)

\* ContextsShowCheckpoint, of one caller.
ShownTo(c) ==
    task[c].at = "context" =>
        LET last == task[c].checkpoint.last IN
        \/ last = NoId
        \/ ScopeOf[acts[last].key] \notin Below[task[c].scope]
        \/ last \in task[c].recent
        \/ Cardinality(task[c].recent) = Limit

CheckpointInv == CheckpointsKnown /\ CheckpointsResolve /\ ContextsShowCheckpoint

-----------------------------------------------------------------------------
(* Types.                                                                  *)

LEMMA ActsType ==
    ASSUME TypeOK
    PROVE  /\ Len(acts) \in Nat /\ DOMAIN acts = 1..Len(acts)
           /\ Len(facts) \in Nat /\ DOMAIN facts = 1..Len(facts)
           /\ \A i \in DOMAIN acts : acts[i] \in Activity
           /\ \A f \in DOMAIN facts : facts[f] \in FactRow
<1>1. acts \in Seq(Activity) /\ facts \in Seq(FactRow)
  BY DEF TypeOK
<1> QED BY <1>1, LenProperties, ElementOfSeq

LEMMA ActivityFields ==
    ASSUME NEW r \in Activity
    PROVE  /\ r.key \in Key /\ r.status \in {"recorded", "deduplicated", "promoted"}
           /\ r.count \in Nat /\ r.first \in Time /\ r.last \in Time /\ r.fact \in 0..MaxFacts
BY DEF Activity

\* An activity with its statistics or its promotion changed.
LEMMA SetCount ==
    ASSUME NEW r \in Activity, NEW x \in Nat
    PROVE  LET t == [r EXCEPT !.count = x]
           IN  t \in Activity /\ t.key = r.key /\ t.status = r.status /\ t.fact = r.fact
BY DEF Activity

LEMMA SetLast ==
    ASSUME NEW r \in Activity, NEW x \in Time
    PROVE  LET t == [r EXCEPT !.last = x]
           IN  t \in Activity /\ t.key = r.key /\ t.status = r.status /\ t.fact = r.fact
BY DEF Activity

LEMMA SetStatus ==
    ASSUME NEW r \in Activity, NEW x \in {"recorded", "deduplicated", "promoted"}
    PROVE  LET t == [r EXCEPT !.status = x]
           IN  t \in Activity /\ t.key = r.key /\ t.status = x /\ t.fact = r.fact
BY DEF Activity

LEMMA SetFact ==
    ASSUME NEW r \in Activity, NEW x \in 0..MaxFacts
    PROVE  LET t == [r EXCEPT !.fact = x]
           IN  t \in Activity /\ t.key = r.key /\ t.status = r.status /\ t.fact = x
BY DEF Activity

LEMMA RepeatedRow ==
    ASSUME NEW r \in Activity, NEW time \in Time
    PROVE  LET t == [r EXCEPT !.count = r.count + 1, !.last = time,
                              !.status = IF r.status = "promoted" THEN "promoted"
                                         ELSE "deduplicated"]
           IN  /\ t \in Activity /\ t.key = r.key /\ t.fact = r.fact
               /\ t.status = "promoted" <=> r.status = "promoted"
<1> DEFINE st == IF r.status = "promoted" THEN "promoted" ELSE "deduplicated"
           n == r.count + 1
           a == [r EXCEPT !.count = n]
           b == [a EXCEPT !.last = time]
           d == [b EXCEPT !.status = st]
<1>0. n \in Nat /\ st \in {"recorded", "deduplicated", "promoted"}
      /\ (st = "promoted" <=> r.status = "promoted")
  BY ActivityFields
<1> HIDE DEF st, n
<1>1. a \in Activity /\ a.key = r.key /\ a.fact = r.fact
  BY <1>0, SetCount
<1> HIDE DEF a
<1>2. b \in Activity /\ b.key = r.key /\ b.fact = r.fact
  BY <1>1, SetLast
<1> HIDE DEF b
<1>3. d \in Activity /\ d.key = r.key /\ d.fact = r.fact /\ d.status = st
  BY <1>0, <1>2, SetStatus
<1>4. d \in Activity /\ d.key = r.key /\ d.fact = r.fact
      /\ (d.status = "promoted" <=> r.status = "promoted")
  BY <1>0, <1>3
<1> QED BY <1>4, Zenon DEF a, b, n, st

LEMMA PromotedRow ==
    ASSUME NEW r \in Activity, NEW f \in 0..MaxFacts
    PROVE  LET t == [r EXCEPT !.status = "promoted", !.fact = f]
           IN  /\ t \in Activity /\ t.key = r.key /\ t.fact = f
               /\ t.status = "promoted"
<1> DEFINE a == [r EXCEPT !.status = "promoted"]
           b == [a EXCEPT !.fact = f]
<1>1. a \in Activity /\ a.key = r.key /\ a.status = "promoted"
  BY SetStatus
<1> HIDE DEF a
<1>2. b \in Activity /\ b.key = r.key /\ b.fact = f /\ b.status = "promoted"
  BY <1>1, SetFact
<1> QED BY <1>2, Zenon DEF a

\* The registers of a caller, by what it is doing.
LEMMA TaskFields ==
    ASSUME TypeOK, NEW c \in Caller
    PROVE  /\ task[c].at = "record" => task[c].key \in Key /\ task[c].time \in Time
           /\ task[c].at \in {"promote", "link"} => task[c].act \in DOMAIN acts
           /\ task[c].at = "link" => task[c].fact \in DOMAIN facts
           /\ task[c].at = "save" => task[c].session \in Session /\ task[c].row \in Checkpoint
           /\ task[c].at \in {"load", "context"} =>
                 task[c].scope \in Scope /\ task[c].checkpoint \in Checkpoint
           /\ task[c].at = "context" => task[c].recent \in SUBSET DOMAIN acts
           /\ task[c].at = "archive" => task[c].ids \in SUBSET DOMAIN facts
<1>1. task[c] \in Pending
  BY DEF TypeOK
<1> QED BY <1>1 DEF Pending

\* What callers have read stays meaningful when the tables grow.
LEMMA PendingGrows ==
    ASSUME DOMAIN acts \subseteq DOMAIN acts', DOMAIN facts \subseteq DOMAIN facts'
    PROVE  Pending \subseteq Pending'
<1> SUFFICES ASSUME NEW t \in Pending PROVE t \in Pending'
  OBVIOUS
<1>1. CASE t \in [at : {"idle", "refused"}]
  BY <1>1 DEF Pending
<1>2. CASE t \in [at : {"record"}, key : Key, time : Time]
  BY <1>2 DEF Pending
<1>3. CASE t \in [at : {"promote"}, act : DOMAIN acts]
  <2>1. t \in [at : {"promote"}, act : DOMAIN acts']
    BY <1>3
  <2> QED BY <2>1 DEF Pending
<1>4. CASE t \in [at : {"link"}, act : DOMAIN acts, fact : DOMAIN facts]
  <2>1. t \in [at : {"link"}, act : DOMAIN acts', fact : DOMAIN facts']
    BY <1>4
  <2> QED BY <2>1 DEF Pending
<1>5. CASE t \in [at : {"save"}, session : Session, row : Checkpoint]
  BY <1>5 DEF Pending
<1>6. CASE t \in [at : {"load"}, scope : Scope, checkpoint : Checkpoint]
  BY <1>6 DEF Pending
<1>7. CASE t \in [at : {"context"}, scope : Scope, checkpoint : Checkpoint,
                  recent : SUBSET DOMAIN acts]
  <2>1. t \in [at : {"context"}, scope : Scope, checkpoint : Checkpoint,
               recent : SUBSET DOMAIN acts']
    BY <1>7
  <2> QED BY <2>1 DEF Pending
<1>8. CASE t \in [at : {"archive"}, ids : SUBSET DOMAIN facts]
  <2>1. t \in [at : {"archive"}, ids : SUBSET DOMAIN facts']
    BY <1>8
  <2> QED BY <2>1 DEF Pending
<1> QED BY <1>1, <1>2, <1>3, <1>4, <1>5, <1>6, <1>7, <1>8 DEF Pending

-----------------------------------------------------------------------------
(* What the steps that write the activities make of them.                  *)

LEMMA DedupEffect ==
    ASSUME TypeOK, NEW c \in Caller, Dedup(c)
    PROVE  /\ acts' \in Seq(Activity) /\ Len(acts') = Len(acts)
           /\ DOMAIN acts' = DOMAIN acts
           /\ \A j \in DOMAIN acts :
                 /\ acts'[j].key = acts[j].key /\ acts'[j].fact = acts[j].fact
                 /\ acts'[j].status = "promoted" <=> acts[j].status = "promoted"
<1> DEFINE time == task[c].time
<1>0. time \in Time
  BY TaskFields DEF Dedup
<1>1. PICK i \in Newest(Repeated(task[c].key, time)) :
         acts' = [acts EXCEPT ![i] = [acts[i] EXCEPT !.count = acts[i].count + 1, !.last = time,
                    !.status = IF acts[i].status = "promoted" THEN "promoted"
                               ELSE "deduplicated"]]
  BY Zenon DEF Dedup
<1>2. i \in DOMAIN acts
  BY DEF Newest, Repeated
<1> HIDE DEF time
<1> DEFINE t == [acts[i] EXCEPT !.count = acts[i].count + 1, !.last = time,
                    !.status = IF acts[i].status = "promoted" THEN "promoted"
                               ELSE "deduplicated"]
<1>3. t \in Activity /\ t.key = acts[i].key /\ t.fact = acts[i].fact
      /\ (t.status = "promoted" <=> acts[i].status = "promoted")
  <2>1. acts[i] \in Activity
    BY <1>2, ActsType
  <2> QED BY <1>0, <2>1, RepeatedRow, Zenon
<1>4. acts' = [acts EXCEPT ![i] = t]
  BY <1>1, Zenon
<1> HIDE DEF t
<1>5. acts \in Seq(Activity) /\ i \in 1..Len(acts)
  BY <1>2, ActsType DEF TypeOK
<1>6. /\ acts' \in Seq(Activity) /\ Len(acts') = Len(acts)
      /\ \A j \in 1..Len(acts) : acts'[j] = IF j = i THEN t ELSE acts[j]
  BY <1>3, <1>4, <1>5, ExceptSeq
<1>7. DOMAIN acts' = DOMAIN acts /\ DOMAIN acts = 1..Len(acts)
  BY <1>5, <1>6, LenProperties
<1> QED BY <1>3, <1>6, <1>7

LEMMA InsertEffect ==
    ASSUME TypeOK, NEW c \in Caller, Insert(c)
    PROVE  /\ acts' \in Seq(Activity) /\ Len(acts') = Len(acts) + 1 /\ Len(acts') <= MaxCalls
           /\ DOMAIN acts' = DOMAIN acts \cup {Len(acts) + 1}
           /\ \A j \in DOMAIN acts : acts'[j] = acts[j]
           /\ acts'[Len(acts) + 1].status # "promoted" /\ acts'[Len(acts) + 1].fact = NoId
           /\ Len(acts) + 1 \notin DOMAIN acts
<1> DEFINE e == [key |-> task[c].key, status |-> "recorded", count |-> 1,
                 first |-> task[c].time, last |-> task[c].time, fact |-> NoId]
<1>0. task[c].key \in Key /\ task[c].time \in Time
  BY TaskFields DEF Insert
<1>1. e \in Activity
  BY <1>0, LogAssumption DEF Activity, NoId
<1>2. acts' = Append(acts, e) /\ Len(acts) < MaxCalls
  BY DEF Insert
<1>3. e.status = "recorded" /\ e.fact = NoId
  OBVIOUS
<1> HIDE DEF e
<1>4. acts \in Seq(Activity) /\ Len(acts) \in Nat /\ DOMAIN acts = 1..Len(acts)
  BY ActsType DEF TypeOK
<1>5. /\ acts' \in Seq(Activity) /\ Len(acts') = Len(acts) + 1
      /\ \A j \in 1..Len(acts) : acts'[j] = acts[j]
      /\ acts'[Len(acts) + 1] = e
  BY <1>1, <1>2, <1>4, AppendProperties
<1>6. DOMAIN acts' = 1..(Len(acts) + 1)
  BY <1>5, LenProperties
<1>7. DOMAIN acts' = DOMAIN acts \cup {Len(acts) + 1} /\ Len(acts) + 1 \notin DOMAIN acts
  BY <1>4, <1>6
<1>8. Len(acts') <= MaxCalls
  BY <1>2, <1>4, <1>5, LogAssumption
<1> QED BY <1>3, <1>4, <1>5, <1>7, <1>8

LEMMA LinkEffect ==
    ASSUME TypeOK, NEW c \in Caller, Link(c), InTable(task[c].fact)
    PROVE  /\ acts' \in Seq(Activity) /\ Len(acts') = Len(acts)
           /\ DOMAIN acts' = DOMAIN acts
           /\ \A j \in DOMAIN acts \ {task[c].act} : acts'[j] = acts[j]
           /\ acts'[task[c].act].key = acts[task[c].act].key
           /\ acts'[task[c].act].status = "promoted"
           /\ acts'[task[c].act].fact = task[c].fact
<1> DEFINE i == task[c].act
           t == [acts[i] EXCEPT !.status = "promoted", !.fact = task[c].fact]
<1>0. i \in DOMAIN acts /\ task[c].fact \in DOMAIN facts
  BY TaskFields DEF Link
<1>1. acts' = [acts EXCEPT ![i] = t]
  BY DEF Link
<1>2. acts[i] \in Activity /\ task[c].fact \in 0..MaxFacts
  <2>1. task[c].fact \in 1..Len(facts) /\ Len(facts) \in Nat /\ Len(facts) <= MaxFacts
    BY <1>0, ActsType DEF TypeOK
  <2> QED BY <1>0, <2>1, ActsType, LogAssumption
<1>3. t \in Activity /\ t.key = acts[i].key /\ t.fact = task[c].fact /\ t.status = "promoted"
  BY <1>2, PromotedRow, Zenon
<1> HIDE DEF t
<1>4. acts \in Seq(Activity) /\ i \in 1..Len(acts)
  BY <1>0, ActsType DEF TypeOK
<1>5. /\ acts' \in Seq(Activity) /\ Len(acts') = Len(acts)
      /\ \A j \in 1..Len(acts) : acts'[j] = IF j = i THEN t ELSE acts[j]
  BY <1>1, <1>3, <1>4, ExceptSeq
<1>6. DOMAIN acts' = DOMAIN acts /\ DOMAIN acts = 1..Len(acts)
  BY <1>4, <1>5, LenProperties
<1> QED BY <1>0, <1>3, <1>5, <1>6

LEMMA FactsType ==
    ASSUME TypeOK
    PROVE  facts \in Seq(FactRow) /\ Len(facts) \in Nat /\ DOMAIN facts = 1..Len(facts)
           /\ Len(facts) <= MaxFacts
BY ActsType DEF TypeOK

\* What the steps that write the facts make of them.
LEMMA AddFactEffect ==
    ASSUME TypeOK, NEW c \in Caller, AddFact(c)
    PROVE  /\ facts' \in Seq(FactRow) /\ Len(facts') = Len(facts) + 1 /\ Len(facts') <= MaxFacts
           /\ DOMAIN facts' = DOMAIN facts \cup {Len(facts) + 1}
           /\ \A f \in DOMAIN facts : facts'[f] = facts[f]
           /\ Len(facts) + 1 \notin DOMAIN facts /\ Len(facts) + 1 # NoId
<1> DEFINE e == [life |-> "active", since |-> 0]
<1>1. e \in FactRow
  BY LogAssumption DEF FactRow, Time
<1>2. facts' = Append(facts, e) /\ Len(facts) < MaxFacts
  BY DEF AddFact
<1> HIDE DEF e
<1>5. /\ facts' \in Seq(FactRow) /\ Len(facts') = Len(facts) + 1
      /\ \A j \in 1..Len(facts) : facts'[j] = facts[j]
  BY <1>1, <1>2, FactsType, AppendProperties
<1>6. DOMAIN facts' = 1..(Len(facts) + 1)
  BY <1>5, LenProperties
<1>7. DOMAIN facts' = DOMAIN facts \cup {Len(facts) + 1} /\ Len(facts) + 1 \notin DOMAIN facts
  BY FactsType, <1>6
<1>8. Len(facts') <= MaxFacts /\ Len(facts) + 1 # NoId
  BY FactsType, <1>2, <1>5, LogAssumption DEF NoId
<1> QED BY FactsType, <1>5, <1>7, <1>8

LEMMA ExpireEffect ==
    ASSUME TypeOK, NEW f \in DOMAIN facts, Expire(f)
    PROVE  /\ facts' \in Seq(FactRow) /\ Len(facts') = Len(facts)
           /\ DOMAIN facts' = DOMAIN facts
           /\ \A g \in DOMAIN facts : facts[g].life # "gone" => facts'[g].life # "gone"
<1> DEFINE e == [life |-> "expired", since |-> now]
<1>1. e \in FactRow /\ e.life = "expired"
  BY DEF FactRow, TypeOK
<1>2. facts' = [facts EXCEPT ![f] = e]
  BY DEF Expire
<1> HIDE DEF e
<1>3. f \in 1..Len(facts)
  BY FactsType
<1>5. /\ facts' \in Seq(FactRow) /\ Len(facts') = Len(facts)
      /\ \A j \in 1..Len(facts) : facts'[j] = IF j = f THEN e ELSE facts[j]
  BY <1>1, <1>2, <1>3, FactsType, ExceptSeq
<1>6. DOMAIN facts' = DOMAIN facts
  BY <1>5, FactsType, LenProperties
<1> QED BY FactsType, <1>1, <1>5, <1>6

LEMMA ArchiveEffect ==
    ASSUME TypeOK, NEW c \in Caller, ArchiveCommit(c), ~Referenced(task[c].ids)
    PROVE  /\ facts' \in Seq(FactRow) /\ Len(facts') = Len(facts)
           /\ DOMAIN facts' = DOMAIN facts
           /\ \A g \in DOMAIN facts \ task[c].ids : facts'[g] = facts[g]
<1> DEFINE n == Len(facts)
           Row(f) == IF f \in task[c].ids THEN [facts[f] EXCEPT !.life = "gone"] ELSE facts[f]
<1>1. facts' = [f \in 1..n |-> Row(f)]
  BY FactsType DEF ArchiveCommit
<1>2. n \in Nat /\ \A f \in 1..n : facts[f] \in FactRow
  BY ActsType
<1>3. \A f \in 1..n : Row(f) \in FactRow
  BY <1>2 DEF FactRow
<1>4. \A f \in 1..n : f \notin task[c].ids => Row(f) = facts[f]
  OBVIOUS
<1> HIDE DEF Row
<1>5. facts' \in [1..n -> FactRow]
  BY <1>1, <1>3
<1>6. facts' \in Seq(FactRow)
  BY <1>2, <1>5, SeqDef
<1>7. Len(facts') \in Nat /\ DOMAIN facts' = 1..Len(facts') /\ DOMAIN facts' = 1..n
  BY <1>5, <1>6, LenProperties
<1>8. Len(facts') = n
  BY <1>2, <1>7
<1>9. \A f \in 1..n : f \notin task[c].ids => facts'[f] = facts[f]
  BY <1>1, <1>4
<1> QED BY <1>6, <1>7, <1>8, <1>9, FactsType

-----------------------------------------------------------------------------
LEMMA LogInitType == Init => TypeOK
<1> SUFFICES ASSUME Init PROVE TypeOK
  OBVIOUS
<1>1. NoCheckpoint \in Checkpoint /\ 0 \in Time
  BY LogAssumption DEF NoCheckpoint, Checkpoint, NoId, Time, Named
<1>2. Idle \in Pending
  BY DEF Idle, Pending
<1>3. acts \in Seq(Activity) /\ Len(acts) <= MaxCalls /\ facts \in Seq(FactRow)
      /\ Len(facts) <= MaxFacts
  BY LogAssumption, EmptySeq DEF Init
<1>4. saved \in [Session -> Checkpoint] /\ task \in [Caller -> Pending] /\ now \in Time
  BY <1>1, <1>2 DEF Init
<1> QED BY <1>3, <1>4 DEF TypeOK

\* The register that a step writes, and those that it leaves.
LEMMA TaskStep ==
    ASSUME TypeOK, NEW c \in Caller, NEW t \in Pending', Becomes(c, t),
           DOMAIN acts \subseteq DOMAIN acts', DOMAIN facts \subseteq DOMAIN facts'
    PROVE  /\ task' \in [Caller -> Pending']
           /\ task'[c] = t
           /\ \A d \in Caller \ {c} : task'[d] = task[d]
<1>1. task \in [Caller -> Pending] /\ Pending \subseteq Pending'
  BY PendingGrows DEF TypeOK
<1>2. task' = [task EXCEPT ![c] = t]
  BY DEF Becomes
<1> QED BY <1>1, <1>2

LEMMA IdlePending == Idle \in Pending' /\ Idle.at = "idle"
BY DEF Idle, Pending

\* What checkpoint_session is about to write.
LEMMA ReadLastRow ==
    ASSUME TypeOK, NEW s \in Session, NEW named \in Named,
           NEW last \in (IF OfSession(s) = {} THEN {NoId} ELSE Newest(OfSession(s)))
    PROVE  /\ [last |-> last, at |-> now, scope |-> named] \in Checkpoint
           /\ last # NoId => last \in OfSession(s)
<1>1. last = NoId \/ last \in OfSession(s)
  BY DEF Newest
<1>2. OfSession(s) \subseteq 1..Len(acts) /\ Len(acts) \in Nat /\ Len(acts) <= MaxCalls
  BY ActsType DEF OfSession, TypeOK
<1>3. last \in 0..MaxCalls
  BY <1>1, <1>2, LogAssumption DEF NoId
<1> QED BY <1>1, <1>3 DEF Checkpoint, TypeOK

LEMMA SavedLastType ==
    ASSUME TypeOK, NEW sc \in Scope, NEW row \in SavedLast(saved, sc)
    PROVE  /\ row \in Checkpoint
           /\ row = NoCheckpoint \/ \E s \in Session : row = saved[s]
<1>1. row = NoCheckpoint \/ \E s \in Session : row = saved[s]
  BY DEF SavedLast
<1>2. NoCheckpoint \in Checkpoint
  BY LogAssumption DEF NoCheckpoint, Checkpoint, NoId, Time, Named
<1> QED BY <1>1, <1>2 DEF TypeOK

LEMMA PageType ==
    ASSUME NEW sc \in Scope, NEW page \in Pages(acts, sc)
    PROVE  /\ page \in SUBSET DOMAIN acts
           /\ page = Within(acts, sc) \/ Cardinality(page) = Limit
BY DEF Pages, Within

LEMMA LogTypeStep == TypeOK /\ [Next]_vars => TypeOK'
<1> SUFFICES ASSUME TypeOK, [Next]_vars PROVE TypeOK'
  OBVIOUS
<1>0. /\ now \in Time /\ acts \in Seq(Activity) /\ Len(acts) <= MaxCalls
      /\ facts \in Seq(FactRow) /\ Len(facts) <= MaxFacts
      /\ saved \in [Session -> Checkpoint] /\ task \in [Caller -> Pending]
  BY DEF TypeOK
<1>i. Idle \in Pending'
  BY IdlePending
<1>1. CASE Tick
  <2>1. now' \in Time
    BY <1>0, <1>1, LogAssumption DEF Tick, Time
  <2>2. Pending' = Pending
    BY <1>1 DEF Tick, Pending
  <2> QED BY <1>0, <1>1, <2>1, <2>2 DEF Tick, TypeOK
<1>2. CASE Crash
  <2>1. task' \in [Caller -> Pending']
    BY <1>2, <1>i DEF Crash
  <2> QED BY <1>0, <1>2, <2>1 DEF Crash, TypeOK
<1>3. ASSUME NEW f \in DOMAIN facts, Expire(f) PROVE TypeOK'
  <2>1. facts' \in Seq(FactRow) /\ Len(facts') = Len(facts) /\ DOMAIN facts' = DOMAIN facts
    BY <1>3, ExpireEffect
  <2>2. UNCHANGED <<now, acts, saved, task>>
    BY <1>3 DEF Expire
  <2>3. Pending \subseteq Pending'
    BY <2>1, <2>2, PendingGrows
  <2> QED BY <1>0, <2>1, <2>2, <2>3 DEF TypeOK
<1>4. ASSUME NEW c \in Caller, NEW k \in Key, Record(c, k) PROVE TypeOK'
  <2>1. [at |-> "record", key |-> k, time |-> now] \in Pending'
    BY <1>0 DEF Pending
  <2>2. Becomes(c, [at |-> "record", key |-> k, time |-> now])
        /\ UNCHANGED <<now, acts, facts, saved>>
    BY <1>4 DEF Record
  <2>3. task' \in [Caller -> Pending']
    BY <2>1, <2>2, TaskStep
  <2> QED BY <1>0, <2>2, <2>3 DEF TypeOK
<1>5. ASSUME NEW c \in Caller, Dedup(c) PROVE TypeOK'
  <2>1. acts' \in Seq(Activity) /\ Len(acts') = Len(acts) /\ DOMAIN acts' = DOMAIN acts
    BY <1>5, DedupEffect
  <2>2. Becomes(c, Idle) /\ UNCHANGED <<now, facts, saved>>
    BY <1>5 DEF Dedup
  <2>3. task' \in [Caller -> Pending']
    BY <1>i, <2>1, <2>2, TaskStep
  <2> QED BY <1>0, <2>1, <2>2, <2>3 DEF TypeOK
<1>6. ASSUME NEW c \in Caller, Insert(c) PROVE TypeOK'
  <2> DEFINE t == IF task[c].key \in Promoting THEN [at |-> "promote", act |-> Len(acts) + 1]
                  ELSE Idle
  <2>1. /\ acts' \in Seq(Activity) /\ Len(acts') <= MaxCalls
        /\ DOMAIN acts' = DOMAIN acts \cup {Len(acts) + 1}
    BY <1>6, InsertEffect
  <2>2. Becomes(c, t) /\ UNCHANGED <<now, facts, saved>>
    BY <1>6 DEF Insert
  <2>3. t \in Pending'
    <3>1. Len(acts) + 1 \in DOMAIN acts'
      BY <2>1
    <3>2. [at |-> "promote", act |-> Len(acts) + 1] \in [at : {"promote"}, act : DOMAIN acts']
      BY <3>1
    <3>3. [at |-> "promote", act |-> Len(acts) + 1] \in Pending'
      BY <3>2 DEF Pending
    <3> QED BY <3>3, <1>i
  <2> HIDE DEF t
  <2>4. DOMAIN acts \subseteq DOMAIN acts' /\ DOMAIN facts \subseteq DOMAIN facts'
    BY <2>1, <2>2
  <2>5. task' \in [Caller -> Pending']
    BY <2>2, <2>3, <2>4, TaskStep
  <2> QED BY <1>0, <2>1, <2>2, <2>5 DEF TypeOK
<1>7. ASSUME NEW c \in Caller, AddFact(c) PROVE TypeOK'
  <2> DEFINE t == [at |-> "link", act |-> task[c].act, fact |-> Len(facts) + 1]
  <2>1. /\ facts' \in Seq(FactRow) /\ Len(facts') <= MaxFacts
        /\ DOMAIN facts' = DOMAIN facts \cup {Len(facts) + 1}
    BY <1>7, AddFactEffect
  <2>2. Becomes(c, t) /\ UNCHANGED <<now, acts, saved>>
    BY <1>7 DEF AddFact
  <2>3. t \in Pending'
    <3>1. Len(facts) + 1 \in DOMAIN facts' /\ task[c].act \in DOMAIN acts'
      BY <1>7, <2>1, <2>2, TaskFields DEF AddFact
    <3>2. t \in [at : {"link"}, act : DOMAIN acts', fact : DOMAIN facts']
      BY <3>1
    <3> QED BY <3>2 DEF Pending
  <2> HIDE DEF t
  <2>4. DOMAIN acts \subseteq DOMAIN acts' /\ DOMAIN facts \subseteq DOMAIN facts'
    BY <2>1, <2>2
  <2>5. task' \in [Caller -> Pending']
    BY <2>2, <2>3, <2>4, TaskStep
  <2> QED BY <1>0, <2>1, <2>2, <2>5 DEF TypeOK
<1>8. ASSUME NEW c \in Caller, AddFactFails(c) \/ Return(c) PROVE TypeOK'
  <2>1. Becomes(c, Idle) /\ UNCHANGED <<now, acts, facts, saved>>
    BY <1>8 DEF AddFactFails, Return
  <2>2. task' \in [Caller -> Pending']
    BY <1>i, <2>1, TaskStep
  <2> QED BY <1>0, <2>1, <2>2 DEF TypeOK
<1>9. ASSUME NEW c \in Caller, Link(c) PROVE TypeOK'
  <2>1. acts' \in Seq(Activity) /\ Len(acts') = Len(acts) /\ DOMAIN acts' = DOMAIN acts
    <3>1. CASE InTable(task[c].fact)
      BY <1>9, <3>1, LinkEffect
    <3>2. CASE ~InTable(task[c].fact)
      BY <1>0, <1>9, <3>2 DEF Link
    <3> QED BY <3>1, <3>2
  <2>2. Becomes(c, Idle) /\ UNCHANGED <<now, facts, saved>>
    BY <1>9 DEF Link
  <2>3. task' \in [Caller -> Pending']
    BY <1>i, <2>1, <2>2, TaskStep
  <2> QED BY <1>0, <2>1, <2>2, <2>3 DEF TypeOK
<1>10. ASSUME NEW c \in Caller, NEW s \in Session, NEW named \in Named, ReadLast(c, s, named)
       PROVE  TypeOK'
  <2>1. PICK last \in (IF OfSession(s) = {} THEN {NoId} ELSE Newest(OfSession(s))) :
          Becomes(c, [at |-> "save", session |-> s,
                      row |-> [last |-> last, at |-> now, scope |-> named]])
    BY <1>10, Zenon DEF ReadLast
  <2> DEFINE r == [last |-> last, at |-> now, scope |-> named]
  <2>2. r \in Checkpoint
    BY ReadLastRow
  <2> HIDE DEF r
  <2>3. [at |-> "save", session |-> s, row |-> r] \in Pending'
    BY <2>2 DEF Pending
  <2>4. Becomes(c, [at |-> "save", session |-> s, row |-> r])
    BY <2>1, Zenon DEF r
  <2>5. UNCHANGED <<now, acts, facts, saved>>
    BY <1>10 DEF ReadLast
  <2>6. task' \in [Caller -> Pending']
    BY <2>3, <2>4, <2>5, TaskStep
  <2> QED BY <1>0, <2>5, <2>6 DEF TypeOK
<1>11. ASSUME NEW c \in Caller, Upsert(c) PROVE TypeOK'
  <2>1. Becomes(c, Idle) /\ UNCHANGED <<now, acts, facts>>
    BY <1>11 DEF Upsert
  <2>2. saved' \in [Session -> Checkpoint]
    <3>1. task[c].row \in Checkpoint
      BY <1>11, TaskFields DEF Upsert
    <3> QED BY <1>0, <1>11, <3>1 DEF Upsert
  <2>3. task' \in [Caller -> Pending']
    BY <1>i, <2>1, TaskStep
  <2> QED BY <1>0, <2>1, <2>2, <2>3 DEF TypeOK
<1>12. ASSUME NEW c \in Caller, NEW sc \in Scope, LoadCheckpoint(c, sc) PROVE TypeOK'
  <2>1. PICK row \in SavedLast(saved, sc) :
          Becomes(c, [at |-> "load", scope |-> sc, checkpoint |-> row])
    BY <1>12, Zenon DEF LoadCheckpoint
  <2>2. [at |-> "load", scope |-> sc, checkpoint |-> row] \in Pending'
    BY SavedLastType DEF Pending
  <2>3. UNCHANGED <<now, acts, facts, saved>>
    BY <1>12 DEF LoadCheckpoint
  <2>4. task' \in [Caller -> Pending']
    BY <2>1, <2>2, <2>3, TaskStep
  <2> QED BY <1>0, <2>3, <2>4 DEF TypeOK
<1>13. ASSUME NEW c \in Caller, LoadActivities(c) PROVE TypeOK'
  <2>1. PICK page \in Pages(acts, task[c].scope) :
          Becomes(c, [at |-> "context", scope |-> task[c].scope,
                      checkpoint |-> task[c].checkpoint, recent |-> page])
    BY <1>13, Zenon DEF LoadActivities
  <2> DEFINE t == [at |-> "context", scope |-> task[c].scope,
                   checkpoint |-> task[c].checkpoint, recent |-> page]
  <2>2. UNCHANGED <<now, acts, facts, saved>> /\ task[c].at = "load"
    BY <1>13 DEF LoadActivities
  <2>3. t \in Pending'
    <3>1. task[c].scope \in Scope /\ task[c].checkpoint \in Checkpoint
      BY <2>2, TaskFields
    <3>2. page \in SUBSET DOMAIN acts'
      BY <2>2, <3>1, PageType
    <3>3. t \in [at : {"context"}, scope : Scope, checkpoint : Checkpoint,
                 recent : SUBSET DOMAIN acts']
      BY <3>1, <3>2
    <3> QED BY <3>3 DEF Pending
  <2>4. Becomes(c, t)
    BY <2>1
  <2> HIDE DEF t
  <2>5. task' \in [Caller -> Pending']
    BY <2>2, <2>3, <2>4, TaskStep
  <2> QED BY <1>0, <2>2, <2>5 DEF TypeOK
<1>14. ASSUME NEW c \in Caller, NEW cutoff \in Time, ArchiveSelect(c, cutoff) PROVE TypeOK'
  <2> DEFINE ids == {f \in DOMAIN facts : facts[f].life = "expired" /\ facts[f].since < cutoff}
             t == [at |-> "archive", ids |-> ids]
  <2>1. Becomes(c, t) /\ UNCHANGED <<now, acts, facts, saved>>
    BY <1>14 DEF ArchiveSelect
  <2>2. t \in Pending'
    <3>1. ids \in SUBSET DOMAIN facts'
      BY <2>1
    <3> HIDE DEF ids
    <3>2. t \in [at : {"archive"}, ids : SUBSET DOMAIN facts']
      BY <3>1
    <3> QED BY <3>2 DEF Pending
  <2> HIDE DEF t
  <2>3. task' \in [Caller -> Pending']
    BY <2>1, <2>2, TaskStep
  <2> QED BY <1>0, <2>1, <2>3 DEF TypeOK
<1>15. ASSUME NEW c \in Caller, ArchiveCommit(c) PROVE TypeOK'
  <2>0. UNCHANGED <<now, acts, saved>>
    BY <1>15 DEF ArchiveCommit
  <2>1. CASE Referenced(task[c].ids)
    <3>1. Becomes(c, [at |-> "refused"]) /\ UNCHANGED facts
      BY <1>15, <2>1 DEF ArchiveCommit
    <3>2. [at |-> "refused"] \in Pending'
      BY DEF Pending
    <3>3. task' \in [Caller -> Pending']
      BY <2>0, <3>1, <3>2, TaskStep
    <3> QED BY <1>0, <2>0, <3>1, <3>3 DEF TypeOK
  <2>2. CASE ~Referenced(task[c].ids)
    <3>1. facts' \in Seq(FactRow) /\ Len(facts') = Len(facts) /\ DOMAIN facts' = DOMAIN facts
      BY <1>15, <2>2, ArchiveEffect
    <3>2. Becomes(c, Idle)
      BY <1>15, <2>2 DEF ArchiveCommit
    <3>3. task' \in [Caller -> Pending']
      BY <1>i, <2>0, <3>1, <3>2, TaskStep
    <3> QED BY <1>0, <2>0, <3>1, <3>3 DEF TypeOK
  <2> QED BY <2>1, <2>2
<1>16. CASE UNCHANGED vars
  <2>1. Pending' = Pending
    BY <1>16 DEF vars, Pending
  <2> QED BY <1>0, <1>16, <2>1 DEF vars, TypeOK
<1> QED BY <1>1, <1>2, <1>3, <1>4, <1>5, <1>6, <1>7, <1>8, <1>9, <1>10, <1>11, <1>12,
           <1>13, <1>14, <1>15, <1>16 DEF Next, LoadContext

-----------------------------------------------------------------------------
(* How each step changes the registers, for the promotions under way.      *)

Promotes(t) == t.at \in {"promote", "link"}

\* A step that starts no promotion and leaves links and status as they are.
LEMMA ApartKept ==
    ASSUME TypeOK, PromotionsApart,
           DOMAIN acts' = DOMAIN acts,
           \A i \in DOMAIN acts : acts'[i].fact = acts[i].fact
              /\ (acts'[i].status = "promoted" <=> acts[i].status = "promoted"),
           \A d \in Caller : task'[d] = task[d] \/ ~Promotes(task'[d])
    PROVE  PromotionsApart'
<1> SUFFICES ASSUME NEW c \in Caller, Promotes(task'[c])
             PROVE  /\ acts'[task'[c].act].status # "promoted"
                    /\ \A d \in Caller : Promotes(task'[d]) /\ task'[d].act = task'[c].act => d = c
                    /\ task'[c].at = "link" =>
                         /\ \A i \in DOMAIN acts' : acts'[i].fact # task'[c].fact
                         /\ \A d \in Caller : task'[d].at = "link"
                               /\ task'[d].fact = task'[c].fact => d = c
  BY Zenon DEF PromotionsApart, Promotes
<1>1. task'[c] = task[c] /\ task[c].act \in DOMAIN acts
  BY TaskFields DEF Promotes
<1>2. /\ acts[task[c].act].status # "promoted"
      /\ \A d \in Caller : Promotes(task[d]) /\ task[d].act = task[c].act => d = c
      /\ task[c].at = "link" =>
           /\ \A i \in DOMAIN acts : acts[i].fact # task[c].fact
           /\ \A d \in Caller : task[d].at = "link" /\ task[d].fact = task[c].fact => d = c
  BY <1>1, Zenon DEF PromotionsApart, Promotes
<1>3. \A d \in Caller : Promotes(task'[d]) => task'[d] = task[d]
  OBVIOUS
<1>4. \A d \in Caller : task'[d].at = "link" => task'[d] = task[d]
  BY DEF Promotes
<1> QED BY <1>1, <1>2, <1>3, <1>4

LEMMA ApartStep ==
    TypeOK /\ TypeOK' /\ PromotedHasFact /\ PromotionsApart /\ [Next]_vars => PromotionsApart'
<1> SUFFICES ASSUME TypeOK, TypeOK', PromotedHasFact, PromotionsApart, [Next]_vars
             PROVE  PromotionsApart'
  OBVIOUS
<1>0. task \in [Caller -> Pending] /\ task' \in [Caller -> Pending']
  BY DEF TypeOK
<1>i. ~Promotes(Idle)
  BY DEF Idle, Promotes
<1>p. \A c \in Caller : Promotes(task[c]) =>
        /\ acts[task[c].act].status # "promoted"
        /\ \A d \in Caller : Promotes(task[d]) /\ task[d].act = task[c].act => d = c
        /\ task[c].at = "link" =>
             /\ \A i \in DOMAIN acts : acts[i].fact # task[c].fact
             /\ \A d \in Caller : task[d].at = "link" /\ task[d].fact = task[c].fact => d = c
  BY DEF PromotionsApart, Promotes
<1>1. ASSUME UNCHANGED acts, NEW c \in Caller, NEW t, Becomes(c, t), ~Promotes(t)
      PROVE  PromotionsApart'
  <2>1. \A d \in Caller : task'[d] = task[d] \/ ~Promotes(task'[d])
    BY <1>0, <1>1 DEF Becomes
  <2> QED BY <1>1, <2>1, ApartKept
<1>2. CASE UNCHANGED <<acts, task>>
  BY <1>2 DEF PromotionsApart
<1>3. CASE Crash
  BY <1>3, <1>i, ApartKept DEF Crash
<1>4. ASSUME NEW c \in Caller, Dedup(c) PROVE PromotionsApart'
  <2>1. \A d \in Caller : task'[d] = task[d] \/ ~Promotes(task'[d])
    BY <1>0, <1>4, <1>i DEF Dedup, Becomes
  <2> QED BY <1>4, <2>1, DedupEffect, ApartKept
<1>5. ASSUME NEW c \in Caller, Insert(c) PROVE PromotionsApart'
  <2> DEFINE n == Len(acts) + 1
             p == [at |-> "promote", act |-> n]
  <2>1. /\ DOMAIN acts' = DOMAIN acts \cup {n} /\ n \notin DOMAIN acts
        /\ \A j \in DOMAIN acts : acts'[j] = acts[j]
        /\ acts'[n].status # "promoted" /\ acts'[n].fact = NoId
    BY <1>5, InsertEffect
  <2>2. p.at = "promote" /\ p.act = n
    OBVIOUS
  <2>3. task' = [task EXCEPT ![c] = IF task[c].key \in Promoting THEN p ELSE Idle]
    BY <1>5 DEF Insert, Becomes
  <2> HIDE DEF p, n
  <2>4. (task'[c] = p \/ task'[c] = Idle) /\ \A d \in Caller \ {c} : task'[d] = task[d]
    BY <1>0, <2>3
  <2>5. \A d \in Caller : Promotes(task'[d]) => (d = c /\ task'[d] = p)
                              \/ (d # c /\ task'[d] = task[d] /\ task[d].act \in DOMAIN acts)
    BY <1>i, <2>4, TaskFields DEF Promotes
  <2>6. \A d \in Caller : task'[d].at = "link" =>
            /\ task'[d] = task[d] /\ d # c /\ task[d].fact \in DOMAIN facts
    BY <2>2, <2>4, TaskFields DEF Idle
  <2>7. \A f \in DOMAIN facts : f # NoId
    BY ActsType DEF NoId
  <2>8. ASSUME NEW d \in Caller, Promotes(task'[d])
        PROVE  /\ acts'[task'[d].act].status # "promoted"
               /\ \A e \in Caller : Promotes(task'[e]) /\ task'[e].act = task'[d].act => e = d
    <3>1. CASE d = c /\ task'[d] = p
      BY <2>1, <2>2, <2>5, <3>1
    <3>2. CASE d # c /\ task'[d] = task[d] /\ task[d].act \in DOMAIN acts
      <4>1. acts'[task'[d].act].status # "promoted" /\ Promotes(task[d])
        BY <1>p, <2>1, <2>8, <3>2
      <4>2. ASSUME NEW e \in Caller, Promotes(task'[e]), task'[e].act = task'[d].act
            PROVE  e = d
        <5>1. CASE e = c /\ task'[e] = p
          BY <2>1, <2>2, <3>2, <4>2, <5>1
        <5>2. CASE e # c /\ task'[e] = task[e]
          BY <1>p, <3>2, <4>1, <4>2, <5>2
        <5> QED BY <2>5, <4>2, <5>1, <5>2
      <4> QED BY <4>1, <4>2
    <3> QED BY <2>5, <2>8, <3>1, <3>2
  <2>9. ASSUME NEW d \in Caller, task'[d].at = "link"
        PROVE  /\ \A i \in DOMAIN acts' : acts'[i].fact # task'[d].fact
               /\ \A e \in Caller : task'[e].at = "link" /\ task'[e].fact = task'[d].fact => e = d
    <3>1. task'[d] = task[d] /\ Promotes(task[d]) /\ task[d].fact \in DOMAIN facts
      BY <2>6, <2>9 DEF Promotes
    <3>2. \A i \in DOMAIN acts : acts'[i].fact # task'[d].fact
      BY <1>p, <2>1, <2>9, <3>1
    <3>3. acts'[n].fact # task'[d].fact
      BY <2>1, <2>7, <3>1
    <3>4. \A e \in Caller : task'[e].at = "link" /\ task'[e].fact = task'[d].fact => e = d
      BY <1>p, <2>6, <2>9, <3>1
    <3> QED BY <2>1, <3>2, <3>3, <3>4
  <2> QED BY <2>8, <2>9 DEF PromotionsApart, Promotes
<1>6. ASSUME NEW c \in Caller, AddFact(c) PROVE PromotionsApart'
  <2> DEFINE n == Len(facts) + 1
             l == [at |-> "link", act |-> task[c].act, fact |-> n]
  <2>1. n \notin DOMAIN facts /\ n # NoId
    BY <1>6, AddFactEffect
  <2>2. l.at = "link" /\ l.act = task[c].act /\ l.fact = n
    OBVIOUS
  <2>3. task' = [task EXCEPT ![c] = l] /\ acts' = acts /\ task[c].at = "promote"
    BY <1>6 DEF AddFact, Becomes
  <2> HIDE DEF l, n
  <2>4. task'[c] = l /\ \A d \in Caller \ {c} : task'[d] = task[d]
    BY <1>0, <2>3
  <2>5. \A d \in Caller : Promotes(task'[d]) => Promotes(task[d]) /\ task'[d].act = task[d].act
    BY <2>2, <2>3, <2>4 DEF Promotes
  <2>6. \A i \in DOMAIN acts : acts[i].fact # n
    BY <2>1 DEF PromotedHasFact
  <2>7. \A d \in Caller : task'[d].at = "link" =>
           (d = c /\ task'[d].fact = n) \/ (d # c /\ task'[d] = task[d] /\ task[d].fact \in DOMAIN facts)
    BY <2>2, <2>4, TaskFields
  <2>8. ASSUME NEW d \in Caller, Promotes(task'[d])
        PROVE  /\ acts'[task'[d].act].status # "promoted"
               /\ \A e \in Caller : Promotes(task'[e]) /\ task'[e].act = task'[d].act => e = d
    BY <1>p, <2>3, <2>5, <2>8
  <2>9. ASSUME NEW d \in Caller, task'[d].at = "link"
        PROVE  /\ \A i \in DOMAIN acts' : acts'[i].fact # task'[d].fact
               /\ \A e \in Caller : task'[e].at = "link" /\ task'[e].fact = task'[d].fact => e = d
    <3>1. CASE d = c /\ task'[d].fact = n
      BY <2>1, <2>3, <2>6, <2>7, <3>1
    <3>2. CASE d # c /\ task'[d] = task[d] /\ task[d].fact \in DOMAIN facts
      <4>1. Promotes(task[d]) /\ task[d].at = "link"
        BY <2>9, <3>2 DEF Promotes
      <4> QED BY <1>p, <2>1, <2>3, <2>7, <3>2, <4>1
    <3> QED BY <2>7, <2>9, <3>1, <3>2
  <2> QED BY <2>8, <2>9 DEF PromotionsApart, Promotes
<1>7. ASSUME NEW c \in Caller, Link(c) PROVE PromotionsApart'
  <2>0. Becomes(c, Idle) /\ task[c].at = "link"
    BY <1>7 DEF Link
  <2>1. CASE ~InTable(task[c].fact)
    BY <1>1, <1>7, <1>i, <2>0, <2>1 DEF Link
  <2>2. CASE InTable(task[c].fact)
    <3>1. task'[c] = Idle /\ \A d \in Caller \ {c} : task'[d] = task[d]
      BY <1>0, <2>0 DEF Becomes
    <3>2. /\ DOMAIN acts' = DOMAIN acts
          /\ \A j \in DOMAIN acts \ {task[c].act} : acts'[j] = acts[j]
          /\ acts'[task[c].act].fact = task[c].fact
      BY <1>7, <2>2, LinkEffect
    <3>3. ASSUME NEW d \in Caller, Promotes(task'[d])
          PROVE  d # c /\ task'[d] = task[d] /\ Promotes(task[d])
                 /\ task[d].act \in DOMAIN acts \ {task[c].act}
      <4>1. d # c /\ task'[d] = task[d] /\ Promotes(task[d])
        BY <1>i, <3>1, <3>3
      <4>2. task[d].act # task[c].act
        BY <1>p, <2>0, <4>1 DEF Promotes
      <4> QED BY <4>1, <4>2, TaskFields DEF Promotes
    <3>4. ASSUME NEW d \in Caller, Promotes(task'[d])
          PROVE  /\ acts'[task'[d].act].status # "promoted"
                 /\ \A e \in Caller : Promotes(task'[e]) /\ task'[e].act = task'[d].act => e = d
      BY <1>p, <3>2, <3>3, <3>4
    <3>5. ASSUME NEW d \in Caller, task'[d].at = "link"
          PROVE  /\ \A i \in DOMAIN acts' : acts'[i].fact # task'[d].fact
                 /\ \A e \in Caller : task'[e].at = "link" /\ task'[e].fact = task'[d].fact => e = d
      <4>1. d # c /\ task'[d] = task[d] /\ Promotes(task[d]) /\ task[d].at = "link"
        BY <3>3, <3>5 DEF Promotes
      <4>2. task[c].fact # task[d].fact
        BY <1>p, <2>0, <4>1
      <4>3. \A i \in DOMAIN acts' : acts'[i].fact # task'[d].fact
        BY <1>p, <3>2, <4>1, <4>2
      <4>4. \A e \in Caller : task'[e].at = "link" => task'[e] = task[e] /\ task[e].at = "link"
        BY <3>3 DEF Promotes
      <4> QED BY <1>p, <4>1, <4>3, <4>4
    <3> QED BY <3>4, <3>5 DEF PromotionsApart, Promotes
  <2> QED BY <2>1, <2>2
<1>8. ASSUME NEW c \in Caller,
             \/ AddFactFails(c) \/ Return(c) \/ Upsert(c) \/ (\E sc \in Scope : LoadCheckpoint(c, sc))
             \/ LoadActivities(c) \/ ArchiveCommit(c)
             \/ (\E k \in Key : Record(c, k))
             \/ (\E s \in Session, named \in Named : ReadLast(c, s, named))
             \/ (\E cutoff \in Time : ArchiveSelect(c, cutoff))
      PROVE  PromotionsApart'
  <2>1. UNCHANGED acts /\ \E t : Becomes(c, t) /\ ~Promotes(t)
    <3>1. CASE AddFactFails(c) \/ Return(c) \/ Upsert(c)
      BY <1>i, <3>1 DEF AddFactFails, Return, Upsert
    <3>2. CASE \E sc \in Scope : LoadCheckpoint(c, sc)
      <4>1. PICK sc \in Scope : LoadCheckpoint(c, sc)
        BY <3>2
      <4>2. PICK row : Becomes(c, [at |-> "load", scope |-> sc, checkpoint |-> row])
        BY <4>1, Zenon DEF LoadCheckpoint
      <4>3. ~Promotes([at |-> "load", scope |-> sc, checkpoint |-> row])
        BY DEF Promotes
      <4>4. UNCHANGED acts
        BY <4>1 DEF LoadCheckpoint
      <4> QED BY <4>2, <4>3, <4>4
    <3>3. CASE LoadActivities(c)
      <4>1. PICK page : Becomes(c, [at |-> "context", scope |-> task[c].scope,
                                    checkpoint |-> task[c].checkpoint, recent |-> page])
        BY <3>3, Zenon DEF LoadActivities
      <4> DEFINE t == [at |-> "context", scope |-> task[c].scope,
                       checkpoint |-> task[c].checkpoint, recent |-> page]
      <4>2. ~Promotes(t)
        BY DEF Promotes
      <4>3. UNCHANGED acts
        BY <3>3 DEF LoadActivities
      <4> QED BY <4>1, <4>2, <4>3
    <3>4. CASE ArchiveCommit(c)
      <4>1. ~Promotes([at |-> "refused"])
        BY DEF Promotes
      <4> QED BY <1>i, <3>4, <4>1 DEF ArchiveCommit
    <3>5. CASE \E k \in Key : Record(c, k)
      <4>1. PICK k \in Key : Record(c, k)
        BY <3>5
      <4>2. Becomes(c, [at |-> "record", key |-> k, time |-> now]) /\ UNCHANGED acts
        BY <4>1 DEF Record
      <4>3. ~Promotes([at |-> "record", key |-> k, time |-> now])
        BY DEF Promotes
      <4> QED BY <4>2, <4>3
    <3>6. CASE \E s \in Session, named \in Named : ReadLast(c, s, named)
      <4>1. PICK s \in Session, named \in Named : ReadLast(c, s, named)
        BY <3>6
      <4>2. PICK last : Becomes(c, [at |-> "save", session |-> s,
                                    row |-> [last |-> last, at |-> now, scope |-> named]])
        BY <4>1, Zenon DEF ReadLast
      <4> DEFINE t == [at |-> "save", session |-> s,
                       row |-> [last |-> last, at |-> now, scope |-> named]]
      <4>3. ~Promotes(t)
        BY DEF Promotes
      <4>4. UNCHANGED acts
        BY <4>1 DEF ReadLast
      <4> QED BY <4>2, <4>3, <4>4
    <3>7. CASE \E cutoff \in Time : ArchiveSelect(c, cutoff)
      <4>1. PICK cutoff \in Time : ArchiveSelect(c, cutoff)
        BY <3>7
      <4> DEFINE t == [at |-> "archive",
                       ids |-> {f \in DOMAIN facts : facts[f].life = "expired"
                                                     /\ facts[f].since < cutoff}]
      <4>2. Becomes(c, t) /\ UNCHANGED acts
        BY <4>1 DEF ArchiveSelect
      <4>3. ~Promotes(t)
        BY DEF Promotes
      <4> QED BY <4>2, <4>3
    <3> QED BY <1>8, <3>1, <3>2, <3>3, <3>4, <3>5, <3>6, <3>7
  <2> QED BY <1>1, <2>1
<1>9. CASE UNCHANGED vars \/ Tick \/ (\E f \in DOMAIN facts : Expire(f))
  BY <1>2, <1>9 DEF vars, Tick, Expire
<1> QED BY <1>3, <1>4, <1>5, <1>6, <1>7, <1>8, <1>9 DEF Next, LoadContext

-----------------------------------------------------------------------------
(* Promoted activities and their facts.                                    *)

\* Links and status as they were, and no linked fact leaves the table.
LEMMA PromotedKept ==
    ASSUME PromotedHasFact,
           DOMAIN acts' = DOMAIN acts,
           \A i \in DOMAIN acts : acts'[i].fact = acts[i].fact
              /\ (acts'[i].status = "promoted" <=> acts[i].status = "promoted"),
           DOMAIN facts \subseteq DOMAIN facts',
           \A i \in DOMAIN acts : acts[i].fact \in DOMAIN facts
              /\ facts[acts[i].fact].life # "gone" => facts'[acts[i].fact].life # "gone"
    PROVE  PromotedHasFact'
BY DEF PromotedHasFact, InTable

LEMMA PromotedStep ==
    TypeOK /\ PromotionsApart /\ PromotedHasFact /\ [Next]_vars => PromotedHasFact'
<1> SUFFICES ASSUME TypeOK, PromotionsApart, PromotedHasFact, [Next]_vars
             PROVE  PromotedHasFact'
  OBVIOUS
<1>p. \A i \in DOMAIN acts :
        /\ acts[i].fact # NoId <=> acts[i].status = "promoted"
        /\ acts[i].fact # NoId =>
              /\ acts[i].fact \in DOMAIN facts /\ facts[acts[i].fact].life # "gone"
              /\ \A j \in DOMAIN acts : acts[j].fact = acts[i].fact => j = i
  BY DEF PromotedHasFact, InTable
<1>1. CASE UNCHANGED <<acts, facts>>
  BY <1>1 DEF PromotedHasFact, InTable
<1>2. ASSUME NEW c \in Caller, Dedup(c) PROVE PromotedHasFact'
  <2>1. facts' = facts
    BY <1>2 DEF Dedup
  <2> QED BY <1>2, <2>1, DedupEffect, PromotedKept
<1>3. ASSUME NEW c \in Caller, Insert(c) PROVE PromotedHasFact'
  <2>1. /\ DOMAIN acts' = DOMAIN acts \cup {Len(acts) + 1}
        /\ \A j \in DOMAIN acts : acts'[j] = acts[j]
        /\ acts'[Len(acts) + 1].status # "promoted" /\ acts'[Len(acts) + 1].fact = NoId
    BY <1>3, InsertEffect
  <2>2. facts' = facts
    BY <1>3 DEF Insert
  <2> QED BY <1>p, <2>1, <2>2 DEF PromotedHasFact, InTable
<1>4. ASSUME NEW c \in Caller, AddFact(c) PROVE PromotedHasFact'
  <2>1. acts' = acts
    BY <1>4 DEF AddFact
  <2> QED BY <1>4, <2>1, AddFactEffect, PromotedKept
<1>5. ASSUME NEW c \in Caller, Link(c) PROVE PromotedHasFact'
  <2>0. facts' = facts /\ task[c].at = "link"
    BY <1>5 DEF Link
  <2>1. CASE ~InTable(task[c].fact)
    BY <1>1, <1>5, <2>0, <2>1 DEF Link
  <2>2. CASE InTable(task[c].fact)
    <3> DEFINE a == task[c].act
               f == task[c].fact
    <3>1. /\ DOMAIN acts' = DOMAIN acts
          /\ \A j \in DOMAIN acts \ {a} : acts'[j] = acts[j]
          /\ acts'[a].status = "promoted" /\ acts'[a].fact = f
      BY <1>5, <2>2, LinkEffect
    <3>2. a \in DOMAIN acts /\ f \in DOMAIN facts /\ f # NoId /\ facts[f].life # "gone"
      BY <2>0, <2>2, TaskFields, ActsType DEF NoId, InTable
    <3>3. \A i \in DOMAIN acts : acts[i].fact # f
      BY <2>0 DEF PromotionsApart
    <3> HIDE DEF a, f
    <3>4. \A i \in DOMAIN acts' :
            /\ acts'[i].fact # NoId <=> acts'[i].status = "promoted"
            /\ acts'[i].fact # NoId =>
                  /\ acts'[i].fact \in DOMAIN facts /\ facts[acts'[i].fact].life # "gone"
                  /\ \A j \in DOMAIN acts' : acts'[j].fact = acts'[i].fact => j = i
      <4> SUFFICES ASSUME NEW i \in DOMAIN acts
                   PROVE  /\ acts'[i].fact # NoId <=> acts'[i].status = "promoted"
                          /\ acts'[i].fact # NoId =>
                               /\ acts'[i].fact \in DOMAIN facts
                               /\ facts[acts'[i].fact].life # "gone"
                               /\ \A j \in DOMAIN acts : acts'[j].fact = acts'[i].fact => j = i
        BY <3>1
      <4>1. CASE i = a
        BY <3>1, <3>2, <3>3, <4>1
      <4>2. CASE i # a
        BY <1>p, <3>1, <3>2, <3>3, <4>2
      <4> QED BY <4>1, <4>2
    <3> QED BY <2>0, <3>4 DEF PromotedHasFact, InTable
  <2> QED BY <2>1, <2>2
<1>6. ASSUME NEW f \in DOMAIN facts, Expire(f) PROVE PromotedHasFact'
  <2>1. acts' = acts
    BY <1>6 DEF Expire
  <2> QED BY <1>6, <2>1, ExpireEffect, PromotedKept
<1>7. ASSUME NEW c \in Caller, ArchiveCommit(c) PROVE PromotedHasFact'
  <2>0. acts' = acts
    BY <1>7 DEF ArchiveCommit
  <2>1. CASE Referenced(task[c].ids)
    BY <1>1, <1>7, <2>0, <2>1 DEF ArchiveCommit
  <2>2. CASE ~Referenced(task[c].ids)
    <3>1. DOMAIN facts' = DOMAIN facts
          /\ \A g \in DOMAIN facts \ task[c].ids : facts'[g] = facts[g]
      BY <1>7, <2>2, ArchiveEffect
    <3>2. \A i \in DOMAIN acts : acts[i].fact \notin task[c].ids
      BY <2>2 DEF Referenced
    <3> QED BY <2>0, <3>1, <3>2, PromotedKept
  <2> QED BY <2>1, <2>2
<1> QED BY <1>1, <1>2, <1>3, <1>4, <1>5, <1>6, <1>7
        DEF Next, vars, Tick, Crash, Record, AddFactFails, ReadLast, Upsert, LoadContext,
            LoadCheckpoint, LoadActivities, ArchiveSelect, Return

\* What no step does to an activity: forget it, give it another key, take its
\* promotion back or link it elsewhere.
LEMMA ActsGrow ==
    ASSUME TypeOK, PromotionsApart, [Next]_vars
    PROVE  /\ DOMAIN acts \subseteq DOMAIN acts'
           /\ \A i \in DOMAIN acts :
                 /\ acts'[i].key = acts[i].key
                 /\ acts[i].status = "promoted" =>
                       acts'[i].status = "promoted" /\ acts'[i].fact = acts[i].fact
<1> DEFINE Grown ==
           /\ DOMAIN acts \subseteq DOMAIN acts'
           /\ \A i \in DOMAIN acts :
                 /\ acts'[i].key = acts[i].key
                 /\ acts[i].status = "promoted" =>
                       acts'[i].status = "promoted" /\ acts'[i].fact = acts[i].fact
<1> SUFFICES Grown
  OBVIOUS
<1>1. CASE UNCHANGED acts
  BY <1>1
<1>2. ASSUME NEW c \in Caller, Dedup(c) PROVE Grown
  BY <1>2, DedupEffect
<1>3. ASSUME NEW c \in Caller, Insert(c) PROVE Grown
  BY <1>3, InsertEffect
<1>4. ASSUME NEW c \in Caller, Link(c) PROVE Grown
  <2>1. CASE ~InTable(task[c].fact)
    BY <1>1, <1>4, <2>1 DEF Link
  <2>2. CASE InTable(task[c].fact)
    <3>1. acts[task[c].act].status # "promoted"
      BY <1>4 DEF Link, PromotionsApart
    <3>2. /\ DOMAIN acts' = DOMAIN acts
          /\ \A j \in DOMAIN acts \ {task[c].act} : acts'[j] = acts[j]
          /\ acts'[task[c].act].key = acts[task[c].act].key
      BY <1>4, <2>2, LinkEffect
    <3> QED BY <3>1, <3>2
  <2> QED BY <2>1, <2>2
<1> HIDE DEF Grown
<1> QED BY <1>1, <1>2, <1>3, <1>4
        DEF Next, vars, Tick, Crash, Expire, Record, AddFact, AddFactFails, ReadLast, Upsert,
            LoadContext, LoadCheckpoint, LoadActivities, ArchiveSelect, ArchiveCommit, Return

-----------------------------------------------------------------------------
(* Checkpoints.                                                            *)

LEMMA OfSessionGrows ==
    ASSUME TypeOK, PromotionsApart, [Next]_vars
    PROVE  /\ DOMAIN acts \subseteq DOMAIN acts'
           /\ \A s \in Session : OfSession(s) \subseteq OfSession(s)'
BY ActsGrow DEF OfSession

LEMMA CallerKept ==
    ASSUME TypeOK, PromotionsApart, CheckpointInv, [Next]_vars,
           NEW c \in Caller, task'[c] = task[c]
    PROVE  KnownTo(c)' /\ ShownTo(c)'
<1>1. KnownTo(c) /\ ShownTo(c)
  BY DEF CheckpointInv, CheckpointsKnown, ContextsShowCheckpoint, ShownTo
<1>2. KnownTo(c)'
  <2>1. CASE task[c].at = "save" /\ task[c].row.last # NoId
    <3>1. task[c].session \in Session /\ task[c].row.last \in OfSession(task[c].session)
      BY <1>1, <2>1, TaskFields DEF KnownTo
    <3>2. task[c].row.last \in OfSession(task[c].session)'
      BY <3>1, OfSessionGrows
    <3> QED BY <2>1, <3>2 DEF KnownTo
  <2>2. CASE task[c].at \in {"load", "context"}
    BY <1>1, <2>2, OfSessionGrows DEF KnownTo
  <2> QED BY <2>1, <2>2 DEF KnownTo
<1>3. ShownTo(c)'
  <2> SUFFICES ASSUME task[c].at = "context", task[c].checkpoint.last # NoId,
                      task[c].checkpoint.last \notin task[c].recent,
                      Cardinality(task[c].recent) # Limit
               PROVE  ScopeOf[acts'[task[c].checkpoint.last].key] \notin Below[task[c].scope]
    BY DEF ShownTo
  <2>1. task[c].checkpoint.last \in DOMAIN acts
        /\ ScopeOf[acts[task[c].checkpoint.last].key] \notin Below[task[c].scope]
    BY <1>1 DEF KnownTo, ShownTo
  <2> QED BY <2>1, ActsGrow
<1> QED BY <1>2, <1>3

\* What is saved stays, and so does what the other callers know.
LEMMA CheckpointsKept ==
    ASSUME TypeOK, PromotionsApart, CheckpointInv, [Next]_vars, UNCHANGED saved,
           \A d \in Caller : \/ task'[d] = task[d]
                             \/ task'[d].at \notin {"save", "load", "context"}
                             \/ KnownTo(d)' /\ ShownTo(d)'
    PROVE  CheckpointInv'
<1>1. ASSUME NEW d \in Caller PROVE KnownTo(d)' /\ ShownTo(d)'
  <2>1. CASE task'[d].at \notin {"save", "load", "context"}
    BY <2>1 DEF KnownTo, ShownTo
  <2> QED BY <2>1, CallerKept
<1>2. CheckpointsKnown'
  BY <1>1 DEF CheckpointsKnown
<1>3. ContextsShowCheckpoint'
  BY <1>1 DEF ContextsShowCheckpoint, ShownTo
<1>4. CheckpointsResolve'
  BY OfSessionGrows DEF CheckpointInv, CheckpointsResolve
<1> QED BY <1>2, <1>3, <1>4 DEF CheckpointInv

LEMMA CheckpointsStep ==
    TypeOK /\ TypeOK' /\ PromotionsApart /\ CheckpointInv /\ [Next]_vars => CheckpointInv'
<1> SUFFICES ASSUME TypeOK, TypeOK', PromotionsApart, CheckpointInv, [Next]_vars
             PROVE  CheckpointInv'
  OBVIOUS
<1>0. task \in [Caller -> Pending] /\ saved \in [Session -> Checkpoint]
  BY DEF TypeOK
<1>i. Idle.at = "idle"
  BY DEF Idle
<1>1. ASSUME NEW c \in Caller, NEW t, Becomes(c, t), UNCHANGED saved,
             t.at \notin {"save", "load", "context"} \/ (KnownTo(c)' /\ ShownTo(c)')
      PROVE  CheckpointInv'
  <2>1. task'[c] = t /\ \A d \in Caller \ {c} : task'[d] = task[d]
    BY <1>0, <1>1 DEF Becomes
  <2> QED BY <1>1, <2>1, CheckpointsKept
<1>2. CASE UNCHANGED <<task, saved>>
  BY <1>2, CheckpointsKept
<1>3. CASE Crash
  BY <1>3, <1>i, CheckpointsKept DEF Crash
<1>4. ASSUME NEW c \in Caller,
             \/ Dedup(c) \/ AddFactFails(c) \/ Link(c) \/ Return(c)
      PROVE  CheckpointInv'
  BY <1>1, <1>4, <1>i DEF Dedup, AddFactFails, Link, Return
<1>5. ASSUME NEW c \in Caller, NEW k \in Key, Record(c, k)
      PROVE  CheckpointInv'
  <2> DEFINE t == [at |-> "record", key |-> k, time |-> now]
  <2>1. Becomes(c, t) /\ UNCHANGED saved
    BY <1>5 DEF Record
  <2>2. t.at \notin {"save", "load", "context"}
    OBVIOUS
  <2> QED BY <1>1, <2>1, <2>2
<1>6. ASSUME NEW c \in Caller, Insert(c)
      PROVE  CheckpointInv'
  <2> DEFINE t == IF task[c].key \in Promoting THEN [at |-> "promote", act |-> Len(acts) + 1]
                  ELSE Idle
  <2>1. Becomes(c, t) /\ UNCHANGED saved
    BY <1>6 DEF Insert
  <2>2. t.at \notin {"save", "load", "context"}
    BY <1>i
  <2> QED BY <1>1, <2>1, <2>2
<1>7. ASSUME NEW c \in Caller, AddFact(c)
      PROVE  CheckpointInv'
  <2> DEFINE t == [at |-> "link", act |-> task[c].act, fact |-> Len(facts) + 1]
  <2>1. Becomes(c, t) /\ UNCHANGED saved
    BY <1>7 DEF AddFact
  <2>2. t.at \notin {"save", "load", "context"}
    OBVIOUS
  <2> QED BY <1>1, <2>1, <2>2
<1>8. ASSUME NEW c \in Caller, NEW cutoff \in Time, ArchiveSelect(c, cutoff)
      PROVE  CheckpointInv'
  <2> DEFINE t == [at |-> "archive",
                   ids |-> {f \in DOMAIN facts : facts[f].life = "expired"
                                                 /\ facts[f].since < cutoff}]
  <2>1. Becomes(c, t) /\ UNCHANGED saved
    BY <1>8 DEF ArchiveSelect
  <2>2. t.at \notin {"save", "load", "context"}
    OBVIOUS
  <2> QED BY <1>1, <2>1, <2>2
<1>9. ASSUME NEW c \in Caller, ArchiveCommit(c)
      PROVE  CheckpointInv'
  <2>1. UNCHANGED saved /\ (Becomes(c, [at |-> "refused"]) \/ Becomes(c, Idle))
    BY <1>9 DEF ArchiveCommit
  <2>2. [at |-> "refused"].at \notin {"save", "load", "context"}
    OBVIOUS
  <2> QED BY <1>1, <1>i, <2>1, <2>2
<1>10. ASSUME NEW c \in Caller, NEW s \in Session, NEW named \in Named, ReadLast(c, s, named)
       PROVE  CheckpointInv'
  <2>1. PICK last \in (IF OfSession(s) = {} THEN {NoId} ELSE Newest(OfSession(s))) :
          Becomes(c, [at |-> "save", session |-> s,
                      row |-> [last |-> last, at |-> now, scope |-> named]])
    BY <1>10, Zenon DEF ReadLast
  <2> DEFINE t == [at |-> "save", session |-> s,
                   row |-> [last |-> last, at |-> now, scope |-> named]]
  <2>2. t.at = "save" /\ t.session = s /\ t.row.last = last
    OBVIOUS
  <2>3. Becomes(c, t)
    BY <2>1
  <2> HIDE DEF t
  <2>4. UNCHANGED <<now, acts, facts, saved>>
    BY <1>10 DEF ReadLast
  <2>5. task'[c] = t
    BY <1>0, <2>3 DEF Becomes
  <2>6. last # NoId => last \in OfSession(s)'
    <3>1. last # NoId => last \in OfSession(s)
      BY ReadLastRow
    <3> QED BY <3>1, OfSessionGrows
  <2>7. KnownTo(c)' /\ ShownTo(c)'
    BY <2>2, <2>5, <2>6 DEF KnownTo, ShownTo
  <2> QED BY <1>1, <2>3, <2>4, <2>7
<1>11. ASSUME NEW c \in Caller, Upsert(c)
       PROVE  CheckpointInv'
  <2>1. /\ task[c].at = "save" /\ Becomes(c, Idle)
        /\ saved' = [saved EXCEPT ![task[c].session] = task[c].row]
    BY <1>11 DEF Upsert
  <2>2. task'[c] = Idle /\ \A d \in Caller \ {c} : task'[d] = task[d]
    BY <1>0, <2>1 DEF Becomes
  <2>3. ASSUME NEW d \in Caller PROVE KnownTo(d)' /\ ShownTo(d)'
    <3>1. CASE d = c
      BY <1>i, <2>2, <3>1 DEF KnownTo, ShownTo
    <3>2. CASE d # c
      BY <2>2, <3>2, CallerKept
    <3> QED BY <3>1, <3>2
  <2>4. task[c].session \in Session
        /\ (task[c].row.last # NoId => task[c].row.last \in OfSession(task[c].session))
    BY <2>1, TaskFields DEF CheckpointInv, CheckpointsKnown, KnownTo
  <2>5. \A s \in Session : saved'[s] = IF s = task[c].session THEN task[c].row ELSE saved[s]
    BY <1>0, <2>1, <2>4
  <2>6. \A s \in Session : saved'[s].last # NoId => saved'[s].last \in OfSession(s)
    BY <2>4, <2>5 DEF CheckpointInv, CheckpointsResolve
  <2>7. CheckpointsResolve'
    BY <2>6, OfSessionGrows DEF CheckpointsResolve
  <2>8. CheckpointsKnown' /\ ContextsShowCheckpoint'
    BY <2>3 DEF CheckpointsKnown, ContextsShowCheckpoint, ShownTo
  <2> QED BY <2>7, <2>8 DEF CheckpointInv
<1>12. ASSUME NEW c \in Caller, NEW sc \in Scope, LoadCheckpoint(c, sc)
       PROVE  CheckpointInv'
  <2>1. PICK row \in SavedLast(saved, sc) :
          Becomes(c, [at |-> "load", scope |-> sc, checkpoint |-> row])
    BY <1>12, Zenon DEF LoadCheckpoint
  <2> DEFINE t == [at |-> "load", scope |-> sc, checkpoint |-> row]
  <2>2. t.at = "load" /\ t.checkpoint = row
    OBVIOUS
  <2>3. Becomes(c, t)
    BY <2>1
  <2> HIDE DEF t
  <2>4. UNCHANGED <<acts, saved>>
    BY <1>12 DEF LoadCheckpoint
  <2>5. task'[c] = t
    BY <1>0, <2>3 DEF Becomes
  <2>6. row.last \in DOMAIN acts \cup {NoId}
    <3>1. CASE row = NoCheckpoint
      BY <3>1 DEF NoCheckpoint
    <3>2. CASE \E s \in Session : row = saved[s]
      BY <3>2 DEF CheckpointInv, CheckpointsResolve, OfSession
    <3> QED BY <3>1, <3>2, SavedLastType
  <2>7. KnownTo(c)' /\ ShownTo(c)'
    BY <2>2, <2>4, <2>5, <2>6 DEF KnownTo, ShownTo
  <2> QED BY <1>1, <2>3, <2>4, <2>7
<1>13. ASSUME NEW c \in Caller, LoadActivities(c)
       PROVE  CheckpointInv'
  <2>1. PICK page \in Pages(acts, task[c].scope) :
          Becomes(c, [at |-> "context", scope |-> task[c].scope,
                      checkpoint |-> task[c].checkpoint, recent |-> page])
    BY <1>13, Zenon DEF LoadActivities
  <2> DEFINE t == [at |-> "context", scope |-> task[c].scope,
                   checkpoint |-> task[c].checkpoint, recent |-> page]
             last == task[c].checkpoint.last
  <2>2. t.at = "context" /\ t.scope = task[c].scope /\ t.checkpoint = task[c].checkpoint
        /\ t.recent = page
    OBVIOUS
  <2>3. Becomes(c, t)
    BY <2>1
  <2> HIDE DEF t
  <2>4. UNCHANGED <<acts, saved>> /\ task[c].at = "load"
    BY <1>13 DEF LoadActivities
  <2>5. task'[c] = t
    BY <1>0, <2>3 DEF Becomes
  <2>6. last \in DOMAIN acts \cup {NoId}
    BY <2>4 DEF CheckpointInv, CheckpointsKnown, KnownTo
  <2>7. \/ last = NoId
        \/ ScopeOf[acts[last].key] \notin Below[task[c].scope]
        \/ last \in page
        \/ Cardinality(page) = Limit
    <3>1. task[c].scope \in Scope
      BY <2>4, TaskFields
    <3>2. page = Within(acts, task[c].scope) \/ Cardinality(page) = Limit
      BY <2>1, <3>1, PageType
    <3> QED BY <2>6, <3>2 DEF Within
  <2>8. KnownTo(c)' /\ ShownTo(c)'
    BY <2>2, <2>4, <2>5, <2>6, <2>7 DEF KnownTo, ShownTo
  <2> QED BY <1>1, <2>3, <2>4, <2>8
<1>14. CASE UNCHANGED vars \/ Tick \/ (\E f \in DOMAIN facts : Expire(f))
  BY <1>2, <1>14 DEF vars, Tick, Expire
<1> QED BY <1>3, <1>4, <1>5, <1>6, <1>7, <1>8, <1>9, <1>10, <1>11, <1>12, <1>13, <1>14
        DEF Next, LoadContext

-----------------------------------------------------------------------------
(* The theorems.                                                           *)

LogInv == TypeOK /\ PromotionsApart /\ PromotedHasFact /\ CheckpointInv

LEMMA LogInit == Init => LogInv
<1> SUFFICES ASSUME Init PROVE LogInv
  OBVIOUS
<1>1. TypeOK
  BY LogInitType
<1>2. \A c \in Caller : task[c].at = "idle"
  BY DEF Init, Idle
<1>3. DOMAIN acts = {}
  BY DEF Init
<1>4. \A s \in Session : saved[s].last = NoId
  BY DEF Init, NoCheckpoint
<1>5. PromotionsApart /\ CheckpointsKnown
  BY <1>2 DEF PromotionsApart, CheckpointsKnown, KnownTo
<1>6. PromotedHasFact
  BY <1>3 DEF PromotedHasFact
<1>7. CheckpointsResolve /\ ContextsShowCheckpoint
  BY <1>2, <1>4 DEF CheckpointsResolve, ContextsShowCheckpoint
<1> QED BY <1>1, <1>5, <1>6, <1>7 DEF LogInv, CheckpointInv

(* The inductive invariant behind the results below. *)
THEOREM LogInvariant == Spec => []LogInv
<1>1. LogInv /\ [Next]_vars => LogInv'
  BY LogTypeStep, ApartStep, PromotedStep, CheckpointsStep DEF LogInv
<1> QED BY LogInit, <1>1, PTL DEF Spec

(* What callers have read and not yet used names rows that exist, whatever   *)
(* the others record, promote and archive meanwhile.                         *)
THEOREM LogTypeCorrect == Spec => []TypeOK
<1>1. LogInv => TypeOK
  BY DEF LogInv
<1> QED BY LogInvariant, <1>1, PTL

(* However promotions, repetitions and archives interleave, promoted means   *)
(* linked to a fact of its own that is in the table.                         *)
THEOREM PromotedAlwaysHasFact == Spec => []PromotedHasFact
<1>1. LogInv => PromotedHasFact
  BY DEF LogInv
<1> QED BY LogInvariant, <1>1, PTL

(* No checkpoint of any session dangles or names another's activity.         *)
THEOREM CheckpointsAlwaysResolve == Spec => []CheckpointsResolve
<1>1. LogInv => CheckpointsResolve
  BY DEF LogInv, CheckpointInv
<1> QED BY LogInvariant, <1>1, PTL

(* load_context reads a checkpoint and then its page: what the checkpoint    *)
(* names is on the page, out of the scope, or pushed off a full page.        *)
THEOREM ContextsAlwaysShowCheckpoint == Spec => []ContextsShowCheckpoint
<1>1. LogInv => ContextsShowCheckpoint
  BY DEF LogInv, CheckpointInv
<1> QED BY LogInvariant, <1>1, PTL

(* insert_or_dedup and update_activity_status never take a promotion back.   *)
THEOREM PromotionAlwaysSticks == Spec => PromotionSticks
<1>1. LogInv /\ [Next]_vars =>
        [\A i \in DOMAIN acts : acts[i].status = "promoted" =>
            acts'[i].status = "promoted" /\ acts'[i].fact = acts[i].fact]_vars
  BY ActsGrow DEF LogInv
<1> QED BY LogInvariant, <1>1, PTL DEF Spec, PromotionSticks
=============================================================================
