----------------------- MODULE EmbeddingSpacesProofs -----------------------
(***************************************************************************)
(* Theorems about EmbeddingSpaces, for every set of models and dimensions, *)
(* every bound, every set of callers and of operations they perform; the   *)
(* last two ask that no dream cycle runs beside a reconstruction.          *)
(***************************************************************************)
EXTENDS EmbeddingSpaces, FiniteSetTheorems, TLAPS

-----------------------------------------------------------------------------
(* Types.                                                                  *)

LEMMA IdleState == Idle \in TaskState
BY SpaceBounds DEF Idle, TaskState, Stage, Vector

\* Changing one field of a register within its range.
LEMMA Set ==
    ASSUME NEW s \in TaskState
    PROVE  /\ \A x \in Stage : [s EXCEPT !.at = x] \in TaskState
           /\ \A x \in Vector : [s EXCEPT !.vec = x] \in TaskState
           /\ \A x \in FactId : [s EXCEPT !.fact = x] \in TaskState
           /\ \A x \in 0..2 : [s EXCEPT !.pass = x] \in TaskState
           /\ \A x \in 0..MaxFacts : [s EXCEPT !.after = x] \in TaskState
           /\ \A x \in SUBSET FactId : [s EXCEPT !.rows = x] \in TaskState
           /\ \A x \in SUBSET Image : [s EXCEPT !.image = x] \in TaskState
<1>1. \A x \in Stage : [s EXCEPT !.at = x] \in TaskState
  BY DEF TaskState
<1>2. \A x \in Vector : [s EXCEPT !.vec = x] \in TaskState
  BY DEF TaskState
<1>3. \A x \in FactId : [s EXCEPT !.fact = x] \in TaskState
  BY SpaceBounds DEF TaskState, FactId
<1>4. \A x \in 0..2 : [s EXCEPT !.pass = x] \in TaskState
  BY DEF TaskState
<1>5. \A x \in 0..MaxFacts : [s EXCEPT !.after = x] \in TaskState
  BY DEF TaskState
<1>6. \A x \in SUBSET FactId : [s EXCEPT !.rows = x] \in TaskState
  BY DEF TaskState
<1>7. \A x \in SUBSET Image : [s EXCEPT !.image = x] \in TaskState
  BY DEF TaskState
<1> QED BY <1>1, <1>2, <1>3, <1>4, <1>5, <1>6, <1>7

\* The counters of the fingerprint are numbers.
LEMMA CountersType ==
    /\ Counters.max_fact_id \in Nat
    /\ Counters.active_fact_count \in Nat
<1> DEFINE Below == {i \in FactId : \E f \in FactId : i <= f /\ Exists(f)}
           Live == {f \in FactId : fact[f] = "active"}
<1>1. IsFiniteSet(FactId)
  BY FS_Interval, SpaceBounds DEF FactId
<1>2. Cardinality(Below) \in Nat
  <2>1. Below \in SUBSET FactId
    OBVIOUS
  <2> QED BY <1>1, <2>1, FS_Subset, FS_CardinalityType
<1>3. Cardinality(Live) \in Nat
  <2>1. Live \in SUBSET FactId
    OBVIOUS
  <2> QED BY <1>1, <2>1, FS_Subset, FS_CardinalityType
<1>4. Counters = [max_fact_id |-> Cardinality(Below),
                  active_fact_count |-> Cardinality(Live)]
  BY DEF Counters
<1> HIDE DEF Below, Live
<1> QED BY <1>2, <1>3, <1>4

TablesOK ==
    /\ fact \in [FactId -> {"none", "active", "expired", "gone"}]
    /\ vec \in [FactId -> Vector]
    /\ spaces \in [Name -> SpaceRow]
    /\ fv \subseteq FactId \X Name \X Identity
    /\ \A f \in FactId : Exists(f) => vec[f] \in Identity
    /\ \A n \in Name : spaces[n].st # "absent" => spaces[n].fp \in Identity
HandleOK ==
    /\ index \in [FactId -> Vector]
    /\ unnoticed \subseteq FactId
    /\ embedDim \in Width
    /\ fence \in Width \cup {0}
    /\ sidecar \subseteq Image
    /\ up \in BOOLEAN
\* The stages in which a call carries a vector or the identity it embeds with.
Carries(s) == s.at \notin {"idle", "unindex", "scan", "save"}
CallState == {s \in TaskState : Carries(s) => s.vec \in Identity}
TasksOK == task \in [Task -> CallState]

TypeInv == TablesOK /\ HandleOK /\ TasksOK

LEMMA TypeParts == TypeInv => TypeOK
BY DEF TypeInv, TypeOK, TablesOK, HandleOK, TasksOK, CallState

LEMMA IdleCall == Idle \in CallState
BY IdleState DEF CallState, Carries, Idle

\* A register that holds a state of a call again holds one.
LEMMA Registers ==
    ASSUME TasksOK, NEW t \in Task, NEW s \in CallState, Become(t, s)
    PROVE  TasksOK'
BY DEF TasksOK, Become

\* A call enters a stage with the vector it embedded.
LEMMA Enters ==
    ASSUME NEW x \in Stage, NEW p \in Identity
    PROVE  [Idle EXCEPT !.at = x, !.vec = p] \in CallState
<1>1. [Idle EXCEPT !.at = x, !.vec = p] \in TaskState
  BY IdleState, Set DEF Vector
<1> QED BY <1>1 DEF CallState, Idle

\* A call moves on to another stage with what it carries.
LEMMA Moves ==
    ASSUME NEW s \in CallState, Carries(s), NEW x \in Stage
    PROVE  [s EXCEPT !.at = x] \in CallState
<1>1. [s EXCEPT !.at = x] \in TaskState
  BY Set DEF CallState
<1>2. [s EXCEPT !.at = x].vec = s.vec
  BY DEF CallState, TaskState
<1> QED BY <1>1, <1>2 DEF CallState

\* The registers of a backfill, from window to window.
LEMMA SetWindow ==
    ASSUME NEW s \in CallState, Carries(s), NEW rows \in SUBSET FactId,
           NEW last \in 0..MaxFacts
    PROVE  /\ [s EXCEPT !.at = "embed", !.rows = rows, !.after = last]
                \in CallState
           /\ [s EXCEPT !.at = "window", !.rows = rows] \in CallState
           /\ [s EXCEPT !.pass = 2, !.after = last] \in CallState
<1>1. s \in TaskState /\ s.vec \in Identity
  BY DEF CallState
<1>2. [s EXCEPT !.at = "embed", !.rows = rows, !.after = last] \in TaskState
  BY <1>1 DEF TaskState, Stage
<1>3. [s EXCEPT !.at = "window", !.rows = rows] \in TaskState
  BY <1>1 DEF TaskState, Stage
<1>4. [s EXCEPT !.pass = 2, !.after = last] \in TaskState
  <2>1. 2 \in 0..2
    OBVIOUS
  <2> QED BY <1>1, <2>1, Zenon DEF TaskState
<1>5. /\ [s EXCEPT !.at = "embed", !.rows = rows, !.after = last].vec = s.vec
      /\ [s EXCEPT !.at = "window", !.rows = rows].vec = s.vec
      /\ [s EXCEPT !.pass = 2, !.after = last].vec = s.vec
  BY <1>1 DEF TaskState
<1> QED BY <1>1, <1>2, <1>3, <1>4, <1>5 DEF CallState

\* Recording an identity leaves a table of spaces.
LEMMA RecordedType ==
    ASSUME TablesOK, NEW p \in Identity
    PROVE  /\ Recorded(p) \in [Name -> SpaceRow]
           /\ \A n \in Name : Recorded(p)[n].st # "absent" =>
                                Recorded(p)[n].fp \in Identity
BY DEF TablesOK, Recorded, Name, SpaceRow, Vector

LEMMA SameTables == ASSUME TablesOK, UNCHANGED table PROVE TablesOK'
BY DEF TablesOK, table, Exists

LEMMA SameHandle == ASSUME HandleOK, UNCHANGED handle PROVE HandleOK'
BY DEF HandleOK, handle

\* What a rebuild puts in the index.
LEMMA ScanType == ASSUME TablesOK PROVE Scan \in [FactId -> Vector]
BY DEF TablesOK, Scan, Vector

\* FactStore::insert adds a row with the vector it was given.
LEMMA InsertRowType ==
    ASSUME TablesOK, NEW f \in FactId, NEW p \in Identity, InsertRow(f, p)
    PROVE  /\ fact' \in [FactId -> {"none", "active", "expired", "gone"}]
           /\ vec' \in [FactId -> Vector]
           /\ \A g \in FactId : Exists(g)' => vec'[g] \in Identity
<1>1. /\ fact' = [fact EXCEPT ![f] = "active"]
      /\ vec' = [vec EXCEPT ![f] = p]
  BY DEF InsertRow
<1>2. /\ fact' \in [FactId -> {"none", "active", "expired", "gone"}]
      /\ vec' \in [FactId -> Vector]
  BY <1>1 DEF TablesOK, Vector
<1>3. \A g \in FactId : Exists(g)' => vec'[g] \in Identity
  BY <1>1 DEF TablesOK, Exists
<1> QED BY <1>2, <1>3

\* The row, and the caller about to notify the index.
LEMMA InsertType ==
    ASSUME TablesOK, TasksOK, NEW t \in Task, NEW p \in Identity,
           InsertFact(t, p)
    PROVE  /\ fact' \in [FactId -> {"none", "active", "expired", "gone"}]
           /\ vec' \in [FactId -> Vector]
           /\ \A f \in FactId : Exists(f)' => vec'[f] \in Identity
           /\ TasksOK'
<1>1. PICK f \in FactId :
        /\ InsertRow(f, p)
        /\ Become(t, [Idle EXCEPT !.at = "notify", !.vec = p, !.fact = f])
  BY DEF InsertFact
<1>2. [Idle EXCEPT !.at = "notify", !.vec = p, !.fact = f] \in TaskState
  BY IdleState, Set DEF Stage, Vector
<1>3. [Idle EXCEPT !.at = "notify", !.vec = p, !.fact = f] \in CallState
  BY <1>2 DEF CallState, Idle
<1>4. TasksOK'
  BY <1>1, <1>3, Registers
<1> QED BY <1>1, <1>4, InsertRowType

\* The steps of a caller that leave tables and handle alone.
LEMMA QuietType ==
    ASSUME TablesOK, HandleOK, TasksOK, NEW t \in Task,
           \/ AddEmbed(t) \/ Dream(t) \/ Import(t) \/ InsertRefused(t)
           \/ Consolidate(t) \/ ConsolidateRefused(t)
           \/ BackfillRead(t) \/ BackfillDone(t) \/ PromoteRefused(t)
           \/ FlushStamp(t) \/ FlushScan(t)
    PROVE  TasksOK' /\ UNCHANGED table /\ UNCHANGED handle
<1> USE IdleCall
<1>1. task[t] \in CallState /\ task[t] \in TaskState
  BY DEF TasksOK, CallState
<1>2. CASE AddEmbed(t)
  <2>1. PICK p \in Identity : Become(t, [Idle EXCEPT !.at = "add", !.vec = p])
    BY <1>2 DEF AddEmbed
  <2>2. [Idle EXCEPT !.at = "add", !.vec = p] \in CallState
    BY Enters DEF Stage
  <2> QED BY <1>2, <2>1, <2>2, Registers DEF AddEmbed
<1>3. CASE Dream(t)
  <2>1. PICK p \in Established :
          Become(t, [Idle EXCEPT !.at = "promotion", !.vec = p])
    BY <1>3 DEF Dream
  <2>2. p \in Identity
    BY <2>1 DEF Established, ActiveNames, TablesOK
  <2>3. [Idle EXCEPT !.at = "promotion", !.vec = p] \in CallState
    BY <2>2, Enters DEF Stage
  <2> QED BY <1>3, <2>1, <2>3, Registers DEF Dream
<1>4. CASE InsertRefused(t)
  BY <1>4, Registers DEF Import, ImportCommit, InsertRefused, Abandon, Finish
<1>5. CASE Consolidate(t)
  <2>1. PICK p \in Identity :
          Become(t, [Idle EXCEPT !.at = "consolidate", !.vec = p])
    BY <1>5 DEF Consolidate
  <2>2. [Idle EXCEPT !.at = "consolidate", !.vec = p] \in CallState
    BY Enters DEF Stage
  <2> QED BY <1>5, <2>1, <2>2, Registers DEF Consolidate
<1>6. CASE ConsolidateRefused(t)
  BY <1>6, Registers DEF ConsolidateRefused, Finish
<1>7. CASE BackfillRead(t)
  <2> DEFINE rows == Window(task[t].vec, task[t].after)
  <2>1. PICK last \in rows :
          Become(t, [task[t] EXCEPT !.at = "embed", !.rows = rows,
                                    !.after = last])
    BY <1>7 DEF BackfillRead
  <2>2. rows \in SUBSET FactId /\ last \in 0..MaxFacts
    BY <2>1, SpaceBounds DEF Window, Unbackfilled, FactId
  <2>3. Carries(task[t])
    BY <1>7 DEF BackfillRead, At, Carries
  <2> HIDE DEF rows
  <2>4. [task[t] EXCEPT !.at = "embed", !.rows = rows, !.after = last]
          \in CallState
    BY <1>1, <2>2, <2>3, SetWindow
  <2> QED BY <1>7, <2>1, <2>4, Registers DEF BackfillRead
<1>8. CASE BackfillDone(t)
  <2>1. Carries(task[t])
    BY <1>8 DEF BackfillDone, At, Carries
  <2>2. [task[t] EXCEPT !.pass = 2, !.after = 0] \in CallState
    <3>1. 0 \in 0..MaxFacts
      BY SpaceBounds
    <3> QED BY <1>1, <2>1, <3>1, SetWindow
  <2>3. [task[t] EXCEPT !.at = "promote"] \in CallState
    BY <1>1, <2>1, Moves DEF Stage
  <2> QED BY <1>8, <2>2, <2>3, Registers DEF BackfillDone
<1>9. CASE PromoteRefused(t)
  BY <1>9, Registers DEF PromoteRefused, Finish
<1>10. CASE FlushStamp(t)
  <2> DEFINE image == [dim |-> embedDim, max_fact_id |-> Counters.max_fact_id,
                       active_fact_count |-> Counters.active_fact_count,
                       hnsw |-> [f \in FactId |-> NoVec]]
  <2>1. Become(t, [Idle EXCEPT !.at = "scan", !.image = {image}])
    BY <1>10 DEF FlushStamp
  <2>2. embedDim \in Nat
    BY SpaceDims DEF HandleOK, Width
  <2>3. image \in Image
    BY <2>2, CountersType DEF Image, Vector
  <2> HIDE DEF image
  <2>4. [Idle EXCEPT !.at = "scan", !.image = {image}] \in TaskState
    BY <2>3, IdleState, Set DEF Stage
  <2>5. [Idle EXCEPT !.at = "scan", !.image = {image}] \in CallState
    BY <2>4 DEF CallState, Carries, Idle
  <2> QED BY <1>10, <2>1, <2>5, Registers DEF FlushStamp
<1>11. CASE FlushScan(t)
  <2> DEFINE images == {[i EXCEPT !.hnsw = Scan] : i \in task[t].image}
  <2>1. \/ Become(t, [task[t] EXCEPT !.at = "save", !.image = images])
        \/ Finish(t)
    BY <1>11 DEF FlushScan
  <2>2. images \in SUBSET Image
    BY <1>1, ScanType DEF TaskState, Image
  <2> HIDE DEF images
  <2>3. [task[t] EXCEPT !.at = "save", !.image = images] \in TaskState
    BY <1>1, <2>2, Set DEF Stage
  <2>4. [task[t] EXCEPT !.at = "save", !.image = images] \in CallState
    BY <1>1, <2>3 DEF CallState, Carries, TaskState
  <2> QED BY <1>11, <2>1, <2>4, Registers DEF FlushScan, Finish
<1>12. CASE Import(t)
  <2>1. PICK p \in Identity :
          Become(t, [Idle EXCEPT !.at = "import", !.vec = p])
    BY <1>12 DEF Import
  <2>2. [Idle EXCEPT !.at = "import", !.vec = p] \in CallState
    BY Enters DEF Stage
  <2> QED BY <1>12, <2>1, <2>2, Registers DEF Import
<1> QED BY <1>2, <1>3, <1>4, <1>5, <1>6, <1>7, <1>8, <1>9, <1>10, <1>11, <1>12

\* The steps that write the tables.
LEMMA WriteType ==
    ASSUME TablesOK, HandleOK, TasksOK, NEW t \in Task,
           \/ AddCommit(t) \/ DreamPromote(t) \/ ImportCommit(t) \/ Expire(t)
           \/ Purge(t) \/ ConsolidateApply(t) \/ ReconstructBegin(t)
           \/ BackfillWrite(t) \/ Promote(t)
    PROVE  TablesOK' /\ TasksOK' /\ HandleOK'
<1> USE IdleCall
<1>a. UNCHANGED handle => HandleOK'
  BY SameHandle
<1>0. task[t] \in CallState /\ task[t] \in TaskState
  BY DEF TasksOK, CallState
<1>1. CASE AddCommit(t)
  <2>1. task[t].vec \in Identity
    BY <1>0, <1>1 DEF AddCommit, At, CallState, Carries
  <2>2. /\ InsertFact(t, task[t].vec) /\ spaces' = Recorded(task[t].vec)
        /\ fv' = fv /\ UNCHANGED handle
    BY <1>1 DEF AddCommit
  <2> QED BY <1>a, <2>1, <2>2, RecordedType, InsertType DEF TablesOK
<1>2. CASE DreamPromote(t)
  <2>1. task[t].vec \in Identity
    BY <1>0, <1>2 DEF DreamPromote, At, CallState, Carries
  <2>2. /\ InsertFact(t, task[t].vec) /\ spaces' = spaces
        /\ fv' = fv /\ UNCHANGED handle
    BY <1>2 DEF DreamPromote
  <2> QED BY <1>a, <2>1, <2>2, InsertType DEF TablesOK
<1>3. CASE Expire(t)
  <2>1. PICK f \in FactId :
          /\ fact[f] = "active"
          /\ fact' = [fact EXCEPT ![f] = "expired"]
          /\ Become(t, [Idle EXCEPT !.at = "unindex", !.fact = f])
    BY <1>3 DEF Expire
  <2>2. [Idle EXCEPT !.at = "unindex", !.fact = f] \in TaskState
    BY IdleState, Set DEF Stage
  <2>3. [Idle EXCEPT !.at = "unindex", !.fact = f] \in CallState
    BY <2>2 DEF CallState, Carries, Idle
  <2>4. TasksOK'
    BY <2>1, <2>3, Registers
  <2>5. TablesOK'
    BY <1>3, <2>1 DEF Expire, TablesOK, Exists
  <2> QED BY <1>a, <1>3, <2>4, <2>5 DEF Expire
<1>4. CASE Purge(t)
  <2>1. PICK f \in FactId :
          /\ fact' = [fact EXCEPT ![f] = "gone"]
          /\ vec' = [vec EXCEPT ![f] = NoVec]
          /\ fv' = {r \in fv : r[1] # f}
    BY <1>4 DEF Purge
  <2>2. TablesOK'
    BY <1>4, <2>1 DEF Purge, TablesOK, Exists, Vector
  <2> QED BY <1>a, <1>4, <2>2 DEF Purge, TasksOK
<1>5. CASE ConsolidateApply(t)
  <2>1. task[t].vec \in Identity
    BY <1>0, <1>5 DEF ConsolidateApply, At, CallState, Carries
  <2>2. /\ spaces' = Recorded(task[t].vec) /\ Become(t, Idle)
        /\ UNCHANGED <<fact, vec, fv, handle>>
    BY <1>5 DEF ConsolidateApply, Finish
  <2>3. TasksOK'
    BY <2>2, Registers
  <2> QED BY <1>a, <2>1, <2>2, <2>3, RecordedType DEF TablesOK, Exists
<1>6. CASE ReconstructBegin(t)
  <2>1. PICK p \in Identity :
          /\ \/ spaces' = [spaces EXCEPT ![p] = [st |-> "populating", fp |-> p]]
             \/ UNCHANGED spaces
          /\ Become(t, [Idle EXCEPT !.at = "window", !.vec = p, !.pass = 1])
    BY <1>6 DEF ReconstructBegin
  <2>2. [Idle EXCEPT !.at = "window", !.vec = p, !.pass = 1] \in TaskState
    <3>1. 1 \in 0..2
      OBVIOUS
    <3> QED BY <3>1, IdleState, Set DEF Stage, Vector
  <2>3. [Idle EXCEPT !.at = "window", !.vec = p, !.pass = 1] \in CallState
    BY <2>2 DEF CallState, Idle
  <2>4. TasksOK'
    BY <2>1, <2>3, Registers
  <2>5. [st |-> "populating", fp |-> p] \in SpaceRow
    BY DEF SpaceRow, Vector
  <2>6. /\ spaces' \in [Name -> SpaceRow]
        /\ \A n \in Name : spaces'[n].st # "absent" => spaces'[n].fp \in Identity
    BY <2>1, <2>5 DEF TablesOK
  <2> QED BY <1>a, <1>6, <2>4, <2>6 DEF ReconstructBegin, TablesOK, Exists
<1>7. CASE BackfillWrite(t)
  <2>1. Carries(task[t]) /\ task[t].vec \in Identity
        /\ task[t].rows \in SUBSET FactId
    BY <1>0, <1>7 DEF BackfillWrite, At, CallState, Carries, TaskState
  <2>2. [task[t] EXCEPT !.at = "window", !.rows = {}] \in CallState
    <3>1. 0 \in 0..MaxFacts /\ {} \in SUBSET FactId
      BY SpaceBounds
    <3> QED BY <1>0, <2>1, <3>1, SetWindow
  <2>3. TasksOK'
    BY <1>7, <2>2, Registers DEF BackfillWrite, Finish
  <2>4. fv' \subseteq FactId \X Name \X Identity
    BY <1>7, <2>1 DEF BackfillWrite, TablesOK, Name
  <2> QED BY <1>a, <1>7, <2>3, <2>4 DEF BackfillWrite, TablesOK, Exists
<1>8. CASE Promote(t)
  <2> DEFINE p == task[t].vec
  <2>1. Carries(task[t]) /\ p \in Identity
    BY <1>0, <1>8 DEF Promote, At, CallState, Carries
  <2>2. [task[t] EXCEPT !.at = "refresh"] \in CallState
    BY <1>0, <2>1, Moves DEF Stage
  <2>3. TasksOK'
    BY <1>8, <2>2, Registers DEF Promote
  <2>4. /\ vec' \in [FactId -> Vector]
        /\ \A f \in FactId : Exists(f) => vec'[f] \in Identity
    BY <1>8, <2>1 DEF Promote, HasVector, TablesOK, Vector
  <2>5. fv' \subseteq FactId \X Name \X Identity
    BY <1>8, <2>1 DEF Promote, Retained, ActiveNames, TablesOK
  <2>6. /\ spaces' \in [Name -> SpaceRow]
        /\ \A n \in Name : spaces'[n].st # "absent" => spaces'[n].fp \in Identity
    BY <1>8, <2>1 DEF Promote, Promotable, ActiveNames, TablesOK, SpaceRow, Name
  <2> QED BY <1>a, <1>8, <2>3, <2>4, <2>5, <2>6 DEF Promote, TablesOK, Exists
<1>9. CASE ImportCommit(t)
  <2>1. task[t].vec \in Identity
    BY <1>0, <1>9 DEF ImportCommit, At, CallState, Carries
  <2>2. PICK f \in FactId :
          InsertRow(f, task[t].vec) /\ unnoticed' = unnoticed \cup {f}
    BY <1>9 DEF ImportCommit
  <2>3. /\ Become(t, Idle) /\ spaces' = Recorded(task[t].vec) /\ fv' = fv
        /\ UNCHANGED <<index, embedDim, fence, sidecar, up>>
    BY <1>9 DEF ImportCommit, Finish
  <2>4. TasksOK'
    BY <2>3, Registers
  <2>5. TablesOK'
    BY <2>1, <2>2, <2>3, RecordedType, InsertRowType DEF TablesOK
  <2>6. HandleOK'
    BY <2>2, <2>3 DEF HandleOK
  <2> QED BY <2>4, <2>5, <2>6
<1> QED BY <1>1, <1>2, <1>3, <1>4, <1>5, <1>6, <1>7, <1>8, <1>9

\* The steps that write the handle.
LEMMA IndexType ==
    ASSUME TablesOK, HandleOK, TasksOK, NEW t \in Task,
           \/ NotifyInsert(t) \/ NotifyExpire(t) \/ Rebuild(t) \/ Fence(t)
           \/ FlushSave(t) \/ Abandon(t)
    PROVE  HandleOK' /\ TasksOK' /\ UNCHANGED table
<1>0. task[t] \in CallState /\ task[t] \in TaskState
  BY DEF TasksOK, CallState
<1>1. Finish(t) /\ UNCHANGED table
  BY DEF NotifyInsert, NotifyExpire, Rebuild, Fence, FlushSave, Abandon
<1>2. TasksOK'
  BY <1>1, IdleCall, Registers DEF Finish
<1>3. CASE NotifyInsert(t) \/ NotifyExpire(t)
  BY <1>0, <1>1, <1>2, <1>3
  DEF NotifyInsert, NotifyExpire, HandleOK, TaskState, Vector
<1>4. CASE Rebuild(t)
  BY <1>1, <1>2, <1>4, ScanType DEF Rebuild, HandleOK
<1>5. CASE Fence(t)
  <2>1. Dim[task[t].vec] \in Width
    BY <1>0, <1>5 DEF Fence, At, CallState, Carries, Width
  <2> QED BY <1>1, <1>2, <1>5, <2>1 DEF Fence, HandleOK
<1>6. CASE FlushSave(t)
  <2>1. task[t].image \subseteq Image
    BY <1>0 DEF TaskState
  <2> QED BY <1>1, <1>2, <1>6, <2>1 DEF FlushSave, HandleOK
<1>7. CASE Abandon(t)
  BY <1>1, <1>2, <1>7 DEF Abandon, HandleOK
<1> QED BY <1>3, <1>4, <1>5, <1>6, <1>7

LEMMA CrashType ==
    ASSUME TypeInv, Crash PROVE TypeInv'
<1>1. TasksOK'
  BY IdleCall DEF Crash, TasksOK
<1>2. HandleOK'
  BY DEF TypeInv, Crash, HandleOK, Vector
<1> QED BY <1>1, <1>2, SameTables DEF TypeInv, Crash

LEMMA OpenType ==
    ASSUME TypeInv, NEW d \in Width, Open(d) PROVE TypeInv'
<1>1. index' \in [FactId -> Vector]
  BY ScanType DEF Open, TypeInv, HandleOK, Image
<1>2. HandleOK'
  BY <1>1 DEF TypeInv, Open, HandleOK
<1> QED BY <1>2, SameTables DEF TypeInv, Open, TasksOK

LEMMA InitType == Init => TypeInv
<1> SUFFICES ASSUME Init PROVE TypeInv
  OBVIOUS
<1>1. TablesOK
  BY DEF Init, TablesOK, SpaceRow, Absent, Vector, Exists
<1>2. HandleOK
  BY DEF Init, HandleOK, Vector
<1>3. TasksOK
  BY IdleCall DEF Init, TasksOK
<1> QED BY <1>1, <1>2, <1>3 DEF TypeInv

LEMMA StepType ==
    ASSUME TypeInv, NEW t \in Task, TaskNext(t) PROVE TypeInv'
<1>1. CASE \/ AddEmbed(t) \/ Dream(t) \/ Import(t) \/ InsertRefused(t)
           \/ Consolidate(t) \/ ConsolidateRefused(t)
           \/ BackfillRead(t) \/ BackfillDone(t) \/ PromoteRefused(t)
           \/ FlushStamp(t) \/ FlushScan(t)
  BY <1>1, QuietType, SameTables, SameHandle DEF TypeInv
<1>2. CASE \/ AddCommit(t) \/ DreamPromote(t) \/ ImportCommit(t) \/ Expire(t)
           \/ Purge(t) \/ ConsolidateApply(t) \/ ReconstructBegin(t)
           \/ BackfillWrite(t) \/ Promote(t)
  BY <1>2, WriteType DEF TypeInv
<1>3. CASE \/ NotifyInsert(t) \/ NotifyExpire(t) \/ Rebuild(t) \/ Fence(t)
           \/ FlushSave(t) \/ Abandon(t)
  BY <1>3, IndexType, SameTables DEF TypeInv
<1> QED BY <1>1, <1>2, <1>3 DEF TaskNext

LEMMA NextType == TypeInv /\ [Next]_vars => TypeInv'
<1> SUFFICES ASSUME TypeInv, [Next]_vars PROVE TypeInv'
  OBVIOUS
<1>1. CASE UNCHANGED vars
  BY <1>1, SameTables, SameHandle DEF vars, table, handle, TypeInv, TasksOK
<1> QED BY <1>1, StepType, CrashType, OpenType DEF Next

\* Which steps write which tables.
LEMMA SpacesWriters ==
    ASSUME [Next]_vars
    PROVE  \/ UNCHANGED spaces
           \/ \E t \in Task : \/ AddCommit(t) \/ ImportCommit(t)
                              \/ ConsolidateApply(t) \/ ReconstructBegin(t)
                              \/ Promote(t)
<1>1. CASE UNCHANGED vars
  BY <1>1 DEF vars
<1>2. CASE Crash \/ \E d \in Width : Open(d)
  BY <1>2 DEF Crash, Open, table
<1>3. ASSUME NEW t \in Task, TaskNext(t)
      PROVE  \/ UNCHANGED spaces
             \/ AddCommit(t) \/ ImportCommit(t) \/ ConsolidateApply(t)
             \/ ReconstructBegin(t) \/ Promote(t)
  BY <1>3 DEF TaskNext, AddEmbed, Dream, DreamPromote, Import, ImportCommit,
    InsertRefused, Abandon, NotifyInsert, Expire, NotifyExpire, Purge,
    Consolidate, ConsolidateRefused, BackfillRead, BackfillWrite, BackfillDone,
    PromoteRefused, Rebuild, Fence, FlushStamp, FlushScan, FlushSave, table
<1> QED BY <1>1, <1>2, <1>3 DEF Next

LEMMA TaskWriters ==
    ASSUME NEW t \in Task, TaskNext(t)
    PROVE  \/ UNCHANGED table
           \/ AddCommit(t) \/ DreamPromote(t) \/ ImportCommit(t) \/ Expire(t)
           \/ Purge(t) \/ ConsolidateApply(t) \/ ReconstructBegin(t)
           \/ BackfillWrite(t) \/ Promote(t)
BY DEF TaskNext, AddEmbed, Dream, Import, ImportCommit, InsertRefused, Abandon,
  NotifyInsert, NotifyExpire, Consolidate, ConsolidateRefused,
  BackfillRead, BackfillDone, PromoteRefused, Rebuild, Fence,
  FlushStamp, FlushScan, FlushSave

LEMMA TableWriters ==
    ASSUME [Next]_vars
    PROVE  \/ UNCHANGED table
           \/ \E t \in Task : \/ AddCommit(t) \/ DreamPromote(t)
                              \/ ImportCommit(t) \/ Expire(t) \/ Purge(t)
                              \/ ConsolidateApply(t)
                              \/ ReconstructBegin(t) \/ BackfillWrite(t)
                              \/ Promote(t)
<1>1. CASE UNCHANGED vars
  BY <1>1 DEF vars, table
<1>2. CASE Crash \/ \E d \in Width : Open(d)
  BY <1>2 DEF Crash, Open
<1> QED BY <1>1, <1>2, TaskWriters DEF Next

\* The tables, the handle and the callers' registers keep their shape, and
\* every fact in the table has a vector some identity computed.
THEOREM SpacesTypeCorrect == Spec => []TypeOK
<1>1. Spec => []TypeInv
  BY InitType, NextType, PTL DEF Spec
<1> QED BY <1>1, TypeParts, PTL

-----------------------------------------------------------------------------
(* The rollback tail.                                                      *)

\* Only a promotion deprecates a space, and it leaves one active.
Succeeded == ActiveNames = {} => \A n \in Name : spaces[n].st # "deprecated"

LEMMA SucceededStep ==
    ASSUME TypeInv, Succeeded, [Next]_vars PROVE Succeeded'
<1> USE DEF Succeeded, ActiveNames
<1>1. TablesOK
  BY DEF TypeInv
<1>2. CASE UNCHANGED spaces
  BY <1>2
<1>3. ASSUME NEW p \in Identity, spaces' = Recorded(p) PROVE Succeeded'
  BY <1>1, <1>3 DEF Recorded, TablesOK, Name
<1>4. ASSUME NEW t \in Task,
             AddCommit(t) \/ ImportCommit(t) \/ ConsolidateApply(t)
      PROVE  Succeeded'
  <2>1. task[t].vec \in Identity
    BY <1>4 DEF TypeInv, TasksOK, CallState, Carries, At, AddCommit,
      ImportCommit, ConsolidateApply
  <2> QED BY <1>3, <1>4, <2>1 DEF AddCommit, ImportCommit, ConsolidateApply
<1>5. ASSUME NEW t \in Task, ReconstructBegin(t) PROVE Succeeded'
  <2>1. PICK p \in Identity :
          \/ /\ spaces[p].st = "absent"
             /\ spaces' = [spaces EXCEPT ![p] = [st |-> "populating", fp |-> p]]
          \/ UNCHANGED spaces
    BY <1>5 DEF ReconstructBegin
  <2> QED BY <1>1, <2>1 DEF TablesOK, Name
<1>6. ASSUME NEW t \in Task, Promote(t) PROVE Succeeded'
  <2>1. task[t].vec \in Name /\ spaces[task[t].vec].st = "populating"
    BY <1>6 DEF TypeInv, TasksOK, CallState, Carries, At, Promote, Promotable,
                Name
  <2>2. spaces'[task[t].vec].st = "active"
    BY <1>1, <1>6, <2>1 DEF Promote, TablesOK, SpaceRow
  <2> QED BY <2>1, <2>2
<1>7. \/ UNCHANGED spaces
      \/ \E t \in Task : \/ AddCommit(t) \/ ImportCommit(t)
                         \/ ConsolidateApply(t) \/ ReconstructBegin(t)
                         \/ Promote(t)
  BY SpacesWriters
<1> QED BY <1>2, <1>4, <1>5, <1>6, <1>7

\* The vectors kept for a fact, spelled out.
LEMMA KeptIs ==
    ASSUME NEW f, NEW x
    PROVE  x \in Kept(f) <=>
             \/ x = vec[f]
             \/ \E r \in fv : /\ r[1] = f /\ spaces[r[2]].st = "deprecated"
                              /\ x = r[3]
BY DEF Kept
LEMMA KeptIsPrime ==
    ASSUME NEW f, NEW x
    PROVE  x \in Kept(f)' <=>
             \/ x = vec'[f]
             \/ \E r \in fv' : /\ r[1] = f /\ spaces'[r[2]].st = "deprecated"
                               /\ x = r[3]
BY DEF Kept

LEMMA KeepStep ==
    ASSUME TypeInv, Succeeded, [Next]_vars,
           NEW f \in FactId, Exists(f), Exists(f)', NEW x \in Kept(f)
    PROVE  x \in Kept(f)'
<1>0. TablesOK
  BY DEF TypeInv
<1>a. \/ x = vec[f]
      \/ \E r \in fv : r[1] = f /\ spaces[r[2]].st = "deprecated" /\ x = r[3]
  BY KeptIs
\* A step that keeps the vector and the retained rows of f.
<1>1. ASSUME vec'[f] = vec[f],
             \A r \in fv : r[1] = f /\ spaces[r[2]].st = "deprecated" =>
                             r \in fv' /\ spaces'[r[2]].st = "deprecated"
      PROVE  x \in Kept(f)'
  BY <1>a, <1>1, KeptIsPrime
<1>2. CASE UNCHANGED table
  BY <1>1, <1>2 DEF table
<1>3. ASSUME NEW p, spaces' = Recorded(p)
      PROVE  \A n \in Name : spaces[n].st = "deprecated" =>
                               spaces'[n].st = "deprecated"
  BY <1>0, <1>3 DEF Recorded, Succeeded, TablesOK
<1>4. ASSUME NEW p, NEW g \in FactId, InsertRow(g, p) PROVE vec'[f] = vec[f]
  BY <1>0, <1>4 DEF InsertRow, Born, Exists, TablesOK
<1>5. \A r \in fv : r[2] \in Name
  BY <1>0 DEF TablesOK
<1>6. ASSUME NEW t \in Task,
             AddCommit(t) \/ ImportCommit(t) \/ ConsolidateApply(t)
      PROVE  x \in Kept(f)'
  <2>1. vec'[f] = vec[f]
    BY <1>4, <1>6 DEF AddCommit, ImportCommit, ConsolidateApply, InsertFact
  <2>2. fv' = fv /\ spaces' = Recorded(task[t].vec)
    BY <1>6 DEF AddCommit, ImportCommit, ConsolidateApply
  <2> QED BY <1>1, <1>3, <1>5, <2>1, <2>2
<1>7. ASSUME NEW t \in Task, DreamPromote(t) PROVE x \in Kept(f)'
  BY <1>1, <1>4, <1>7 DEF DreamPromote, InsertFact
<1>8. ASSUME NEW t \in Task, Expire(t) \/ BackfillWrite(t) PROVE x \in Kept(f)'
  BY <1>1, <1>8 DEF Expire, BackfillWrite
<1>9. ASSUME NEW t \in Task, Purge(t) PROVE x \in Kept(f)'
  <2>1. PICK g \in FactId :
          /\ fact' = [fact EXCEPT ![g] = "gone"]
          /\ vec' = [vec EXCEPT ![g] = NoVec]
          /\ fv' = {r \in fv : r[1] # g}
          /\ spaces' = spaces
    BY <1>9 DEF Purge
  <2>2. f # g
    BY <1>0, <2>1 DEF Exists, TablesOK
  <2>3. vec'[f] = vec[f]
    BY <1>0, <2>1, <2>2 DEF TablesOK
  <2> QED BY <1>1, <2>1, <2>2, <2>3
<1>10. ASSUME NEW t \in Task, ReconstructBegin(t) PROVE x \in Kept(f)'
  <2>1. PICK p \in Identity :
          \/ /\ spaces[p].st = "absent"
             /\ spaces' = [spaces EXCEPT ![p] = [st |-> "populating", fp |-> p]]
          \/ UNCHANGED spaces
    BY <1>10 DEF ReconstructBegin
  <2>2. \A n \in Name : spaces[n].st = "deprecated" =>
                          spaces'[n].st = "deprecated"
    BY <1>0, <2>1 DEF TablesOK
  <2> QED BY <1>1, <1>5, <1>10, <2>2 DEF ReconstructBegin
\* The promotion retains the vectors it replaces.
<1>11. ASSUME NEW t \in Task, Promote(t) PROVE x \in Kept(f)'
  <2> DEFINE p == task[t].vec
  <2>1. /\ ActiveNames # {} /\ spaces[p].st = "populating"
        /\ fv' = {r \in fv : r[2] # p} \cup Retained
        /\ spaces' = [n \in Name |->
                        IF n = p THEN [spaces[n] EXCEPT !.st = "active"]
                        ELSE IF n \in ActiveNames
                             THEN [spaces[n] EXCEPT !.st = "deprecated"]
                             ELSE spaces[n]]
    BY <1>11 DEF Promote, Promotable
  <2>2. CASE x = vec[f]
    <3>1. PICK n \in ActiveNames : TRUE
      BY <2>1
    <3>2. n \in Name /\ n # p
      BY <2>1 DEF ActiveNames
    <3>3. <<f, n, vec[f]>> \in fv'
      BY <2>1, <3>1 DEF Retained
    <3>4. spaces'[n].st = "deprecated"
      BY <1>0, <2>1, <3>1, <3>2 DEF TablesOK, SpaceRow
    <3> DEFINE r == <<f, n, vec[f]>>
    <3>5. r[1] = f /\ r[2] = n /\ r[3] = vec[f]
      OBVIOUS
    <3> HIDE DEF r
    <3> QED BY <2>2, <3>3, <3>4, <3>5, KeptIsPrime DEF r
  <2>3. CASE \E r \in fv : r[1] = f /\ spaces[r[2]].st = "deprecated" /\ x = r[3]
    <3>1. PICK r \in fv : /\ r[1] = f /\ spaces[r[2]].st = "deprecated"
                          /\ x = r[3]
      BY <2>3
    <3>2. r[2] # p /\ r[2] \notin ActiveNames
      BY <2>1, <3>1 DEF ActiveNames
    <3>3. r \in fv' /\ spaces'[r[2]].st = "deprecated"
      BY <1>5, <2>1, <3>1, <3>2
    <3> QED BY <3>1, <3>3, KeptIsPrime
  <2> QED BY <1>a, <2>2, <2>3
<1> QED BY <1>2, <1>6, <1>7, <1>8, <1>9, <1>10, <1>11, TableWriters

\* No insert, purge, backfill, promotion, crash or reopen loses a vector that
\* served a fact still in the table: promote_space retains what it replaces,
\* and nothing opens or backfills a deprecated space again.
THEOREM RollbackAlwaysKept == Spec => RollbackKept
<1>1. Init => Succeeded
  BY DEF Init, Succeeded, Absent
<1>2. Spec => [](TypeInv /\ Succeeded)
  BY <1>1, InitType, NextType, SucceededStep, PTL DEF Spec
<1>3. TypeInv /\ Succeeded /\ [Next]_vars =>
        [\A f \in FactId : Exists(f) /\ Exists(f)' => Kept(f) \subseteq Kept(f)']_vars
  BY KeepStep
<1> QED BY <1>2, <1>3, PTL DEF Spec, RollbackKept

-----------------------------------------------------------------------------
(* The width of the index.                                                 *)

Fit(image) ==
    \A f \in FactId : image.hnsw[f] # NoVec => Dim[image.hnsw[f]] = image.dim
\* A register that fits a handle opened at dimension d.
Fitting(s, d) ==
    /\ s.at = "notify" => Dim[s.vec] = d
    /\ \A image \in s.image : Fit(image) /\ (s.at = "scan" => image.dim = d)
TasksFit == \A t \in Task : Fitting(task[t], embedDim)
SidecarFits == \A image \in sidecar : Fit(image)
\* A closed handle has an empty index and no caller inside.
Down == ~up => /\ \A t \in Task : task[t] = Idle
               /\ index = [f \in FactId |-> NoVec]
WidthInv == IndexFitsHandle /\ TasksFit /\ SidecarFits /\ Down

LEMMA IdleFits == ASSUME NEW d PROVE Fitting(Idle, d)
BY DEF Fitting, Idle

\* Only an open and an end of the process change whether it is up.
LEMMA StaysUp ==
    ASSUME TypeInv, Down, NEW t \in Task, TaskNext(t)
    PROVE  up /\ up' /\ embedDim' = embedDim
<1>1. up
  <2>1. ~up => task[t].at = "idle"
    BY DEF Down, Idle
  <2>2. up \/ task[t].at # "idle"
    BY DEF TaskNext, AddEmbed, AddCommit, Dream, DreamPromote, Import,
      ImportCommit, InsertRefused, Abandon, NotifyInsert, Expire, NotifyExpire,
      Purge, Consolidate, ConsolidateApply, ConsolidateRefused,
      ReconstructBegin, BackfillRead, BackfillWrite, BackfillDone, Promote,
      PromoteRefused, Rebuild, Fence, FlushStamp, FlushScan, FlushSave, Call,
      At
  <2> QED BY <2>1, <2>2
<1>2. up' = up /\ embedDim' = embedDim
  BY DEF TaskNext, AddEmbed, AddCommit, Dream, DreamPromote, Import,
    ImportCommit, InsertRefused, Abandon, NotifyInsert, Expire, NotifyExpire,
    Purge, Consolidate, ConsolidateApply, ConsolidateRefused, ReconstructBegin,
    BackfillRead, BackfillWrite, BackfillDone, Promote, PromoteRefused,
    Rebuild, Fence, FlushStamp, FlushScan, FlushSave, handle
<1> QED BY <1>1, <1>2

LEMMA RegistersFit ==
    ASSUME TypeInv, TasksFit, embedDim' = embedDim, NEW t \in Task, NEW s,
           Become(t, s), Fitting(s, embedDim)
    PROVE  TasksFit'
<1>1. \A u \in Task : task'[u] = IF u = t THEN s ELSE task[u]
  BY DEF Become, TypeInv, TasksOK
<1>2. \A u \in Task : Fitting(task'[u], embedDim')
  BY <1>1 DEF TasksFit
<1>3. TasksFit' <=> \A u \in Task : Fitting(task'[u], embedDim')
  BY DEF TasksFit, Fitting, Fit
<1> QED BY <1>2, <1>3

\* The registers a step of a caller leaves fit.
LEMMA TasksFitStep ==
    ASSUME TypeInv, WidthInv, NEW t \in Task, TaskNext(t)
    PROVE  TasksFit'
<1>1. task[t] \in TaskState /\ Fitting(task[t], embedDim)
  BY DEF TypeInv, TasksOK, CallState, WidthInv, TasksFit
<1>2. embedDim' = embedDim /\ TasksFit
  BY StaysUp DEF WidthInv
<1>3. ASSUME Finish(t) PROVE TasksFit'
  BY <1>2, <1>3, IdleFits, RegistersFit DEF Finish
\* A stage that neither notifies nor scans, with the images at hand.
<1>4. ASSUME NEW s, Become(t, s), s.image \subseteq task[t].image,
             s.at \notin {"notify", "scan"}
      PROVE  TasksFit'
  BY <1>1, <1>2, <1>4, RegistersFit DEF Fitting
<1>5. ASSUME NEW p, InsertFact(t, p), Fits(p) PROVE TasksFit'
  <2>1. PICK f \in FactId :
          Become(t, [Idle EXCEPT !.at = "notify", !.vec = p, !.fact = f])
    BY <1>5 DEF InsertFact
  <2>2. Fitting([Idle EXCEPT !.at = "notify", !.vec = p, !.fact = f], embedDim)
    BY <1>5 DEF Fitting, Idle, Fits
  <2> QED BY <1>2, <2>1, <2>2, RegistersFit
<1>6. ASSUME NEW p, NEW x \in {"add", "promotion", "import", "consolidate"},
             Become(t, [Idle EXCEPT !.at = x, !.vec = p])
      PROVE  TasksFit'
  <2>1. /\ [Idle EXCEPT !.at = x, !.vec = p].image = {}
        /\ [Idle EXCEPT !.at = x, !.vec = p].at = x
    BY DEF Idle
  <2> QED BY <1>4, <1>6, <2>1
<1>7. CASE AddEmbed(t) \/ Dream(t) \/ Import(t) \/ Consolidate(t)
  BY <1>6, <1>7 DEF AddEmbed, Dream, Import, Consolidate
<1>8. CASE AddCommit(t) \/ DreamPromote(t)
  BY <1>5, <1>8 DEF AddCommit, DreamPromote
<1>9. CASE \/ InsertRefused(t) \/ NotifyInsert(t) \/ NotifyExpire(t)
           \/ ConsolidateApply(t) \/ ConsolidateRefused(t) \/ PromoteRefused(t)
           \/ Rebuild(t) \/ Fence(t) \/ FlushSave(t)
           \/ ImportCommit(t) \/ Abandon(t)
  BY <1>3, <1>9 DEF Import, ImportCommit, InsertRefused, Abandon, NotifyInsert,
    NotifyExpire, ConsolidateApply, ConsolidateRefused, PromoteRefused,
    Rebuild, Fence, FlushSave
<1>10. CASE Expire(t)
  <2>1. PICK f \in FactId : Become(t, [Idle EXCEPT !.at = "unindex", !.fact = f])
    BY <1>10 DEF Expire
  <2>2. /\ [Idle EXCEPT !.at = "unindex", !.fact = f].image = {}
        /\ [Idle EXCEPT !.at = "unindex", !.fact = f].at = "unindex"
    BY DEF Idle
  <2> QED BY <1>4, <2>1, <2>2
<1>11. CASE Purge(t)
  <2>1. \A u \in Task : task'[u] = task[u]
    BY <1>11 DEF Purge
  <2> QED BY <1>2, <2>1 DEF TasksFit, Fitting, Fit
<1>12. CASE ReconstructBegin(t)
  <2>1. PICK p \in Identity :
          Become(t, [Idle EXCEPT !.at = "window", !.vec = p, !.pass = 1])
    BY <1>12 DEF ReconstructBegin
  <2>2. /\ [Idle EXCEPT !.at = "window", !.vec = p, !.pass = 1].image = {}
        /\ [Idle EXCEPT !.at = "window", !.vec = p, !.pass = 1].at = "window"
    BY DEF Idle
  <2> QED BY <1>4, <2>1, <2>2
<1>13. CASE BackfillRead(t)
  <2> DEFINE rows == Window(task[t].vec, task[t].after)
  <2>1. PICK last \in rows :
          Become(t, [task[t] EXCEPT !.at = "embed", !.rows = rows,
                                    !.after = last])
    BY <1>13 DEF BackfillRead
  <2> HIDE DEF rows
  <2> DEFINE s == [task[t] EXCEPT !.at = "embed", !.rows = rows, !.after = last]
  <2>2. s.image = task[t].image /\ s.at = "embed"
    BY <1>1 DEF TaskState
  <2> QED BY <1>4, <2>1, <2>2
<1>14. CASE BackfillWrite(t)
  <2> DEFINE s == [task[t] EXCEPT !.at = "window", !.rows = {}]
  <2>1. Become(t, s) \/ Finish(t)
    BY <1>14 DEF BackfillWrite
  <2>2. s.image = task[t].image /\ s.at = "window"
    BY <1>1 DEF TaskState
  <2> QED BY <1>3, <1>4, <2>1, <2>2
<1>15. CASE BackfillDone(t)
  <2> DEFINE s == [task[t] EXCEPT !.pass = 2, !.after = 0]
             r == [task[t] EXCEPT !.at = "promote"]
  <2>1. (Become(t, s) \/ Become(t, r)) /\ task[t].at = "window"
    BY <1>15 DEF BackfillDone, At
  <2>2. s.image = task[t].image /\ s.at = task[t].at
    BY <1>1 DEF TaskState
  <2>3. r.image = task[t].image /\ r.at = "promote"
    BY <1>1 DEF TaskState
  <2> QED BY <1>4, <2>1, <2>2, <2>3
<1>16. CASE Promote(t)
  <2> DEFINE s == [task[t] EXCEPT !.at = "refresh"]
  <2>1. s.image = task[t].image /\ s.at = "refresh"
    BY <1>1 DEF TaskState
  <2> QED BY <1>4, <1>16, <2>1 DEF Promote
<1>17. CASE FlushStamp(t)
  <2> DEFINE image == [dim |-> embedDim, max_fact_id |-> Counters.max_fact_id,
                       active_fact_count |-> Counters.active_fact_count,
                       hnsw |-> [f \in FactId |-> NoVec]]
  <2>1. Become(t, [Idle EXCEPT !.at = "scan", !.image = {image}])
    BY <1>17 DEF FlushStamp
  <2>2. Fit(image) /\ image.dim = embedDim
    BY DEF Fit
  <2> HIDE DEF image
  <2>3. Fitting([Idle EXCEPT !.at = "scan", !.image = {image}], embedDim)
    BY <2>2 DEF Fitting, Idle
  <2> QED BY <1>2, <2>1, <2>3, RegistersFit
<1>18. CASE FlushScan(t)
  <2> DEFINE images == {[i EXCEPT !.hnsw = Scan] : i \in task[t].image}
             s == [task[t] EXCEPT !.at = "save", !.image = images]
  <2>1. Finish(t) \/ (Decodes(embedDim) /\ Become(t, s))
    BY <1>18 DEF FlushScan
  <2>2. s.image = images /\ s.at = "save"
    BY <1>1 DEF TaskState
  <2>3. ASSUME Decodes(embedDim), NEW i \in task[t].image
        PROVE  Fit([i EXCEPT !.hnsw = Scan])
    <3>1. i \in Image /\ i.dim = embedDim
      BY <1>1, <1>18, <2>3 DEF FlushScan, At, Fitting, TaskState
    <3>2. /\ [i EXCEPT !.hnsw = Scan].dim = embedDim
          /\ [i EXCEPT !.hnsw = Scan].hnsw = Scan
      BY <3>1 DEF Image
    <3>3. \A f \in FactId : Scan[f] # NoVec => Dim[Scan[f]] = embedDim
      BY <2>3 DEF Scan, Decodes
    <3> QED BY <3>2, <3>3 DEF Fit
  <2>4. ASSUME Decodes(embedDim) PROVE Fitting(s, embedDim)
    BY <2>2, <2>3, <2>4 DEF Fitting
  <2> HIDE DEF s
  <2> QED BY <1>2, <1>3, <2>1, <2>4, RegistersFit
<1> QED BY <1>7, <1>8, <1>9, <1>10, <1>11, <1>12, <1>13, <1>14, <1>15, <1>16,
           <1>17, <1>18 DEF TaskNext

\* The index and the sidecar a step of a caller leaves fit.
LEMMA IndexFitStep ==
    ASSUME TypeInv, WidthInv, NEW t \in Task, TaskNext(t)
    PROVE  IndexFitsHandle' /\ SidecarFits'
<1>1. task[t] \in TaskState /\ Fitting(task[t], embedDim)
  BY DEF TypeInv, TasksOK, CallState, WidthInv, TasksFit
<1>2. embedDim' = embedDim
  BY StaysUp DEF WidthInv
<1>3. index \in [FactId -> Vector] /\ IndexFitsHandle /\ SidecarFits
  BY DEF TypeInv, HandleOK, WidthInv
<1>4. ASSUME index' = index PROVE IndexFitsHandle'
  BY <1>2, <1>3, <1>4 DEF IndexFitsHandle
<1>5. ASSUME sidecar' = sidecar PROVE SidecarFits'
  BY <1>3, <1>5 DEF SidecarFits, Fit
<1>6. CASE NotifyInsert(t)
  <2>1. Dim[task[t].vec] = embedDim
    BY <1>1, <1>6 DEF Fitting, NotifyInsert, At
  <2>2. IndexFitsHandle'
    BY <1>2, <1>3, <1>6, <2>1 DEF NotifyInsert, IndexFitsHandle
  <2> QED BY <1>5, <1>6, <2>2 DEF NotifyInsert
<1>7. CASE NotifyExpire(t)
  <2>1. IndexFitsHandle'
    BY <1>2, <1>3, <1>7 DEF NotifyExpire, IndexFitsHandle
  <2> QED BY <1>5, <1>7, <2>1 DEF NotifyExpire
<1>8. CASE Rebuild(t)
  <2>1. Decodes(embedDim) =>
          \A f \in FactId : Scan[f] # NoVec => Dim[Scan[f]] = embedDim
    BY DEF Scan, Decodes
  <2>2. IndexFitsHandle'
    BY <1>2, <1>3, <1>8, <2>1 DEF Rebuild, IndexFitsHandle
  <2> QED BY <1>5, <1>8, <2>2 DEF Rebuild
<1>9. CASE FlushSave(t)
  BY <1>1, <1>4, <1>9 DEF FlushSave, Fitting, SidecarFits, Fit
<1>10. CASE ~(NotifyInsert(t) \/ NotifyExpire(t) \/ Rebuild(t) \/ FlushSave(t))
  <2>1. index' = index /\ sidecar' = sidecar
    BY <1>10 DEF TaskNext, AddEmbed, AddCommit, Dream, DreamPromote, Import,
      ImportCommit, InsertRefused, Abandon, Expire, Purge, Consolidate,
      ConsolidateApply, ConsolidateRefused, ReconstructBegin, BackfillRead,
      BackfillWrite, BackfillDone, Promote, PromoteRefused, Fence, FlushStamp,
      FlushScan, handle
  <2> QED BY <1>4, <1>5, <2>1
<1> QED BY <1>6, <1>7, <1>8, <1>9, <1>10

LEMMA WidthStep ==
    ASSUME TypeInv, WidthInv, [Next]_vars PROVE WidthInv'
<1>1. CASE UNCHANGED vars
  BY <1>1 DEF vars, WidthInv, IndexFitsHandle, TasksFit, Fitting, SidecarFits,
              Fit, Down
<1>2. ASSUME NEW t \in Task, TaskNext(t) PROVE WidthInv'
  BY <1>2, TasksFitStep, IndexFitStep, StaysUp DEF WidthInv, Down
<1>3. CASE Crash
  <2>1. /\ index' = [f \in FactId |-> NoVec] /\ task' = [t \in Task |-> Idle]
        /\ sidecar' = sidecar
    BY <1>3 DEF Crash
  <2>2. IndexFitsHandle' /\ Down'
    BY <2>1 DEF IndexFitsHandle, Down
  <2>3. TasksFit'
    <3>1. \A t \in Task : task'[t].at = "idle" /\ task'[t].image = {}
      BY <2>1 DEF Idle
    <3> QED BY <3>1 DEF TasksFit, Fitting
  <2>4. SidecarFits'
    BY <2>1 DEF WidthInv, SidecarFits, Fit
  <2> QED BY <2>2, <2>3, <2>4 DEF WidthInv
\* Reopening at another dimension finds nobody inside, and an index either
\* rebuilt at that dimension or loaded from an image of it.
<1>4. ASSUME NEW d \in Width, Open(d) PROVE WidthInv'
  <2>1. /\ ~up /\ up' /\ embedDim' = d /\ task' = task /\ sidecar' = sidecar
        /\ \/ \E image \in sidecar : image.dim = d /\ index' = image.hnsw
           \/ Decodes(d) /\ index' = Scan
    BY <1>4 DEF Open, Accepted
  <2>2. IndexFitsHandle'
    BY <2>1 DEF WidthInv, SidecarFits, Fit, IndexFitsHandle, Decodes, Scan
  <2>3. TasksFit'
    <3>1. \A t \in Task : task'[t].at = "idle" /\ task'[t].image = {}
      BY <2>1 DEF WidthInv, Down, Idle
    <3> QED BY <3>1 DEF TasksFit, Fitting
  <2>4. SidecarFits' /\ Down'
    BY <2>1 DEF WidthInv, SidecarFits, Fit, Down
  <2> QED BY <2>2, <2>3, <2>4 DEF WidthInv
<1> QED BY <1>1, <1>2, <1>3, <1>4 DEF Next

LEMMA InitWidth == Init => WidthInv
<1> SUFFICES ASSUME Init PROVE WidthInv
  OBVIOUS
<1>1. IndexFitsHandle /\ SidecarFits /\ Down
  BY DEF Init, IndexFitsHandle, SidecarFits, Down
<1>2. TasksFit
  BY IdleFits DEF Init, TasksFit
<1> QED BY <1>1, <1>2 DEF WidthInv

\* The index of the handle never holds a vector of another width, whatever
\* notify, rebuild, flush, crash and reopen at another dimension interleave.
THEOREM IndexAlwaysFits == Spec => []IndexFitsHandle
<1>1. Spec => [](TypeInv /\ WidthInv)
  BY InitType, NextType, InitWidth, WidthStep, PTL DEF Spec
<1>2. WidthInv => IndexFitsHandle
  BY DEF WidthInv
<1> QED BY <1>1, <1>2, PTL

-----------------------------------------------------------------------------
(* The index holds every active fact.                                      *)

\* Rowids are handed out in order.
BornInOrder ==
    \A f, g \in FactId : f < g /\ fact[f] = "none" => fact[g] = "none"

\* Every rowid up to the highest an image counted has been handed out: a fact
\* inserted after the image was stamped lies above.
Counted(i, rows) == \A f \in FactId : f <= i.max_fact_id => rows[f] # "none"

\* The image has the vectors of the facts it counted and that are still active.
Complete(i, rows) ==
    \A f \in FactId : f <= i.max_fact_id /\ rows[f] = "active" => i.hnsw[f] # NoVec

\* An expired fact does not come back: a notice of its expiry, however late,
\* takes no entry of an active fact.
LeavesForGood(s, rows) ==
    s.at = "unindex" => s.fact \in FactId /\ rows[s.fact] \in {"expired", "gone"}

Imaged(s, rows) ==
    \A i \in s.image : /\ s.at \in {"scan", "save"} => Counted(i, rows)
                       /\ s.at = "save" => Complete(i, rows)

RegistersInv ==
    \A t \in Task : LeavesForGood(task[t], fact) /\ Imaged(task[t], fact)
SidecarComplete == \A i \in sidecar : Counted(i, fact) /\ Complete(i, fact)

EntryInv == BornInOrder /\ RegistersInv /\ SidecarComplete /\ IndexCoversActive

\* The life of a fact under a step of a caller: a row once there stays known,
\* one that has left stays away, and one that appears is about to be notified,
\* or is known not to be.
LEMMA FactMoves ==
    ASSUME TypeInv, NEW t \in Task, TaskNext(t)
    PROVE  /\ \A f \in FactId : fact[f] # "none" => fact'[f] # "none"
           /\ \A f \in FactId : fact[f] \in {"expired", "gone"} =>
                                   fact'[f] \in {"expired", "gone"}
           /\ \A f \in FactId : fact[f] = "none" /\ fact'[f] # "none" =>
                 /\ Born(f)
                 /\ \/ task'[t].at = "notify" /\ task'[t].fact = f
                    \/ f \in unnoticed'
<1>0. /\ fact \in [FactId -> {"none", "active", "expired", "gone"}]
      /\ task \in [Task -> CallState]
  BY DEF TypeInv, TablesOK, TasksOK
<1>1. ASSUME NEW p, NEW g \in FactId, InsertRow(g, p)
      PROVE  /\ \A f \in FactId : fact[f] # "none" => fact'[f] = fact[f]
             /\ \A f \in FactId : fact[f] = "none" /\ fact'[f] # "none" =>
                   Born(f) /\ f = g
  BY <1>0, <1>1 DEF InsertRow, Born
<1>2. CASE AddCommit(t) \/ DreamPromote(t)
  <2> DEFINE p == task[t].vec
  <2>1. PICK g \in FactId :
          /\ InsertRow(g, p)
          /\ Become(t, [Idle EXCEPT !.at = "notify", !.vec = p, !.fact = g])
    BY <1>2 DEF AddCommit, DreamPromote, InsertFact
  <2>2. task'[t].at = "notify" /\ task'[t].fact = g
    BY <1>0, <2>1 DEF Become, Idle
  <2> QED BY <1>0, <1>1, <2>1, <2>2
<1>3. CASE ImportCommit(t)
  <2>1. PICK g \in FactId :
          InsertRow(g, task[t].vec) /\ unnoticed' = unnoticed \cup {g}
    BY <1>3 DEF ImportCommit
  <2> QED BY <1>0, <1>1, <2>1
<1>4. CASE Expire(t) \/ Purge(t)
  BY <1>0, <1>4 DEF Expire, Purge
<1>5. CASE ~(\/ AddCommit(t) \/ DreamPromote(t) \/ ImportCommit(t)
             \/ Expire(t) \/ Purge(t))
  <2>1. fact' = fact
    BY <1>5 DEF TaskNext, table, AddEmbed, Dream, Import, InsertRefused,
      Abandon, NotifyInsert, NotifyExpire, Consolidate, ConsolidateApply,
      ConsolidateRefused, ReconstructBegin, BackfillRead, BackfillWrite,
      BackfillDone, Promote, PromoteRefused, Rebuild, Fence, FlushStamp,
      FlushScan, FlushSave
  <2> QED BY <2>1
<1> QED BY <1>2, <1>3, <1>4, <1>5

LEMMA OrderStep ==
    ASSUME TypeInv, BornInOrder, NEW t \in Task, TaskNext(t)
    PROVE  BornInOrder'
<1>1. \A f \in FactId : f \in Nat
  BY SpaceBounds DEF FactId
<1> QED BY <1>1, FactMoves DEF BornInOrder, Born

\* What an image has, it keeps having.
LEMMA ImageStep ==
    ASSUME TypeInv, NEW t \in Task, TaskNext(t), NEW i, Counted(i, fact)
    PROVE  Counted(i, fact') /\ (Complete(i, fact) => Complete(i, fact'))
<1>1. Counted(i, fact')
  BY FactMoves DEF Counted
<1>2. ASSUME Complete(i, fact) PROVE Complete(i, fact')
  <2>1. \A f \in FactId :
           fact[f] # "none" /\ fact'[f] = "active" => fact[f] = "active"
    BY FactMoves DEF TypeInv, TablesOK
  <2> QED BY <1>2, <2>1 DEF Counted, Complete
<1> QED BY <1>1, <1>2

\* The highest rowid: every row in the table lies at or below it, and every
\* rowid at or below it has been handed out.
LEMMA HighestRowid ==
    ASSUME TypeInv, BornInOrder
    PROVE  /\ \A f \in FactId : Exists(f) => f <= Counters.max_fact_id
           /\ \A f \in FactId : f <= Counters.max_fact_id => fact[f] # "none"
<1> DEFINE Below == {i \in FactId : \E f \in FactId : i <= f /\ Exists(f)}
<1>1. Counters.max_fact_id = Cardinality(Below)
  BY Zenon DEF Counters
<1>2. \A f \in FactId : f \in Nat /\ f > 0
  BY SpaceBounds DEF FactId
<1>3. IsFiniteSet(Below) /\ Cardinality(Below) \in Nat
  <2>1. IsFiniteSet(FactId) /\ Below \in SUBSET FactId
    BY FS_Interval, SpaceBounds DEF FactId
  <2> QED BY <2>1, FS_Subset, FS_CardinalityType
<1>4. ASSUME NEW f \in FactId, Exists(f) PROVE f <= Cardinality(Below)
  <2>1. 1..f \in SUBSET Below
    BY <1>2, <1>4, SpaceBounds DEF FactId
  <2>2. Cardinality(1..f) = f
    BY <1>2, FS_Interval
  <2> HIDE DEF Below
  <2> QED BY <1>3, <2>1, <2>2, FS_Subset
<1>5. ASSUME NEW f \in FactId, fact[f] = "none" PROVE Cardinality(Below) < f
  <2>1. \A g \in FactId : g >= f => fact[g] = "none"
    BY <1>2, <1>5 DEF BornInOrder
  <2>2. Below \in SUBSET (1..f - 1)
    <3> SUFFICES ASSUME NEW i \in FactId, NEW g \in FactId, i <= g, Exists(g)
                 PROVE  i \in 1..f - 1
      OBVIOUS
    <3>1. ~(g >= f)
      BY <2>1 DEF Exists
    <3> QED BY <1>2, <3>1
  <2>3. IsFiniteSet(1..f - 1) /\ Cardinality(1..f - 1) = f - 1
    BY <1>2, FS_Interval
  <2> HIDE DEF Below
  <2>4. Cardinality(Below) <= Cardinality(1..f - 1)
    BY <2>2, <2>3, FS_Subset
  <2> QED BY <1>2, <1>3, <2>3, <2>4
<1> HIDE DEF Below
<1> QED BY <1>1, <1>2, <1>3, <1>4, <1>5

LEMMA ScanHolds ==
    ASSUME TypeInv, NEW f \in FactId, fact[f] = "active" PROVE Scan[f] # NoVec
BY SpaceNames DEF Scan, TypeInv, TablesOK, Exists

\* What a caller holds stays true while another one steps.
LEMMA RegisterStep ==
    ASSUME TypeInv, NEW t \in Task, TaskNext(t), NEW s,
           LeavesForGood(s, fact), Imaged(s, fact)
    PROVE  LeavesForGood(s, fact') /\ Imaged(s, fact')
<1>1. LeavesForGood(s, fact')
  BY FactMoves DEF LeavesForGood
<1>2. Imaged(s, fact')
  BY ImageStep DEF Imaged
<1> QED BY <1>1, <1>2

\* A register that changes to s, or none.
LEMMA RegistersStep ==
    ASSUME TypeInv, RegistersInv, NEW t \in Task, TaskNext(t), NEW s, Become(t, s),
           LeavesForGood(s, fact'), Imaged(s, fact')
    PROVE  RegistersInv'
<1>1. \A u \in Task : task'[u] = IF u = t THEN s ELSE task[u]
  BY DEF Become, TypeInv, TasksOK
<1>2. ASSUME NEW u \in Task
      PROVE  LeavesForGood(task'[u], fact') /\ Imaged(task'[u], fact')
  <2>1. LeavesForGood(task[u], fact) /\ Imaged(task[u], fact)
    BY DEF RegistersInv
  <2>2. LeavesForGood(task[u], fact') /\ Imaged(task[u], fact')
    BY <2>1, RegisterStep
  <2> QED BY <1>1, <2>2
<1> QED BY <1>2 DEF RegistersInv

\* A stage that neither unindexes nor holds an image.
LEMMA PlainStage ==
    ASSUME NEW s, s.at \notin {"unindex", "scan", "save"}, NEW rows
    PROVE  LeavesForGood(s, rows) /\ Imaged(s, rows)
BY DEF LeavesForGood, Imaged

LEMMA RegistersEntryStep ==
    ASSUME TypeInv, EntryInv, NEW t \in Task, TaskNext(t)
    PROVE  RegistersInv'
<1>0. RegistersInv /\ BornInOrder /\ task[t] \in TaskState
      /\ task \in [Task -> TaskState]
  BY DEF EntryInv, TypeInv, TasksOK, CallState
<1>1. ASSUME NEW s, Become(t, s), s.at \notin {"unindex", "scan", "save"}
      PROVE  RegistersInv'
  BY <1>0, <1>1, PlainStage, RegistersStep
<1>2. ASSUME Finish(t) PROVE RegistersInv'
  <2>1. Idle.at \notin {"unindex", "scan", "save"}
    BY DEF Idle
  <2> QED BY <1>1, <1>2, <2>1 DEF Finish
<1>3. CASE AddCommit(t) \/ DreamPromote(t)
  <2> DEFINE p == task[t].vec
  <2>1. PICK f \in FactId :
          Become(t, [Idle EXCEPT !.at = "notify", !.vec = p, !.fact = f])
    BY <1>3 DEF AddCommit, DreamPromote, InsertFact
  <2>2. [Idle EXCEPT !.at = "notify", !.vec = p, !.fact = f].at = "notify"
    BY DEF Idle
  <2> QED BY <1>1, <2>1, <2>2
<1>4. CASE AddEmbed(t) \/ Dream(t) \/ Import(t) \/ Consolidate(t)
  <2>1. ASSUME NEW p, NEW x \in {"add", "promotion", "import", "consolidate"},
               Become(t, [Idle EXCEPT !.at = x, !.vec = p])
        PROVE  RegistersInv'
    <3>1. [Idle EXCEPT !.at = x, !.vec = p].at = x
      BY DEF Idle
    <3> QED BY <1>1, <2>1, <3>1
  <2> QED BY <1>4, <2>1 DEF AddEmbed, Dream, Import, Consolidate
<1>5. CASE \/ InsertRefused(t) \/ NotifyInsert(t) \/ NotifyExpire(t)
           \/ ConsolidateApply(t) \/ ConsolidateRefused(t) \/ PromoteRefused(t)
           \/ Rebuild(t) \/ Fence(t) \/ FlushSave(t)
           \/ ImportCommit(t) \/ Abandon(t)
  BY <1>2, <1>5 DEF Import, ImportCommit, InsertRefused, Abandon, NotifyInsert,
    NotifyExpire, ConsolidateApply, ConsolidateRefused, PromoteRefused,
    Rebuild, Fence, FlushSave
<1>6. CASE Expire(t)
  <2>1. PICK f \in FactId :
          /\ fact' = [fact EXCEPT ![f] = "expired"]
          /\ Become(t, [Idle EXCEPT !.at = "unindex", !.fact = f])
    BY <1>6 DEF Expire
  <2> DEFINE s == [Idle EXCEPT !.at = "unindex", !.fact = f]
  <2>2. s.at = "unindex" /\ s.fact = f /\ s.image = {}
    BY DEF Idle
  <2>3. fact'[f] = "expired"
    BY <2>1 DEF TypeInv, TablesOK
  <2> HIDE DEF s
  <2>4. LeavesForGood(s, fact') /\ Imaged(s, fact')
    BY <2>2, <2>3 DEF LeavesForGood, Imaged
  <2>5. Become(t, s)
    BY <2>1 DEF s
  <2> QED BY <1>0, <2>4, <2>5, RegistersStep
<1>7. CASE Purge(t)
  <2>1. task' = task
    BY <1>7 DEF Purge
  <2>2. \A u \in Task : LeavesForGood(task[u], fact') /\ Imaged(task[u], fact')
    BY <1>0, RegisterStep DEF RegistersInv
  <2> QED BY <2>1, <2>2 DEF RegistersInv
<1>8. CASE ReconstructBegin(t)
  <2>1. PICK p \in Identity :
          Become(t, [Idle EXCEPT !.at = "window", !.vec = p, !.pass = 1])
    BY <1>8 DEF ReconstructBegin
  <2>2. [Idle EXCEPT !.at = "window", !.vec = p, !.pass = 1].at = "window"
    BY DEF Idle
  <2> QED BY <1>1, <2>1, <2>2
<1>9. CASE BackfillRead(t)
  <2> DEFINE rows == Window(task[t].vec, task[t].after)
  <2>1. PICK last \in rows :
          Become(t, [task[t] EXCEPT !.at = "embed", !.rows = rows,
                                    !.after = last])
    BY <1>9 DEF BackfillRead
  <2> HIDE DEF rows
  <2> DEFINE s == [task[t] EXCEPT !.at = "embed", !.rows = rows, !.after = last]
  <2>2. s.at = "embed"
    BY <1>0 DEF TaskState
  <2> QED BY <1>1, <2>1, <2>2
<1>10. CASE BackfillWrite(t)
  <2> DEFINE s == [task[t] EXCEPT !.at = "window", !.rows = {}]
  <2>1. Become(t, s) \/ Finish(t)
    BY <1>10 DEF BackfillWrite
  <2>2. s.at = "window"
    BY <1>0 DEF TaskState
  <2> QED BY <1>1, <1>2, <2>1, <2>2
<1>11. CASE BackfillDone(t)
  <2> DEFINE s == [task[t] EXCEPT !.pass = 2, !.after = 0]
             r == [task[t] EXCEPT !.at = "promote"]
  <2>1. (Become(t, s) \/ Become(t, r)) /\ task[t].at = "window"
    BY <1>11 DEF BackfillDone, At
  <2>2. s.at = task[t].at /\ r.at = "promote"
    BY <1>0 DEF TaskState
  <2> QED BY <1>1, <2>1, <2>2
<1>12. CASE Promote(t)
  <2> DEFINE s == [task[t] EXCEPT !.at = "refresh"]
  <2>1. s.at = "refresh"
    BY <1>0 DEF TaskState
  <2> QED BY <1>1, <1>12, <2>1 DEF Promote
<1>13. CASE FlushStamp(t)
  <2> DEFINE image == [dim |-> embedDim, max_fact_id |-> Counters.max_fact_id,
                       active_fact_count |-> Counters.active_fact_count,
                       hnsw |-> [f \in FactId |-> NoVec]]
             s == [Idle EXCEPT !.at = "scan", !.image = {image}]
  <2>1. Become(t, s) /\ fact' = fact
    BY <1>13 DEF FlushStamp, table
  <2>2. image.max_fact_id = Counters.max_fact_id
    OBVIOUS
  <2>3. Counted(image, fact)
    BY <1>0, <2>2, HighestRowid DEF Counted
  <2> HIDE DEF image
  <2>4. s.at = "scan" /\ s.image = {image}
    BY DEF Idle
  <2> HIDE DEF s
  <2>5. LeavesForGood(s, fact') /\ Imaged(s, fact')
    BY <2>1, <2>3, <2>4 DEF LeavesForGood, Imaged
  <2> QED BY <1>0, <2>1, <2>5, RegistersStep
<1>14. CASE FlushScan(t)
  <2> DEFINE images == {[i EXCEPT !.hnsw = Scan] : i \in task[t].image}
             s == [task[t] EXCEPT !.at = "save", !.image = images]
  <2>1. (Finish(t) \/ Become(t, s)) /\ fact' = fact
    BY <1>14 DEF FlushScan, table
  <2>2. s.image = images /\ s.at = "save"
    BY <1>0 DEF TaskState
  <2>3. ASSUME NEW i \in task[t].image
        PROVE  LET j == [i EXCEPT !.hnsw = Scan]
               IN  Counted(j, fact) /\ Complete(j, fact)
    <3> DEFINE j == [i EXCEPT !.hnsw = Scan]
    <3>1. i \in Image /\ Counted(i, fact)
      BY <1>0, <1>14 DEF FlushScan, At, RegistersInv, Imaged, TaskState
    <3>2. j.max_fact_id = i.max_fact_id /\ j.hnsw = Scan
      BY <3>1 DEF Image
    <3> HIDE DEF j
    <3>3. Counted(j, fact)
      BY <3>1, <3>2 DEF Counted
    <3>4. Complete(j, fact)
      BY <3>2, ScanHolds DEF Complete
    <3> QED BY <3>3, <3>4, Zenon DEF j
  <2>4. \A j \in images : Counted(j, fact) /\ Complete(j, fact)
    BY <2>3, Zenon
  <2> HIDE DEF s, images
  <2>5. LeavesForGood(s, fact') /\ Imaged(s, fact')
    BY <2>1, <2>2, <2>4 DEF LeavesForGood, Imaged
  <2> QED BY <1>0, <1>2, <2>1, <2>5, RegistersStep
<1> QED BY <1>3, <1>4, <1>5, <1>6, <1>7, <1>8, <1>9, <1>10, <1>11, <1>12, <1>13,
           <1>14 DEF TaskNext

LEMMA SidecarEntryStep ==
    ASSUME TypeInv, EntryInv, NEW t \in Task, TaskNext(t)
    PROVE  SidecarComplete'
<1>1. CASE FlushSave(t)
  <2>1. \A i \in sidecar' : Counted(i, fact) /\ Complete(i, fact)
    BY <1>1 DEF FlushSave, At, EntryInv, RegistersInv, Imaged
  <2>2. fact' = fact
    BY <1>1 DEF FlushSave, table
  <2> QED BY <2>1, <2>2 DEF SidecarComplete
<1>2. CASE ~FlushSave(t)
  <2>1. sidecar' = sidecar
    BY <1>2 DEF TaskNext, AddEmbed, AddCommit, Dream, DreamPromote, Import,
      ImportCommit, InsertRefused, Abandon, NotifyInsert, Expire, NotifyExpire,
      Purge, Consolidate, ConsolidateApply, ConsolidateRefused,
      ReconstructBegin, BackfillRead, BackfillWrite, BackfillDone, Promote,
      PromoteRefused, Rebuild, Fence, FlushStamp, FlushScan, handle
  <2>2. \A i \in sidecar : Counted(i, fact') /\ Complete(i, fact')
    BY ImageStep DEF EntryInv, SidecarComplete
  <2> QED BY <2>1, <2>2 DEF SidecarComplete
<1> QED BY <1>1, <1>2

\* An active fact keeps its entry, or its inserter is still to make it, or
\* nobody is.
LEMMA CoversStep ==
    ASSUME TypeInv, EntryInv, NEW t \in Task, TaskNext(t)
    PROVE  IndexCoversActive'
<1>0. /\ IndexCoversActive /\ index \in [FactId -> Vector]
      /\ fact \in [FactId -> {"none", "active", "expired", "gone"}]
      /\ task[t] \in CallState
  BY DEF EntryInv, TypeInv, TablesOK, HandleOK, TasksOK
<1>1. up' = up
  BY DEF TaskNext, AddEmbed, AddCommit, Dream, DreamPromote, Import,
    ImportCommit, InsertRefused, Abandon, NotifyInsert, Expire, NotifyExpire,
    Purge, Consolidate, ConsolidateApply, ConsolidateRefused, ReconstructBegin,
    BackfillRead, BackfillWrite, BackfillDone, Promote, PromoteRefused,
    Rebuild, Fence, FlushStamp, FlushScan, FlushSave, handle
<1>2. \A u \in Task : u # t => task'[u] = task[u]
  BY DEF TypeInv, TasksOK, TaskNext, AddEmbed, AddCommit, Dream, DreamPromote,
    Import, ImportCommit, InsertRefused, Abandon, NotifyInsert, Expire,
    NotifyExpire, Purge, Consolidate, ConsolidateApply, ConsolidateRefused,
    ReconstructBegin, BackfillRead, BackfillWrite, BackfillDone, Promote,
    PromoteRefused, Rebuild, Fence, FlushStamp, FlushScan, FlushSave,
    InsertFact, InsertRow, Finish, Become
<1> SUFFICES ASSUME up', NEW f \in FactId, fact'[f] = "active"
             PROVE  \/ index'[f] # NoVec
                    \/ \E u \in Task : task'[u].at = "notify" /\ task'[u].fact = f
                    \/ f \in unnoticed'
  BY DEF IndexCoversActive, At
<1>3. CASE fact[f] = "none"
  BY <1>3, FactMoves
<1>4. CASE fact[f] # "none"
  <2>1. fact[f] = "active"
    BY <1>0, <1>4, FactMoves
  <2>2. \/ index[f] # NoVec
        \/ \E u \in Task : task[u].at = "notify" /\ task[u].fact = f
        \/ f \in unnoticed
    BY <1>0, <1>1, <2>1 DEF IndexCoversActive, At
  <2>3. CASE NotifyInsert(t)
    <3>1. /\ unnoticed' = unnoticed
          /\ index' = [index EXCEPT ![task[t].fact] = task[t].vec]
          /\ task[t].vec \in Identity
      BY <1>0, <2>3 DEF NotifyInsert, At, CallState, Carries
    <3>2. CASE task[t].fact = f
      BY <1>0, <3>1, <3>2, SpaceNames
    <3>3. CASE task[t].fact # f
      BY <1>0, <1>2, <2>2, <3>1, <3>3
    <3> QED BY <3>2, <3>3
  <2>4. CASE NotifyExpire(t)
    <3>1. /\ index' = [index EXCEPT ![task[t].fact] = NoVec]
          /\ task[t].at = "unindex" /\ unnoticed' = unnoticed
      BY <2>4 DEF NotifyExpire, At
    <3>2. task[t].fact # f
      BY <2>1, <3>1 DEF EntryInv, RegistersInv, LeavesForGood
    <3> QED BY <1>0, <1>2, <2>2, <3>1, <3>2
  <2>5. CASE Rebuild(t)
    <3>1. index' = Scan \/ (index' = index /\ unnoticed' = unnoticed)
      BY <2>5 DEF Rebuild
    <3>2. task[t].at # "notify"
      BY <2>5 DEF Rebuild, At
    <3> QED BY <1>2, <2>1, <2>2, <3>1, <3>2, ScanHolds
  <2>6. CASE Abandon(t)
    <3>1. /\ index' = index /\ unnoticed \subseteq unnoticed'
          /\ task[t].at = "notify" /\ task[t].fact = f => f \in unnoticed'
      BY <2>6 DEF Abandon, At
    <3> QED BY <1>2, <2>2, <3>1
  <2>7. CASE ~(NotifyInsert(t) \/ NotifyExpire(t) \/ Rebuild(t) \/ Abandon(t))
    <3>1. index' = index /\ unnoticed \subseteq unnoticed'
      BY <2>7 DEF TaskNext, AddEmbed, AddCommit, Dream, DreamPromote, Import,
        ImportCommit, InsertRefused, Expire, Purge, Consolidate,
        ConsolidateApply, ConsolidateRefused, ReconstructBegin, BackfillRead,
        BackfillWrite, BackfillDone, Promote, PromoteRefused, Fence,
        FlushStamp, FlushScan, FlushSave, handle
    <3>2. task[t].at # "notify" \/ task' = task
      BY <2>7 DEF TaskNext, AddEmbed, AddCommit, Dream, DreamPromote, Import,
        ImportCommit, InsertRefused, Expire, Purge, Consolidate,
        ConsolidateApply, ConsolidateRefused, ReconstructBegin, BackfillRead,
        BackfillWrite, BackfillDone, Promote, PromoteRefused, Fence,
        FlushStamp, FlushScan, FlushSave, Call, At
    <3> QED BY <1>2, <2>2, <3>1, <3>2
  <2> QED BY <2>3, <2>4, <2>5, <2>6, <2>7
<1> QED BY <1>3, <1>4

LEMMA EntryStep == TypeInv /\ EntryInv /\ [Next]_vars => EntryInv'
<1> SUFFICES ASSUME TypeInv, EntryInv, [Next]_vars PROVE EntryInv'
  OBVIOUS
<1>1. CASE UNCHANGED vars
  BY <1>1 DEF vars, EntryInv, BornInOrder, RegistersInv, SidecarComplete,
              IndexCoversActive, At
<1>2. ASSUME NEW t \in Task, TaskNext(t) PROVE EntryInv'
  BY <1>2, OrderStep, RegistersEntryStep, SidecarEntryStep, CoversStep DEF EntryInv
<1>3. CASE Crash
  <2>1. ~up' /\ fact' = fact /\ sidecar' = sidecar /\ task' = [t \in Task |-> Idle]
    BY <1>3 DEF Crash, table
  <2>2. RegistersInv'
    <3>1. Idle.at \notin {"unindex", "scan", "save"}
      BY DEF Idle
    <3>2. \A t \in Task : LeavesForGood(task'[t], fact') /\ Imaged(task'[t], fact')
      BY <2>1, <3>1, PlainStage
    <3> QED BY <3>2 DEF RegistersInv
  <2>3. BornInOrder' /\ SidecarComplete' /\ IndexCoversActive'
    BY <2>1 DEF EntryInv, BornInOrder, SidecarComplete, IndexCoversActive
  <2> QED BY <2>2, <2>3 DEF EntryInv
\* An accepted image was stamped when the highest rowid was the one of now.
<1>4. ASSUME NEW d \in Width, Open(d) PROVE EntryInv'
  <2>1. /\ fact' = fact /\ sidecar' = sidecar /\ task' = task
        /\ \/ \E i \in sidecar : Accepted(i, d) /\ index' = i.hnsw
           \/ index' = Scan
    BY <1>4 DEF Open, table
  <2>2. ASSUME NEW f \in FactId, fact[f] = "active" PROVE index'[f] # NoVec
    <3>1. CASE index' = Scan
      BY <2>2, <3>1, ScanHolds
    <3>2. ASSUME NEW i \in sidecar, Accepted(i, d), index' = i.hnsw
          PROVE  index'[f] # NoVec
      <4>1. f <= i.max_fact_id
        BY <2>2, <3>2, HighestRowid DEF Accepted, Exists, EntryInv
      <4> QED BY <2>2, <3>2, <4>1 DEF EntryInv, SidecarComplete, Complete
    <3> QED BY <2>1, <3>1, <3>2
  <2> QED BY <2>1, <2>2 DEF EntryInv, BornInOrder, RegistersInv, SidecarComplete,
                            IndexCoversActive
<1> QED BY <1>1, <1>2, <1>3, <1>4 DEF Next

LEMMA InitEntry == Init => EntryInv
<1> SUFFICES ASSUME Init PROVE EntryInv
  OBVIOUS
<1>1. RegistersInv
  <2>1. Idle.at \notin {"unindex", "scan", "save"}
    BY DEF Idle
  <2> QED BY <2>1, PlainStage DEF Init, RegistersInv
<1>2. BornInOrder /\ SidecarComplete /\ IndexCoversActive
  BY DEF Init, BornInOrder, SidecarComplete, IndexCoversActive
<1> QED BY <1>1, <1>2 DEF EntryInv

\* search/ann.rs: no rebuild, late notice, flush, crash or accepted sidecar
\* drops the entry of an active fact.  One that has no entry is about to get
\* it, or was inserted without a notice since the last rebuild or open, for any
\* number of callers, dropped calls, bootstraps and dream cycles included.
THEOREM IndexAlwaysCovers == Spec => []IndexCoversActive
<1>1. TypeInv /\ EntryInv /\ [Next]_vars => (TypeInv /\ EntryInv)'
  BY NextType, EntryStep
<1>2. Spec => [](TypeInv /\ EntryInv)
  BY <1>1, InitType, InitEntry, PTL DEF Spec
<1>3. EntryInv => IndexCoversActive
  BY DEF EntryInv
<1> QED BY <1>2, <1>3, PTL

-----------------------------------------------------------------------------
(* The homogeneity of the active space.                                    *)

\* A space named after an identity holds that identity's vectors, and there is
\* one active space.
Own == /\ \A n \in Identity : spaces[n].st # "absent" => spaces[n].fp = n
       /\ \A m, n \in ActiveNames : m = n
\* A space that has not been active yet is backfilled with its own vectors.
Staged ==
    \A f \in FactId, n, v \in Identity :
        <<f, n, v>> \in fv /\ spaces[n].st \in {"absent", "populating"} => v = n
SpacesInv == Own /\ Staged /\ Homogeneous

\* No dream cycle runs beside a reconstruction: the caller that does the one
\* is the caller that does the other.
Alternating ==
    \A s, t \in Task : "dream" \in Op[s] /\ "reconstruct" \in Op[t] => s = t
Reconstructs(s) == s.at \in {"window", "embed", "promote", "refresh"}
\* Who is in the middle of a reconstruction, or of a promotion of insights,
\* is a caller that performs those; the insight carries the recorded identity.
Playing ==
    \A t \in Task :
        /\ Reconstructs(task[t]) => "reconstruct" \in Op[t]
        /\ At(t, "promotion") => "dream" \in Op[t] /\ task[t].vec \in Established

LEMMA OneIdentity ==
    ASSUME Own, NEW p \in Established PROVE Established = {p}
BY DEF Own, Established

LEMMA OneIdentityPrime ==
    ASSUME Own', NEW p \in Established' PROVE Established' = {p}
BY DEF Own, Established

\* Recording an identity, in a table without facts or one that has it already.
LEMMA RecordedInv ==
    ASSUME TablesOK, Own, NEW p \in Identity, Accepts(p), spaces' = Recorded(p)
    PROVE  /\ Own'
           /\ Established' = {p}
           /\ ActiveNames # {} => spaces' = spaces
           /\ \A n \in Identity : spaces'[n] = spaces[n]
<1>1. CASE ActiveNames = {}
  <2>1. spaces' = [spaces EXCEPT ![Default] = [st |-> "active", fp |-> p]]
    BY <1>1 DEF Recorded
  <2>2. Default \in Name /\ Default \notin Identity
    BY SpaceNames DEF Name
  <2>3. \A n \in Name : spaces'[n] = IF n = Default
                                      THEN [st |-> "active", fp |-> p]
                                      ELSE spaces[n]
    BY <2>1, <2>2 DEF TablesOK
  <2>4. \A n \in Identity : spaces'[n] = spaces[n]
    BY <2>2, <2>3 DEF Name
  <2>5. ActiveNames' = {Default}
    BY <1>1, <2>2, <2>3 DEF ActiveNames
  <2>6. Established' = {p}
    BY <2>2, <2>3, <2>5 DEF Established
  <2>7. Own'
    BY <2>4, <2>5 DEF Own
  <2> QED BY <1>1, <2>4, <2>6, <2>7
<1>2. CASE ActiveNames # {}
  <2>1. spaces' = spaces /\ p \in Established
    BY <1>2 DEF Recorded, Accepts
  <2>2. Own' /\ Established' = Established
    BY <2>1 DEF Own, Established, ActiveNames
  <2> QED BY <1>2, <2>1, <2>2, OneIdentity
<1> QED BY <1>1, <1>2

\* Inserting a vector of the recorded identity.
LEMMA InsertHomogeneous ==
    ASSUME TablesOK, NEW p \in Identity, NEW g \in FactId, InsertRow(g, p),
           Established' = {p},
           \A f \in FactId : Exists(f) => vec[f] = p
    PROVE  Homogeneous'
<1>1. /\ fact' = [fact EXCEPT ![g] = "active"]
      /\ vec' = [vec EXCEPT ![g] = p]
  BY DEF InsertRow
<1>2. \A f \in FactId : Exists(f)' => vec'[f] = p
  BY <1>1 DEF TablesOK, Exists
<1> QED BY <1>2 DEF Homogeneous

LEMMA AddInv ==
    ASSUME TypeInv, SpacesInv, NEW t \in Task,
           AddCommit(t) \/ ImportCommit(t) \/ ConsolidateApply(t)
    PROVE  SpacesInv' /\ (ActiveNames # {} => spaces' = spaces)
                      /\ Established' = {task[t].vec}
<1> DEFINE p == task[t].vec
<1>1. TablesOK /\ p \in Identity
  BY DEF TypeInv, TasksOK, CallState, Carries, At, AddCommit, ImportCommit,
    ConsolidateApply
<1>2. Accepts(p) /\ spaces' = Recorded(p) /\ fv' = fv
  BY DEF AddCommit, ImportCommit, ConsolidateApply
<1>3. /\ Own' /\ Established' = {p}
      /\ ActiveNames # {} => spaces' = spaces
      /\ \A n \in Identity : spaces'[n] = spaces[n]
  BY <1>1, <1>2, RecordedInv DEF SpacesInv
<1>4. Staged'
  BY <1>2, <1>3 DEF SpacesInv, Staged
<1>5. \A f \in FactId : Exists(f) => vec[f] = p
  <2>1. CASE ActiveNames = {}
    BY <2>1 DEF SpacesInv, Homogeneous, Established
  <2>2. CASE ActiveNames # {}
    <3>1. Established = {p}
      BY <1>2, <2>2, OneIdentity DEF Accepts, SpacesInv
    <3> QED BY <3>1 DEF SpacesInv, Homogeneous
  <2> QED BY <2>1, <2>2
<1>6. Homogeneous'
  <2>1. CASE AddCommit(t) \/ ImportCommit(t)
    <3>1. PICK g \in FactId : InsertRow(g, p)
      BY <2>1 DEF AddCommit, ImportCommit, InsertFact
    <3> QED BY <1>1, <1>3, <1>5, <3>1, InsertHomogeneous
  <2>2. CASE ConsolidateApply(t)
    BY <1>3, <1>5, <2>2 DEF ConsolidateApply, Homogeneous, Exists
  <2> QED BY <2>1, <2>2
<1> QED BY <1>3, <1>4, <1>6 DEF SpacesInv

\* The promotion: every fact has a vector in the space, all of the space's own
\* identity, and the space becomes the one active space.
LEMMA PromoteInv ==
    ASSUME TypeInv, SpacesInv, NEW t \in Task, Promote(t)
    PROVE  SpacesInv' /\ Established' = {task[t].vec}
<1> DEFINE p == task[t].vec
<1>1. TablesOK /\ p \in Identity /\ p \in Name
  BY DEF TypeInv, TasksOK, CallState, Carries, At, Promote, Name
<1>2. /\ spaces[p].st = "populating" /\ Unbackfilled(p) = {} /\ fact' = fact
      /\ vec' = [f \in FactId |->
                   IF Exists(f) /\ HasVector(f, p)
                   THEN CHOOSE v \in Identity : <<f, p, v>> \in fv
                   ELSE vec[f]]
      /\ fv' = {r \in fv : r[2] # p} \cup Retained
      /\ spaces' = [n \in Name |->
                      IF n = p THEN [spaces[n] EXCEPT !.st = "active"]
                      ELSE IF n \in ActiveNames
                           THEN [spaces[n] EXCEPT !.st = "deprecated"]
                           ELSE spaces[n]]
  BY DEF Promote, Promotable
<1>3. \A n \in Name :
        /\ spaces'[n].fp = spaces[n].fp
        /\ spaces'[n].st = IF n = p THEN "active"
                           ELSE IF n \in ActiveNames THEN "deprecated"
                           ELSE spaces[n].st
  BY <1>1, <1>2 DEF TablesOK, SpaceRow
<1>4. spaces[p].fp = p
  BY <1>1, <1>2 DEF SpacesInv, Own
<1>5. ActiveNames' = {p}
  BY <1>1, <1>3 DEF ActiveNames
<1>6. Established' = {p}
  BY <1>1, <1>3, <1>4, <1>5 DEF Established
<1>7. Own'
  <2>1. \A n \in Identity : spaces'[n].st # "absent" => spaces'[n].fp = n
    BY <1>2, <1>3 DEF SpacesInv, Own, Name, ActiveNames
  <2> QED BY <1>5, <2>1 DEF Own
<1>8. Staged'
  <2> SUFFICES ASSUME NEW f \in FactId, NEW n \in Identity, NEW v \in Identity,
                      <<f, n, v>> \in fv',
                      spaces'[n].st \in {"absent", "populating"}
               PROVE  v = n
    BY DEF Staged
  <2>1. n \in Name /\ n # p /\ n \notin ActiveNames
    BY <1>1, <1>3 DEF Name
  <2>2. <<f, n, v>> \in fv
    BY <1>2, <2>1 DEF Retained
  <2>3. spaces[n].st \in {"absent", "populating"}
    BY <1>3, <2>1
  <2> QED BY <2>2, <2>3 DEF SpacesInv, Staged
<1>9. \A f \in FactId : Exists(f) => vec'[f] = p
  <2> SUFFICES ASSUME NEW f \in FactId, Exists(f) PROVE vec'[f] = p
    OBVIOUS
  <2>1. HasVector(f, p)
    BY <1>2 DEF Unbackfilled
  <2>2. \A v \in Identity : <<f, p, v>> \in fv => v = p
    BY <1>1, <1>2 DEF SpacesInv, Staged
  <2>3. (CHOOSE v \in Identity : <<f, p, v>> \in fv) = p
    BY <2>1, <2>2 DEF HasVector
  <2> QED BY <1>2, <2>1, <2>3
<1>10. Homogeneous'
  BY <1>2, <1>6, <1>9 DEF Homogeneous, Exists
<1> QED BY <1>6, <1>7, <1>8, <1>10 DEF SpacesInv

\* A step that writes no space but a new one still populating.
LEMMA SameEstablished ==
    ASSUME TypeInv, NEW t \in Task,
           TaskNext(t), ~AddCommit(t), ~ImportCommit(t),
           ~ConsolidateApply(t), ~Promote(t)
    PROVE  ActiveNames' = ActiveNames /\ Established' = Established
<1>1. CASE ReconstructBegin(t)
  <2>1. PICK p \in Identity :
          \/ /\ spaces[p].st = "absent"
             /\ spaces' = [spaces EXCEPT ![p] = [st |-> "populating", fp |-> p]]
          \/ UNCHANGED spaces
    BY <1>1 DEF ReconstructBegin
  <2>2. \A n \in Name : \/ spaces'[n] = spaces[n]
                        \/ spaces[n].st = "absent" /\ spaces'[n].st = "populating"
    BY <2>1 DEF TypeInv, TablesOK
  <2>3. ActiveNames' = ActiveNames
    BY <2>2 DEF ActiveNames
  <2>4. \A n \in ActiveNames : spaces'[n] = spaces[n]
    BY <2>2 DEF ActiveNames
  <2> QED BY <2>3, <2>4 DEF Established
<1>2. CASE ~ReconstructBegin(t)
  <2>1. spaces' = spaces
    BY <1>2 DEF TaskNext, AddEmbed, Dream, DreamPromote, Import, ImportCommit,
      InsertRefused, Abandon, NotifyInsert, Expire, NotifyExpire, Purge,
      Consolidate, ConsolidateRefused, BackfillRead, BackfillWrite,
      BackfillDone, PromoteRefused, Rebuild, Fence, FlushStamp, FlushScan,
      FlushSave, table
  <2> QED BY <2>1 DEF Established, ActiveNames
<1> QED BY <1>1, <1>2

LEMMA SpacesInvStep ==
    ASSUME TypeInv, SpacesInv, Playing, NEW t \in Task, TaskNext(t)
    PROVE  SpacesInv'
<1>1. TablesOK
  BY DEF TypeInv
<1>2. ASSUME UNCHANGED table PROVE SpacesInv'
  BY <1>2 DEF table, SpacesInv, Own, Staged, Homogeneous, ActiveNames,
              Established, Exists
<1>3. CASE AddCommit(t) \/ ImportCommit(t) \/ ConsolidateApply(t)
  BY <1>3, AddInv
<1>4. CASE Promote(t)
  BY <1>4, PromoteInv
<1>5. CASE DreamPromote(t)
  <2>1. task[t].vec \in Established /\ task[t].vec \in Identity
    BY <1>5 DEF DreamPromote, At, Playing, TypeInv, TasksOK, CallState, Carries
  <2>2. /\ InsertFact(t, task[t].vec) /\ spaces' = spaces /\ fv' = fv
        /\ Established' = {task[t].vec} /\ Established = {task[t].vec}
    BY <1>5, <2>1, OneIdentity
    DEF DreamPromote, SpacesInv, Established, ActiveNames
  <2>3. Homogeneous'
    <3>1. PICK g \in FactId : InsertRow(g, task[t].vec)
      BY <2>2 DEF InsertFact
    <3> QED BY <1>1, <2>1, <2>2, <3>1, InsertHomogeneous
            DEF SpacesInv, Homogeneous
  <2>4. Own' /\ Staged'
    BY <2>2 DEF SpacesInv, Own, Staged, ActiveNames
  <2> QED BY <2>3, <2>4 DEF SpacesInv
<1>6. CASE Expire(t)
  <2>1. \A f \in FactId : Exists(f)' => Exists(f)
    BY <1>1, <1>6 DEF Expire, Exists, TablesOK
  <2>2. vec' = vec /\ spaces' = spaces /\ fv' = fv
    BY <1>6 DEF Expire
  <2> QED BY <2>1, <2>2 DEF SpacesInv, Own, Staged, Homogeneous, ActiveNames,
                            Established
<1>7. CASE Purge(t)
  <2>1. PICK g \in FactId :
          /\ fact' = [fact EXCEPT ![g] = "gone"]
          /\ vec' = [vec EXCEPT ![g] = NoVec]
          /\ fv' = {r \in fv : r[1] # g}
          /\ spaces' = spaces
    BY <1>7 DEF Purge
  <2>2. \A f \in FactId : Exists(f)' => Exists(f) /\ vec'[f] = vec[f]
    BY <1>1, <2>1 DEF Exists, TablesOK
  <2>3. Homogeneous' /\ Own' /\ Staged'
    BY <2>1, <2>2 DEF SpacesInv, Own, Staged, Homogeneous, ActiveNames,
                      Established
  <2> QED BY <2>3 DEF SpacesInv
<1>8. CASE ReconstructBegin(t)
  <2>1. PICK p \in Identity :
          \/ /\ spaces[p].st = "absent"
             /\ spaces' = [spaces EXCEPT ![p] = [st |-> "populating", fp |-> p]]
          \/ UNCHANGED spaces
    BY <1>8 DEF ReconstructBegin
  <2>2. \A n \in Name :
          \/ spaces'[n] = spaces[n]
          \/ /\ spaces[n].st = "absent" /\ n = p
             /\ spaces'[n] = [st |-> "populating", fp |-> p]
    BY <1>1, <2>1 DEF TablesOK
  <2>3. ActiveNames' = ActiveNames /\ Established' = Established
    <3>1. ~(AddCommit(t) \/ ImportCommit(t) \/ ConsolidateApply(t) \/ Promote(t))
      BY <1>8 DEF AddCommit, ImportCommit, ConsolidateApply, Promote,
        ReconstructBegin, Call, At
    <3> QED BY <3>1, SameEstablished
  <2>4. fact' = fact /\ vec' = vec /\ fv' = fv
    BY <1>8 DEF ReconstructBegin
  <2>5. Own'
    BY <2>2, <2>3 DEF SpacesInv, Own, Name
  <2>6. Staged'
    <3>1. \A n \in Identity : spaces'[n].st \in {"absent", "populating"} =>
                                spaces[n].st \in {"absent", "populating"}
      BY <2>2 DEF Name
    <3> QED BY <2>4, <3>1 DEF SpacesInv, Staged
  <2>7. Homogeneous'
    BY <2>3, <2>4 DEF SpacesInv, Homogeneous, Exists
  <2> QED BY <2>5, <2>6, <2>7 DEF SpacesInv
<1>9. CASE BackfillWrite(t)
  <2>1. \/ fv' = fv
        \/ fv' = fv \cup
                 {<<f, task[t].vec, task[t].vec>> :
                    f \in {g \in task[t].rows : ~HasVector(g, task[t].vec)}}
    BY <1>9 DEF BackfillWrite
  <2>2. Staged'
    <3> SUFFICES ASSUME NEW f \in FactId, NEW n \in Identity, NEW v \in Identity,
                        <<f, n, v>> \in fv',
                        spaces'[n].st \in {"absent", "populating"}
                 PROVE  v = n
      BY DEF Staged
    <3>1. CASE <<f, n, v>> \in fv
      BY <1>9, <3>1 DEF BackfillWrite, SpacesInv, Staged
    <3>2. CASE <<f, n, v>> \notin fv
      <4>1. \E g \in task[t].rows : <<f, n, v>> = <<g, task[t].vec, task[t].vec>>
        BY <2>1, <3>2
      <4> QED BY <4>1
    <3> QED BY <3>1, <3>2
  <2>3. Own' /\ Homogeneous'
    BY <1>9 DEF BackfillWrite, SpacesInv, Own, Homogeneous, ActiveNames,
                Established, Exists
  <2> QED BY <2>2, <2>3 DEF SpacesInv
<1>10. CASE UNCHANGED table
  BY <1>2, <1>10
<1>11. \/ UNCHANGED table
       \/ AddCommit(t) \/ DreamPromote(t) \/ ImportCommit(t) \/ Expire(t)
       \/ Purge(t) \/ ConsolidateApply(t) \/ ReconstructBegin(t)
       \/ BackfillWrite(t) \/ Promote(t)
  BY TaskWriters
<1> QED BY <1>3, <1>4, <1>5, <1>6, <1>7, <1>8, <1>9, <1>10, <1>11

\* What the register of the caller that steps says of its call.
LEMMA OwnPlay ==
    ASSUME TypeInv, Playing, NEW t \in Task, TaskNext(t)
    PROVE  /\ Reconstructs(task'[t]) => "reconstruct" \in Op[t]
           /\ task'[t].at = "promotion" =>
                /\ "dream" \in Op[t] /\ task'[t].vec \in Established
                /\ Dream(t) \/ Purge(t)
<1>1. task[t] \in TaskState
  BY DEF TypeInv, TasksOK, CallState
<1>2. ASSUME NEW s, Become(t, s) PROVE task'[t] = s
  BY <1>2 DEF Become, TypeInv, TasksOK
<1>3. CASE Dream(t)
  <2>1. PICK p \in Established :
          Become(t, [Idle EXCEPT !.at = "promotion", !.vec = p])
    BY <1>3 DEF Dream
  <2>2. /\ [Idle EXCEPT !.at = "promotion", !.vec = p].at = "promotion"
        /\ [Idle EXCEPT !.at = "promotion", !.vec = p].vec = p
    BY DEF Idle
  <2>3. task'[t].at = "promotion" /\ task'[t].vec = p
    BY <1>2, <2>1, <2>2
  <2> QED BY <1>3, <2>1, <2>3 DEF Dream, Call, Reconstructs
<1>4. CASE ReconstructBegin(t)
  <2>1. PICK p \in Identity :
          Become(t, [Idle EXCEPT !.at = "window", !.vec = p, !.pass = 1])
    BY <1>4 DEF ReconstructBegin
  <2>2. [Idle EXCEPT !.at = "window", !.vec = p, !.pass = 1].at = "window"
    BY DEF Idle
  <2>3. task'[t].at = "window"
    BY <1>2, <2>1, <2>2
  <2> QED BY <1>4, <2>3 DEF ReconstructBegin, Call, Reconstructs
<1>5. CASE \/ InsertRefused(t) \/ NotifyInsert(t) \/ NotifyExpire(t)
           \/ ConsolidateApply(t) \/ ConsolidateRefused(t) \/ PromoteRefused(t)
           \/ Rebuild(t) \/ Fence(t) \/ FlushSave(t)
           \/ ImportCommit(t) \/ Abandon(t)
  <2>1. task'[t].at = "idle"
    BY <1>2, <1>5 DEF Import, ImportCommit, InsertRefused, Abandon,
      NotifyInsert, NotifyExpire, ConsolidateApply, ConsolidateRefused,
      PromoteRefused, Rebuild, Fence, FlushSave, Finish, Idle
  <2> QED BY <2>1 DEF Reconstructs
<1>6. ASSUME NEW p, InsertFact(t, p) PROVE task'[t].at = "notify"
  <2>1. PICK f \in FactId :
          Become(t, [Idle EXCEPT !.at = "notify", !.vec = p, !.fact = f])
    BY <1>6 DEF InsertFact
  <2>2. [Idle EXCEPT !.at = "notify", !.vec = p, !.fact = f].at = "notify"
    BY DEF Idle
  <2> QED BY <1>2, <2>1, <2>2
<1>7. CASE AddCommit(t) \/ DreamPromote(t)
  BY <1>6, <1>7 DEF AddCommit, DreamPromote, Reconstructs
<1>8. CASE AddEmbed(t) \/ Import(t) \/ Consolidate(t)
  <2>1. PICK p \in Identity, x \in {"add", "import", "consolidate"} :
          Become(t, [Idle EXCEPT !.at = x, !.vec = p])
    BY <1>8 DEF AddEmbed, Import, Consolidate
  <2>2. [Idle EXCEPT !.at = x, !.vec = p].at = x
    BY DEF Idle
  <2>3. task'[t].at = x
    BY <1>2, <2>1, <2>2
  <2> QED BY <2>3 DEF Reconstructs
<1>9. CASE Expire(t)
  <2>1. PICK f \in FactId : Become(t, [Idle EXCEPT !.at = "unindex", !.fact = f])
    BY <1>9 DEF Expire
  <2>2. [Idle EXCEPT !.at = "unindex", !.fact = f].at = "unindex"
    BY DEF Idle
  <2>3. task'[t].at = "unindex"
    BY <1>2, <2>1, <2>2
  <2> QED BY <2>3 DEF Reconstructs
<1>10. CASE Purge(t)
  BY <1>10 DEF Purge, Playing, At
\* The stages of a reconstruction follow one another.
<1>11. ASSUME Reconstructs(task[t]) PROVE "reconstruct" \in Op[t]
  BY <1>11 DEF Playing
<1>12. CASE BackfillRead(t)
  <2> DEFINE rows == Window(task[t].vec, task[t].after)
  <2>1. PICK last \in rows :
          Become(t, [task[t] EXCEPT !.at = "embed", !.rows = rows,
                                    !.after = last])
    BY <1>12 DEF BackfillRead
  <2> HIDE DEF rows
  <2>2. [task[t] EXCEPT !.at = "embed", !.rows = rows, !.after = last].at = "embed"
    BY <1>1 DEF TaskState
  <2>3. task'[t].at = "embed"
    BY <1>2, <2>1, <2>2
  <2> QED BY <1>11, <1>12, <2>3 DEF BackfillRead, Reconstructs, At
<1>13. CASE BackfillWrite(t)
  <2>1. \/ Become(t, [task[t] EXCEPT !.at = "window", !.rows = {}])
        \/ Become(t, Idle)
    BY <1>13 DEF BackfillWrite, Finish
  <2>2. /\ [task[t] EXCEPT !.at = "window", !.rows = {}].at = "window"
        /\ Idle.at = "idle"
    BY <1>1 DEF TaskState, Idle
  <2>3. task'[t].at \in {"window", "idle"}
    BY <1>2, <2>1, <2>2
  <2> QED BY <1>11, <1>13, <2>3 DEF BackfillWrite, Reconstructs, At
<1>14. CASE BackfillDone(t)
  <2>1. \/ Become(t, [task[t] EXCEPT !.pass = 2, !.after = 0])
        \/ Become(t, [task[t] EXCEPT !.at = "promote"])
    BY <1>14 DEF BackfillDone
  <2>2. /\ [task[t] EXCEPT !.pass = 2, !.after = 0].at = task[t].at
        /\ [task[t] EXCEPT !.at = "promote"].at = "promote"
    BY <1>1 DEF TaskState
  <2>3. task'[t].at \in {"window", "promote"}
    BY <1>2, <1>14, <2>1, <2>2 DEF BackfillDone, At
  <2> QED BY <1>11, <1>14, <2>3 DEF BackfillDone, Reconstructs, At
<1>15. CASE Promote(t)
  <2>1. Become(t, [task[t] EXCEPT !.at = "refresh"])
    BY <1>15 DEF Promote
  <2>2. [task[t] EXCEPT !.at = "refresh"].at = "refresh"
    BY <1>1 DEF TaskState
  <2>3. task'[t].at = "refresh"
    BY <1>2, <2>1, <2>2
  <2> QED BY <1>11, <1>15, <2>3 DEF Promote, Reconstructs, At
<1>16. CASE FlushStamp(t)
  <2>1. PICK images : Become(t, [Idle EXCEPT !.at = "scan", !.image = images])
    BY <1>16 DEF FlushStamp
  <2>2. [Idle EXCEPT !.at = "scan", !.image = images].at = "scan"
    BY DEF Idle
  <2>3. task'[t].at = "scan"
    BY <1>2, <2>1, <2>2
  <2> QED BY <2>3 DEF Reconstructs
<1>17. CASE FlushScan(t)
  <2> DEFINE images == {[i EXCEPT !.hnsw = Scan] : i \in task[t].image}
  <2>1. \/ Become(t, [task[t] EXCEPT !.at = "save", !.image = images])
        \/ Become(t, Idle)
    BY <1>17 DEF FlushScan, Finish
  <2> HIDE DEF images
  <2>2. /\ [task[t] EXCEPT !.at = "save", !.image = images].at = "save"
        /\ Idle.at = "idle"
    BY <1>1 DEF TaskState, Idle
  <2>3. task'[t].at \in {"save", "idle"}
    BY <1>2, <2>1, <2>2
  <2> QED BY <2>3 DEF Reconstructs
<1> QED BY <1>3, <1>4, <1>5, <1>7, <1>8, <1>9, <1>10, <1>12, <1>13, <1>14, <1>15,
           <1>16, <1>17 DEF TaskNext

\* A step of one caller leaves the others' registers alone.
LEMMA OthersStay ==
    ASSUME TypeInv, NEW t \in Task, TaskNext(t), NEW u \in Task, u # t
    PROVE  task'[u] = task[u]
<1>1. ASSUME NEW s, Become(t, s) PROVE task'[u] = task[u]
  BY <1>1 DEF Become, TypeInv, TasksOK
<1>2. ASSUME NEW p, InsertFact(t, p) PROVE task'[u] = task[u]
  BY <1>1, <1>2 DEF InsertFact
<1> QED BY <1>1, <1>2 DEF TaskNext, AddEmbed, AddCommit, Dream, DreamPromote,
  Import, ImportCommit, InsertRefused, Abandon, NotifyInsert, Expire,
  NotifyExpire, Purge, Consolidate, ConsolidateApply, ConsolidateRefused,
  ReconstructBegin, BackfillRead, BackfillWrite, BackfillDone, Promote,
  PromoteRefused, Rebuild, Fence, FlushStamp, FlushScan, FlushSave, Finish

LEMMA PlayingStep ==
    ASSUME TypeInv, SpacesInv, Playing, Alternating, NEW t \in Task, TaskNext(t)
    PROVE  Playing'
<1> SUFFICES ASSUME NEW u \in Task
             PROVE  /\ Reconstructs(task'[u]) => "reconstruct" \in Op[u]
                    /\ task'[u].at = "promotion" =>
                         "dream" \in Op[u] /\ task'[u].vec \in Established'
  BY DEF Playing, Reconstructs, At
<1>1. CASE u = t
  <2>1. Dream(t) \/ Purge(t) => Established' = Established
    <3>1. Dream(t) \/ Purge(t) => spaces' = spaces
      BY DEF Dream, Purge, table
    <3> QED BY <3>1 DEF Established, ActiveNames
  <2> QED BY <1>1, <2>1, OwnPlay
<1>2. CASE u # t
  <2>1. task'[u] = task[u]
    BY <1>2, OthersStay
  <2>2. ASSUME At(u, "promotion") PROVE Established' = Established
    <3>1. "dream" \in Op[u] /\ ActiveNames # {}
      BY <2>2 DEF Playing, Established
    <3>2. CASE AddCommit(t) \/ ImportCommit(t) \/ ConsolidateApply(t)
      BY <3>1, <3>2, AddInv DEF Established, ActiveNames
    <3>3. ~Promote(t)
      BY <1>2, <3>1 DEF Promote, Playing, Reconstructs, At, Alternating
    <3> QED BY <3>2, <3>3, SameEstablished
  <2> QED BY <2>1, <2>2 DEF Playing, At
<1> QED BY <1>1, <1>2

-----------------------------------------------------------------------------
(* The fence.                                                              *)

\* A handle behind the recorded dimension has a caller about to fence it.
StaleIsKnown ==
    up /\ fence = 0 =>
      \/ \A i \in Established : Dim[i] = embedDim
      \/ \E t \in Task : At(t, "refresh") /\ task[t].vec \in Established

LEMMA StaleStep ==
    ASSUME TypeInv, WidthInv, SpacesInv, StaleIsKnown, NEW t \in Task, TaskNext(t)
    PROVE  StaleIsKnown'
<1> SUFFICES ASSUME fence' = 0
             PROVE  \/ \A i \in Established' : Dim[i] = embedDim'
                    \/ \E u \in Task : /\ task'[u].at = "refresh"
                                       /\ task'[u].vec \in Established'
  BY DEF StaleIsKnown, At
<1>1. up /\ embedDim' = embedDim /\ task[t] \in TaskState
  BY StaysUp DEF WidthInv, TypeInv, TasksOK, CallState
<1>2. CASE Promote(t)
  <2>1. Established' = {task[t].vec}
    BY <1>2, PromoteInv
  <2>2. task'[t] = [task[t] EXCEPT !.at = "refresh"]
    BY <1>2 DEF Promote, Become, TypeInv, TasksOK
  <2>3. task'[t].at = "refresh" /\ task'[t].vec = task[t].vec
    BY <1>1, <2>2 DEF TaskState
  <2> QED BY <2>1, <2>3
<1>3. CASE AddCommit(t) \/ ImportCommit(t) \/ ConsolidateApply(t)
  <2>1. Dim[task[t].vec] = embedDim
    BY <1>3 DEF AddCommit, ImportCommit, ConsolidateApply, Fits
  <2> QED BY <1>1, <1>3, <2>1, AddInv
<1>4. CASE Fence(t)
  <2>1. Dim[task[t].vec] \in Nat \ {0}
    BY <1>4, SpaceDims DEF Fence, At, TypeInv, TasksOK, CallState, Carries
  <2> QED BY <1>4, <2>1 DEF Fence
<1>5. CASE /\ ~Promote(t) /\ ~AddCommit(t) /\ ~ImportCommit(t)
           /\ ~ConsolidateApply(t) /\ ~Fence(t)
  <2>1. Established' = Established
    BY <1>5, SameEstablished
  <2>2. fence' = fence
    BY <1>5 DEF TaskNext, AddEmbed, Dream, DreamPromote, Import, ImportCommit,
      InsertRefused, Abandon, NotifyInsert, Expire, NotifyExpire, Purge,
      Consolidate, ConsolidateRefused, ReconstructBegin, BackfillRead,
      BackfillWrite, BackfillDone, PromoteRefused, Rebuild, FlushStamp,
      FlushScan, FlushSave, handle
  <2>3. CASE \A i \in Established : Dim[i] = embedDim
    BY <1>1, <2>1, <2>3
  <2>4. ASSUME NEW u \in Task, At(u, "refresh"), task[u].vec \in Established
        PROVE  \/ \A i \in Established' : Dim[i] = embedDim'
               \/ task'[u].at = "refresh" /\ task'[u].vec \in Established'
    <3>1. CASE u # t
      BY <2>1, <2>4, <3>1, OthersStay DEF At
    <3>2. CASE u = t
      <4>1. Rebuild(t)
        BY <1>5, <2>4, <3>2 DEF At, TaskNext, AddEmbed, Dream, DreamPromote,
          Import, ImportCommit, InsertRefused, Abandon, NotifyInsert, Expire,
          NotifyExpire, Purge, Consolidate, ConsolidateRefused,
          ReconstructBegin, BackfillRead, BackfillWrite, BackfillDone,
          PromoteRefused, FlushStamp, FlushScan, FlushSave, Call
      <4>2. Established = {task[t].vec}
        BY <2>4, <3>2, OneIdentity DEF SpacesInv
      <4> QED BY <1>1, <2>1, <4>1, <4>2 DEF Rebuild
    <3> QED BY <3>1, <3>2
  <2> QED BY <1>1, <2>2, <2>3, <2>4 DEF StaleIsKnown
<1> QED BY <1>2, <1>3, <1>4, <1>5

FenceInv == WidthInv /\ SpacesInv /\ Playing /\ StaleIsKnown

LEMMA FenceStep ==
    ASSUME TypeInv, FenceInv, Alternating, [Next]_vars PROVE FenceInv'
<1>1. WidthInv'
  BY WidthStep DEF FenceInv
<1>2. ASSUME NEW t \in Task, TaskNext(t)
      PROVE  SpacesInv' /\ Playing' /\ StaleIsKnown'
  BY <1>2, SpacesInvStep, PlayingStep, StaleStep DEF FenceInv
<1>3. ASSUME UNCHANGED table PROVE SpacesInv' /\ Established' = Established
  BY <1>3 DEF table, FenceInv, SpacesInv, Own, Staged, Homogeneous, ActiveNames,
              Established, Exists
<1>4. CASE UNCHANGED vars
  <2>1. /\ UNCHANGED table /\ task' = task /\ up' = up /\ fence' = fence
        /\ embedDim' = embedDim
    BY <1>4 DEF vars, table
  <2>2. SpacesInv' /\ Established' = Established
    BY <1>3, <2>1
  <2>3. Playing'
    BY <2>1, <2>2 DEF FenceInv, Playing, At
  <2>4. StaleIsKnown'
    BY <2>1, <2>2 DEF FenceInv, StaleIsKnown, At
  <2> QED BY <1>1, <2>2, <2>3, <2>4 DEF FenceInv
<1>5. CASE Crash
  <2>1. UNCHANGED table /\ ~up' /\ task' = [t \in Task |-> Idle]
    BY <1>5 DEF Crash
  <2>2. \A t \in Task : task'[t].at = "idle"
    BY <2>1 DEF Idle
  <2>3. Playing'
    BY <2>2 DEF Playing, Reconstructs, At
  <2>4. StaleIsKnown'
    BY <2>1 DEF StaleIsKnown
  <2> QED BY <1>1, <1>3, <2>1, <2>3, <2>4 DEF FenceInv
<1>6. ASSUME NEW d \in Width, Open(d)
      PROVE  SpacesInv' /\ Playing' /\ StaleIsKnown'
  <2>1. /\ UNCHANGED table /\ task' = task /\ embedDim' = d
        /\ \A i \in Established : Dim[i] = d
    BY <1>6 DEF Open
  <2> QED BY <1>3, <2>1 DEF FenceInv, Playing, StaleIsKnown, At
<1> QED BY <1>1, <1>2, <1>3, <1>4, <1>5, <1>6 DEF FenceInv, Next

LEMMA InitFence == Init => FenceInv
<1> SUFFICES ASSUME Init PROVE FenceInv
  OBVIOUS
<1>1. ActiveNames = {} /\ Established = {}
  BY DEF Init, ActiveNames, Established, Absent
<1>2. SpacesInv
  BY <1>1 DEF Init, SpacesInv, Own, Staged, Homogeneous, Absent, Exists, Name
<1>3. Playing
  BY DEF Init, Playing, Reconstructs, At, Idle
<1>4. StaleIsKnown
  BY <1>1 DEF StaleIsKnown
<1> QED BY <1>2, <1>3, <1>4, InitWidth DEF FenceInv

\* Behind a homogeneous space of the handle's own dimension every vector
\* decodes.
LEMMA KnownDecodes == TypeInv /\ FenceInv => UnfencedDecodes
<1> SUFFICES ASSUME TypeInv, FenceInv, up, fence = 0,
                    \A t \in Task : ~At(t, "refresh"),
                    NEW f \in FactId, fact[f] = "active"
             PROVE  Dim[vec[f]] = embedDim
  BY DEF UnfencedDecodes, Decodes
<1>1. \A i \in Established : Dim[i] = embedDim
  BY DEF FenceInv, StaleIsKnown
<1>2. Established = {vec[f]}
  BY DEF FenceInv, SpacesInv, Homogeneous, Exists
<1> QED BY <1>1, <1>2

\* When no dream cycle runs beside a reconstruction, every fact serves a
\* vector of the recorded identity, however inserts, first writes, expiries,
\* purges, consolidations and crashes fall between the stages of any number of
\* concurrent reconstructions.
THEOREM SpacesStayHomogeneous == Alternating => (Spec => []Homogeneous)
<1> SUFFICES ASSUME Alternating PROVE Spec => []Homogeneous
  OBVIOUS
<1>1. TypeInv /\ FenceInv /\ [Next]_vars => (TypeInv /\ FenceInv)'
  BY NextType, FenceStep
<1>2. Spec => [](TypeInv /\ FenceInv)
  BY <1>1, InitType, InitFence, PTL DEF Spec
<1>3. FenceInv => Homogeneous
  BY DEF FenceInv, SpacesInv
<1> QED BY <1>2, <1>3, PTL

\* Under the same condition, a handle that is neither fenced nor about to be
\* decodes every active fact, after promotions to any sequence of dimensions.
THEOREM UnfencedAlwaysDecodes == Alternating => (Spec => []UnfencedDecodes)
<1> SUFFICES ASSUME Alternating PROVE Spec => []UnfencedDecodes
  OBVIOUS
<1>1. TypeInv /\ FenceInv /\ [Next]_vars => (TypeInv /\ FenceInv)'
  BY NextType, FenceStep
<1>2. Spec => [](TypeInv /\ FenceInv)
  BY <1>1, InitType, InitFence, PTL DEF Spec
<1> QED BY <1>2, KnownDecodes, PTL
=============================================================================
