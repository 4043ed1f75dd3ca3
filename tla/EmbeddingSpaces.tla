-------------------------- MODULE EmbeddingSpaces --------------------------
(***************************************************************************)
(* Embedding spaces and their reconstruction, with the vector index.       *)
(*                                                                         *)
(* A vector is known here by the identity (model, provider, dimension) of  *)
(* the provider that computed it.  facts.embedding serves the vectors of   *)
(* the one active space; fact_vectors holds those of a space being         *)
(* backfilled and of former active spaces.  reconstruct() backfills a new  *)
(* space window by window while facts keep arriving, then one transaction  *)
(* swaps it in; the handle then rebuilds its index, or, when the dimension *)
(* it cached at open no longer fits, refuses work until it is reopened.    *)
(*                                                                         *)
(* Every await between two transactions is a step, so that one caller's    *)
(* writes land between the stages of another's reconstruction.             *)
(***************************************************************************)
EXTENDS Naturals, FiniteSets

CONSTANTS
    Identity,   \* embedding identities; also the names of their spaces
    Dim,        \* dimension of each identity's vectors
    Default,    \* the name of the space the first write creates
    NoVec,      \* no vector
    MaxFacts,   \* bound: rowids handed out
    Batch,      \* facts re-embedded per window
    Task,       \* callers that hold the Arc<MemoryEngine>
    Op          \* the operations each caller performs

Operation == {"add", "dream", "import", "abandon", "expire", "purge",
              "consolidate", "reconstruct", "flush", "crash"}

ASSUME SpaceNames == Default \notin Identity /\ NoVec \notin Identity
ASSUME SpaceDims == Dim \in [Identity -> Nat \ {0}]
ASSUME SpaceBounds == /\ MaxFacts \in Nat /\ Batch \in Nat \ {0}
                      /\ Op \in [Task -> SUBSET Operation]

VARIABLES
    fact,       \* facts table: life-cycle of each row
    vec,        \* facts.embedding
    spaces,     \* embedding_spaces table
    fv,         \* fact_vectors table: <<fact, space, vector>> rows
    index,      \* HnswStrategy: the vector it holds for each fact
    unnoticed,  \* history: facts inserted without a notice to this index
    embedDim,   \* the dimension the handle cached at open
    fence,      \* reopen_required: 0, or the dimension to reopen at
    sidecar,    \* the snapshot file's index part: {} or one image
    up,         \* the process runs and holds an open engine
    task        \* what each caller is in the middle of

table == <<fact, vec, spaces, fv>>
handle == <<index, unnoticed, embedDim, fence, sidecar, up>>
vars == <<fact, vec, spaces, fv, index, unnoticed, embedDim, fence, sidecar, up,
          task>>

FactId == 1..MaxFacts
Name == Identity \cup {Default}
Vector == Identity \cup {NoVec}
Width == {Dim[i] : i \in Identity}
Absent == [st |-> "absent", fp |-> NoVec]

Exists(f) == fact[f] \in {"active", "expired"}
\* AUTOINCREMENT: the lowest rowid never handed out.
Born(f) == fact[f] = "none" /\ \A g \in FactId : g < f => fact[g] # "none"

\* find_active, and embedding_meta::load as a set of at most one identity.
ActiveNames == {n \in Name : spaces[n].st = "active"}
Established == {spaces[n].fp : n \in ActiveNames}

-----------------------------------------------------------------------------
(* The task registers.                                                     *)

Stage == {"idle", "add", "promotion", "import", "notify", "unindex",
          "consolidate", "window", "embed", "promote", "refresh", "scan", "save"}
Image == [dim : Nat, max_fact_id : Nat, active_fact_count : Nat,
          hnsw : [FactId -> Vector]]
Idle == [at |-> "idle", vec |-> NoVec, fact |-> 0, pass |-> 0, after |-> 0,
         rows |-> {}, image |-> {}]
TaskState == [at : Stage, vec : Vector, fact : 0..MaxFacts, pass : 0..2,
              after : 0..MaxFacts, rows : SUBSET FactId, image : SUBSET Image]

At(t, stage) == task[t].at = stage
Become(t, state) == task' = [task EXCEPT ![t] = state]
Finish(t) == Become(t, Idle)
\* A call enters the engine.
Call(t, op) == op \in Op[t] /\ up /\ At(t, "idle")
\* ensure_open: refused while the handle is fenced.
EnsureOpen == fence = 0

-----------------------------------------------------------------------------
(* The identity tuple.                                                     *)

\* record_if_absent accepts the recorded identity, or records the first one.
Accepts(p) == IF ActiveNames = {} THEN Dim[p] = embedDim ELSE p \in Established
Recorded(p) ==
    IF ActiveNames = {}
    THEN [spaces EXCEPT ![Default] = [st |-> "active", fp |-> p]]
    ELSE spaces

\* FactStore::insert and SummaryStore::insert check the width only.
Fits(p) == Dim[p] = embedDim

InsertRow(f, p) ==
    /\ Born(f)
    /\ fact' = [fact EXCEPT ![f] = "active"]
    /\ vec' = [vec EXCEPT ![f] = p]

\* An insert that is followed by a notice to the index.
InsertFact(t, p) ==
    \E f \in FactId :
        /\ InsertRow(f, p)
        /\ Become(t, [Idle EXCEPT !.at = "notify", !.vec = p, !.fact = f])

-----------------------------------------------------------------------------
(* add_fact: embed off the lock, record or compare the identity and insert *)
(* in one transaction, then tell the index.                                *)

AddEmbed(t) ==
    /\ Call(t, "add") /\ EnsureOpen
    /\ \E p \in Identity : Become(t, [Idle EXCEPT !.at = "add", !.vec = p])
    /\ UNCHANGED <<table, handle>>

AddCommit(t) ==
    /\ At(t, "add") /\ Accepts(task[t].vec) /\ Fits(task[t].vec)
    /\ spaces' = Recorded(task[t].vec)
    /\ InsertFact(t, task[t].vec)
    /\ UNCHANGED <<fv, handle>>

\* run_dream_cycle hands the cycle an engine it may promote insights through:
\* the fence is looked at on entry, the promotion itself only requires that
\* some identity is recorded.
Dream(t) ==
    /\ Call(t, "dream") /\ EnsureOpen
    /\ \E p \in Established : Become(t, [Idle EXCEPT !.at = "promotion", !.vec = p])
    /\ UNCHANGED <<table, handle>>

DreamPromote(t) ==
    /\ At(t, "promotion") /\ ActiveNames # {} /\ Fits(task[t].vec)
    /\ InsertFact(t, task[t].vec)
    /\ UNCHANGED <<spaces, fv, handle>>

\* A bootstrap: the batch is embedded before it is written, and its facts are
\* not announced to the index.  A batch is one new fact here; one that only
\* reinforces facts changes nothing here.
Import(t) ==
    /\ Call(t, "import") /\ EnsureOpen
    /\ \E p \in Identity : Become(t, [Idle EXCEPT !.at = "import", !.vec = p])
    /\ UNCHANGED <<table, handle>>

ImportCommit(t) ==
    /\ At(t, "import") /\ Accepts(task[t].vec) /\ Fits(task[t].vec)
    /\ spaces' = Recorded(task[t].vec)
    /\ \E f \in FactId :
        /\ InsertRow(f, task[t].vec)
        /\ unnoticed' = unnoticed \cup {f}
    /\ Finish(t)
    /\ UNCHANGED <<fv, index, embedDim, fence, sidecar, up>>

InsertRefused(t) ==
    /\ \/ /\ At(t, "add") \/ At(t, "import")
          /\ ~(Accepts(task[t].vec) /\ Fits(task[t].vec))
       \/ At(t, "promotion") /\ ~(ActiveNames # {} /\ Fits(task[t].vec))
    /\ Finish(t)
    /\ UNCHANGED <<table, handle>>

\* notify_insert, after the commit.
NotifyInsert(t) ==
    /\ At(t, "notify")
    /\ index' = [index EXCEPT ![task[t].fact] = task[t].vec]
    /\ Finish(t)
    /\ UNCHANGED <<table, unnoticed, embedDim, fence, sidecar, up>>

\* A caller drops its future at an await, or the notice it is about to give is
\* refused (IndexInconsistent): what was committed stays committed, and the
\* rest of the call does not happen.  A transaction that runs on after its
\* future is dropped is the call dropped right after it.
Abandon(t) ==
    /\ "abandon" \in Op[t]
    /\ task[t].at \in {"add", "promotion", "import", "notify", "unindex",
                       "consolidate", "scan", "save"}
    /\ unnoticed' = unnoticed \cup
         {f \in FactId : At(t, "notify") /\ f = task[t].fact}
    /\ Finish(t)
    /\ UNCHANGED <<table, index, embedDim, fence, sidecar, up>>

-----------------------------------------------------------------------------
(* Facts leave: expired by any operation that ends a fact, and purged into *)
(* an archive, which takes their fact_vectors rows along (ON DELETE        *)
(* CASCADE).                                                               *)

Expire(t) ==
    /\ Call(t, "expire") /\ EnsureOpen
    /\ \E f \in FactId :
        /\ fact[f] = "active"
        /\ fact' = [fact EXCEPT ![f] = "expired"]
        /\ Become(t, [Idle EXCEPT !.at = "unindex", !.fact = f])
    /\ UNCHANGED <<vec, spaces, fv, handle>>

NotifyExpire(t) ==
    /\ At(t, "unindex")
    /\ index' = [index EXCEPT ![task[t].fact] = NoVec]
    /\ Finish(t)
    /\ UNCHANGED <<table, unnoticed, embedDim, fence, sidecar, up>>

Purge(t) ==
    /\ Call(t, "purge") /\ EnsureOpen
    /\ \E f \in FactId :
        /\ fact[f] = "expired"
        /\ fact' = [fact EXCEPT ![f] = "gone"]
        /\ vec' = [vec EXCEPT ![f] = NoVec]
        /\ fv' = {r \in fv : r[1] # f}
    /\ UNCHANGED <<spaces, handle, task>>

-----------------------------------------------------------------------------
(* consolidate: the summaries are embedded off the lock; the transaction   *)
(* that writes them records or compares the identity.  The summary rows    *)
(* themselves are left out, and so is a plan without a summary, which      *)
(* changes nothing here.                                                   *)

Consolidate(t) ==
    /\ Call(t, "consolidate") /\ EnsureOpen
    /\ \E p \in Identity :
        Become(t, [Idle EXCEPT !.at = "consolidate", !.vec = p])
    /\ UNCHANGED <<table, handle>>

ConsolidateApply(t) ==
    /\ At(t, "consolidate") /\ Accepts(task[t].vec) /\ Fits(task[t].vec)
    /\ spaces' = Recorded(task[t].vec)
    /\ Finish(t)
    /\ UNCHANGED <<fact, vec, fv, handle>>

ConsolidateRefused(t) ==
    /\ At(t, "consolidate") /\ ~(Accepts(task[t].vec) /\ Fits(task[t].vec))
    /\ Finish(t)
    /\ UNCHANGED <<table, handle>>

-----------------------------------------------------------------------------
(* reconstruct: open or resume the space, backfill twice, promote, refresh.*)

HasVector(f, n) == \E v \in Identity : <<f, n, v>> \in fv
Unbackfilled(n) == {f \in FactId : Exists(f) /\ ~HasVector(f, n)}

\* begin_populating: a space that has been active is never opened again.
ReconstructBegin(t) ==
    /\ Call(t, "reconstruct")
    /\ \E p \in Identity :
        /\ \/ /\ spaces[p].st = "absent"
              /\ spaces' = [spaces EXCEPT ![p] = [st |-> "populating", fp |-> p]]
           \/ /\ spaces[p] = [st |-> "populating", fp |-> p]
              /\ UNCHANGED spaces
        /\ Become(t, [Idle EXCEPT !.at = "window", !.vec = p, !.pass = 1])
    /\ UNCHANGED <<fact, vec, fv, handle>>

\* next_backfill_window
Window(n, after) ==
    LET todo == {f \in Unbackfilled(n) : f > after}
    IN  {f \in todo : Cardinality({g \in todo : g < f}) < Batch}

\* The window is read, and its content embedded off the lock.
BackfillRead(t) ==
    /\ At(t, "window")
    /\ LET rows == Window(task[t].vec, task[t].after)
       IN  /\ rows # {}
           /\ \E last \in rows :
               /\ \A f \in rows : f <= last
               /\ Become(t, [task[t] EXCEPT !.at = "embed", !.rows = rows,
                                            !.after = last])
    /\ UNCHANGED <<table, handle>>

\* write_backfill_batch: all rows or, when a fact is gone, none.
BackfillWrite(t) ==
    /\ At(t, "embed")
    /\ \/ /\ \A f \in task[t].rows : Exists(f)
          /\ fv' = fv \cup
                   {<<f, task[t].vec, task[t].vec>> :
                      f \in {g \in task[t].rows : ~HasVector(g, task[t].vec)}}
          /\ Become(t, [task[t] EXCEPT !.at = "window", !.rows = {}])
       \/ /\ \E f \in task[t].rows : ~Exists(f)
          /\ Finish(t)
          /\ UNCHANGED fv
    /\ UNCHANGED <<fact, vec, spaces, handle>>

\* An empty window ends the pass; the second pass catches stragglers.
\* Mutant: passes follow one another without end.
BackfillDoneEndless(t) ==
    /\ At(t, "window") /\ Window(task[t].vec, task[t].after) = {}
    /\ Become(t, [task[t] EXCEPT !.pass = @ + 1, !.after = 0])
    /\ UNCHANGED <<table, handle>>
BackfillDone(t) ==
    /\ At(t, "window") /\ Window(task[t].vec, task[t].after) = {}
    /\ \/ /\ task[t].pass = 1
          /\ Become(t, [task[t] EXCEPT !.pass = 2, !.after = 0])
       \/ /\ task[t].pass = 2
          /\ Become(t, [task[t] EXCEPT !.at = "promote"])
    /\ UNCHANGED <<table, handle>>

\* What promote_space requires, read inside its transaction: a populating
\* space with a vector for every fact, and no row in the way of retaining the
\* vectors of the active one.
\* Mutant: the completeness gate is left to the catch-up pass.
PromotableUngated(p) ==
    /\ ActiveNames # {} /\ spaces[p].st = "populating"
    /\ \A f \in FactId, n \in ActiveNames : Exists(f) => ~HasVector(f, n)
Promotable(p) ==
    /\ ActiveNames # {} /\ spaces[p].st = "populating"
    /\ Unbackfilled(p) = {}
    /\ \A f \in FactId, n \in ActiveNames : Exists(f) => ~HasVector(f, n)

\* The vectors a promotion retains for a rollback.
\* Mutant: only those of active facts.
RetainedActiveOnly ==
    {<<f, n, vec[f]>> : f \in {g \in FactId : fact[g] = "active"},
                        n \in ActiveNames}
Retained ==
    {<<f, n, vec[f]>> : f \in {g \in FactId : Exists(g)}, n \in ActiveNames}

Promote(t) ==
    /\ At(t, "promote") /\ Promotable(task[t].vec)
    /\ LET p == task[t].vec
       IN  /\ vec' = [f \in FactId |->
                        IF Exists(f) /\ HasVector(f, p)
                        THEN CHOOSE v \in Identity : <<f, p, v>> \in fv
                        ELSE vec[f]]
           /\ fv' = {r \in fv : r[2] # p} \cup Retained
           /\ spaces' = [n \in Name |->
                           IF n = p THEN [spaces[n] EXCEPT !.st = "active"]
                           ELSE IF n \in ActiveNames
                                THEN [spaces[n] EXCEPT !.st = "deprecated"]
                                ELSE spaces[n]]
    /\ Become(t, [task[t] EXCEPT !.at = "refresh"])
    /\ UNCHANGED <<fact, handle>>

PromoteRefused(t) ==
    /\ At(t, "promote") /\ ~Promotable(task[t].vec)
    /\ Finish(t)
    /\ UNCHANGED <<table, handle>>

\* build_inner: every active fact, or an error when one does not decode.
Decodes(d) == \A f \in FactId : fact[f] = "active" => Dim[vec[f]] = d
Scan == [f \in FactId |-> IF fact[f] = "active" THEN vec[f] ELSE NoVec]

\* Mutant: a rebuild takes the new vectors of the entries the index has.
RebuildOfEntries(t) ==
    /\ At(t, "refresh") /\ Dim[task[t].vec] = embedDim
    /\ index' = [f \in FactId |-> IF index[f] = NoVec THEN NoVec ELSE Scan[f]]
    /\ unnoticed' = {}
    /\ Finish(t)
    /\ UNCHANGED <<table, embedDim, fence, sidecar, up>>

\* A promotion to the cached dimension rebuilds the index in place.
Rebuild(t) ==
    /\ At(t, "refresh") /\ Dim[task[t].vec] = embedDim
    /\ \/ Decodes(embedDim) /\ index' = Scan /\ unnoticed' = {}
       \/ ~Decodes(embedDim) /\ UNCHANGED <<index, unnoticed>>
    /\ Finish(t)
    /\ UNCHANGED <<table, embedDim, fence, sidecar, up>>

\* A promotion to another dimension fences the handle.
\* Mutant: the handle goes on as it is.
FenceForgotten(t) ==
    /\ At(t, "refresh") /\ Dim[task[t].vec] # embedDim
    /\ Finish(t)
    /\ UNCHANGED <<table, handle>>
Fence(t) ==
    /\ At(t, "refresh") /\ Dim[task[t].vec] # embedDim
    /\ fence' = Dim[task[t].vec]
    /\ Finish(t)
    /\ UNCHANGED <<table, index, unnoticed, embedDim, sidecar, up>>

-----------------------------------------------------------------------------
(* The sidecar's index part: counters, then the active vectors, then the   *)
(* file.  It is accepted at open when the counters are the table's.        *)

\* Mutant: the counters leave out the highest rowid.
CountersWithoutMax ==
    [max_fact_id |-> 0,
     active_fact_count |-> Cardinality({f \in FactId : fact[f] = "active"})]
Counters ==
    [max_fact_id |-> Cardinality({i \in FactId : \E f \in FactId :
                                    i <= f /\ Exists(f)}),
     active_fact_count |-> Cardinality({f \in FactId : fact[f] = "active"})]

FlushStamp(t) ==
    /\ Call(t, "flush") /\ fence = 0
    /\ Become(t, [Idle EXCEPT !.at = "scan",
         !.image = {[dim |-> embedDim, max_fact_id |-> Counters.max_fact_id,
                     active_fact_count |-> Counters.active_fact_count,
                     hnsw |-> [f \in FactId |-> NoVec]]}])
    /\ UNCHANGED <<table, handle>>

FlushScan(t) ==
    /\ At(t, "scan")
    /\ IF Decodes(embedDim)
       THEN Become(t, [task[t] EXCEPT !.at = "save",
              !.image = {[i EXCEPT !.hnsw = Scan] : i \in task[t].image}])
       ELSE Finish(t)
    /\ UNCHANGED <<table, handle>>

FlushSave(t) ==
    /\ At(t, "save")
    /\ sidecar' = task[t].image
    /\ Finish(t)
    /\ UNCHANGED <<table, index, unnoticed, embedDim, fence, up>>

\* The handle goes away, with whatever was under way.
Crash ==
    /\ up /\ \E t \in Task : "crash" \in Op[t]
    /\ up' = FALSE /\ fence' = 0
    /\ index' = [f \in FactId |-> NoVec] /\ unnoticed' = {}
    /\ task' = [t \in Task |-> Idle]
    /\ UNCHANGED <<table, embedDim, sidecar>>

\* Mutant: the width of its entries is not compared.
AcceptedAnyDim(image, d) ==
    /\ image.max_fact_id = Counters.max_fact_id
    /\ image.active_fact_count = Counters.active_fact_count
Accepted(image, d) ==
    /\ image.dim = d
    /\ image.max_fact_id = Counters.max_fact_id
    /\ image.active_fact_count = Counters.active_fact_count

\* Open at dimension d: it must be the recorded identity's, and without an
\* accepted sidecar every vector must decode at it.
Open(d) ==
    /\ ~up /\ d \in Width
    /\ \A i \in Established : Dim[i] = d
    /\ \/ \E image \in sidecar : Accepted(image, d) /\ index' = image.hnsw
       \/ /\ \A image \in sidecar : ~Accepted(image, d)
          /\ Decodes(d) /\ index' = Scan
    /\ embedDim' = d /\ up' = TRUE /\ unnoticed' = {}
    /\ UNCHANGED <<table, fence, sidecar, task>>

-----------------------------------------------------------------------------
Init ==
    /\ fact = [f \in FactId |-> "none"]
    /\ vec = [f \in FactId |-> NoVec]
    /\ spaces = [n \in Name |-> Absent]
    /\ fv = {}
    /\ index = [f \in FactId |-> NoVec] /\ unnoticed = {}
    /\ embedDim \in Width
    /\ fence = 0 /\ sidecar = {} /\ up = TRUE
    /\ task = [t \in Task |-> Idle]

TaskNext(t) ==
    \/ AddEmbed(t) \/ AddCommit(t) \/ Dream(t) \/ DreamPromote(t)
    \/ Import(t) \/ ImportCommit(t) \/ InsertRefused(t)
    \/ NotifyInsert(t) \/ Abandon(t)
    \/ Expire(t) \/ NotifyExpire(t) \/ Purge(t)
    \/ Consolidate(t) \/ ConsolidateApply(t) \/ ConsolidateRefused(t)
    \/ ReconstructBegin(t) \/ BackfillRead(t) \/ BackfillWrite(t)
    \/ BackfillDone(t) \/ Promote(t) \/ PromoteRefused(t)
    \/ Rebuild(t) \/ Fence(t)
    \/ FlushStamp(t) \/ FlushScan(t) \/ FlushSave(t)

Next == (\E t \in Task : TaskNext(t)) \/ Crash \/ (\E d \in Width : Open(d))

Spec == Init /\ [][Next]_vars

-----------------------------------------------------------------------------
SpaceRow == [st : {"absent", "active", "populating", "deprecated"}, fp : Vector]

\* Every variable keeps its shape.
TypeOK ==
    /\ fact \in [FactId -> {"none", "active", "expired", "gone"}]
    /\ vec \in [FactId -> Vector]
    /\ spaces \in [Name -> SpaceRow]
    /\ fv \subseteq FactId \X Name \X Identity
    /\ index \in [FactId -> Vector]
    /\ unnoticed \subseteq FactId
    /\ embedDim \in Width
    /\ fence \in Width \cup {0}
    /\ sidecar \subseteq Image
    /\ up \in BOOLEAN
    /\ task \in [Task -> TaskState]

\* store/fact_vectors.rs: "a homogeneous active space is the correctness
\* invariant".  Whatever lands between the windows, the catch-up, the
\* promotion and the inserts of others, every fact in the table, expired ones
\* included, serves a vector of the one recorded identity.
Homogeneous == \A f \in FactId : Exists(f) => Established = {vec[f]}

\* The vectors of f the store can serve or roll back to.
Kept(f) == {vec[f]} \cup {r[3] : r \in {s \in fv : s[1] = f /\
                                          spaces[s[2]].st = "deprecated"}}

\* "the old vectors are retained for an instant rollback": no step loses a
\* vector that served a fact, for as long as the fact is in the table.
RollbackKept == [][\A f \in FactId : Exists(f) /\ Exists(f)' =>
                                       Kept(f) \subseteq Kept(f)']_vars

\* search/ann.rs: no concurrent rebuild, notify, flush or reopen drops an
\* index entry.  Every active fact is in the index of the open handle, or its
\* inserter is about to put it there, or it was inserted without a notice (a
\* bootstrap, a dropped call, a refused notice) since the index was last built;
\* a rebuild, and an open with or without the sidecar, leave none out.
IndexCoversActive ==
    up => \A f \in FactId :
            fact[f] = "active" =>
              \/ index[f] # NoVec
              \/ \E t \in Task : At(t, "notify") /\ task[t].fact = f
              \/ f \in unnoticed

\* The index never mixes widths: neither a rebuild, a late notify nor an
\* accepted sidecar brings in a vector the handle's dimension does not fit.
IndexFitsHandle == \A f \in FactId : index[f] # NoVec => Dim[index[f]] = embedDim

\* engine/mod.rs, ensure_open: an open handle that is not fenced reads facts
\* at their own width, but between a promotion and the fence it arms.
UnfencedDecodes ==
    up /\ fence = 0 /\ (\A t \in Task : ~At(t, "refresh")) => Decodes(embedDim)

-----------------------------------------------------------------------------
(* What the documentation says and the code does not do.                   *)

\* engine/reconstruct.rs: the consumer "reopens the engine at the new
\* dimension (which re-validates cleanly and rebuilds the index at the new
\* dim)".
Reopenable == \A i \in Established : Decodes(Dim[i])
=============================================================================
