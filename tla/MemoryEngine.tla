---------------------------- MODULE MemoryEngine ----------------------------
(***************************************************************************)
(* The engine's write path.  The SQLite tables are the truth; a petgraph   *)
(* behind an RwLock mirrors the active edges; a sidecar file carries that  *)
(* graph across restarts.                                                  *)
(*                                                                         *)
(* Every public operation is an async method on a shared &self.  It reads, *)
(* lets go of the connection, commits ONE transaction, and only then takes *)
(* the graph lock to repeat the change in memory.  Each of those stages is *)
(* an action here, so that the operations of different tasks interleave    *)
(* exactly where the code awaits.  A transaction is atomic: there is one   *)
(* writer connection, behind a mutex.                                      *)
(***************************************************************************)
EXTENDS Naturals, Sequences, FiniteSets, Functions

CONSTANTS
    MaxFacts, MaxEdges, \* bounds: rowids handed out per table
    MaxDeltas,          \* bound: superseding deltas in one cycle report
    MinFacts,           \* ArchivePolicy::min_facts
    Task,               \* callers that hold the Arc<MemoryEngine>
    Op                  \* the operations a configuration exercises

Operation == {"add", "pin", "resolve", "link", "expire_edge", "forget",
              "consolidate", "cycle", "archive", "flush", "abandon", "crash"}

ASSUME EngineBounds ==
    /\ MaxFacts \in Nat /\ MaxEdges \in Nat
    /\ MaxDeltas \in Nat /\ MinFacts \in Nat \ {0}
ASSUME EngineOps == Op \subseteq Operation

VARIABLES
    fact,       \* facts table: life-cycle of each row
    pinned,     \* facts table: rows with is_pinned = 1
    edge,       \* edges table
    nextFact,   \* sqlite_sequence of facts, plus one
    nextEdge,   \* sqlite_sequence of edges, plus one
    graph,      \* MemoryGraph: how many parallel copies of each edge it holds
    sidecar,    \* the snapshot file: {} or one image
    disk,       \* .pak files in the archive directory
    manifest,   \* archive_manifest table: the .pak files it lists
    up,         \* the process runs and holds an open engine
    task        \* what each caller is in the middle of

db == <<fact, pinned, edge, nextFact, nextEdge, manifest>>
vars == <<fact, pinned, edge, nextFact, nextEdge, graph, sidecar, disk,
          manifest, up, task>>

Ledger == INSTANCE BitemporalLedger

FactId == 1..MaxFacts
EdgeId == 1..MaxEdges

Active(f) == fact[f] = "active"
ActiveFacts == {f \in FactId : Active(f)}
\* The row is in the table, expired or not (FactStore::get finds it).
Exists(f) == fact[f] \in {"active", "expired"}
EdgeExists(e) == edge[e].st \in {"active", "expired"}
ActiveEdges == {e \in EdgeId : edge[e].st = "active"}

Row(s, t, r) == [st |-> "active", src |-> s, tgt |-> t, rel |-> r]
Incident(e, F) == edge[e].src \in F \/ edge[e].tgt \in F

-----------------------------------------------------------------------------
(* The task registers: where the caller is, and what it carries across its *)
(* awaits.                                                                 *)

Stage == {"idle", "resolve", "link", "prune", "dedup", "reload", "swap",
          "mirror", "unlink", "cycled", "archive", "stamp", "save"}

\* COALESCE(MAX(id), 0) over a set of rowids: as many ids as lie at or below one.
Highest(ids, bound) == Cardinality({i \in 1..bound : \E j \in ids : i <= j})

\* Mutant: the fingerprint only counts, without the highest rowids.
FingerprintCountsOnly ==
    [ max_fact_id |-> 0,
      active_fact_count |-> Cardinality(ActiveFacts),
      max_edge_id |-> 0,
      active_edge_count |-> Cardinality(ActiveEdges) ]

\* DbFingerprint: the counters a sidecar is compared by.  Its scope counters
\* belong to the scopes table, which this module leaves out.
Fingerprint ==
    [ max_fact_id |-> Highest({f \in FactId : Exists(f)}, MaxFacts),
      active_fact_count |-> Cardinality(ActiveFacts),
      max_edge_id |-> Highest({e \in EdgeId : EdgeExists(e)}, MaxEdges),
      active_edge_count |-> Cardinality(ActiveEdges) ]
Unstamped == [max_fact_id |-> 0, active_fact_count |-> 0,
              max_edge_id |-> 0, active_edge_count |-> 0]
Image == [graph : [EdgeId -> Nat],
          fp : [max_fact_id : Nat, active_fact_count : Nat,
                max_edge_id : Nat, active_edge_count : Nat]]

Idle == [at |-> "idle", facts |-> {}, edges |-> {}, plan |-> {}, image |-> {}]
TaskState == [at : Stage, facts : SUBSET FactId, edges : SUBSET EdgeId,
              plan : SUBSET (FactId \X FactId), image : SUBSET Image]
Pak == [by : Task, facts : SUBSET FactId]

Free(t) == up /\ task[t].at = "idle"
At(t, stage) == task[t].at = stage
Become(t, state) == task' = [task EXCEPT ![t] = state]
Finish(t) == Become(t, Idle)

-----------------------------------------------------------------------------
(* One write transaction.  At most one fact row is inserted (born is {} or *)
(* {nextFact}, pinned or not as the caller says); the rows in dead are     *)
(* expired; active edges at a fact of cut are expired with it              *)
(* (expire_by_fact); the rows new are appended to the edges table.         *)

Write(born, dead, cut, new) ==
    /\ born \subseteq FactId                            \* bound
    /\ nextEdge + Len(new) <= MaxEdges + 1              \* bound
    /\ fact' = [f \in FactId |->
                 IF f \in born THEN "active"
                 ELSE IF f \in dead THEN "expired" ELSE fact[f]]
    /\ \E p \in SUBSET born :
        /\ "pin" \notin Op => p = {}
        /\ pinned' = pinned \cup p
    /\ nextFact' = IF born = {} THEN nextFact ELSE nextFact + 1
    /\ edge' = [e \in EdgeId |->
                 IF e \in nextEdge..(nextEdge + Len(new) - 1)
                 THEN new[e - nextEdge + 1]
                 ELSE IF edge[e].st = "active" /\ Incident(e, cut)
                      THEN Ledger!Marked(edge[e], "expired")
                      ELSE edge[e]]
    /\ nextEdge' = nextEdge + Len(new)

\* The ids of the n edges a transaction appended, as it returns them.
\* Mutant: one id too many.
AppendedIdsOneTooMany(n) == nextEdge..(nextEdge + n)
AppendedIds(n) == nextEdge..(nextEdge + n - 1)

OnlyTables == UNCHANGED <<graph, sidecar, disk, manifest, up>>
NoTables == UNCHANGED db
OnlyTask == NoTables /\ UNCHANGED <<graph, sidecar, disk, up>>

\* The in-memory repetition of a commit: drop what touches facts, add edges.
\* Mutant: the new edge is added before the old ones are dropped.
MirroredAddFirst(facts, edges) ==
    [e \in EdgeId |-> IF Incident(e, facts) THEN 0
                       ELSE graph[e] + (IF e \in edges THEN 1 ELSE 0)]
Mirrored(facts, edges) ==
    [e \in EdgeId |-> (IF Incident(e, facts) THEN 0 ELSE graph[e])
                        + (IF e \in edges THEN 1 ELSE 0)]

\* The transaction ends with nothing written: the arbiter said Noop, a row is
\* no longer what the read saw (NotFound, a foreign key), or the database
\* reports an error.
Rollback(t) ==
    /\ task[t].at \in {"resolve", "link", "prune", "dedup"}
    /\ Finish(t)
    /\ OnlyTask

MirrorOf(facts, edges) == [Idle EXCEPT !.at = "mirror", !.facts = facts,
                                       !.edges = edges]

Mirror(t) ==
    /\ At(t, "mirror")
    /\ graph' = Mirrored(task[t].facts, task[t].edges)
    /\ Finish(t)
    /\ NoTables /\ UNCHANGED <<sidecar, disk, up>>

-----------------------------------------------------------------------------
(* Ingest, pin, unpin: a commit with no in-memory counterpart here.        *)

AddFact(t) ==
    /\ "add" \in Op /\ Free(t)
    /\ Write({nextFact}, {}, {}, <<>>)
    /\ OnlyTables /\ UNCHANGED task

SetPinned(t) ==
    /\ "pin" \in Op /\ Free(t)
    /\ \E f \in FactId :
        /\ Exists(f)
        /\ pinned' \in {pinned \cup {f}, pinned \ {f}}
    /\ UNCHANGED <<fact, edge, nextFact, nextEdge, task>> /\ OnlyTables

-----------------------------------------------------------------------------
(* resolve_conflict: read old_id (an expired row is found too), ask the    *)
(* arbiter, then commit its decision against the tables as they are now.   *)

ResolveRead(t) ==
    /\ "resolve" \in Op /\ Free(t)
    /\ \E old \in FactId :
        /\ Exists(old)
        /\ Become(t, [Idle EXCEPT !.at = "resolve", !.facts = {old}])
    /\ OnlyTask

ResolveAdd(t) ==
    /\ At(t, "resolve")
    /\ \E old \in task[t].facts :
        /\ Active(old)
        /\ Write({nextFact}, {}, {}, <<Row(nextFact, old, "supplements")>>)
    /\ Become(t, MirrorOf({}, AppendedIds(1)))
    /\ OnlyTables

\* Mutant: the update does not look whether old_id is still active.
ResolveUpdateUnchecked(t) ==
    /\ At(t, "resolve")
    /\ \E old \in task[t].facts :
        /\ Exists(old)
        /\ Write({nextFact}, {old}, {old},
                 <<Row(nextFact, old, "contradicts")>>)
        /\ Become(t, MirrorOf({old}, AppendedIds(1)))
    /\ OnlyTables

ResolveUpdate(t) ==
    /\ At(t, "resolve")
    /\ \E old \in task[t].facts :
        /\ Active(old)
        /\ Write({nextFact}, {old}, {old},
                 <<Row(nextFact, old, "contradicts")>>)
        /\ Become(t, MirrorOf({old}, AppendedIds(1)))
    /\ OnlyTables

ResolveDelete(t) ==
    /\ At(t, "resolve")
    /\ \E old \in task[t].facts :
        /\ Active(old)
        /\ Write({}, {old}, {old}, <<>>)
        /\ Become(t, MirrorOf({old}, {}))
    /\ OnlyTables

-----------------------------------------------------------------------------
(* link_session_facts: the active facts of one session are read, then one  *)
(* transaction inserts the co_session edges still missing between them, in *)
(* both directions.  It does not look at the facts again.                  *)

LinkRead(t) ==
    /\ "link" \in Op /\ Free(t)
    /\ \E S \in SUBSET ActiveFacts :
        /\ Cardinality(S) >= 2
        /\ Become(t, [Idle EXCEPT !.at = "link", !.facts = S])
    /\ OnlyTask

Linked(a, b) ==
    \E e \in ActiveEdges : /\ edge[e].src = a /\ edge[e].tgt = b
                           /\ edge[e].rel = "co_session"
Missing(S) == {p \in S \X S : p[1] # p[2] /\ ~Linked(p[1], p[2])}
\* The nested loop's order: by unordered pair, low fact first, a -> b then b -> a.
Before(p, q) ==
    LET lo(x) == IF x[1] < x[2] THEN x[1] ELSE x[2]
        hi(x) == IF x[1] < x[2] THEN x[2] ELSE x[1]
    IN  \/ lo(p) < lo(q)
        \/ lo(p) = lo(q) /\ hi(p) < hi(q)
        \/ lo(p) = lo(q) /\ hi(p) = hi(q) /\ p[1] < q[1]

LinkCommit(t) ==
    /\ At(t, "link")
    /\ \A f \in task[t].facts : Exists(f)           \* the foreign key
    /\ \E n \in 0..MaxEdges :
       \E pairs \in [1..n -> Missing(task[t].facts)] :
        /\ \A p \in Missing(task[t].facts) : \E i \in 1..n : pairs[i] = p
        /\ \A i, j \in 1..n : i < j => Before(pairs[i], pairs[j])
        /\ Write({}, {}, {}, [i \in 1..n |->
                                Row(pairs[i][1], pairs[i][2], "co_session")])
        /\ Become(t, MirrorOf({}, AppendedIds(n)))
    /\ OnlyTables

-----------------------------------------------------------------------------
(* expire_edge: by id, no read first.                                      *)

ExpireEdge(t) ==
    /\ "expire_edge" \in Op /\ Free(t)
    /\ \E e \in ActiveEdges :
        /\ edge' = [edge EXCEPT ![e] = Ledger!Marked(@, "expired")]
        /\ Become(t, [Idle EXCEPT !.at = "unlink", !.edges = {e}])
    /\ UNCHANGED <<fact, pinned, nextFact, nextEdge>> /\ OnlyTables

\* remove_edge_by_id takes out the first copy it finds, or none.
Unlink(t) ==
    /\ At(t, "unlink")
    /\ graph' = [e \in EdgeId |->
                   IF e \in task[t].edges /\ graph[e] > 0
                   THEN graph[e] - 1 ELSE graph[e]]
    /\ Finish(t)
    /\ NoTables /\ UNCHANGED <<sidecar, disk, up>>

-----------------------------------------------------------------------------
(* forget: score every active fact, pick the unpinned ones below the       *)
(* threshold, then expire all of them in one transaction.  FactStore::     *)
(* expire says NotFound for a fact that is no longer active, and that      *)
(* rolls the whole sweep back.  A sweep with no victim changes nothing     *)
(* here.                                                                   *)

PruneRead(t) ==
    /\ "forget" \in Op /\ Free(t)
    /\ \E V \in SUBSET (ActiveFacts \ pinned) :
        /\ V # {}
        /\ Become(t, [Idle EXCEPT !.at = "prune", !.facts = V])
    /\ OnlyTask

\* Mutant: the sweep expires the facts and forgets their edges.
PruneCommitNoCascade(t) ==
    /\ At(t, "prune")
    /\ task[t].facts \subseteq ActiveFacts
    /\ Write({}, task[t].facts, {}, <<>>)
    /\ Become(t, MirrorOf(task[t].facts, {}))
    /\ OnlyTables

PruneCommit(t) ==
    /\ At(t, "prune")
    /\ task[t].facts \subseteq ActiveFacts
    /\ Write({}, task[t].facts, task[t].facts, <<>>)
    /\ Become(t, MirrorOf(task[t].facts, {}))
    /\ OnlyTables

-----------------------------------------------------------------------------
(* consolidate: plan merges over a snapshot of the active facts, with no   *)
(* lock held; apply the plan; re-read the active edges; replace the graph. *)

Losers(plan) == {p[1] : p \in plan}

\* What compute_dedup can return: a fact loses once, is skipped from then on,
\* and a survivor has not lost yet when it is chosen, so that no group of
\* losers can consist of each other's survivors.
DedupPlan(plan) ==
    /\ \A p, q \in plan : p[1] = q[1] => p = q
    /\ \A S \in SUBSET Losers(plan) :
        S # {} => \E p \in plan : p[1] \in S /\ p[2] \notin S

ConsolidateRead(t) ==
    /\ "consolidate" \in Op /\ Free(t)
    /\ LET candidates == ActiveFacts \ pinned
       IN  \E plan \in SUBSET (candidates \X candidates) :
            /\ plan # {}
            /\ DedupPlan(plan)
            /\ Become(t, [Idle EXCEPT !.at = "dedup", !.plan = plan])
    /\ OnlyTask

\* Mutant: a merge goes ahead although its survivor is gone.
MergeLosersBlind(plan) ==
    {l \in ActiveFacts : \E s \in FactId : <<l, s>> \in plan}

\* The losers apply_dedup expires: a merge is void when its survivor is gone,
\* and every survivor is looked at before anything is expired.
MergeLosers(plan) ==
    {l \in ActiveFacts : \E s \in ActiveFacts : <<l, s>> \in plan}

ConsolidateApply(t) ==
    /\ At(t, "dedup")
    /\ LET dead == MergeLosers(task[t].plan)
       IN  /\ Write({}, dead, dead, <<>>)
           /\ IF dead = {} THEN Finish(t)
              ELSE Become(t, [Idle EXCEPT !.at = "reload"])
    /\ OnlyTables

ConsolidateReload(t) ==
    /\ At(t, "reload")
    /\ Become(t, [Idle EXCEPT !.at = "swap", !.edges = ActiveEdges])
    /\ OnlyTask

ConsolidateSwap(t) ==
    /\ At(t, "swap")
    /\ graph' = [e \in EdgeId |-> IF e \in task[t].edges THEN 1 ELSE 0]
    /\ Finish(t)
    /\ NoTables /\ UNCHANGED <<sidecar, disk, up>>

-----------------------------------------------------------------------------
(* apply_cycle_report: the deltas of a dream-cycle report are validated    *)
(* and applied in one hold of the writer.  succ lists the superseding      *)
(* deltas in order as <<new, old>>: Supersede names two active facts (they *)
(* may be the same one), Synthesize a fresh fact and one of its sources.   *)
(* quarantine holds the facts expired with no successor.  Unlike every     *)
(* other expiry, none of these touches the edges of the fact.              *)

ValidSuccession(succ, born, quarantine) ==
    /\ \A i \in DOMAIN succ :
        /\ Active(succ[i][2]) /\ succ[i][2] \notin quarantine
        /\ Active(succ[i][1]) \/ succ[i][1] \in born
        \* the sources of one Synthesize follow each other
        /\ \A j \in 1..(i - 1) : succ[i][1] \in born /\ succ[j][1] = succ[i][1]
                                => succ[i - 1][1] = succ[i][1]
        /\ \A j \in 1..(i - 1) : succ[j][2] \notin {succ[i][1], succ[i][2]}

CycleCommit(t) ==
    /\ "cycle" \in Op /\ Free(t)
    /\ \E born \in SUBSET ({nextFact} \cap FactId), quarantine \in SUBSET ActiveFacts,
          n \in 0..MaxDeltas :
       \E succ \in [1..n -> (ActiveFacts \cup born) \X ActiveFacts] :
        /\ ValidSuccession(succ, born, quarantine)
        /\ LET olds == {succ[i][2] : i \in 1..n}
           IN  /\ Write(born, quarantine \cup olds, {},
                        [i \in 1..n |->
                           Row(succ[i][1], succ[i][2], "supersedes")])
               /\ IF n = 0 THEN Finish(t)
                  ELSE Become(t, [Idle EXCEPT !.at = "cycled",
                                    !.facts = olds,
                                    !.edges = AppendedIds(n)])
    /\ OnlyTables

\* For each new edge in turn: remove_edges_by_fact(old), then add_edge.  A
\* later removal may take out an edge added a moment ago.
CycleMirror(t) ==
    /\ At(t, "cycled")
    /\ LET new == task[t].edges
           removedLater(e) ==
               \E d \in new : d > e /\ Incident(e, {edge[d].tgt})
       IN  graph' = [e \in EdgeId |->
                       IF e \in new THEN IF removedLater(e) THEN 0 ELSE 1
                       ELSE IF Incident(e, task[t].facts) THEN 0
                       ELSE graph[e]]
    /\ Finish(t)
    /\ NoTables /\ UNCHANGED <<sidecar, disk, up>>

-----------------------------------------------------------------------------
(* archive: select expired unpinned facts (the policy's cutoff decides     *)
(* which), write them to a .pak file, then in one transaction list the     *)
(* file in the manifest and delete the rows with every edge at them.       *)

ArchivePack(t) ==
    /\ "archive" \in Op /\ Free(t)
    /\ \E A \in SUBSET {f \in FactId : fact[f] = "expired" /\ f \notin pinned} :
        /\ Cardinality(A) >= MinFacts
        /\ disk' = disk \cup {[by |-> t, facts |-> A]}
        /\ Become(t, [Idle EXCEPT !.at = "archive", !.facts = A])
    /\ NoTables /\ UNCHANGED <<graph, sidecar, up>>

\* hard_delete_incident_to_facts.
\* Mutant: only the edges with both endpoints archived are deleted.
ArchivedEdgesInternal(A) ==
    {e \in EdgeId : /\ EdgeExists(e)
                    /\ edge[e].src \in A /\ edge[e].tgt \in A}
ArchivedEdges(A) ==
    {e \in EdgeId : EdgeExists(e) /\ Incident(e, A)}

ArchiveCommit(t) ==
    /\ At(t, "archive")
    /\ LET A == task[t].facts
       IN  /\ manifest' = manifest \cup {[by |-> t, facts |-> A]}
           /\ fact' = [f \in FactId |-> IF f \in A THEN "purged" ELSE fact[f]]
           /\ edge' = [e \in EdgeId |->
                         IF e \in ArchivedEdges(A)
                         THEN Ledger!Marked(edge[e], "purged") ELSE edge[e]]
           /\ pinned' = pinned \ A
           /\ Become(t, MirrorOf(A, {}))
    /\ UNCHANGED <<nextFact, nextEdge, graph, sidecar, disk, up>>

\* Mutant: .pak files are named after their facts, so two archives of the
\* same facts share one.
ArchiveRollbackSharedName(t) ==
    /\ At(t, "archive")
    /\ disk' = {p \in disk : p.facts # task[t].facts}
    /\ Finish(t)
    /\ NoTables /\ UNCHANGED <<graph, sidecar, up>>

\* The transaction failed (a storage error): the caller removes its file.
ArchiveRollback(t) ==
    /\ At(t, "archive")
    /\ disk' = disk \ {[by |-> t, facts |-> task[t].facts]}
    /\ Finish(t)
    /\ NoTables /\ UNCHANGED <<graph, sidecar, up>>

-----------------------------------------------------------------------------
(* flush_snapshot: copy the graph; then, on a reader connection, take the  *)
(* fingerprint of the tables; then replace the sidecar file.               *)

FlushCapture(t) ==
    /\ "flush" \in Op /\ Free(t)
    /\ Become(t, [Idle EXCEPT !.at = "stamp",
                              !.image = {[graph |-> graph, fp |-> Unstamped]}])
    /\ OnlyTask

FlushStamp(t) ==
    /\ At(t, "stamp")
    /\ Become(t, [Idle EXCEPT !.at = "save",
                    !.image = {[i EXCEPT !.fp = Fingerprint] :
                                 i \in task[t].image}])
    /\ OnlyTask

FlushSave(t) ==
    /\ At(t, "save")
    /\ sidecar' = task[t].image
    /\ Finish(t)
    /\ NoTables /\ UNCHANGED <<graph, disk, up>>

-----------------------------------------------------------------------------
(* Failure and restart.                                                    *)

\* The operation ends at an await without running its remaining stages: its
\* future is dropped, a consumer panics, or (after a commit) the vector index
\* reports IndexInconsistent.
Abandon(t) ==
    /\ "abandon" \in Op
    /\ up /\ task[t].at # "idle"
    /\ Finish(t)
    /\ OnlyTask

\* The process ends, between operations or in the middle of them.
Crash ==
    /\ "crash" \in Op /\ up
    /\ up' = FALSE
    /\ task' = [t \in Task |-> Idle]
    /\ graph' = [e \in EdgeId |-> 0]
    /\ NoTables /\ UNCHANGED <<sidecar, disk>>

ActiveGraph == [e \in EdgeId |-> IF e \in ActiveEdges THEN 1 ELSE 0]

EdgeCount(g) == SumFunction(g)

\* try_load_snapshot: same fingerprint, as many edges as the tables hold
\* active, and both endpoints of each still in the facts table.
Accepted(image) ==
    /\ image.fp = Fingerprint
    /\ EdgeCount(image.graph) = Fingerprint.active_edge_count
    /\ \A e \in EdgeId : image.graph[e] > 0 =>
        Exists(edge[e].src) /\ Exists(edge[e].tgt)

\* The graph an open engine starts from: the sidecar's, or rebuilt.
Loaded(g) ==
    IF \E image \in sidecar : Accepted(image)
    THEN \E image \in sidecar : g = image.graph
    ELSE g = ActiveGraph

Open ==
    /\ ~up
    /\ up' = TRUE
    /\ \E g \in {i.graph : i \in sidecar} \cup {ActiveGraph} :
        Loaded(g) /\ graph' = g
    /\ NoTables /\ UNCHANGED <<sidecar, disk, task>>

-----------------------------------------------------------------------------
Init ==
    /\ fact = [f \in FactId |-> "none"] /\ pinned = {}
    /\ edge = [e \in EdgeId |-> Ledger!NoEdge]
    /\ nextFact = 1 /\ nextEdge = 1
    /\ graph = [e \in EdgeId |-> 0] /\ sidecar = {}
    /\ disk = {} /\ manifest = {}
    /\ up = TRUE /\ task = [t \in Task |-> Idle]

Step(t) ==
    \/ AddFact(t) \/ SetPinned(t) \/ Mirror(t) \/ Rollback(t)
    \/ ResolveRead(t) \/ ResolveAdd(t) \/ ResolveUpdate(t)
    \/ ResolveDelete(t) \/ LinkRead(t) \/ LinkCommit(t)
    \/ ExpireEdge(t) \/ Unlink(t) \/ PruneRead(t) \/ PruneCommit(t)
    \/ ConsolidateRead(t) \/ ConsolidateApply(t)
    \/ ConsolidateReload(t) \/ ConsolidateSwap(t)
    \/ CycleCommit(t) \/ CycleMirror(t)
    \/ ArchivePack(t) \/ ArchiveCommit(t) \/ ArchiveRollback(t)
    \/ FlushCapture(t) \/ FlushStamp(t) \/ FlushSave(t)
    \/ Abandon(t)

Next == Crash \/ Open \/ \E t \in Task : Step(t)

Spec == Init /\ [][Next]_vars

-----------------------------------------------------------------------------
(* What the engine promises.                                               *)

\* Every variable has its type: in particular the graph never holds a
\* negative number of copies, and a task only carries rowids in range.
TypeOK ==
    /\ Ledger!LedgerTypeOK
    /\ pinned \subseteq FactId
    /\ nextFact \in 1..(MaxFacts + 1) /\ nextEdge \in 1..(MaxEdges + 1)
    /\ graph \in [EdgeId -> Nat]
    /\ sidecar \subseteq Image
    /\ disk \subseteq Pak /\ manifest \subseteq Pak
    /\ up \in BOOLEAN
    /\ task \in [Task -> TaskState]

\* The tables implement the bitemporal ledger under every interleaving:
\* foreign keys hold when a link or an archive acts on what it read earlier,
\* nothing is revived, and no edge row is lost except with an endpoint.
LedgerRefinement == Ledger!LedgerSpec

Succession == {"contradicts", "supersedes"}
Successors(f) ==
    {e \in EdgeId : edge[e].rel \in Succession /\ edge[e].tgt = f}

\* A fact is replaced at most once, and stays replaced: two arbitrations or
\* dream cycles that read the same fact cannot both commit a successor for it
\* (the TOCTOU of #335), whichever commits first.
AtMostOneSuccessor ==
    \A f \in FactId :
        /\ \A d, e \in Successors(f) : d = e
        /\ Successors(f) # {} => ~Active(f)

\* Deduplication never erases a whole group of duplicates: when apply_plan
\* expires a loser, every set of facts closed under "is merged into" that
\* holds the loser still has an active member (#409), although survivors may
\* have been expired by others since the plan was made.
MergedGroupKeepsAMember ==
    [][\A t \in Task : ConsolidateApply(t) =>
        \A S \in SUBSET FactId :
            /\ \A p \in task[t].plan : p[1] \in S => p[2] \in S
            /\ \E f \in S : Active(f) /\ fact'[f] = "expired"
            => \E f \in S : fact'[f] = "active"]_vars

\* Cold storage loses nothing: a fact whose row was hard-deleted is in a .pak
\* file that the manifest lists and that is on disk, also when another archive
\* of the same facts failed and removed its file, or the process died between
\* the file and the commit.
PurgedIsArchived ==
    \A f \in FactId : fact[f] = "purged" =>
        \E p \in manifest \cap disk : f \in p.facts

\* With one caller at a time, the in-memory graph holds exactly one copy of
\* each active edge whenever no operation is under way: the graph "must
\* exactly mirror the active edges committed to the DB".
MirrorExact ==
    up /\ (\A t \in Task : task[t].at = "idle") => graph = ActiveGraph

\* The open path never trusts a stale sidecar: a file whose fingerprint,
\* length and endpoints agree with the tables holds their active edges.
AcceptedSidecarIsCurrent ==
    \A image \in sidecar : Accepted(image) => image.graph = ActiveGraph

\* An active edge joins active facts, the target of a "contradicts" edge
\* excepted: expiring a fact leaves no live edge at it behind.
CascadeComplete ==
    \A e \in ActiveEdges :
        /\ Active(edge[e].src)
        /\ edge[e].rel = "contradicts" \/ Active(edge[e].tgt)

\* Pinned facts "bypass forgetting and dedup": neither sweep expires one.
PinnedIsUnforgettable ==
    [][\A t \in Task : PruneCommit(t) \/ ConsolidateApply(t) =>
        \A f \in pinned : Active(f) => fact'[f] = "active"]_vars

\* Opening the engine recovers the graph: whatever a lost mirror step left in
\* memory, "the next open() recovers it".
OpenRecovers == [][Open => graph' = ActiveGraph]_vars
=============================================================================
