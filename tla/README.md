# A TLA+ development of memory-engine

memory-engine is an embedded store of *facts* and *edges* for agents. It keeps
them in SQLite, mirrors part of them in memory, and forgets, merges, arbitrates
and archives them in the background of a shared, asynchronous API. This
directory holds TLA+ specifications of its core, TLC configurations that check
them on small instances, and TLAPS proofs of theorems about them. Paths below
are relative to the repository's `crates/`.

## 1. The system

| component | state it keeps | operations | interacts with |
|---|---|---|---|
| SQLite tables (`me-backend-sqlite`) | `facts`, `edges`, `scopes`, `archive_manifest`, embeddings, events, ... | one transaction per write method of the storage port; one writer behind a mutex, a pool of readers | everything, through the port |
| Engine (`memory-engine/src/engine`) | `RwLock<MemoryGraph>`, `RwLock<ScopeTree>`, the dimension fence | the public async API on a shared `&self` | delegates to the crates below |
| Conflict arbitration (`me-resolve`) | none | read the old fact, ask the arbiter, commit Add / Update / Delete / Noop, mirror | tables, graph |
| Forgetting (`me-forget`) | none | score, choose, expire in one transaction, mirror; pin, unpin | tables, graph |
| Consolidation (`me-consolidate`) | none | plan over a snapshot, apply, reload edges, replace the graph | tables, graph |
| Dream cycle (`me-cognitive`) | none | apply a report of deltas in one transaction, mirror | tables, graph, scope tree |
| Archive (`me-archive`) | `.pak` files | select, write file, delete rows and list the file in one transaction, mirror | tables, graph, file system |
| Snapshot sidecar | one file: graph, scope tree, vector index, fingerprint | flush, accept or rebuild at open | tables, graph, scope tree |
| Scope tree (`me-index/src/scope`) | cached scope rows | ensure a path, cache a chain, cache leaves, resolve | tables, sidecar |
| Ingest (`me-ingest`) | none | add one fact, add a batch | tables, scope tree, embedder |
| Vector index (`search/ann.rs`) | HNSW graph | notify insert / expire, search, rebuild | tables |
| Reconstruction (`engine/reconstruct.rs`) | embedding spaces, the dimension fence | re-embed, promote a space, fence the handle | tables, sidecar, every embedding call |
| Connection pool (`me-backend-sqlite/src/pool`) | a stack of read connections behind a mutex and a condition variable, one write connection | read, write and stream on blocking threads, with a timeout | every call of every component |
| In-memory graph (`me-index/src/graph`) | petgraph's node and edge arrays, a map from fact id to node index | add, remove, rebuild, load; degree, neighbours, component | the engine, under its `RwLock` |
| Sessions, activities, checkpoints (`engine/activity.rs`) | `activities`, `session_checkpoints` | record with deduplication and promotion to a fact, checkpoint, load the context | tables; forgetting and archive, through the promoted facts |
| Future memory (`engine/scheduling.rs`, `engine/resume.rs`) | `surfaced_at` of the facts | list what is due, hint when the next fact is, resume a session | tables; a consumer that polls |
| Bootstrap import (`engine/bootstrap.rs`) | marker events, access statistics of facts | import a directory of session logs or of notes | tables, embedder, file system |
| Event log | an append-only table | append, read | tables |
| Query, inspection, restore | none | reads; restore fills an empty database | tables, graph, scope tree |
| MCP server, CLI, embedders, Postgres | none of the core's | front ends; a backend that cannot carry an engine yet | engine |

What makes it hard. Each operation is a sequence *read, let go of the
connection, commit one transaction, let go again, repeat the change in memory*.
The callers share the engine, so every gap is open to every other caller, and
an operation can end in any gap: the future is dropped, a consumer's callback
panics, the vector index reports `IndexInconsistent`, the process dies. Four
kinds of state have to agree in spite of that: the tables, the in-memory mirror,
the sidecar and the `.pak` files. Below them the callers wait for each other's
connections; beside them consumers sleep until a hint that was true when it was
given, and imports are run twice because nobody knows whether the first succeeded. `PROJECT.json` lists each hazard at its line.

What would make each component correct:

- tables: a row is written once, expired at most once, removed only into cold
  storage; foreign keys hold; a fact has at most one successor;
- graph: exactly the active edges of the tables;
- sidecar: accepted only when it equals what a rebuild would produce;
- forgetting, dedup: never a pinned fact, never a whole group of duplicates,
  and never a fact without its edges;
- archive: no fact leaves the tables unless a listed file holds it;
- scope tree: an ensured path resolves, at once and after a restart;
- reconstruction: whatever is written meanwhile, every fact serves a vector of
  the one recorded model, no vector that served is lost, and a handle whose
  dimension no longer fits stops serving until it is reopened;
- vector index: no rebuild, flush or reopen drops an active fact from it; the only
  ones it lacks are those of which it was never told since it was last built; every
  entry has the handle's dimension;
- connection pool: no connection leaks or is shared, no waiting reader is forgotten
  while a connection is idle, every call returns, and a stream that says it is
  complete is;
- in-memory graph: petgraph renames nodes and edges at every removal, and the facts
  and edges the callers see are the ones they put in;
- sessions: a promotion is made once, sticks and links to a fact that is there; a
  checkpoint names an activity of its session, and a loaded context shows that
  activity if it is in scope and on the page;
- future memory: a fact is surfaced once, when it is due, every caller reports the
  same stamp, and a consumer that follows the hints sees all of them;
- bootstrap: no session is imported twice, a file is imported whole or not at all,
  and the statistics do not depend on the order.

## 2. Modules

| module | what it is |
|---|---|
| `BitemporalLedger` | abstract: what the tables promise about facts and edges, one step per committed transaction |
| `MemoryEngine` | the write path: every operation on facts and edges in the stages the code awaits between, the graph, the sidecar, the archive |
| `MemoryEngineProofs` | TLAPS: `MemoryEngine` implements `BitemporalLedger`, and eight more theorems |
| `MCEngine` | instances of `MemoryEngine` for TLC |
| `ScopeCache` | scope rows, the cached tree, its two ways of being filled, its part of the sidecar |
| `ScopeCacheProofs` | TLAPS: three theorems about `ScopeCache` |
| `MCScopeCache` | instances of `ScopeCache` for TLC |
| `EmbeddingSpaces` | the identity tuple, reconstruction in its stages, the dimension fence, the vector index and its part of the sidecar |
| `EmbeddingSpacesProofs` | TLAPS: six theorems about `EmbeddingSpaces` |
| `MCSpaces` | instances of `EmbeddingSpaces` for TLC |
| `ConnectionPool` | the pool's stack, condition variable, write lock and timeout; the three ways a call runs on it |
| `ConnectionPoolProofs` | TLAPS: four theorems about `ConnectionPool` |
| `FactGraph` | abstract: a set of facts and a bag of edges, and what each query means |
| `MemoryGraph` | petgraph's arrays and the node map; it implements `FactGraph` |
| `GraphProofs` | TLAPS: that it does, and three more theorems about `MemoryGraph` |
| `SessionLog` | activities, promotions, checkpoints and the archive that meets them |
| `SessionLogProofs` | TLAPS: five theorems about `SessionLog` |
| `FutureMemory` | due facts, the surfaced stamps, the hint and its consumer |
| `FutureMemoryProofs` | TLAPS: four theorems about `FutureMemory` |
| `BootstrapImport` | directory imports with markers, failures, cancelled calls and re-runs |
| `ImportProofs` | TLAPS: four theorems about `BootstrapImport` |
| `MCPool`, `MCGraph`, `MCSessions`, `MCFuture`, `MCImport` | their instances for TLC |
| `MCSnapshot` | the instance of `SessionLog` for contexts, with the history of the database |

### MemoryEngine

`fact`, `edge`, `pinned`, `manifest` are the tables. A fact is `none`, `active`
(`t_expired` null), `expired` or `purged` (row deleted by the archive). `graph`
counts the copies of each edge the petgraph holds: a mirror that runs twice
makes two parallel edges, and the model can see that. `sidecar` is the snapshot
file, `disk` the `.pak` files, and `task[t]` what caller `t` carries across its
awaits.

One action is one stretch of code between awaits, or one transaction:

| code | actions |
|---|---|
| `add_fact` and others that only insert | `AddFact` |
| `pin_fact`, `unpin_fact` | `SetPinned` |
| `me-resolve` `resolve_conflict` | `ResolveRead`; `ResolveAdd`, `ResolveUpdate`, `ResolveDelete` or `Rollback`; `Mirror` |
| `link_session_facts` | `LinkRead`, `LinkCommit` or `Rollback`, `Mirror` |
| `expire_edge` | `ExpireEdge`, `Unlink` |
| `prune` | `PruneRead`, `PruneCommit` or `Rollback`, `Mirror` |
| `consolidate` | `ConsolidateRead`, `ConsolidateApply` or `Rollback`, `ConsolidateReload`, `ConsolidateSwap` |
| `apply_cycle_report` | `CycleCommit`, `CycleMirror` |
| `archive` | `ArchivePack`, `ArchiveCommit` or `ArchiveRollback`, `Mirror` |
| `flush_snapshot` | `FlushCapture`, `FlushStamp`, `FlushSave` |
| a lost future, a panic, `IndexInconsistent` | `Abandon` |
| end of the process, `init_from_pool` | `Crash`, `Open` |

What a sweep selects (scores, similarity, age) is any set the filters permit:
the scores are floating point, and the properties hold whatever they are. The
transactions go through one operator, `Write`, as they go through the same store
methods in the code. The dream cycle keeps its own mirror and does not cascade,
as in the code.

The fingerprint's scope counters and the scope tree are `ScopeCache`'s; both
modules describe the same file.

### ScopeCache

A path is a sequence of labels below the root and stands for its row, which the
unique index on (parent, label) makes sound. Rows are never deleted. Two ways
lead into the tree: `EnsurePath`, `WalkUp` once per level, `CacheChain`
(`cache_scope_chain`: `ensure_scope_path`, `add_fact`, bootstrap, promotion), and
`BatchCommit`, `FetchLeaves`, `CacheLeaves` (`add_facts_batch`, which caches leaves
only). `SharedFlush` tells `flush_snapshot(&self)` from `close(&mut self)`.

### EmbeddingSpaces

A vector is the identity (model, provider, dimension) of the provider that
computed it: what the properties tell apart is whose vector it is and how wide.
`fact` and `vec` are the rows of `facts`, `spaces` is `embedding_spaces` (a space is
named by its identity, as `space_name_for` does; `Default` is the one the first
write records), `fv` is `fact_vectors`. `index` holds the fact's vector in the HNSW
index, `embedDim` the dimension the handle was opened with, `fence` is
`reopen_required`. `unnoticed` is a history variable: the facts inserted without a
notice to the index since it was last built.

| code | actions |
|---|---|
| `add_fact` | `AddEmbed`, `AddCommit` or `InsertRefused`, `NotifyInsert` |
| `DreamCtx::promote` inside `run_dream_cycle` | `Dream`, `DreamPromote` or `InsertRefused`, `NotifyInsert` |
| `ingest_bootstrap_batch_atomic` (gives no notice) | `Import`, `ImportCommit` or `InsertRefused` |
| a future dropped at an await, a notice refused with `IndexInconsistent` | `Abandon` |
| whatever ends a fact | `Expire`, `NotifyExpire` |
| `archive` (deletes the rows) | `Purge` |
| `consolidate` (records the identity with its summaries) | `Consolidate`, `ConsolidateApply` or `ConsolidateRefused` |
| `reconstruct` | `ReconstructBegin`; `BackfillRead` and `BackfillWrite` per window, `BackfillDone` at the end of the backfill and of the catch-up; `Promote` or `PromoteRefused`; `Rebuild` or `Fence` |
| `flush_snapshot` | `FlushStamp` (counters), `FlushScan` (vectors), `FlushSave` (file) |
| end of the process, `init_from_pool` | `Crash`, `Open` |

A provider gives the vectors of its own declared identity; that is the contract of
`EmbeddingProvider`. `DreamPromote` commits a vector the cycle computed when it
started, since nothing in `promote_with_lineage` looks again.

### ConnectionPool

Each caller has one call under way; `pc` is where its blocking thread is. A section
that holds the stack's mutex is one step.

| code | actions |
|---|---|
| `block_read`, `block_write`, `for_each_streamed` up to the thread | `Start` |
| `read_conn_timeout` | `Pop`, `Park`, `DeadlinePasses`, `TimeOut`, `PoolTimeout` |
| `ReadGuard::drop` | `Push`, `NotifyOne`: the second after the mutex is unlocked |
| the write lock; reads of an in-memory pool take it too | `LockWriter`, `Refuse` on a read-only pool |
| the closure and its end, panic included | `Finish`; `SendRow` and `EndScan` for a scan |
| the consumer's loop over the channel of capacity one | `Receive`, `Abandon` (its future is dropped) |
| the join | `Join` |

### FactGraph and MemoryGraph

`FactGraph` is what `MemoryEngine` assumes of its `graph` variable, as a
specification with one step per operation. `MemoryGraph` has the arrays:
`nodes` and `edges` are petgraph's, an edge holds two indexes, `nodeMap` is
`node_map`. `SwapRemove`, `RemoveEdge` and `DropNode` are petgraph's: the first is
`Vec::swap_remove`, and the last, `remove_node`, leaves the remaining edges in any
order, since the order in which petgraph takes a node's edges is its own business. The
order that matters, highest index first in `remove_edges_by_fact`, is `Pending`. `Rebuilt`
folds a list of rows over the empty graph. The operations are `AddEdge`, `RemoveEdgeById`,
`RemoveEdgesByFact`, `RemoveNode`, `FromActiveEdges` and `FromSnapshot`; the queries
are operators, compared with what `FactGraph` says they mean.

### SessionLog

| code | actions |
|---|---|
| `record_activity` | `Record` (stamp), then `Dedup` or `Insert` (`insert_or_dedup`'s transaction), then for a promoted tool `AddFact` or `AddFactFails`, `Link` |
| `checkpoint_session` | `ReadLast`, `Upsert` |
| `load_context` | `LoadContext` (`LoadCheckpoint`, then `LoadActivities`), `Return` |
| forgetting, `archive` | `Expire`; `ArchiveSelect`, `ArchiveCommit` |
| end of the process | `Crash` |

A call has a scope (`ScopeOf`) and a checkpoint may name one. A load asks for a scope: it
takes the checkpoint of exactly that scope, and of the activities of its subtree
(`Below`) a page of the `Limit` newest, ties in any order (`Pages`).

An archive that meets a referenced fact fails as a whole, since
`activities.promoted_fact_id` is a foreign key without an action.

### FutureMemory

| code | actions |
|---|---|
| `list_due` | `Begin`, `ReadDue`, `StampAndReturn`, `Return` |
| `resume_context` | `Begin`, `ReadPinned`, `ReadHigh`, `ReadDue`, `ReadRecent`, `StampAndReturn`, `Return` |
| `next_due_time` | `AskHint` (takes its now), `NextDueTime` (the query) |
| the consumer's `list_due` and its sleep | `PollDue`, `Wake` |
| everyone else | `Tick`, `SetPinned`, `Expire`, `Purge` |

The consumer is the one the architecture overview describes: hint, list, sleep until
the hint.

### BootstrapImport

| code | actions |
|---|---|
| `bootstrap_directory`, `bootstrap_memory_directory` | `Begin`, `Unreadable`, `Return` |
| `bootstrap_one_session` | `CheckMarker` (early-out), `Prepare`, `Commit` or `CommitFails` |
| `ingest_bootstrap_batch_atomic` | `Ingest`: the guard again, the facts through `InsertOrReinforce`, the marker |
| the caller's future is dropped, its closure goes on | `Drop`, `OrphanCommits` |
| forgetting, end of the process | `Expire`, `Crash` |

`imported` is a history variable: how often each file was committed.

## 3. Runs

| run | callers, bounds | shows |
|---|---|---|
| `engine_serial` | 1 caller; 3 facts, 4 edges; crash anywhere | `TypeOK`, `MirrorExact`, `AcceptedSidecarIsCurrent`, `CascadeComplete` |
| `engine_tables` | 2 callers; 2 facts, 2 edges; everything but flush | `LedgerRefinement`, `PurgedIsArchived` |
| `engine_succession` | 2 callers; 3 facts, 3 edges, 2 superseding deltas | `AtMostOneSuccessor`, `MergedGroupKeepsAMember` |
| `scope_cache` | 2 callers; 4 paths up to 3 deep, batches of 2; crash and close | `TypeOK`, `TreeCoversScopes`, `EnsuredPathResolves`, `EnsuredEventuallyResolves` |
| `spaces` | 3 models, two of one dimension; 2 facts, windows of 1; three pairs of callers (below) | `TypeOK`, `Homogeneous`, `UnfencedDecodes`, `IndexCoversActive`, `IndexFitsHandle`, `RollbackKept` |
| `pool` | a stream of 2 rows, a reader, and one that reads and writes, on one read connection or in memory | `TypeOK`, `ConnectionsConserved`, `NoLostWakeup`, `StreamOutcome`, `EveryCallReturns` |
| `graph` | 4 facts; rows for a chain, a self-loop and an end that only one edge reaches, parallel copies | `TypeOK`, `EdgesKeepTheirEnds`, `QueriesAgree`, `ImplementsFactGraph` |
| `sessions` | 2 sessions, one in a scope below the other's; either two callers record, one of them archives and one key of two is promoted, or one records and checkpoints beside one that checkpoints and loads; crashes | `TypeOK`, `PromotedHasFact`, `ContextsShowCheckpoint`, `PromotionSticks` |
| `future_memory` | 1 caller beside the consumer; one fact due for two ticks, one due from then on | `TypeOK`, `SurfacedWhenDue`, `StampsReported`, `SurfacedOnce`, `DueFactsSurface` |
| `bootstrap` | 3 importers, 4 files that share sessions and contents; failures, cancelled calls, crashes | `TypeOK`, `SessionImportedOnce`, `EveryMentionCounted`, `StatsIndependentOfOrder` |
| `engine_race` | 2 callers; add, resolve, link | `MirrorExact` fails: mirrors run in another order than commits |
| `archive_stuck` | the recording callers of `sessions` | `ArchiveHardDeletes` fails: a promoted fact that expired makes every archive that selects it fail |

The last two are disagreements between the code and its own documentation;
`PROJECT.json` quotes both under `findings`. `engine_race`, and `MCEngineCycle.cfg` below, are
also why `MirrorExact` is checked with one caller and without the dream cycle in
`engine_serial`: there it holds, also across crashes and restarts from a sidecar. With
one caller that run says nothing of two operations interleaved; the hazards that need
two are listed with the runs that have two, or with a note that no property covers
them.

**Disagreements that can be reproduced by hand.** Six more configurations are kept
beside the runs. Each checks one property that a comment or a document states, and
TLC finds it violated (`tlc -config X.cfg M`):

| configuration, module | property | what the counterexample shows |
|---|---|---|
| `MCEngineCycle.cfg`, `MCEngine` | `MirrorExact` | the dream cycle's mirror removes edges that its transaction keeps |
| `MCEnginePin.cfg`, `MCEngine` | `PinnedIsUnforgettable` | a fact pinned between the sweep's read and its commit is expired |
| `MCEngineRecovery.cfg`, `MCEngine` | `OpenRecovers` | a flush after a lost mirror makes the loss permanent |
| `MCScopeBatch.cfg`, `MCScopeCache` | `TreeMirrorsScopes` | a batch caches the leaf of a new path and not its ancestors |
| `MCSpacesFence.cfg`, `MCSpaces` | `Reopenable` | a dream cycle beside a reconstruction writes the old width into the new space |
| `MCSnapshot.cfg`, `MCSnapshot` | `OneSnapshot` | "all queries run in a single read snapshot" (`engine/activity.rs:198`): what commits between the reads of `load_context` is in the second and not in the first |

Others were met while modelling, and the modules follow the code:

- `insert_or_dedup` writes the caller's timestamp, taken before it waited for the
  write lock; a late caller moves `last_seen` back (`store/activities.rs:72`).
- `checkpoint_session` is last write wins: a slow call overwrites a newer checkpoint.
- A consumer that calls `list_due` before `next_due_time` can miss a fact that becomes
  due in between, until another one is due (`engine/scheduling.rs:51`).
- The tiers of `resume_context` other than the due one return facts whose `t_valid` is
  still to come, which the roadmap and the glossary call invisible.
- With more due facts than its cap, `resume_context` returns the earliest again each
  time; the later ones wait for `list_due`.
- A re-run of `bootstrap_memory_directory` counts one more access of every fact, though
  it is called idempotent; so `EveryMentionCounted` counts committed imports.
- Two log files of one resumed session share a marker: with `skip_existing` the second
  is never imported.

**Bounds.** `MaxFacts` and `MaxEdges` bound rowids, which the code takes from
AUTOINCREMENT and never reuses. Three facts are a duplicate pair and an outsider,
or a chain of two merges, or a fact, its replacement and the replacement's
replacement; two edges already give a cascade beside a surviving edge, three
give a bidirectional link and a contradiction. `MaxDeltas` bounds the superseding
deltas of a report; two are needed for one to depend on another. A transaction
inserts at most one fact (`Write`'s `born`): a batch of facts commits at once,
and none of the properties relates two facts of one batch; a report with two
Synthesize deltas is therefore left out. `MinFacts` is the archive policy's
threshold. In `ScopeCache` the four paths contain a chain of three, so a walk has a middle
node, and a path that shares nothing with it; `MaxBatch` is two. In
`EmbeddingSpaces` the three models are a first one, a second one of the same
dimension (index rebuilt in place) and a wider one (fence); every sequence of
reconstructions over the three is explored, since a space opens only once. Two
facts and windows of one give every order of windows, stragglers and inserts. There
is one reconstruction at a time; the proofs allow any number. In
each behaviour one of three pairs meets (`Meetings`). A writer ingests, bootstraps, expires
and purges beside a keeper who dreams, consolidates, reconstructs and whose calls may be
dropped, so that an index is rebuilt in place while it lacks facts; one who ingests,
expires, purges and flushes meets reconstructions, so that a sidecar may be of
another width; and the writer meets a partner who ingests, dreams, flushes and may be
dropped. No behaviour of the run has flushes, dropped notices and
reconstructions together; the theorems cover that.

In `pool` three callers and one connection are enough for a waiter, a holder and a
thief that takes the connection between push and notification. `MaxEdges` of `graph`
is four, so that swap-removal moves edges of every kind. In `sessions` the window is
one tick, the clock has two (`MaxTime`; one in the scenario `Contexts`), so a repetition
falls inside or outside it; three recorded calls (`MaxCalls`) let a repetition
fall before, between and after the two transactions of a promotion, and let a second
promotion meet the archive of the first. Nothing is promoted in `Contexts`; three
calls overflow a page of two (`Limit`), two scopes put an activity outside the subtree
that is loaded, and the other caller records and checkpoints between the two reads.
In `future_memory` `Cap` is one, so tiers are cut, and the clock's three ticks
(`MaxTime`) pass both facts' times and one's end. In `bootstrap` two importers share one log and two logs are of one session; four
calls (`MaxRuns`) allow a re-run of each, `MaxExpired` lets one row be forgotten between.

**State-space reductions.** Callers are interchangeable, so `engine_tables` and
`engine_succession`, which check safety only, use symmetry. Both use the view
`TablesView`, which forgets the graph. Flush is off in them, and without it no
guard and no other variable's next value reads the graph, so nothing is lost.
`engine_serial` uses `SerialView`, which forgets `disk` and `manifest` for the same
reason: it asks nothing of them but their type. In `spaces` the two
models of one dimension are interchangeable (`SameDim`); its properties are
invariants and one action property. No run that checks liveness uses symmetry.

**Deadlock** is checked in every run. `FutureMemory` can stop nowhere since its
callers may always begin; the crash of `SessionLog` and `BootstrapImport` is always
possible, so there deadlock says little.

**Fairness.** Three modules state liveness.

- `ScopeCache`: `FairSpec` assumes weak fairness of `Continue(t)` per caller, the steps
  a caller takes once it is inside an operation. The tokio runtime polls a task that
  was woken, and the awaited calls are bounded SQLite reads on the blocking pool.
  Nothing is assumed of callers starting operations, of crashes, or of reopening; the
  property lets the promise lapse when the process ends.
- `ConnectionPool`: a blocking thread that can take a step does (`Run`, weak); a
  callback that has a row returns, unless the caller goes away, and the clock reaches a deadline
  (weak). Strong fairness is needed twice. A parked reader whose deadline is past can
  be notified again and again, which disables its timeout each time; `Condvar::wait_for`
  returns eventually. The write lock may be free only now and then; `parking_lot`'s
  mutexes are eventually fair. Nothing is assumed of callers starting or abandoning.
- `FutureMemory`: the clock advances and the consumer takes its next step (both weak).
  Nothing is assumed of the other callers; they cannot keep a fact from surfacing.

The other modules assume no fairness.

**Mutants.** Beside the definitions stand mutated forms of some of them, marked
`Mutant`: a plausible mistake for which the property named in `PROJECT.json` fails.

## 4. Proofs

All theorems hold for every set of callers and every bound, and unless a hypothesis is
named for every subset of the operations. Four hypotheses restrict how the engine is
used, each as the run that checks the property does:

| hypothesis | it says | without it |
|---|---|---|
| `Alternating` | no dream cycle runs beside a reconstruction | `MCSpacesFence.cfg` |
| `CloseOnly` | `close` is the only flush, and no batch is abandoned | a lost batch leaves a row that no tree has; beside other callers a flush may count rows its image lacks |
| `NothingBetween` | no dream cycle, and one caller if sessions are linked | the cycle does not cascade; between the stages of a link its facts can expire |
| `Serial` | one caller, who abandons nothing and runs no dream cycle | `engine_race`, `MCEngineCycle.cfg`, `MCEngineRecovery.cfg` |

They rest on the assumptions the modules
name (`EngineBounds`: the bounds are naturals, `MinFacts` is positive; `SpaceNames`,
`SpaceDims`, `SpaceBounds`: names are distinct, dimensions positive; `ScopePaths`,
`ScopeBounds`: a path has its ancestors, bounds are naturals; `RowsHaveEndpoints`: a row of the edges
table names two facts, rows and facts are finitely many; `PoolAssumption`, `LogAssumption`,
`ScheduleAssumption`, `ImportAssumption`: finite sets where they are counted, names
distinct, tables of constants typed) and on facts of
the library about cardinality, sequences and well-founded order. Nothing is assumed about the environment.

`MemoryEngineProofs`:

- `TypeCorrect`, `Spec => []TypeOK`. The proof treats the
  transactions once: `WriteTables` (what `Write` keeps), `Transactions` and
  `TablesStep` (each action of the tables), then `Registers` and `StepRegisters`
  (what a task carries stays in range), and puts them together in `TypeStep`.
- `ImplementsLedger`, `Spec => LedgerRefinement`. The refinement mapping is the
  identity on `fact` and `edge`; reads, mirrors, flushes, crashes and opens are
  stutters. The obligation is that each transaction makes only permitted moves
  and leaves no dangling edge. That needs the invariant `LedgerInv`:
  `UsedIds` (a rowid at or above the sequence is unused, so an insert never
  overwrites), `NoDanglingEdge`, and `Doomed` (the facts an archive carries from
  its selection to its commit are still expired or already purged: nobody revives
  a fact). `Doomed` is what makes the gap in `archive` harmless.
- `OneSuccessor`, `Spec => []AtMostOneSuccessor`, from the conjunct `Replaced`:
  a replaced fact is expired or purged, both final, and every action that inserts
  a successor edge requires its target active *in the transaction*.
- `ColdStorageKeepsAll`, `Spec => []PurgedIsArchived`. `ColdInv` adds that
  every listed file is on disk and holds only purged facts, and that the file of a
  commit still to come is on disk and not listed; a cleanup removes its own file
  and no other.
- `DedupKeepsAMember`, `Spec => MergedGroupKeepsAMember`. `PlansOK` says a plan
  in flight is still what `compute_dedup` returned: no group of losers consists
  of each other's survivors. So the losers among a merge-closed set have a
  survivor that is not one of them.
- `CascadeAlwaysComplete`, `Spec => []CascadeComplete` under `NothingBetween`.
  `LinksActive` says that what a link read is still active when it commits; every
  other transaction reads what it joins itself, and expires a fact with its edges.
- `MirrorAlwaysExact`, `SidecarNeverStale` and `SerialOpenRecovers`:
  `Spec => []MirrorExact`, `[]AcceptedSidecarIsCurrent` and `OpenRecovers` under
  `Serial`. `MirrorInv` has two halves. `Tracks` says stage by stage what the graph
  still lacks. `Seals` says what a sidecar is worth later on: of the rowids
  its counters cover, whatever is active now is in its graph. Rowids are handed out in
  order and never reused, so equal counters mean that every active edge is covered and that there
  are as many as in the image: they are the same edges.

`EmbeddingSpacesProofs`:

- `SpacesTypeCorrect`, `Spec => []TypeOK`. `TypeOK` is not inductive: a backfill
  writes rows of `fact_vectors` with the vector its register carries. `TypeInv` adds
  that facts in the table, spaces that exist and registers in a stage that carries a
  vector all name a real identity.
- `RollbackAlwaysKept`, `Spec => RollbackKept`. `Succeeded` says that a deprecated
  space has an active successor, so that the first write never records over one; a
  promotion then retains exactly the vectors it replaces (`KeepStep`).
- `IndexAlwaysFits`, `Spec => []IndexFitsHandle`. `WidthInv` adds that a notice under
  way fits the handle, that every sidecar image, written or being written, fits
  the width in its header, and that a closed handle has nobody inside.
- `SpacesStayHomogeneous` and `UnfencedAlwaysDecodes`, `Spec => []Homogeneous` and
  `Spec => []UnfencedDecodes`, under `Alternating`: no dream cycle runs beside a
  reconstruction (no pair of `spaces` does; the code does not
  enforce it, which is what `MCSpacesFence.cfg` shows). `Own` and `Staged` say that a
  space not promoted yet holds its own vectors only, `Playing` that an insight under
  way carries the recorded identity, `StaleIsKnown` that a handle behind the
  recorded dimension has a caller about to fence it. Any number of reconstructions
  may run at once, which the runs leave out.
- `IndexAlwaysCovers`, `Spec => []IndexCoversActive`: what the index lacks was inserted
  by a call still about to give notice, or without one since the index was last built.
  `EntryInv` says that a fact inserted
  after an image was stamped lies above the image's highest rowid, so that an image
  whose highest rowid is still the table's has every active fact, and that a notice of
  an expiry, however late, is about a fact that does not come back.

`ScopeCacheProofs`:

- `CacheTypeCorrect`, `Spec => []TypeOK`, and `EnsuredAlwaysResolves`,
  `Spec => EnsuredPathResolves`, from `CacheInv`: everything cached, carried or in an
  image has its row (`RowsBehind`), and a walk towards the root has read what lies between
  its path and its cursor (`WalksKeepTheirChain`), for paths of any depth.
- `TreeAlwaysCoversScopes`, `Spec => []TreeCoversScopes` under `CloseOnly`. `CoverInv`
  says that a row missing from the tree is on its way there with some caller, and that
  an image covers as many rows as the count beside it; rows are never
  deleted, so a count that still matches is of the same rows.

`ConnectionPoolProofs`: `PoolInv` is `TypeOK`, `GuardsHeld`, `ConnectionsConserved`,
`NoLostWakeup` and `RowsAccounted`.

- `PoolTypeCorrect`, `Spec => []TypeOK`.
- `ConnectionsAlwaysConserved`, `Spec => []ConnectionsConserved`. `GuardsHeld` says at
  which places a thread owns a connection; a pop and a push move one between the
  stack and a guard.
- `WakeupsNeverLost`, `Spec => []NoLostWakeup`, a count: each push adds an idle
  connection and a notifier; a notifier turns a parked reader into a woken one or finds
  none parked; a woken reader takes a connection or finds the stack empty.
- `StreamsTellTheTruth`, `Spec => []StreamOutcome`, from `RowsAccounted`: while the
  receiver lives no row is lost between scan and callback.

`SessionLogProofs`: `LogInv` is `TypeOK`, `PromotedHasFact`, `PromotionsApart` and
`CheckpointInv`, which is `CheckpointsKnown`, `CheckpointsResolve` and
`ContextsShowCheckpoint`.

- `LogTypeCorrect`, `PromotedAlwaysHasFact`, `CheckpointsAlwaysResolve`,
  `ContextsAlwaysShowCheckpoint` and `PromotionAlwaysSticks`. `PromotionsApart` is what the two-transaction promotion rests
  on: only the call that inserted an activity promotes it, so two promotions under way
  are of two activities and of two facts. That an archive does not break the link
  follows from the foreign key on both sides: a link to a deleted fact is refused, a
  delete of a linked fact too. `CheckpointsKnown` carries a checkpoint's activity from
  its read to its write, and a load's from its first read to its second; activities are
  never deleted, so what the checkpoint names is among the rows the page is cut from.

`FutureMemoryProofs`: `ScheduleInv` is `TypeOK`, `StampsAgree`, `SurfacedWhenDue` and
`StampsReported`.

- `FutureTypeCorrect` (its conjunct on the hint needs that a nonempty set of times has
  a least element), `SurfacedAlwaysWhenDue`, `StampsAlwaysReported` and
  `SurfacedOnceOnly`. `StampsAgree` says that a stamp a call has read is still the one in
  the table: `stamp_surfaced` only writes where there is none. `StepKinds` reduces every
  step to one that reads, one that stamps, or one that touches neither.

`ImportProofs`:

- `NoSessionImportedTwice`, `Spec => []SessionImportedOnce`. `ImportsMarked`
  says that whoever imported a session log left its marker, in the same transaction; so
  the guard inside the transaction (`IngestOnce`) is enough whatever early-outs and
  cancelled callers do.
- `ImportTypeCorrect`, `MentionsAlwaysCounted` and `StatsAlwaysIndependent`:
  `Spec => []TypeOK`, `[]EveryMentionCounted`, `[]StatsIndependentOfOrder`. `FactsInv`
  relates the table to the files imported so far, content by content (`RowsOK`): the
  least and the greatest of its mentions and the sum of their counts. `InsertStats` and
  `InsertUses` carry that over one insert, a loop over a file over the whole batch.

`GraphProofs`: `GraphInv` says that the three variables are a *graph value*: an edge's
indexes are nodes and have the names its row says, and the map inverts the node array.

- `GraphTypeCorrect` and `EdgesAlwaysKeepTheirEnds`, `Spec => []TypeOK` and
  `[]EdgesKeepTheirEnds`, for graphs of any size.
- `ImplementsGraph`, `Spec => ImplementsFactGraph`, one lemma per operation. What is left
  of an array after removals is its elements at some of its places, in some order (`Keeps`), and
  edges are counted by their ids, so that neither the order nor the indexes matter
  (`CountKept`). `DescendingRemoval` shows that with the highest index first every
  place to come is still where it was; without that order the fold removes other edges
  than it was told, as the mutant `PendingAscending` does. `NodeDropped` is the renaming of
  the last node, and `RebuildLoop` the fold over the rows.
- `QueriesAlwaysAgree`, `Spec => []QueriesAgree`. A degree is a sum over rows
  (`DegreeSums`). The rounds of a connected component end in a closed set, since each
  round that is not the last adds a node and there are as many rounds as nodes, and no
  round leaves a closed set around the first node (`LastRound`, `ComponentIs`).

Folds and sums are recursive over sequences and finite sets, and the library's induction
theorems cannot be instantiated by the provers. Where these modules need induction they
take the smallest counterexample instead (`Smallest`, `SmallestSet`, from the
library's well-founded order), and show that a recursively defined function exists by
building it on the subsets of a finite set in turn (`FoldExists`). The library's sorting
and filtering of sequences remain opaque to the provers; that is why `Pending` states its order
by a property.

Model-checked only: liveness (`EnsuredEventuallyResolves`, `EveryCallReturns`,
`DueFactsSurface`), which is out of the provers' reach. Every invariant and every action
property of a passing run, and both refinements, are stated by a theorem.

## 5. What is not modelled

- Scores, embeddings, similarity, full-text search, ranking: floating point and
  text; every selection based on them is a free choice.
- Attributes no property tells apart: importance, access counts (but for imports), metadata,
  weights, timestamps other than "expired or not".
- The sidecar's file format, checksum and size gate: a damaged file is refused,
  which is the branch "rebuild" of `Open`.
- SQLite itself: a transaction is atomic and durable, `foreign_keys` is on, and
  there is one writer. The Postgres backend, which has other rules, cannot carry
  an engine yet.
- A database replaced by `restore` while an engine is open.
- In `EmbeddingSpaces`: failing embedders, a reconstruction whose future is dropped (every
  other call may be), a bootstrap batch of several new facts, `deprecate_space`, summary rows, the neighbour graph and the
  tombstones of the index.
- In `ConnectionPool`: `write()`, which only the engine's construction uses, and the
  debug-only re-entrancy check.
- In `SessionLog`: the event log, the filter's patterns, the facts of a context, the
  creation of scopes.
- In `FutureMemory`: scores, creation times and scopes; a tier ranked by them returns any
  set within its cap.
- In `BootstrapImport`: parsing, redaction, classification of outcomes, the report's
  counters, pins.
- Dream-cycle idempotency by report id and lineage; they keep data apart that the
  present properties do not.
- The event log, query and ranking, inspection: appends and reads with no state to
  disagree with, or floating point.
- Front ends, HTTP embedders, configuration.
- The components listed as planned below.

## 6. Plan

Done: the write path with its ledger, the scope cache, reconstruction and the vector
index, the pool, the graph, the session log, future memory, bootstrap. Left, in this order:

1. Proofs: every safety property the runs check is proved. Next would be that the
   `graph` of `MemoryEngine` is the bag of `FactGraph`, step by step, so that the theorems of the
   two modules compose, and `MirrorExact` under a weaker hypothesis than `Serial`: several
   callers whose mirrors come in the order of their commits.
2. Reconstruction and vector index, the rest: a run with two reconstructions at once,
   `deprecate_space`, a dropped reconstruction, the summaries' vectors, the sidecar that a promotion
   to the same dimension leaves acceptable, notices to the index out of order; what a
   search returns.
3. `restore` into an empty database and its failures; dream-cycle idempotency with
   lineage; the event log.
4. Pure functions against reference definitions: the scope tree's subtree and ancestor
   queries, bootstrap's parsing of an outcome, the fusion of ranked lists.
