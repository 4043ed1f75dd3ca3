----------------------------- MODULE ScopeCache -----------------------------
(***************************************************************************)
(* The scope hierarchy: rows of the scopes table, and the in-memory        *)
(* ScopeTree every scoped query is resolved against.                       *)
(*                                                                         *)
(* A row is identified by its path (the UNIQUE index on parent and label), *)
(* so a path, a sequence of labels below the root, stands for a row.  Rows *)
(* are only ever inserted.  An operation creates rows in one transaction   *)
(* and then, on further awaits, reads back the rows the tree needs before  *)
(* it takes the tree's lock.  The root is in both from the start and is    *)
(* left out.                                                               *)
(***************************************************************************)
EXTENDS Naturals, Sequences, FiniteSets, SequencesExt

CONSTANTS
    Path,           \* the paths callers may ask for
    MaxBatch,       \* bound: distinct paths in one batch
    Task,           \* callers that hold the engine
    SharedFlush,    \* TRUE: flush_snapshot on a shared engine; FALSE: close()
    Op              \* the operations a configuration exercises

Operation == {"ensure", "batch", "flush", "abandon", "crash"}

\* The rows of a path: the path itself and everything above it.
Chain(p) == Prefixes(p) \ {<<>>}

Label == UNION {Range(p) : p \in Path}

ASSUME ScopePaths == /\ Path \subseteq Seq(Label) \ {<<>>}
                     /\ \A p \in Path : Chain(p) \subseteq Path
ASSUME ScopeBounds == MaxBatch \in Nat /\ SharedFlush \in BOOLEAN
                                      /\ Op \subseteq Operation

VARIABLES
    scopes,     \* scopes table
    tree,       \* ScopeTree: the nodes it holds
    sidecar,    \* the snapshot file's scope part: {} or one image
    up,         \* the process runs and holds an open engine
    task        \* what each caller is in the middle of

vars == <<scopes, tree, sidecar, up, task>>

Stage == {"idle", "walk", "fetch", "insert", "stamp", "save"}
Image == [nodes : SUBSET Path, scope_count : Nat]
Idle == [at |-> "idle", path |-> <<>>, cursor |-> <<>>, nodes |-> {},
         image |-> {}]
TaskState == [at : Stage, path : Path \cup {<<>>}, cursor : Path \cup {<<>>},
              nodes : SUBSET Path, image : SUBSET Image]

At(t, stage) == task[t].at = stage
Become(t, state) == task' = [task EXCEPT ![t] = state]
Closing == ~SharedFlush /\ \E t \in Task : task[t].at \in {"stamp", "save"}
\* close() borrows the engine mutably: nobody else is inside it.
Free(t) == up /\ At(t, "idle") /\ ~Closing

\* The scope part of DbFingerprint.  Rows are never deleted, so the highest
\* rowid says no more than the count.
\* Mutant: a fingerprint from before it counted scopes.
FingerprintWithoutScopes == 0
Fingerprint == Cardinality(scopes)

-----------------------------------------------------------------------------
(* ensure_scope_path and everything that routes through cache_scope_chain  *)
(* (add_fact with a scope, bootstrap, a promotion): one transaction makes  *)
(* the missing rows, then parent links are walked up to the root, then the *)
(* whole chain goes into the tree under one lock.                          *)

EnsurePath(t) ==
    /\ "ensure" \in Op /\ Free(t)
    /\ \E p \in Path :
        /\ scopes' = scopes \cup Chain(p)
        /\ Become(t, [Idle EXCEPT !.at = "walk", !.path = p, !.cursor = p])
    /\ UNCHANGED <<tree, sidecar, up>>

\* Mutant: the walk does not know the root.
WalkPastRoot(t) ==
    /\ At(t, "walk")
    /\ Become(t, [task[t] EXCEPT !.nodes = @ \cup {task[t].cursor},
                                 !.cursor = Front(@)])
    /\ UNCHANGED <<scopes, tree, sidecar, up>>

\* Mutant: the walk stops below the first node the tree already has.
WalkToCached(t) ==
    /\ At(t, "walk") /\ task[t].cursor # <<>>
    /\ Become(t, [task[t] EXCEPT
                    !.nodes = @ \cup {task[t].cursor},
                    !.cursor = IF @ \in tree THEN <<>> ELSE Front(@)])
    /\ UNCHANGED <<scopes, tree, sidecar, up>>

\* Mutant: the walk reads the same row again.
WalkInPlace(t) ==
    /\ At(t, "walk") /\ task[t].cursor # <<>>
    /\ Become(t, [task[t] EXCEPT !.nodes = @ \cup {task[t].cursor}])
    /\ UNCHANGED <<scopes, tree, sidecar, up>>

\* get_scope of the cursor, then on to its parent.
WalkUp(t) ==
    /\ At(t, "walk") /\ task[t].cursor # <<>>
    /\ Become(t, [task[t] EXCEPT !.nodes = @ \cup {task[t].cursor},
                                 !.cursor = Front(@)])
    /\ UNCHANGED <<scopes, tree, sidecar, up>>

CacheChain(t) ==
    /\ At(t, "walk") /\ task[t].cursor = <<>>
    /\ tree' = tree \cup task[t].nodes
    /\ Become(t, Idle)
    /\ UNCHANGED <<scopes, sidecar, up>>

-----------------------------------------------------------------------------
(* add_facts_batch: the paths of all entries are made inside the batch's   *)
(* transaction; then only their leaves are read back and cached.  A leaf   *)
(* that cannot be read is skipped without an error.                        *)

BatchCommit(t) ==
    /\ "batch" \in Op /\ Free(t)
    /\ \E leaves \in SUBSET Path :
        /\ leaves # {} /\ IsFiniteSet(leaves)
        /\ Cardinality(leaves) <= MaxBatch             \* bound
        /\ scopes' = scopes \cup UNION {Chain(p) : p \in leaves}
        /\ Become(t, [Idle EXCEPT !.at = "fetch", !.nodes = leaves])
    /\ UNCHANGED <<tree, sidecar, up>>

FetchLeaves(t) ==
    /\ At(t, "fetch")
    /\ \E read \in SUBSET task[t].nodes :
        /\ "abandon" \notin Op => read = task[t].nodes
        /\ Become(t, [task[t] EXCEPT !.at = "insert", !.nodes = read])
    /\ UNCHANGED <<scopes, tree, sidecar, up>>

CacheLeaves(t) ==
    /\ At(t, "insert")
    /\ tree' = tree \cup task[t].nodes
    /\ Become(t, Idle)
    /\ UNCHANGED <<scopes, sidecar, up>>

-----------------------------------------------------------------------------
(* flush_snapshot and close: copy the tree, then count the rows, then      *)
(* replace the file.                                                       *)

FlushCapture(t) ==
    /\ "flush" \in Op /\ Free(t)
    /\ SharedFlush \/ \A u \in Task : At(u, "idle")
    /\ Become(t, [Idle EXCEPT !.at = "stamp",
                    !.image = {[nodes |-> tree, scope_count |-> 0]}])
    /\ UNCHANGED <<scopes, tree, sidecar, up>>

FlushStamp(t) ==
    /\ At(t, "stamp")
    /\ Become(t, [Idle EXCEPT !.at = "save",
                    !.image = {[i EXCEPT !.scope_count = Fingerprint] :
                                 i \in task[t].image}])
    /\ UNCHANGED <<scopes, tree, sidecar, up>>

FlushSave(t) ==
    /\ At(t, "save")
    /\ sidecar' = task[t].image
    /\ Become(t, Idle)
    /\ UNCHANGED <<scopes, tree, up>>

-----------------------------------------------------------------------------
\* The operation ends at an await.  A flush may fail in any configuration (a
\* full disk); elsewhere a dropped future or a failing read is an operation
\* of its own, "abandon".
Abandon(t) ==
    /\ task[t].at \in {"stamp", "save"} \/ "abandon" \in Op
    /\ ~At(t, "idle")
    /\ Become(t, Idle)
    /\ UNCHANGED <<scopes, tree, sidecar, up>>

Crash ==
    /\ "crash" \in Op /\ up
    /\ up' = FALSE /\ tree' = {}
    /\ task' = [t \in Task |-> Idle]
    /\ UNCHANGED <<scopes, sidecar>>

\* init_from_pool: the sidecar's nodes as they are when the counters agree;
\* the table's rows when they do not, or when another counter differs.
Open ==
    /\ ~up /\ up' = TRUE
    /\ tree' \in {scopes} \cup {i.nodes : i \in
                                 {j \in sidecar : j.scope_count = Fingerprint}}
    /\ UNCHANGED <<scopes, sidecar, task>>

Init ==
    /\ scopes = {} /\ tree = {} /\ sidecar = {} /\ up = TRUE
    /\ task = [t \in Task |-> Idle]

\* What a caller does once it is inside an operation.
Continue(t) ==
    \/ WalkUp(t) \/ CacheChain(t) \/ FetchLeaves(t) \/ CacheLeaves(t)
    \/ FlushStamp(t) \/ FlushSave(t)

Next ==
    \/ Crash \/ Open
    \/ \E t \in Task : \/ EnsurePath(t) \/ BatchCommit(t) \/ FlushCapture(t)
                       \/ Continue(t) \/ Abandon(t)

Spec == Init /\ [][Next]_vars

\* The runtime polls a woken task, and blocking calls return.
FairSpec == Spec /\ \A t \in Task : WF_vars(Continue(t))

-----------------------------------------------------------------------------
\* resolve_path, which goes down from the root through the cached children.
Resolves(p) == Chain(p) \subseteq tree

\* Registers stay in range: no chain ever holds the root, which the tree has
\* from the start and get_scope is never asked for.
TypeOK ==
    /\ scopes \subseteq Path /\ tree \subseteq Path
    /\ sidecar \subseteq Image /\ up \in BOOLEAN
    /\ task \in [Task -> TaskState]

\* With exclusive flushes only, whenever no operation is under way the tree
\* holds no row the table lacks, and each row of the table is cached or lies
\* above a cached one, also after a restart from the sidecar: an accepted file
\* is never older than the table.
TreeCoversScopes ==
    up /\ (\A t \in Task : At(t, "idle")) =>
        /\ tree \subseteq scopes
        /\ \A p \in scopes : \E q \in tree : p \in Chain(q)

\* When ensure_scope_path has mirrored its chain the path resolves, whatever
\* other callers and earlier batches left in the tree, and it goes on
\* resolving until the process ends.
EnsuredPathResolves ==
    [][/\ \A t \in Task : CacheChain(t) => Chain(task[t].path) \subseteq tree'
       /\ up /\ up' => tree \subseteq tree']_vars

\* A path whose rows were committed by ensure_scope_path becomes resolvable,
\* unless the process ends: the walk to the root terminates.
EnsuredEventuallyResolves ==
    \A p \in Path :
        (\E t \in Task : At(t, "walk") /\ task[t].path = p)
            ~> (Resolves(p) \/ ~up)

\* "The in-memory tree must mirror the DB": between operations it holds every
\* row, so that every stored scope can be resolved.
TreeMirrorsScopes ==
    up /\ (\A t \in Task : At(t, "idle")) => tree = scopes
=============================================================================
