-------------------------- MODULE BootstrapImport --------------------------
(***************************************************************************)
(* The import of history into an engine: bootstrap_directory over session  *)
(* logs and bootstrap_memory_directory over .md files, run by several      *)
(* callers at once, cancelled or cut by a crash, and run again.            *)
(*                                                                         *)
(* A file is a session log, of the session it names, or a memory file.     *)
(* What it holds is already extracted and redacted: a sequence of mentions *)
(* of contents.  All imports go to one scope.                              *)
(***************************************************************************)
EXTENDS Naturals, Sequences, FiniteSets, FiniteSetsExt, SequencesExt

CONSTANTS
    Importer,    \* the callers
    File, Content, Session,
    NoSession,   \* what a memory file has for a session
    SessionOf,   \* SessionOf[f]: the session of file f
    Mentions,    \* Mentions[f]: its facts, each [content, at, weight]
    Directory,   \* Directory[i]: the sorted files importer i imports
    MaxRuns,     \* bound: calls
    MaxExpired   \* bound: rows forgotten between the imports

ASSUME ImportAssumption ==
    /\ IsFiniteSet(File)
    /\ NoSession \notin Session
    /\ SessionOf \in [File -> Session \cup {NoSession}]
    /\ Mentions \in [File -> Seq([content : Content, at : Nat, weight : Nat])]
    /\ Directory \in [Importer -> Seq(File)]
    \* A call walks session logs or memory files, never both.
    /\ \A i \in Importer : \A f, g \in ToSet(Directory[i]) :
           SessionOf[f] = NoSession <=> SessionOf[g] = NoSession
    /\ MaxRuns \in Nat /\ MaxExpired \in Nat

VARIABLES
    skip,      \* skip_existing, as the callers set it
    markers,   \* the marker events of each session
    rows,      \* the facts table, in id order
    task,      \* what each importer is doing
    orphans,   \* the batches whose caller went away after their closure started
    imported,  \* history: how often each file was committed
    runs       \* calls so far

vars == <<skip, markers, rows, task, orphans, imported, runs>>

Row == [content : Content, active : BOOLEAN, access : Nat,
        created : Nat, accessed : Nat, weight : Nat]
Idle == [at |-> "idle", todo |-> <<>>]
Working == {"next", "preparing", "ready"}

TypeOK ==
    /\ skip \in BOOLEAN
    /\ markers \in [Session -> Nat]
    /\ rows \in Seq(Row)
    /\ task \in [Importer -> [at : Working \cup {"idle"}, todo : Seq(File)]]
    /\ \A i \in Importer : task[i].at \in {"preparing", "ready"} => task[i].todo # <<>>
    /\ orphans \subseteq Importer \X File
    /\ imported \in [File -> Nat]
    /\ runs \in 0..MaxRuns

Init ==
    /\ skip \in BOOLEAN
    /\ markers = [s \in Session |-> 0]
    /\ rows = <<>>
    /\ task = [i \in Importer |-> Idle]
    /\ orphans = {}
    /\ imported = [f \in File |-> 0]
    /\ runs = 0

Current(i) == Head(task[i].todo)
IsSession(f) == SessionOf[f] # NoSession
Marked(f) == IsSession(f) /\ skip /\ markers[SessionOf[f]] > 0
Goto(i, at) == task' = [task EXCEPT ![i].at = at]
NextFile(i) == task' = [task EXCEPT ![i] = [at |-> "next", todo |-> Tail(@.todo)]]

-----------------------------------------------------------------------------
(* The call starts: the scope is resolved, the directory is walked. *)
Begin(i) ==
    /\ task[i].at = "idle" /\ runs < MaxRuns
    /\ runs' = runs + 1
    /\ task' = [task EXCEPT ![i] = [at |-> "next", todo |-> Directory[i]]]
    /\ UNCHANGED <<skip, markers, rows, orphans, imported>>

(* A file that cannot be opened, or a stub, is passed over. *)
Unreadable(i) ==
    /\ task[i].at = "next" /\ task[i].todo # <<>>
    /\ NextFile(i)
    /\ UNCHANGED <<skip, markers, rows, orphans, imported, runs>>

(* The early-out of a session, on the read pool: it only saves the embedding.*)
CheckMarker(i) ==
    /\ task[i].at = "next" /\ task[i].todo # <<>>
    /\ IF Marked(Current(i)) THEN NextFile(i) ELSE Goto(i, "preparing")
    /\ UNCHANGED <<skip, markers, rows, orphans, imported, runs>>

\* Mutant: the failed call forgets its files and not what it was doing.
FailKeepsState(i) ==
    IF IsSession(Current(i)) THEN NextFile(i) ELSE task' = [task EXCEPT ![i].todo = <<>>]

(* A session that fails is logged and passed over, a memory file that fails  *)
(* ends the call.                                                            *)
Fail(i) ==
    IF IsSession(Current(i)) THEN NextFile(i) ELSE task' = [task EXCEPT ![i] = Idle]

(* Extraction and embedding, on a blocking thread, may fail.                 *)
Prepare(i) ==
    /\ task[i].at = "preparing"
    /\ Goto(i, "ready") \/ Fail(i)
    /\ UNCHANGED <<skip, markers, rows, orphans, imported, runs>>

-----------------------------------------------------------------------------
(* insert_or_reinforce.                                                      *)
Larger(a, b) == IF a < b THEN b ELSE a
Smaller(a, b) == IF a < b THEN a ELSE b

Same(table, content) == {r \in DOMAIN table : table[r].active /\ table[r].content = content}

NewRow(m) == [content |-> m.content, active |-> TRUE, access |-> 0,
              created |-> m.at, accessed |-> m.at, weight |-> m.weight]

\* Mutant: the row was created when it was first imported.
ReinforcedInImportOrder(row, m) ==
    [row EXCEPT !.access = @ + 1, !.accessed = Larger(@, m.at), !.weight = Larger(@, m.weight)]

Reinforced(row, m) ==
    [row EXCEPT !.access = @ + 1,
                !.created = Smaller(@, m.at),
                !.accessed = Larger(@, m.at),
                !.weight = Larger(@, m.weight)]

InsertOrReinforce(table, m) ==
    LET same == Same(table, m.content) IN
    IF same = {} THEN Append(table, NewRow(m))
    ELSE [table EXCEPT ![Min(same)] = Reinforced(@, m)]

\* Mutant: a failed batch leaves the facts written before the failure.
BatchWithoutRollback(f) ==
    \E n \in 0..Len(Mentions[f]) :
        /\ rows' = FoldLeft(InsertOrReinforce, rows, SubSeq(Mentions[f], 1, n))
        /\ markers' = IF IsSession(f) THEN [markers EXCEPT ![SessionOf[f]] = @ + 1] ELSE markers
        /\ imported' = IF n = Len(Mentions[f]) THEN [imported EXCEPT ![f] = @ + 1] ELSE imported

(* The body of ingest_bootstrap_batch_atomic's transaction. *)
Batch(f) ==
    /\ rows' = FoldLeft(InsertOrReinforce, rows, Mentions[f])
    /\ markers' = IF IsSession(f) THEN [markers EXCEPT ![SessionOf[f]] = @ + 1] ELSE markers
    /\ imported' = [imported EXCEPT ![f] = @ + 1]

\* Mutant: the early-out is trusted.
IngestUnguarded(f) == Batch(f)

(* The whole transaction: the guard is checked again under the write lock. *)
Ingest(f) ==
    IF Marked(f) THEN UNCHANGED <<markers, rows, imported>> ELSE Batch(f)

Commit(i) ==
    /\ task[i].at = "ready"
    /\ Ingest(Current(i))
    /\ NextFile(i)
    /\ UNCHANGED <<skip, orphans, runs>>

(* It fails and is rolled back: a dimension, a lock, the disk. *)
CommitFails(i) ==
    /\ task[i].at = "ready"
    /\ Fail(i)
    /\ UNCHANGED <<skip, markers, rows, orphans, imported, runs>>

(* The caller drops the call.  A closure already handed to a blocking thread *)
(* goes on without it.                                                       *)
Drop(i) ==
    /\ task[i].at \in Working
    /\ orphans' \in {orphans} \cup
           (IF task[i].at = "ready" THEN {orphans \cup {<<i, Current(i)>>}} ELSE {})
    /\ task' = [task EXCEPT ![i] = Idle]
    /\ UNCHANGED <<skip, markers, rows, imported, runs>>

OrphanCommits(o) ==
    /\ Ingest(o[2])
    /\ orphans' = orphans \ {o}
    /\ UNCHANGED <<skip, task, runs>>

Return(i) ==
    /\ task[i].at = "next" /\ task[i].todo = <<>>
    /\ task' = [task EXCEPT ![i] = Idle]
    /\ UNCHANGED <<skip, markers, rows, orphans, imported, runs>>

(* Forgetting expires a fact (modelled in MemoryEngine). *)
Expire(r) ==
    /\ rows[r].active
    /\ Cardinality({q \in DOMAIN rows : ~rows[q].active}) < MaxExpired
    /\ rows' = [rows EXCEPT ![r].active = FALSE]
    /\ UNCHANGED <<skip, markers, task, orphans, imported, runs>>

(* The process ends, and with it the calls and the closures. *)
Crash ==
    /\ task' = [i \in Importer |-> Idle]
    /\ orphans' = {}
    /\ UNCHANGED <<skip, markers, rows, imported, runs>>

Next ==
    \/ Crash
    \/ \E r \in DOMAIN rows : Expire(r)
    \/ \E o \in orphans : OrphanCommits(o)
    \/ \E i \in Importer :
          \/ Begin(i) \/ Unreadable(i) \/ CheckMarker(i) \/ Prepare(i)
          \/ Commit(i) \/ CommitFails(i) \/ Drop(i) \/ Return(i)

Spec == Init /\ [][Next]_vars

-----------------------------------------------------------------------------
Of(content) == {r \in DOMAIN rows : rows[r].content = content}
\* Every mention of a content in the files imported so far.
Seen(content) ==
    {m \in UNION {ToSet(Mentions[f]) : f \in {f \in File : imported[f] > 0}} :
        m.content = content}
Count(f, content) == Cardinality({k \in DOMAIN Mentions[f] : Mentions[f][k].content = content})

(* With skip_existing no session is imported twice, whoever imports it and   *)
(* whatever became of the callers: the early-out races, the guard under the  *)
(* lock decides, also for a batch whose caller is gone.                      *)
SessionImportedOnce ==
    skip => \A s \in Session :
        /\ markers[s] <= 1
        /\ \A f, g \in File : SessionOf[f] = s /\ SessionOf[g] = s
               /\ imported[f] > 0 /\ imported[g] > 0 => f = g

(* An import is all or nothing: the rows of a content count exactly the      *)
(* mentions in the files whose import was committed, each as often as it was *)
(* - a mention is a row or one access of a row.                              *)
EveryMentionCounted ==
    \A c \in Content :
        MapThenSumSet(LAMBDA r : 1 + rows[r].access, Of(c))
            = MapThenSumSet(LAMBDA f : imported[f] * Count(f, c), File)

(* First seen, last seen and the strongest signal are those of the mentions, *)
(* in whatever order the files were imported, and a content that is not      *)
(* forgotten has one row.                                                    *)
StatsIndependentOfOrder ==
    \A c \in Content :
        /\ Cardinality(Same(rows, c)) <= 1
        /\ Of(c) # {} =>
              /\ Min({rows[r].created : r \in Of(c)}) = Min({m.at : m \in Seen(c)})
              /\ Max({rows[r].accessed : r \in Of(c)}) = Max({m.at : m \in Seen(c)})
              /\ Max({rows[r].weight : r \in Of(c)}) = Max({m.weight : m \in Seen(c)})
=============================================================================
