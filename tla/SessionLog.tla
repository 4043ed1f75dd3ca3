----------------------------- MODULE SessionLog -----------------------------
(***************************************************************************)
(* The activity stream of the sessions: record_activity with its           *)
(* deduplication and its promotion of an activity to a fact,               *)
(* checkpoint_session and load_context, and what they share with the rest  *)
(* of the engine: the facts table, whose rows forgetting expires and       *)
(* archiving deletes.  The scopes exist already.                           *)
(*                                                                         *)
(* Each call of the storage port is a transaction of its own, so a call of *)
(* the engine is as many steps as it has awaits.                           *)
(***************************************************************************)
EXTENDS Naturals, Sequences, FiniteSets, FiniteSetsExt

CONSTANTS
    Caller,     \* the tasks that call the engine
    Session,    \* session ids
    Key,        \* what calls deduplicate by: session, scope, tool, arguments, outcome
    SessionOf,  \* SessionOf[k]: the session of key k
    Scope,      \* the scopes
    ScopeOf,    \* ScopeOf[k]: the scope of key k
    Below,      \* Below[sc]: the scopes of sc's subtree
    Promoting,  \* the keys whose tool the filter promotes
    Works,      \* Works[c]: what caller c does
    Window,     \* dedup_window_secs
    Limit,      \* activity_limit of the loads
    MaxTime,    \* bound: the clock
    MaxCalls,   \* bound: recorded calls
    MaxFacts    \* bound: facts

ASSUME LogAssumption ==
    /\ SessionOf \in [Key -> Session]
    /\ ScopeOf \in [Key -> Scope]
    /\ Below \in [Scope -> SUBSET Scope]
    /\ Promoting \subseteq Key
    /\ Window \in Nat /\ Limit \in Nat
    /\ MaxTime \in Nat /\ MaxCalls \in Nat /\ MaxFacts \in Nat

VARIABLES
    now,        \* the wall clock
    acts,       \* the activities table, by id
    facts,      \* the facts table, by id: how each row's life stands, t_expired
    saved,      \* session_checkpoints, by session
    task        \* what each caller is doing

vars == <<now, acts, facts, saved, task>>

Time == 0..MaxTime
NoId == 0
Activity == [key : Key, status : {"recorded", "deduplicated", "promoted"},
             count : Nat, first : Time, last : Time, fact : 0..MaxFacts]
FactRow == [life : {"active", "expired", "gone"}, since : Time]
\* A checkpoint's scope as a set: empty if the caller named none.
Named == {{}} \cup {{sc} : sc \in Scope}
Checkpoint == [last : 0..MaxCalls, at : Time, scope : Named]
NoCheckpoint == [last |-> NoId, at |-> 0, scope |-> {}]
Idle == [at |-> "idle"]

\* The tasks between two awaits: what a call has read and not yet used.
Pending ==
    [at : {"idle", "refused"}]
    \cup [at : {"record"}, key : Key, time : Time]
    \cup [at : {"promote"}, act : DOMAIN acts]
    \cup [at : {"link"}, act : DOMAIN acts, fact : DOMAIN facts]
    \cup [at : {"save"}, session : Session, row : Checkpoint]
    \cup [at : {"load"}, scope : Scope, checkpoint : Checkpoint]
    \cup [at : {"context"}, scope : Scope, checkpoint : Checkpoint, recent : SUBSET DOMAIN acts]
    \cup [at : {"archive"}, ids : SUBSET DOMAIN facts]

TypeOK ==
    /\ now \in Time
    /\ acts \in Seq(Activity) /\ Len(acts) <= MaxCalls
    /\ facts \in Seq(FactRow) /\ Len(facts) <= MaxFacts
    /\ saved \in [Session -> Checkpoint]
    /\ task \in [Caller -> Pending]

Init ==
    /\ now = 0
    /\ acts = <<>>
    /\ facts = <<>>
    /\ saved = [s \in Session |-> NoCheckpoint]
    /\ task = [c \in Caller |-> Idle]

Does(c, work) == task[c].at = "idle" /\ work \in Works[c]
Becomes(c, t) == task' = [task EXCEPT ![c] = t]

\* External: time passes.
Tick ==
    /\ now < MaxTime
    /\ now' = now + 1
    /\ UNCHANGED <<acts, facts, saved, task>>

-----------------------------------------------------------------------------
(* record_activity.  What the filter ignores changes nothing and is left     *)
(* out.  The caller stamps the activity, then waits for the write lock.      *)
Record(c, k) ==
    /\ Does(c, "record")
    /\ Becomes(c, [at |-> "record", key |-> k, time |-> now])
    /\ UNCHANGED <<now, acts, facts, saved>>

\* The rows that a call at this time repeats.  A row seen after the call does.
Repeated(k, time) == {i \in DOMAIN acts : acts[i].key = k /\ time < acts[i].last + Window}

Recorded == MapThenSumSet(LAMBDA i : acts[i].count, DOMAIN acts)

Newest(ids) == {i \in ids : \A j \in ids : acts[j].last <= acts[i].last}

\* Mutant: a repetition takes a promoted activity's status back.
DedupDemotes(c) ==
    LET k == task[c].key
        time == task[c].time
    IN
    /\ task[c].at = "record"
    /\ Recorded < MaxCalls
    /\ \E i \in Newest(Repeated(k, time)) :
           LET row == acts[i] IN
           acts' = [acts EXCEPT ![i] = [row EXCEPT !.count = row.count + 1, !.last = time,
                                                   !.status = "deduplicated"]]
    /\ Becomes(c, Idle)
    /\ UNCHANGED <<now, facts, saved>>

(* insert_or_dedup on a repeated call. *)
Dedup(c) ==
    LET k == task[c].key
        time == task[c].time
    IN
    /\ task[c].at = "record"
    /\ Recorded < MaxCalls
    /\ \E i \in Newest(Repeated(k, time)) :
           LET row == acts[i] IN
           acts' = [acts EXCEPT ![i] =
                      [row EXCEPT !.count = row.count + 1, !.last = time,
                                  !.status = IF row.status = "promoted" THEN "promoted"
                                             ELSE "deduplicated"]]
    /\ Becomes(c, Idle)
    /\ UNCHANGED <<now, facts, saved>>

(* insert_or_dedup on a new one, which goes on to its promotion if the       *)
(* filter said so and the caller brought an embedder.                        *)
Insert(c) ==
    LET k == task[c].key
        time == task[c].time
    IN
    /\ task[c].at = "record"
    /\ Repeated(k, time) = {}
    /\ Recorded < MaxCalls /\ Len(acts) < MaxCalls
    /\ acts' = Append(acts, [key |-> k, status |-> "recorded", count |-> 1,
                             first |-> time, last |-> time, fact |-> NoId])
    /\ Becomes(c, IF k \in Promoting THEN [at |-> "promote", act |-> Len(acts) + 1]
                                     ELSE Idle)
    /\ UNCHANGED <<now, facts, saved>>

\* Mutant: the rowid is read before the insert.
AddFactStaleRowid(c) ==
    /\ task[c].at = "promote"
    /\ Len(facts) < MaxFacts
    /\ facts' = Append(facts, [life |-> "active", since |-> 0])
    /\ Becomes(c, [at |-> "link", act |-> task[c].act, fact |-> Len(facts)])
    /\ UNCHANGED <<now, acts, saved>>

(* The promotion's add_fact, and its failure: the activity stays recorded. *)
AddFact(c) ==
    /\ task[c].at = "promote"
    /\ Len(facts) < MaxFacts
    /\ facts' = Append(facts, [life |-> "active", since |-> 0])
    /\ Becomes(c, [at |-> "link", act |-> task[c].act, fact |-> Len(facts) + 1])
    /\ UNCHANGED <<now, acts, saved>>

AddFactFails(c) ==
    /\ task[c].at = "promote"
    /\ Becomes(c, Idle)
    /\ UNCHANGED <<now, acts, facts, saved>>

InTable(f) == facts[f].life # "gone"

(* update_activity_status.  A fact that was archived in the meantime fails   *)
(* the foreign key; the call returns the error and the activity stays as it  *)
(* is.                                                                       *)
Link(c) ==
    /\ task[c].at = "link"
    /\ acts' = IF InTable(task[c].fact)
               THEN [acts EXCEPT ![task[c].act] =
                       [@ EXCEPT !.status = "promoted", !.fact = task[c].fact]]
               ELSE acts
    /\ Becomes(c, Idle)
    /\ UNCHANGED <<now, facts, saved>>

-----------------------------------------------------------------------------
(* checkpoint_session: the session's latest activity is read first, whatever *)
(* its scope, the checkpoint written later, last write wins.                 *)
OfSession(s) == {i \in DOMAIN acts : SessionOf[acts[i].key] = s}

ReadLast(c, s, named) ==
    /\ Does(c, "checkpoint")
    /\ \E last \in (IF OfSession(s) = {} THEN {NoId} ELSE Newest(OfSession(s))) :
           Becomes(c, [at |-> "save", session |-> s,
                       row |-> [last |-> last, at |-> now, scope |-> named]])
    /\ UNCHANGED <<now, acts, facts, saved>>

Upsert(c) ==
    /\ task[c].at = "save"
    /\ saved' = [saved EXCEPT ![task[c].session] = task[c].row]
    /\ Becomes(c, Idle)
    /\ UNCHANGED <<now, acts, facts>>

(* load_context: the checkpoint of exactly this scope that was saved last,   *)
(* then a page of the newest activities of the scope's subtree, each read a  *)
(* statement of its own.  The facts that it reads at the end are left out.   *)
SavedLast(rows, sc) ==
    LET here == {s \in Session : sc \in rows[s].scope} IN
    IF here = {} THEN {NoCheckpoint}
    ELSE {rows[s] : s \in {s \in here : \A r \in here : rows[r].at <= rows[s].at}}

Within(rows, sc) == {i \in DOMAIN rows : ScopeOf[rows[i].key] \in Below[sc]}

\* Rows seen at the same time come in any order.
Pages(rows, sc) ==
    LET here == Within(rows, sc) IN
    {page \in SUBSET here :
        /\ Cardinality(page) <= Limit
        /\ page = here \/ Cardinality(page) = Limit
        /\ \A i \in page, j \in here \ page : rows[j].last <= rows[i].last}

LoadCheckpoint(c, sc) ==
    /\ Does(c, "load")
    /\ \E row \in SavedLast(saved, sc) :
           Becomes(c, [at |-> "load", scope |-> sc, checkpoint |-> row])
    /\ UNCHANGED <<now, acts, facts, saved>>

LoadActivities(c) ==
    /\ task[c].at = "load"
    /\ \E page \in Pages(acts, task[c].scope) :
           Becomes(c, [at |-> "context", scope |-> task[c].scope,
                       checkpoint |-> task[c].checkpoint, recent |-> page])
    /\ UNCHANGED <<now, acts, facts, saved>>

\* Mutant: the activities are read first.
LoadContextReversed(c) ==
    /\ UNCHANGED <<now, acts, facts, saved>>
    /\ \/ /\ Does(c, "load")
          /\ \E sc \in Scope : \E page \in Pages(acts, sc) :
                 Becomes(c, [at |-> "load", scope |-> sc, recent |-> page])
       \/ /\ task[c].at = "load"
          /\ \E row \in SavedLast(saved, task[c].scope) :
                 Becomes(c, [at |-> "context", scope |-> task[c].scope,
                             checkpoint |-> row, recent |-> task[c].recent])

LoadContext(c) ==
    \/ \E sc \in Scope : LoadCheckpoint(c, sc)
    \/ LoadActivities(c)

-----------------------------------------------------------------------------
(* Forgetting or a conflict expires a fact (modelled in MemoryEngine). *)
Expire(f) ==
    /\ facts[f].life = "active"
    /\ facts' = [facts EXCEPT ![f] = [life |-> "expired", since |-> now]]
    /\ UNCHANGED <<now, acts, saved, task>>

(* archive, without its file: candidates expired before a cutoff, then one   *)
(* transaction that deletes their rows.  Any reference to one of them from   *)
(* activities.promoted_fact_id makes the DELETE fail as a whole.             *)
ArchiveSelect(c, cutoff) ==
    LET ids == {f \in DOMAIN facts : facts[f].life = "expired" /\ facts[f].since < cutoff} IN
    /\ Does(c, "archive")
    /\ ids # {}
    /\ Becomes(c, [at |-> "archive", ids |-> ids])
    /\ UNCHANGED <<now, acts, facts, saved>>

\* Mutant: foreign keys are not enforced.
ReferencedUnchecked(ids) == FALSE

Referenced(ids) == \E i \in DOMAIN acts : acts[i].fact \in ids

ArchiveCommit(c) ==
    /\ task[c].at = "archive"
    /\ IF Referenced(task[c].ids)
       THEN Becomes(c, [at |-> "refused"]) /\ UNCHANGED facts
       ELSE /\ facts' = [f \in DOMAIN facts |->
                            IF f \in task[c].ids THEN [facts[f] EXCEPT !.life = "gone"]
                            ELSE facts[f]]
            /\ Becomes(c, Idle)
    /\ UNCHANGED <<now, acts, saved>>

(* A call returns what it has to its caller. *)
Return(c) ==
    /\ task[c].at \in {"context", "refused"}
    /\ Becomes(c, Idle)
    /\ UNCHANGED <<now, acts, facts, saved>>

(* The process ends and starts again; the tables stay. *)
Crash ==
    /\ task' = [c \in Caller |-> Idle]
    /\ UNCHANGED <<now, acts, facts, saved>>

Next ==
    \/ Tick \/ Crash
    \/ \E f \in DOMAIN facts : Expire(f)
    \/ \E c \in Caller :
          \/ \E k \in Key : Record(c, k)
          \/ Dedup(c) \/ Insert(c) \/ AddFact(c) \/ AddFactFails(c) \/ Link(c)
          \/ \E s \in Session, named \in Named : ReadLast(c, s, named)
          \/ Upsert(c) \/ LoadContext(c)
          \/ \E cutoff \in Time : ArchiveSelect(c, cutoff)
          \/ ArchiveCommit(c) \/ Return(c)

Spec == Init /\ [][Next]_vars

-----------------------------------------------------------------------------
(* An activity names a fact exactly when it is promoted, that fact is still  *)
(* in the table, and no other activity was promoted to it: not even an       *)
(* archive between a promotion's two transactions leaves a dangling link.    *)
PromotedHasFact ==
    \A i \in DOMAIN acts :
        /\ acts[i].fact # NoId <=> acts[i].status = "promoted"
        /\ acts[i].fact # NoId =>
              /\ acts[i].fact \in DOMAIN facts /\ InTable(acts[i].fact)
              /\ \A j \in DOMAIN acts : acts[j].fact = acts[i].fact => j = i

(* Once promoted, always promoted, to the same fact: a repetition of the     *)
(* call that lands before, between or after the promotion's steps neither    *)
(* undoes it nor starts a second one.                                        *)
PromotionSticks ==
    [][\A i \in DOMAIN acts : acts[i].status = "promoted" =>
          acts'[i].status = "promoted" /\ acts'[i].fact = acts[i].fact]_vars

(* What a saved checkpoint names is an activity of its own session: none of  *)
(* another session recorded beside it, and none that is gone.                *)
CheckpointsResolve ==
    \A s \in Session : saved[s].last # NoId => saved[s].last \in OfSession(s)

(* A context whose checkpoint names an activity of the loaded scope shows    *)
(* that activity, unless newer ones fill the page: load_context reads the    *)
(* checkpoint first, so one that lands between its reads cannot be shown     *)
(* beside activities that end before it.                                     *)
ContextsShowCheckpoint ==
    \A c \in Caller : task[c].at = "context" =>
        LET last == task[c].checkpoint.last IN
        \/ last = NoId
        \/ ScopeOf[acts[last].key] \notin Below[task[c].scope]
        \/ last \in task[c].recent
        \/ Cardinality(task[c].recent) = Limit

(* An archive hard-deletes the facts it selected. *)
ArchiveHardDeletes == \A c \in Caller : task[c].at # "refused"
=============================================================================
