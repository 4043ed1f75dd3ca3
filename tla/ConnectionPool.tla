--------------------------- MODULE ConnectionPool ---------------------------
(***************************************************************************)
(* The connection pool of the SQLite backend and the three ways an engine  *)
(* call runs on it: block_read, block_write and for_each_streamed.  Every  *)
(* call runs its closure on a blocking thread; a file-backed pool hands    *)
(* out read connections from a stack guarded by a mutex and a condition    *)
(* variable, an in-memory pool serialises reads on the write connection.   *)
(*                                                                         *)
(* A section that holds the stack's mutex is one step.  Returning a        *)
(* connection (ReadGuard::drop) is two: the push under the mutex, and the  *)
(* notification after it is unlocked, so a third caller can take the       *)
(* connection in between.                                                  *)
(***************************************************************************)
EXTENDS Naturals, FiniteSets

CONSTANTS
    Call,       \* the callers, each with one call under way at most
    Conn,       \* the read connections of a file-backed pool
    NoConn,     \* no read connection
    Free,       \* the write connection's mutex is not locked
    Kinds,      \* Kinds[c]: the kinds of call that c makes
    RowCounts   \* how many rows a scan may have

ASSUME PoolAssumption ==
    /\ IsFiniteSet(Conn) /\ IsFiniteSet(Call)
    /\ NoConn \notin Conn /\ Free \notin Call
    /\ Kinds \in [Call -> SUBSET {"read", "write", "stream"}]
    /\ RowCounts \in SUBSET Nat

VARIABLES
    mode,       \* "file" or "memory"
    readOnly,   \* the pool was opened read-only
    idle,       \* read_conns: the connections on the stack
    writer,     \* who has locked write_conn
    held,       \* held[c]: the pooled connection c's guard owns
    pc,         \* where c's blocking thread is
    kind,       \* what c is doing
    late,       \* c's absolute deadline has passed
    stream,     \* c's scan and its channel of capacity one
    result      \* what the closure returned

vars == <<mode, readOnly, idle, writer, held, pc, kind, late, stream, result>>

Places == {"out", "start", "parked", "woken", "expired", "holding",
           "push", "notify", "join"}
Results == {"none", "ok", "storage", "consumer_dropped", "pool", "read_only",
            "panic"}
\* rows: what the scan will yield; sent, chan, got: sent, in the channel,
\* accepted by the callback; open: the receiver lives; failed: the callback did.
Streams == [rows: Nat, sent: Nat, chan: 0..1, got: Nat,
            open: BOOLEAN, failed: BOOLEAN]
NoStream == [rows |-> 0, sent |-> 0, chan |-> 0, got |-> 0,
             open |-> FALSE, failed |-> FALSE]

TypeOK ==
    /\ mode \in {"file", "memory"}
    /\ readOnly \in BOOLEAN
    /\ idle \in SUBSET Conn
    /\ writer \in Call \cup {Free}
    /\ held \in [Call -> Conn \cup {NoConn}]
    /\ pc \in [Call -> Places]
    /\ kind \in [Call -> {"read", "write", "stream"}]
    /\ late \in [Call -> BOOLEAN]
    /\ stream \in [Call -> Streams]
    /\ result \in [Call -> Results]

(* open, open_read_only and open_memory. *)
Init ==
    /\ mode \in {"file", "memory"}
    /\ readOnly \in (IF mode = "file" THEN BOOLEAN ELSE {FALSE})
    /\ idle = IF mode = "file" THEN Conn ELSE {}
    /\ writer = Free
    /\ held = [c \in Call |-> NoConn]
    /\ pc = [c \in Call |-> "out"]
    /\ kind = [c \in Call |-> "read"]
    /\ late = [c \in Call |-> FALSE]
    /\ stream = [c \in Call |-> NoStream]
    /\ result = [c \in Call |-> "none"]

Goto(c, place) == pc' = [pc EXCEPT ![c] = place]
Returns(c, r) == result' = [result EXCEPT ![c] = r]
Pooled(c) == mode = "file" /\ kind[c] # "write"

(* The async function hands its closure to spawn_blocking. *)
Start(c, k, n) ==
    /\ pc[c] = "out"
    /\ k \in Kinds[c]
    /\ Goto(c, "start")
    /\ kind' = [kind EXCEPT ![c] = k]
    /\ stream' = [stream EXCEPT ![c] =
                    IF k = "stream"
                    THEN [NoStream EXCEPT !.rows = n, !.open = TRUE]
                    ELSE NoStream]
    /\ UNCHANGED <<mode, readOnly, idle, writer, held, late, result>>

-----------------------------------------------------------------------------
(* ConnectionPool::read on a file-backed pool, entered in "start" and       *)
(* resumed in "woken" (notified) or "expired" (timed out).  An expired      *)
(* reader that finds a connection after all takes it.                       *)

Asking == {"start", "woken", "expired"}

\* Mutant: the connection is lent out and stays on the stack.
PopByReference(c, conn) ==
    /\ Pooled(c) /\ pc[c] \in Asking
    /\ conn \in idle
    /\ held' = [held EXCEPT ![c] = conn]
    /\ Goto(c, "holding")
    /\ UNCHANGED <<mode, readOnly, idle, writer, kind, late, stream, result>>

Pop(c, conn) ==
    /\ Pooled(c) /\ pc[c] \in Asking
    /\ conn \in idle
    /\ idle' = idle \ {conn}
    /\ held' = [held EXCEPT ![c] = conn]
    /\ Goto(c, "holding")
    /\ UNCHANGED <<mode, readOnly, writer, kind, late, stream, result>>

\* Mutant: each wait gets a deadline of its own (wait_for).
ParkAfresh(c) ==
    /\ Pooled(c) /\ pc[c] \in {"start", "woken"}
    /\ idle = {}
    /\ Goto(c, "parked")
    /\ late' = [late EXCEPT ![c] = FALSE]
    /\ UNCHANGED <<mode, readOnly, idle, writer, held, kind, stream, result>>

(* The wait loop: an empty stack parks the reader.  The deadline is computed *)
(* once, before the loop, so a reader that parks again keeps it.             *)
Park(c) ==
    /\ Pooled(c) /\ pc[c] \in {"start", "woken"}
    /\ idle = {}
    /\ Goto(c, "parked")
    /\ UNCHANGED <<mode, readOnly, idle, writer, held, kind, late, stream, result>>

(* External: the clock passes the deadline of a reader that waits. *)
DeadlinePasses(c) ==
    /\ pc[c] \in {"parked", "woken"} /\ ~late[c]
    /\ late' = [late EXCEPT ![c] = TRUE]
    /\ UNCHANGED <<mode, readOnly, idle, writer, held, pc, kind, stream, result>>

(* wait_until gives up. *)
TimeOut(c) ==
    /\ pc[c] = "parked" /\ late[c]
    /\ Goto(c, "expired")
    /\ UNCHANGED <<mode, readOnly, idle, writer, held, kind, late, stream, result>>

PoolTimeout(c) ==
    /\ pc[c] = "expired" /\ idle = {}
    /\ Goto(c, "join")
    /\ Returns(c, "pool")
    /\ UNCHANGED <<mode, readOnly, idle, writer, held, kind, late, stream>>

(* ReadGuard::drop, first half: push under the mutex. *)
Push(c) ==
    /\ pc[c] = "push"
    /\ idle' = idle \cup {held[c]}
    /\ held' = [held EXCEPT ![c] = NoConn]
    /\ Goto(c, "notify")
    /\ UNCHANGED <<mode, readOnly, writer, kind, late, stream, result>>

Parked == {d \in Call : pc[d] = "parked"}

\* Mutant: the connection goes back and nobody is told.
NotifyNobody(c) ==
    /\ pc[c] = "notify"
    /\ Goto(c, "join")
    /\ UNCHANGED <<mode, readOnly, idle, writer, held, kind, late, stream, result>>

(* ReadGuard::drop, second half: notify_one wakes one parked reader, if any. *)
NotifyOne(c) ==
    /\ pc[c] = "notify"
    /\ IF Parked = {}
       THEN Goto(c, "join")
       ELSE \E d \in Parked : pc' = [pc EXCEPT ![c] = "join", ![d] = "woken"]
    /\ UNCHANGED <<mode, readOnly, idle, writer, held, kind, late, stream, result>>

-----------------------------------------------------------------------------
(* try_write, and read on an in-memory pool: both lock write_conn. *)

Refuse(c) ==
    /\ pc[c] = "start" /\ kind[c] = "write" /\ readOnly
    /\ Goto(c, "join")
    /\ Returns(c, "read_only")
    /\ UNCHANGED <<mode, readOnly, idle, writer, held, kind, late, stream>>

LockWriter(c) ==
    /\ pc[c] = "start" /\ ~Pooled(c)
    /\ kind[c] = "write" => ~readOnly
    /\ writer = Free
    /\ writer' = c
    /\ Goto(c, "holding")
    /\ UNCHANGED <<mode, readOnly, idle, held, kind, late, stream, result>>

-----------------------------------------------------------------------------
(* The closure ends, by returning or by unwinding, and its guard is dropped: *)
(* a pooled connection goes back, the mutex is unlocked.                     *)

DropGuard(c) ==
    IF held[c] # NoConn
    THEN Goto(c, "push") /\ UNCHANGED writer
    ELSE Goto(c, "join") /\ writer' = Free

(* block_read's and block_write's closures; "ok" stands for however they end. *)
Finish(c) ==
    /\ pc[c] = "holding" /\ kind[c] # "stream"
    /\ Returns(c, "ok")
    /\ DropGuard(c)
    /\ UNCHANGED <<mode, readOnly, idle, held, kind, late, stream>>

\* Mutant: the channel is not bounded.
SendRowUnbounded(c) ==
    LET s == stream[c] IN
    /\ pc[c] = "holding" /\ kind[c] = "stream"
    /\ s.sent < s.rows /\ s.open
    /\ stream' = [stream EXCEPT ![c] = [s EXCEPT !.sent = s.sent + 1, !.chan = s.chan + 1]]
    /\ UNCHANGED <<mode, readOnly, idle, writer, held, pc, kind, late, result>>

(* A scan sends a row when the channel has room, and fails to when the       *)
(* receiver is gone.                                                         *)
SendRow(c) ==
    LET s == stream[c] IN
    /\ pc[c] = "holding" /\ kind[c] = "stream"
    /\ s.sent < s.rows /\ s.open /\ s.chan = 0
    /\ stream' = [stream EXCEPT ![c] = [s EXCEPT !.sent = s.sent + 1, !.chan = 1]]
    /\ UNCHANGED <<mode, readOnly, idle, writer, held, pc, kind, late, result>>

(* The scan ends: its rows are all sent, the consumer is gone, or SQL fails. *)
EndScan(c, r) ==
    LET s == stream[c] IN
    /\ pc[c] = "holding" /\ kind[c] = "stream"
    /\ \/ r = "ok" /\ s.sent = s.rows
       \/ r = "consumer_dropped" /\ s.sent < s.rows /\ ~s.open
       \/ r = "storage" /\ s.sent < s.rows
       \/ r = "panic"
    /\ Returns(c, r)
    /\ DropGuard(c)
    /\ UNCHANGED <<mode, readOnly, idle, held, kind, late, stream>>

(* The async side's loop: the callback takes a row, or fails on it and drops *)
(* the receiver.                                                             *)
Receive(c, accepts) ==
    LET s == stream[c] IN
    /\ s.open /\ s.chan = 1
    /\ stream' = [stream EXCEPT ![c] =
                    IF accepts THEN [s EXCEPT !.chan = 0, !.got = s.got + 1]
                    ELSE [s EXCEPT !.chan = 0, !.open = FALSE, !.failed = TRUE]]
    /\ UNCHANGED <<mode, readOnly, idle, writer, held, pc, kind, late, result>>

(* The caller drops its future: the receiver goes with it, the blocking      *)
(* thread runs on and nobody reads its result.                               *)
Abandon(c) ==
    /\ pc[c] \notin {"out", "join"} /\ stream[c].open
    /\ stream' = [stream EXCEPT ![c] = [@ EXCEPT !.open = FALSE, !.chan = 0]]
    /\ UNCHANGED <<mode, readOnly, idle, writer, held, pc, kind, late, result>>

\* Mutant: the scan's result is returned before the callback's.
OutcomeOfScan(c) == result[c]

(* What the caller of for_each_streamed gets: its callback's error before    *)
(* the scan's, unless the blocking thread panicked.                          *)
Outcome(c) == IF stream[c].failed /\ result[c] # "panic" THEN "callback" ELSE result[c]

(* The caller joins: the channel is drained or dropped and the closure done. *)
Returning(c) == pc[c] = "join" /\ (stream[c].open => stream[c].chan = 0)

Join(c) ==
    /\ Returning(c)
    /\ Goto(c, "out")
    /\ kind' = [kind EXCEPT ![c] = "read"]
    /\ late' = [late EXCEPT ![c] = FALSE]
    /\ stream' = [stream EXCEPT ![c] = NoStream]
    /\ Returns(c, "none")
    /\ UNCHANGED <<mode, readOnly, idle, writer, held>>

-----------------------------------------------------------------------------
Run(c) == \/ \E conn \in Conn : Pop(c, conn)
          \/ Park(c) \/ PoolTimeout(c) \/ Refuse(c)
          \/ Finish(c) \/ (\E r \in Results : EndScan(c, r))
          \/ SendRow(c) \/ Push(c) \/ NotifyOne(c) \/ Join(c)
Consume(c) == \/ \E accepts \in BOOLEAN : Receive(c, accepts)
              \/ Abandon(c)

Next ==
    \E c \in Call :
        \/ \E k \in {"read", "write", "stream"}, n \in RowCounts : Start(c, k, n)
        \/ Run(c) \/ Consume(c)
        \/ DeadlinePasses(c) \/ TimeOut(c) \/ LockWriter(c)

(* A blocking thread that can run does; a callback that has a row returns;   *)
(* time passes; a parked reader whose deadline is past eventually times out  *)
(* rather than being notified in that very instant every time (TimeOut);     *)
(* parking_lot's mutexes are eventually fair (LockWriter).                   *)
Fairness ==
    \A c \in Call :
        /\ WF_vars(Run(c))
        /\ WF_vars((\E accepts \in BOOLEAN : Receive(c, accepts)) \/ DeadlinePasses(c))
        /\ SF_vars(TimeOut(c) \/ LockWriter(c))

Spec == Init /\ [][Next]_vars
FairSpec == Spec /\ Fairness

-----------------------------------------------------------------------------
Holders == {c \in Call : held[c] # NoConn}

(* No connection leaks and none is handed out twice: whatever ends a call,   *)
(* each read connection is on the stack or in exactly one guard.             *)
ConnectionsConserved ==
    /\ mode = "file" => idle \cup {held[c] : c \in Holders} = Conn
    /\ \A c \in Holders :
          /\ held[c] \notin idle
          /\ \A d \in Holders : held[d] = held[c] => d = c

Notifying == {c \in Call : pc[c] = "notify"}
Woken == {c \in Call : pc[c] = "woken"}

(* No wakeup is lost: while a reader is parked, each connection on the stack *)
(* has a notification still to come or a reader woken for it, so a parked    *)
(* reader never depends on its timeout to see a free connection.             *)
NoLostWakeup ==
    Parked # {} => Cardinality(idle) <= Cardinality(Notifying \cup Woken)

(* A stream that reports success gave its callback every row of the scan and *)
(* the callback accepted them; one whose callback failed reports that error, *)
(* whatever became of the scan.                                              *)
StreamOutcome ==
    \A c \in Call :
        LET s == stream[c] IN
        Returning(c) /\ kind[c] = "stream" /\ (s.open \/ s.failed) =>
            /\ Outcome(c) = "ok" => s.got = s.rows
            /\ s.failed => Outcome(c) \in {"callback", "panic"}

(* Every call returns, whatever the others do: a waiting reader is served or *)
(* times out, however often a connection is taken from under it, and a scan  *)
(* whose consumer went away gives its connection back.                       *)
EveryCallReturns == \A c \in Call : pc[c] = "start" ~> pc[c] = "out"
=============================================================================
