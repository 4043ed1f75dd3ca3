------------------------ MODULE ConnectionPoolProofs ------------------------
(***************************************************************************)
(* Theorems about ConnectionPool, for every number of callers and of read  *)
(* connections and scans of every length.                                  *)
(***************************************************************************)
EXTENDS ConnectionPool, FiniteSetTheorems, TLAPS

(* A guard owns a pooled connection exactly while its closure runs on one,   *)
(* or is over and the connection not yet back.                               *)
GuardsHeld ==
    \A c \in Call :
        held[c] # NoConn <=> pc[c] = "push" \/ (pc[c] = "holding" /\ Pooled(c))

(* What makes StreamOutcome hold: no row is lost between scan and callback   *)
(* while the receiver lives, and a scan that reports success has sent all.   *)
RowsAccounted ==
    \A c \in Call :
        /\ stream[c].open => stream[c].got + stream[c].chan = stream[c].sent
        /\ pc[c] \in {"push", "notify", "join"} /\ kind[c] = "stream" /\ result[c] = "ok" =>
              stream[c].sent = stream[c].rows

PoolInv == TypeOK /\ GuardsHeld /\ ConnectionsConserved /\ NoLostWakeup /\ RowsAccounted

-----------------------------------------------------------------------------
(* Types.                                                                  *)

LEMMA NoStreamType ==
    NoStream \in Streams /\ ~NoStream.open /\ NoStream.got = 0 /\ NoStream.chan = 0
    /\ NoStream.sent = 0 /\ ~NoStream.failed
BY DEF NoStream, Streams

\* The fields of a scan, and a scan with one of them changed.
LEMMA StreamFields ==
    ASSUME NEW s \in Streams
    PROVE  /\ s.rows \in Nat /\ s.sent \in Nat /\ s.chan \in 0..1 /\ s.got \in Nat
           /\ s.open \in BOOLEAN /\ s.failed \in BOOLEAN
BY DEF Streams

LEMMA SetRows ==
    ASSUME NEW s \in Streams, NEW x \in Nat
    PROVE  LET t == [s EXCEPT !.rows = x]
           IN  t \in Streams /\ t.rows = x /\ t.sent = s.sent /\ t.chan = s.chan
               /\ t.got = s.got /\ t.open = s.open /\ t.failed = s.failed
BY DEF Streams

LEMMA SetSent ==
    ASSUME NEW s \in Streams, NEW x \in Nat
    PROVE  LET t == [s EXCEPT !.sent = x]
           IN  t \in Streams /\ t.rows = s.rows /\ t.sent = x /\ t.chan = s.chan
               /\ t.got = s.got /\ t.open = s.open /\ t.failed = s.failed
BY DEF Streams

LEMMA SetChan ==
    ASSUME NEW s \in Streams, NEW x \in 0..1
    PROVE  LET t == [s EXCEPT !.chan = x]
           IN  t \in Streams /\ t.rows = s.rows /\ t.sent = s.sent /\ t.chan = x
               /\ t.got = s.got /\ t.open = s.open /\ t.failed = s.failed
BY DEF Streams

LEMMA SetGot ==
    ASSUME NEW s \in Streams, NEW x \in Nat
    PROVE  LET t == [s EXCEPT !.got = x]
           IN  t \in Streams /\ t.rows = s.rows /\ t.sent = s.sent /\ t.chan = s.chan
               /\ t.got = x /\ t.open = s.open /\ t.failed = s.failed
BY DEF Streams

LEMMA SetOpen ==
    ASSUME NEW s \in Streams, NEW x \in BOOLEAN
    PROVE  LET t == [s EXCEPT !.open = x]
           IN  t \in Streams /\ t.rows = s.rows /\ t.sent = s.sent /\ t.chan = s.chan
               /\ t.got = s.got /\ t.open = x /\ t.failed = s.failed
BY DEF Streams

LEMMA SetFailed ==
    ASSUME NEW s \in Streams, NEW x \in BOOLEAN
    PROVE  LET t == [s EXCEPT !.failed = x]
           IN  t \in Streams /\ t.rows = s.rows /\ t.sent = s.sent /\ t.chan = s.chan
               /\ t.got = s.got /\ t.open = s.open /\ t.failed = x
BY DEF Streams

\* What the steps of a scan make of it: Start, SendRow, Receive and Abandon.
LEMMA Started ==
    ASSUME NEW n \in Nat
    PROVE  LET t == [NoStream EXCEPT !.rows = n, !.open = TRUE]
           IN  t \in Streams /\ t.sent = 0 /\ t.chan = 0 /\ t.got = 0
<1> DEFINE a == [NoStream EXCEPT !.rows = n]
           b == [a EXCEPT !.open = TRUE]
<1>1. a \in Streams /\ a.sent = 0 /\ a.chan = 0 /\ a.got = 0
  BY NoStreamType, SetRows
<1> HIDE DEF a
<1>2. b \in Streams /\ b.sent = 0 /\ b.chan = 0 /\ b.got = 0
  BY <1>1, SetOpen
<1> QED BY <1>2, Zenon DEF a

LEMMA Sent ==
    ASSUME NEW s \in Streams
    PROVE  LET t == [s EXCEPT !.sent = s.sent + 1, !.chan = 1]
           IN  t \in Streams /\ t.rows = s.rows /\ t.sent = s.sent + 1 /\ t.chan = 1
               /\ t.got = s.got /\ t.open = s.open
<1> DEFINE a == [s EXCEPT !.sent = s.sent + 1]
           b == [a EXCEPT !.chan = 1]
<1>0. s.sent + 1 \in Nat
  BY StreamFields
<1>1. a \in Streams /\ a.rows = s.rows /\ a.sent = s.sent + 1
      /\ a.got = s.got /\ a.open = s.open
  BY <1>0, SetSent
<1>y. 1 \in 0..1
  OBVIOUS
<1> HIDE DEF a
<1>2. b \in Streams /\ b.rows = s.rows /\ b.sent = s.sent + 1 /\ b.chan = 1
      /\ b.got = s.got /\ b.open = s.open
  BY <1>1, <1>y, SetChan
<1> QED BY <1>2, Zenon DEF a

LEMMA Accepted ==
    ASSUME NEW s \in Streams
    PROVE  LET t == [s EXCEPT !.chan = 0, !.got = s.got + 1]
           IN  t \in Streams /\ t.rows = s.rows /\ t.sent = s.sent /\ t.chan = 0
               /\ t.got = s.got + 1 /\ t.open = s.open
<1> DEFINE a == [s EXCEPT !.chan = 0]
           b == [a EXCEPT !.got = s.got + 1]
<1>0. s.got + 1 \in Nat
  BY StreamFields
<1>z. 0 \in 0..1
  OBVIOUS
<1>1. a \in Streams /\ a.rows = s.rows /\ a.sent = s.sent /\ a.chan = 0
      /\ a.open = s.open
  BY <1>z, SetChan
<1> HIDE DEF a
<1>2. b \in Streams /\ b.rows = s.rows /\ b.sent = s.sent /\ b.chan = 0
      /\ b.got = s.got + 1 /\ b.open = s.open
  BY <1>0, <1>1, SetGot
<1> QED BY <1>2, Zenon DEF a

LEMMA Refused ==
    ASSUME NEW s \in Streams
    PROVE  LET t == [s EXCEPT !.chan = 0, !.open = FALSE, !.failed = TRUE]
           IN  t \in Streams /\ t.rows = s.rows /\ t.sent = s.sent /\ t.open = FALSE
<1> DEFINE a == [s EXCEPT !.chan = 0]
           b == [a EXCEPT !.open = FALSE]
           d == [b EXCEPT !.failed = TRUE]
<1>z. 0 \in 0..1
  OBVIOUS
<1>1. a \in Streams /\ a.rows = s.rows /\ a.sent = s.sent
  BY <1>z, SetChan
<1> HIDE DEF a
<1>2. b \in Streams /\ b.rows = s.rows /\ b.sent = s.sent /\ b.open = FALSE
  BY <1>1, SetOpen
<1> HIDE DEF b
<1>3. d \in Streams /\ d.rows = s.rows /\ d.sent = s.sent /\ d.open = FALSE
  BY <1>2, SetFailed
<1> QED BY <1>3, Zenon DEF a, b

LEMMA Abandoned ==
    ASSUME NEW s \in Streams
    PROVE  LET t == [s EXCEPT !.open = FALSE, !.chan = 0]
           IN  t \in Streams /\ t.rows = s.rows /\ t.sent = s.sent /\ t.open = FALSE
<1> DEFINE a == [s EXCEPT !.open = FALSE]
           b == [a EXCEPT !.chan = 0]
<1>1. a \in Streams /\ a.rows = s.rows /\ a.sent = s.sent /\ a.open = FALSE
  BY SetOpen
<1>y. 0 \in 0..1
  OBVIOUS
<1> HIDE DEF a
<1>2. b \in Streams /\ b.rows = s.rows /\ b.sent = s.sent /\ b.open = FALSE
  BY <1>1, <1>y, SetChan
<1> QED BY <1>2, Zenon DEF a

LEMMA TypeInit == Init => TypeOK
<1> SUFFICES ASSUME Init PROVE TypeOK
  OBVIOUS
<1>1. stream \in [Call -> Streams]
  BY NoStreamType DEF Init
<1>2. idle \in SUBSET Conn /\ readOnly \in BOOLEAN /\ mode \in {"file", "memory"}
  BY DEF Init
<1> QED BY <1>1, <1>2 DEF Init, TypeOK, Places, Results

\* Where DropGuard leaves the thread and the writer's mutex.
LEMMA DropGuardType ==
    ASSUME TypeOK, NEW c \in Call, DropGuard(c)
    PROVE  pc' \in [Call -> Places] /\ writer' \in Call \cup {Free}
<1>1. pc \in [Call -> Places] /\ writer \in Call \cup {Free}
  BY DEF TypeOK
<1>2. CASE held[c] # NoConn
  BY <1>1, <1>2 DEF DropGuard, Goto, Places
<1>3. CASE held[c] = NoConn
  BY <1>1, <1>3 DEF DropGuard, Goto, Places
<1> QED BY <1>2, <1>3

LEMMA TypeStep == TypeOK /\ GuardsHeld /\ [Next]_vars => TypeOK'
<1> SUFFICES ASSUME TypeOK, GuardsHeld, [Next]_vars PROVE TypeOK'
  OBVIOUS
<1>0. /\ mode \in {"file", "memory"} /\ readOnly \in BOOLEAN
      /\ idle \in SUBSET Conn /\ writer \in Call \cup {Free}
      /\ held \in [Call -> Conn \cup {NoConn}] /\ pc \in [Call -> Places]
      /\ kind \in [Call -> {"read", "write", "stream"}]
      /\ late \in [Call -> BOOLEAN] /\ stream \in [Call -> Streams]
      /\ result \in [Call -> Results]
  BY DEF TypeOK
<1>1. ASSUME NEW c \in Call, NEW k \in {"read", "write", "stream"},
             NEW n \in RowCounts, Start(c, k, n)
      PROVE  TypeOK'
  <2>1. n \in Nat
    BY PoolAssumption
  <2>3. IF k = "stream" THEN [NoStream EXCEPT !.rows = n, !.open = TRUE] \in Streams
                         ELSE NoStream \in Streams
    BY <2>1, Started, NoStreamType, Zenon
  <2>2. stream' \in [Call -> Streams]
    BY <1>0, <1>1, <2>1, <2>3 DEF Start
  <2> QED BY <1>0, <1>1, <2>2 DEF Start, Goto, TypeOK, Places
<1>2. ASSUME NEW c \in Call, NEW conn \in Conn, Pop(c, conn) PROVE TypeOK'
  BY <1>0, <1>2 DEF Pop, Goto, TypeOK, Places
<1>3. ASSUME NEW c \in Call, Park(c) PROVE TypeOK'
  BY <1>0, <1>3 DEF Park, Goto, TypeOK, Places
<1>4. ASSUME NEW c \in Call, DeadlinePasses(c) PROVE TypeOK'
  BY <1>0, <1>4 DEF DeadlinePasses, TypeOK
<1>5. ASSUME NEW c \in Call, TimeOut(c) PROVE TypeOK'
  BY <1>0, <1>5 DEF TimeOut, Goto, TypeOK, Places
<1>6. ASSUME NEW c \in Call, PoolTimeout(c) PROVE TypeOK'
  BY <1>0, <1>6 DEF PoolTimeout, Goto, Returns, TypeOK, Places, Results
<1>7. ASSUME NEW c \in Call, Push(c) PROVE TypeOK'
  <2>1. held[c] \in Conn
    BY <1>0, <1>7 DEF GuardsHeld, Push
  <2> QED BY <1>0, <1>7, <2>1 DEF Push, Goto, TypeOK, Places
<1>8. ASSUME NEW c \in Call, NotifyOne(c) PROVE TypeOK'
  <2>1. pc' \in [Call -> Places]
    BY <1>0, <1>8 DEF NotifyOne, Goto, Parked, Places
  <2> QED BY <1>0, <1>8, <2>1 DEF NotifyOne, TypeOK
<1>9. ASSUME NEW c \in Call, Refuse(c) PROVE TypeOK'
  BY <1>0, <1>9 DEF Refuse, Goto, Returns, TypeOK, Places, Results
<1>10. ASSUME NEW c \in Call, LockWriter(c) PROVE TypeOK'
  BY <1>0, <1>10 DEF LockWriter, Goto, TypeOK, Places
<1>11. ASSUME NEW c \in Call, Finish(c) PROVE TypeOK'
  <2>1. pc' \in [Call -> Places] /\ writer' \in Call \cup {Free}
    BY <1>11, DropGuardType DEF Finish
  <2> QED BY <1>0, <1>11, <2>1 DEF Finish, Returns, TypeOK, Results
<1>12. ASSUME NEW c \in Call, NEW r \in Results, EndScan(c, r) PROVE TypeOK'
  <2>1. pc' \in [Call -> Places] /\ writer' \in Call \cup {Free}
    BY <1>12, DropGuardType DEF EndScan
  <2> QED BY <1>0, <1>12, <2>1 DEF EndScan, Returns, TypeOK
<1>13. ASSUME NEW c \in Call, SendRow(c) PROVE TypeOK'
  <2> DEFINE t == [stream[c] EXCEPT !.sent = stream[c].sent + 1, !.chan = 1]
  <2>1. t \in Streams
    BY <1>0, Sent, Zenon
  <2>2. stream' = [stream EXCEPT ![c] = t]
    BY <1>13, Zenon DEF SendRow
  <2> HIDE DEF t
  <2> QED BY <1>0, <1>13, <2>1, <2>2 DEF SendRow, TypeOK
<1>14. ASSUME NEW c \in Call, NEW accepts \in BOOLEAN, Receive(c, accepts) PROVE TypeOK'
  <2> DEFINE t == IF accepts THEN [stream[c] EXCEPT !.chan = 0, !.got = stream[c].got + 1]
                  ELSE [stream[c] EXCEPT !.chan = 0, !.open = FALSE, !.failed = TRUE]
  <2>1. t \in Streams
    <3>1. [stream[c] EXCEPT !.chan = 0, !.got = stream[c].got + 1] \in Streams
      BY <1>0, Accepted, Zenon
    <3>2. [stream[c] EXCEPT !.chan = 0, !.open = FALSE, !.failed = TRUE] \in Streams
      BY <1>0, Refused, Zenon
    <3> QED BY <3>1, <3>2, Zenon
  <2>2. stream' = [stream EXCEPT ![c] = t]
    BY <1>14, Zenon DEF Receive
  <2> HIDE DEF t
  <2> QED BY <1>0, <1>14, <2>1, <2>2 DEF Receive, TypeOK
<1>15. ASSUME NEW c \in Call, Abandon(c) PROVE TypeOK'
  <2> DEFINE t == [stream[c] EXCEPT !.open = FALSE, !.chan = 0]
  <2>1. t \in Streams
    BY <1>0, Abandoned, Zenon
  <2>2. stream' = [stream EXCEPT ![c] = t]
    BY <1>15, Zenon DEF Abandon
  <2> HIDE DEF t
  <2> QED BY <1>0, <1>15, <2>1, <2>2 DEF Abandon, TypeOK
<1>16. ASSUME NEW c \in Call, Join(c) PROVE TypeOK'
  BY <1>0, <1>16, NoStreamType DEF Join, Goto, Returns, TypeOK, Places, Results
<1>17. CASE UNCHANGED vars
  BY <1>17 DEF vars, TypeOK
<1> QED BY <1>1, <1>2, <1>3, <1>4, <1>5, <1>6, <1>7, <1>8, <1>9, <1>10, <1>11, <1>12,
           <1>13, <1>14, <1>15, <1>16, <1>17 DEF Next, Run, Consume

-----------------------------------------------------------------------------
(* Guards and connections.                                                 *)

\* A guard is taken and dropped by the steps that move its thread.
LEMMA GuardsStep == TypeOK /\ GuardsHeld /\ [Next]_vars => GuardsHeld'
<1> SUFFICES ASSUME TypeOK, GuardsHeld, [Next]_vars PROVE GuardsHeld'
  OBVIOUS
<1>0. /\ held \in [Call -> Conn \cup {NoConn}] /\ pc \in [Call -> Places]
      /\ kind \in [Call -> {"read", "write", "stream"}]
      /\ \A c \in Call : held[c] # NoConn
            <=> pc[c] = "push" \/ (pc[c] = "holding" /\ mode = "file" /\ kind[c] # "write")
  BY DEF TypeOK, GuardsHeld, Pooled
<1>a. mode' = mode
  BY DEF Next, vars, Run, Consume, Start, Pop, Park, DeadlinePasses, TimeOut, PoolTimeout,
     Push, NotifyOne, Refuse, LockWriter, Finish, EndScan, SendRow, Receive, Abandon, Join
<1>b. SUFFICES \A d \in Call : held'[d] # NoConn
            <=> pc'[d] = "push" \/ (pc'[d] = "holding" /\ mode = "file" /\ kind'[d] # "write")
  BY <1>a DEF GuardsHeld, Pooled
<1>1. ASSUME NEW c \in Call, NEW k \in {"read", "write", "stream"},
             NEW n \in RowCounts, Start(c, k, n)
      PROVE  \A d \in Call : held'[d] # NoConn
            <=> pc'[d] = "push" \/ (pc'[d] = "holding" /\ mode = "file" /\ kind'[d] # "write")
  BY <1>0, <1>1 DEF Start, Goto
<1>2. ASSUME NEW c \in Call, NEW conn \in Conn, Pop(c, conn)
      PROVE  \A d \in Call : held'[d] # NoConn
            <=> pc'[d] = "push" \/ (pc'[d] = "holding" /\ mode = "file" /\ kind'[d] # "write")
  BY <1>0, <1>2, PoolAssumption DEF Pop, Goto, Pooled
<1>3. ASSUME NEW c \in Call, Park(c) \/ TimeOut(c) \/ PoolTimeout(c)
      PROVE  \A d \in Call : held'[d] # NoConn
            <=> pc'[d] = "push" \/ (pc'[d] = "holding" /\ mode = "file" /\ kind'[d] # "write")
  BY <1>0, <1>3 DEF Park, TimeOut, PoolTimeout, Goto
<1>4. ASSUME NEW c \in Call, DeadlinePasses(c) \/ SendRow(c) \/ Abandon(c)
      PROVE  \A d \in Call : held'[d] # NoConn
            <=> pc'[d] = "push" \/ (pc'[d] = "holding" /\ mode = "file" /\ kind'[d] # "write")
  BY <1>0, <1>4 DEF DeadlinePasses, SendRow, Abandon
<1>5. ASSUME NEW c \in Call, NEW accepts \in BOOLEAN, Receive(c, accepts)
      PROVE  \A d \in Call : held'[d] # NoConn
            <=> pc'[d] = "push" \/ (pc'[d] = "holding" /\ mode = "file" /\ kind'[d] # "write")
  BY <1>0, <1>5 DEF Receive
<1>6. ASSUME NEW c \in Call, Push(c)
      PROVE  \A d \in Call : held'[d] # NoConn
            <=> pc'[d] = "push" \/ (pc'[d] = "holding" /\ mode = "file" /\ kind'[d] # "write")
  BY <1>0, <1>6 DEF Push, Goto
<1>7. ASSUME NEW c \in Call, NotifyOne(c)
      PROVE  \A d \in Call : held'[d] # NoConn
            <=> pc'[d] = "push" \/ (pc'[d] = "holding" /\ mode = "file" /\ kind'[d] # "write")
  BY <1>0, <1>7 DEF NotifyOne, Goto, Parked
<1>8. ASSUME NEW c \in Call, Refuse(c) \/ LockWriter(c)
      PROVE  \A d \in Call : held'[d] # NoConn
            <=> pc'[d] = "push" \/ (pc'[d] = "holding" /\ mode = "file" /\ kind'[d] # "write")
  BY <1>0, <1>8 DEF Refuse, LockWriter, Goto, Pooled
<1>9. ASSUME NEW c \in Call, Finish(c) \/ \E r \in Results : EndScan(c, r)
      PROVE  \A d \in Call : held'[d] # NoConn
            <=> pc'[d] = "push" \/ (pc'[d] = "holding" /\ mode = "file" /\ kind'[d] # "write")
  BY <1>0, <1>9 DEF Finish, EndScan, DropGuard, Goto
<1>10. ASSUME NEW c \in Call, Join(c)
      PROVE  \A d \in Call : held'[d] # NoConn
            <=> pc'[d] = "push" \/ (pc'[d] = "holding" /\ mode = "file" /\ kind'[d] # "write")
  BY <1>0, <1>10 DEF Join, Returning, Goto
<1>11. CASE UNCHANGED vars
  BY <1>0, <1>11 DEF vars
<1> QED BY <1>1, <1>2, <1>3, <1>4, <1>5, <1>6, <1>7, <1>8, <1>9, <1>10, <1>11
        DEF Next, Run, Consume

LEMMA ConservedStep ==
    TypeOK /\ GuardsHeld /\ ConnectionsConserved /\ [Next]_vars => ConnectionsConserved'
<1> SUFFICES ASSUME TypeOK, GuardsHeld, ConnectionsConserved, [Next]_vars
             PROVE  ConnectionsConserved'
  OBVIOUS
<1>0. held \in [Call -> Conn \cup {NoConn}] /\ idle \in SUBSET Conn
  BY DEF TypeOK
<1>1. CASE UNCHANGED <<mode, idle, held>>
  BY <1>1 DEF ConnectionsConserved, Holders
<1>2. ASSUME NEW c \in Call, NEW conn \in Conn, Pop(c, conn)
      PROVE  ConnectionsConserved'
  <2>1. held[c] = NoConn
    BY <1>2 DEF Pop, GuardsHeld, Asking
  <2>2. Holders' = Holders \cup {c} /\ c \notin Holders
    BY <1>0, <1>2, <2>1, PoolAssumption DEF Holders, Pop
  <2>3. held' = [held EXCEPT ![c] = conn] /\ idle' = idle \ {conn} /\ conn \in idle
        /\ mode' = mode
    BY <1>2 DEF Pop
  <2>4. \A d \in Holders : held'[d] = held[d] /\ held[d] # conn
    BY <1>0, <2>2, <2>3 DEF ConnectionsConserved, Holders
  <2>5. held'[c] = conn
    BY <1>0, <2>3
  <2>6. {held'[d] : d \in Holders'} = {held[d] : d \in Holders} \cup {conn}
    BY <2>2, <2>4, <2>5
  <2>7. (mode = "file" => idle \cup {held[d] : d \in Holders} = Conn)'
    BY <2>3, <2>6 DEF ConnectionsConserved
  <2>8. \A d \in Holders' : held'[d] \notin idle'
    BY <2>2, <2>3, <2>4, <2>5 DEF ConnectionsConserved
  <2>9. \A d, e \in Holders' : held'[e] = held'[d] => e = d
    BY <2>2, <2>4, <2>5 DEF ConnectionsConserved
  <2> QED BY <2>7, <2>8, <2>9 DEF ConnectionsConserved
<1>3. ASSUME NEW c \in Call, Push(c)
      PROVE  ConnectionsConserved'
  <2>1. c \in Holders
    BY <1>3 DEF Push, GuardsHeld, Holders
  <2>2. held' = [held EXCEPT ![c] = NoConn] /\ idle' = idle \cup {held[c]}
        /\ mode' = mode
    BY <1>3 DEF Push
  <2>3. Holders' = Holders \ {c}
    BY <1>0, <2>2 DEF Holders
  <2>4. \A d \in Holders' : held'[d] = held[d]
    BY <1>0, <2>2, <2>3 DEF Holders
  <2>5. {held[d] : d \in Holders} = {held'[d] : d \in Holders'} \cup {held[c]}
    BY <2>1, <2>3, <2>4
  <2>7. (mode = "file" => idle \cup {held[d] : d \in Holders} = Conn)'
    BY <2>2, <2>5 DEF ConnectionsConserved
  <2>8. \A d \in Holders' : held'[d] \notin idle'
    BY <2>1, <2>2, <2>3, <2>4 DEF ConnectionsConserved
  <2>9. \A d, e \in Holders' : held'[e] = held'[d] => e = d
    BY <2>3, <2>4 DEF ConnectionsConserved
  <2> QED BY <2>7, <2>8, <2>9 DEF ConnectionsConserved
<1> QED BY <1>1, <1>2, <1>3
        DEF Next, vars, Run, Consume, Start, Park, DeadlinePasses, TimeOut, PoolTimeout,
     NotifyOne, Refuse, LockWriter, Finish, EndScan, SendRow, Receive, Abandon, Join

-----------------------------------------------------------------------------
(* Wakeups.                                                                *)

\* The sets NoLostWakeup counts are finite.
LEMMA FiniteSides ==
    ASSUME TypeOK
    PROVE  /\ IsFiniteSet(idle) /\ Cardinality(idle) \in Nat
           /\ IsFiniteSet(Notifying \cup Woken) /\ Cardinality(Notifying \cup Woken) \in Nat
<1>1. idle \in SUBSET Conn /\ (Notifying \cup Woken) \in SUBSET Call
  BY DEF TypeOK, Notifying, Woken
<1> QED BY <1>1, PoolAssumption, FS_Subset, FS_CardinalityType

\* With as many free connections and as many who will look after them.
LEMMA WakeupKept ==
    ASSUME NoLostWakeup, idle' = idle, Parked' \subseteq Parked,
           Notifying' \cup Woken' = Notifying \cup Woken
    PROVE  NoLostWakeup'
BY DEF NoLostWakeup

LEMMA WakeupStep ==
    TypeOK /\ TypeOK' /\ NoLostWakeup /\ [Next]_vars => NoLostWakeup'
<1> SUFFICES ASSUME TypeOK, TypeOK', NoLostWakeup, [Next]_vars PROVE NoLostWakeup'
  OBVIOUS
<1>0. pc \in [Call -> Places] /\ idle \in SUBSET Conn
  BY DEF TypeOK
<1>1. ASSUME NEW c \in Call, NEW from \in Places \ {"notify", "woken"},
             NEW to \in Places \ {"notify", "woken", "parked"},
             pc[c] = from, Goto(c, to), idle' = idle
      PROVE  NoLostWakeup'
  <2>1. Parked' \subseteq Parked /\ Notifying' = Notifying /\ Woken' = Woken
    BY <1>0, <1>1 DEF Goto, Parked, Notifying, Woken
  <2> QED BY <1>1, <2>1, WakeupKept
<1>2. ASSUME NEW c \in Call, NEW conn \in Conn, Pop(c, conn)
      PROVE  NoLostWakeup'
  <2>1. idle' = idle \ {conn} /\ conn \in idle
    BY <1>2 DEF Pop
  <2>2. Cardinality(idle') = Cardinality(idle) - 1
    BY <2>1, FiniteSides, FS_RemoveElement
  <2>3. Parked' = Parked /\ Notifying' = Notifying /\ Woken' = Woken \ {c}
    <3>1. pc[c] \in {"start", "woken", "expired"} /\ pc' = [pc EXCEPT ![c] = "holding"]
      BY <1>2 DEF Pop, Asking, Goto
    <3> QED BY <1>0, <3>1 DEF Parked, Notifying, Woken
  <2>4. c \notin Notifying
    BY <1>2 DEF Pop, Asking, Notifying
  <2>5. Notifying' \cup Woken' = (Notifying \cup Woken) \ {c}
    BY <2>3, <2>4
  <2>6. Cardinality(Notifying' \cup Woken') >= Cardinality(Notifying \cup Woken) - 1
    BY <2>5, FiniteSides, FS_RemoveElement
  <2>7. Cardinality(idle) \in Nat /\ Cardinality(Notifying \cup Woken) \in Nat
        /\ Cardinality(Notifying' \cup Woken') \in Nat
    <3>1. Cardinality(Notifying' \cup Woken') \in Nat
      BY <2>5, FiniteSides, FS_RemoveElement, FS_CardinalityType
    <3> QED BY <3>1, FiniteSides
  <2>8. Parked # {} => Cardinality(idle') <= Cardinality(Notifying' \cup Woken')
    BY <2>2, <2>6, <2>7 DEF NoLostWakeup
  <2> QED BY <2>3, <2>8 DEF NoLostWakeup
<1>3. ASSUME NEW c \in Call, Park(c)
      PROVE  NoLostWakeup'
  <2>1. idle' = {}
    BY <1>3 DEF Park
  <2>2. Cardinality(idle') = 0
    BY <2>1, FS_EmptySet
  <2>3. (Notifying \cup Woken)' \in SUBSET Call
    BY DEF Notifying, Woken
  <2>4. Cardinality((Notifying \cup Woken)') \in Nat
    BY <2>3, PoolAssumption, FS_Subset, FS_CardinalityType
  <2> QED BY <2>2, <2>4 DEF NoLostWakeup
<1>4. ASSUME NEW c \in Call, Push(c)
      PROVE  NoLostWakeup'
  <2>1. Parked' = Parked /\ Woken' = Woken /\ Notifying' = Notifying \cup {c}
        /\ c \notin Notifying \cup Woken
    <3>1. pc[c] = "push" /\ pc' = [pc EXCEPT ![c] = "notify"]
      BY <1>4 DEF Push, Goto
    <3> QED BY <1>0, <3>1 DEF Parked, Notifying, Woken
  <2>2. (Notifying \cup Woken)' = (Notifying \cup Woken) \cup {c}
    BY <2>1
  <2>3. Cardinality((Notifying \cup Woken)') = Cardinality(Notifying \cup Woken) + 1
    BY <2>1, <2>2, FiniteSides, FS_AddElement
  <2>4. idle' = idle \cup {held[c]}
    BY <1>4 DEF Push
  <2>5. Cardinality(idle') <= Cardinality(idle) + 1
    <3>1. IsFiniteSet(idle) /\ Cardinality(idle) \in Nat
      BY FiniteSides
    <3>2. Cardinality(idle \cup {held[c]})
            = IF held[c] \in idle THEN Cardinality(idle) ELSE Cardinality(idle) + 1
      BY <3>1, FS_AddElement, Zenon
    <3> QED BY <2>4, <3>1, <3>2
  <2>6. Cardinality(idle') \in Nat
    BY <2>4, FiniteSides, FS_AddElement, FS_CardinalityType
  <2>7. Parked # {} => Cardinality(idle') <= Cardinality((Notifying \cup Woken)')
    BY <2>3, <2>5, <2>6, FiniteSides DEF NoLostWakeup
  <2> QED BY <2>1, <2>7 DEF NoLostWakeup
<1>5. ASSUME NEW c \in Call, NotifyOne(c)
      PROVE  NoLostWakeup'
  <2>0. pc[c] = "notify" /\ idle' = idle
    BY <1>5 DEF NotifyOne
  <2>1. CASE Parked = {}
    <3>1. pc' = [pc EXCEPT ![c] = "join"]
      BY <1>5, <2>1 DEF NotifyOne, Goto
    <3>2. Parked' = {}
      BY <1>0, <2>1, <3>1 DEF Parked
    <3> QED BY <3>2 DEF NoLostWakeup
  <2>2. CASE Parked # {}
    <3>1. PICK d \in Parked : pc' = [pc EXCEPT ![c] = "join", ![d] = "woken"]
      BY <1>5, <2>2 DEF NotifyOne
    <3>2. d \in Call /\ pc[d] = "parked" /\ d # c
      BY <2>0, <3>1 DEF Parked
    <3>3. pc' = [x \in Call |-> IF x = d THEN "woken" ELSE IF x = c THEN "join" ELSE pc[x]]
      BY <1>0, <3>1, <3>2
    <3>4. Notifying' = Notifying \ {c} /\ Woken' = Woken \cup {d} /\ Parked' = Parked \ {d}
      BY <2>0, <3>2, <3>3 DEF Notifying, Woken, Parked
    <3>5. c \in Notifying /\ c \notin Woken /\ d \notin Notifying \cup Woken
      BY <2>0, <3>2 DEF Notifying, Woken
    <3>6. (Notifying \cup Woken)' = ((Notifying \cup Woken) \ {c}) \cup {d}
      BY <3>2, <3>4, <3>5
    <3>7. Cardinality((Notifying \cup Woken)') = Cardinality(Notifying \cup Woken)
      <4> DEFINE N == Notifying \cup Woken
      <4>1. IsFiniteSet(N) /\ c \in N /\ d \notin N \ {c} /\ Cardinality(N) \in Nat
        BY <3>5, FiniteSides
      <4> HIDE DEF N
      <4>2. IsFiniteSet(N \ {c}) /\ Cardinality(N \ {c}) = Cardinality(N) - 1
        BY <4>1, FS_RemoveElement
      <4>3. Cardinality((N \ {c}) \cup {d}) = Cardinality(N \ {c}) + 1
        BY <4>1, <4>2, FS_AddElement
      <4>4. Cardinality((N \ {c}) \cup {d}) = Cardinality(N)
        BY <4>1, <4>2, <4>3
      <4> QED BY <3>6, <4>4, Zenon DEF N
    <3> QED BY <2>0, <2>2, <3>7 DEF NoLostWakeup
  <2> QED BY <2>1, <2>2
<1>6. ASSUME NEW c \in Call, Refuse(c) \/ LockWriter(c) \/ PoolTimeout(c) \/ TimeOut(c) \/ Join(c)
      PROVE  NoLostWakeup'
  <2>1. CASE Refuse(c)
    BY <2>1, <1>1 DEF Refuse, Places
  <2>2. CASE LockWriter(c)
    BY <2>2, <1>1 DEF LockWriter, Places
  <2>3. CASE PoolTimeout(c)
    BY <2>3, <1>1 DEF PoolTimeout, Places
  <2>4. CASE TimeOut(c)
    BY <2>4, <1>1 DEF TimeOut, Places
  <2>5. CASE Join(c)
    BY <2>5, <1>1 DEF Join, Returning, Places
  <2> QED BY <1>6, <2>1, <2>2, <2>3, <2>4, <2>5
<1>7. ASSUME NEW c \in Call, Finish(c) \/ (\E r \in Results : EndScan(c, r))
      PROVE  NoLostWakeup'
  <2>1. pc[c] = "holding" /\ idle' = idle /\ (Goto(c, "push") \/ Goto(c, "join"))
    BY <1>7 DEF Finish, EndScan, DropGuard
  <2> QED BY <1>1, <2>1 DEF Places
<1>8. ASSUME NEW c \in Call, NEW k \in {"read", "write", "stream"}, NEW n \in RowCounts,
             Start(c, k, n)
      PROVE  NoLostWakeup'
  <2>1. pc[c] = "out" /\ idle' = idle /\ Goto(c, "start")
    BY <1>8 DEF Start
  <2> QED BY <1>1, <2>1 DEF Places
<1>9. CASE UNCHANGED <<pc, idle>>
  BY <1>9 DEF NoLostWakeup, Parked, Notifying, Woken
<1> QED BY <1>2, <1>3, <1>4, <1>5, <1>6, <1>7, <1>8, <1>9
        DEF Next, vars, Run, Consume, DeadlinePasses, SendRow, Receive, Abandon
-----------------------------------------------------------------------------
(* Rows.                                                                   *)

\* Nothing RowsAccounted speaks of changes for a caller but c, and for c it is
\* shown by the step.
LEMMA RowsOfOthers ==
    ASSUME TypeOK, RowsAccounted, NEW c \in Call,
           \A d \in Call \ {c} : /\ stream'[d] = stream[d] /\ kind'[d] = kind[d]
                                 /\ result'[d] = result[d]
                                 /\ pc'[d] = pc[d] \/ pc'[d] = "woken",
           stream'[c].open => stream'[c].got + stream'[c].chan = stream'[c].sent,
           pc'[c] \in {"push", "notify", "join"} /\ kind'[c] = "stream" /\ result'[c] = "ok"
              => stream'[c].sent = stream'[c].rows
    PROVE  RowsAccounted'
<1> SUFFICES ASSUME NEW d \in Call
             PROVE  /\ stream'[d].open => stream'[d].got + stream'[d].chan = stream'[d].sent
                    /\ pc'[d] \in {"push", "notify", "join"} /\ kind'[d] = "stream"
                          /\ result'[d] = "ok" => stream'[d].sent = stream'[d].rows
  BY DEF RowsAccounted
<1>1. CASE d = c
  BY <1>1
<1>2. CASE d # c
  <2>1. /\ stream'[d] = stream[d] /\ kind'[d] = kind[d] /\ result'[d] = result[d]
        /\ pc'[d] = pc[d] \/ pc'[d] = "woken"
    BY <1>2
  <2>2. /\ stream[d].open => stream[d].got + stream[d].chan = stream[d].sent
        /\ pc[d] \in {"push", "notify", "join"} /\ kind[d] = "stream" /\ result[d] = "ok"
              => stream[d].sent = stream[d].rows
    BY DEF RowsAccounted
  <2> QED BY <2>1, <2>2
<1> QED BY <1>1, <1>2

LEMMA RowsStep == TypeOK /\ RowsAccounted /\ [Next]_vars => RowsAccounted'
<1> SUFFICES ASSUME TypeOK, RowsAccounted, [Next]_vars PROVE RowsAccounted'
  OBVIOUS
<1>0. /\ pc \in [Call -> Places] /\ stream \in [Call -> Streams]
      /\ kind \in [Call -> {"read", "write", "stream"}] /\ result \in [Call -> Results]
  BY DEF TypeOK
<1>r. \A c \in Call :
        /\ stream[c].open => stream[c].got + stream[c].chan = stream[c].sent
        /\ pc[c] \in {"push", "notify", "join"} /\ kind[c] = "stream" /\ result[c] = "ok" =>
              stream[c].sent = stream[c].rows
  BY DEF RowsAccounted
<1>1. ASSUME NEW c \in Call, NEW k \in {"read", "write", "stream"},
             NEW n \in RowCounts, Start(c, k, n)
      PROVE  RowsAccounted'
  <2> DEFINE t == IF k = "stream" THEN [NoStream EXCEPT !.rows = n, !.open = TRUE] ELSE NoStream
  <2>1. t.sent = 0 /\ t.chan = 0 /\ t.got = 0
    <3>1. n \in Nat
      BY PoolAssumption
    <3>2. LET s == [NoStream EXCEPT !.rows = n, !.open = TRUE]
          IN  s.sent = 0 /\ s.chan = 0 /\ s.got = 0
      BY <3>1, Started, Zenon
    <3> QED BY <3>2, NoStreamType, Zenon
  <2>2. stream' = [stream EXCEPT ![c] = t]
    BY <1>1, Zenon DEF Start
  <2> HIDE DEF t
  <2>3. stream'[c] = t /\ \A d \in Call \ {c} : stream'[d] = stream[d]
    BY <1>0, <2>2
  <2>4. pc' = [pc EXCEPT ![c] = "start"] /\ kind' = [kind EXCEPT ![c] = k] /\ result' = result
    BY <1>1 DEF Start, Goto
  <2>5. pc'[c] = "start"
        /\ \A d \in Call \ {c} : kind'[d] = kind[d] /\ result'[d] = result[d] /\ pc'[d] = pc[d]
    BY <1>0, <2>4
  <2> QED BY <2>1, <2>3, <2>5, RowsOfOthers
<1>2. ASSUME NEW c \in Call, NEW to \in {"holding", "parked", "expired", "start", "woken", "out"},
             Goto(c, to), UNCHANGED <<stream, kind, result>>
      PROVE  RowsAccounted'
  BY <1>0, <1>2, <1>r, RowsOfOthers DEF Goto
<1>3. ASSUME NEW c \in Call, Push(c)
      PROVE  RowsAccounted'
  BY <1>0, <1>3, <1>r, RowsOfOthers DEF Push, Goto
<1>4. ASSUME NEW c \in Call, NotifyOne(c)
      PROVE  RowsAccounted'
  <2>1. pc[c] = "notify" /\ UNCHANGED <<stream, kind, result>> /\ pc'[c] = "join"
        /\ \A d \in Call \ {c} : pc'[d] = pc[d] \/ pc'[d] = "woken"
    <3>1. CASE Parked = {}
      BY <1>0, <1>4, <3>1 DEF NotifyOne, Goto
    <3>2. CASE Parked # {}
      <4>1. PICK d \in Parked : pc' = [pc EXCEPT ![c] = "join", ![d] = "woken"]
        BY <1>4, <3>2 DEF NotifyOne
      <4>2. pc[c] = "notify" /\ d \in Call /\ d # c
        BY <1>4, <4>1 DEF Parked, NotifyOne
      <4>3. pc' = [x \in Call |-> IF x = d THEN "woken" ELSE IF x = c THEN "join" ELSE pc[x]]
        BY <1>0, <4>1, <4>2
      <4> QED BY <1>4, <4>2, <4>3 DEF NotifyOne
    <3> QED BY <3>1, <3>2
  <2> QED BY <1>r, <2>1, RowsOfOthers
<1>5. ASSUME NEW c \in Call, Refuse(c) \/ PoolTimeout(c) \/ Finish(c)
      PROVE  RowsAccounted'
  <2>1. /\ UNCHANGED <<stream, kind>>
        /\ \A d \in Call \ {c} : result'[d] = result[d] /\ pc'[d] = pc[d]
        /\ kind[c] # "stream" \/ result'[c] # "ok"
    <3>1. CASE Refuse(c)
      BY <1>0, <3>1 DEF Refuse, Goto, Returns
    <3>2. CASE PoolTimeout(c)
      BY <1>0, <3>2 DEF PoolTimeout, Goto, Returns
    <3>3. CASE Finish(c)
      BY <1>0, <3>3 DEF Finish, DropGuard, Goto, Returns
    <3> QED BY <1>5, <3>1, <3>2, <3>3
  <2> QED BY <1>r, <2>1, RowsOfOthers
<1>6. ASSUME NEW c \in Call, NEW r \in Results, EndScan(c, r)
      PROVE  RowsAccounted'
  <2>1. /\ UNCHANGED <<stream, kind>>
        /\ \A d \in Call \ {c} : result'[d] = result[d] /\ pc'[d] = pc[d]
        /\ result'[c] = r /\ (r = "ok" => stream[c].sent = stream[c].rows)
    BY <1>0, <1>6 DEF EndScan, DropGuard, Goto, Returns
  <2> QED BY <1>r, <2>1, RowsOfOthers
<1>7. ASSUME NEW c \in Call, SendRow(c)
      PROVE  RowsAccounted'
  <2> DEFINE t == [stream[c] EXCEPT !.sent = stream[c].sent + 1, !.chan = 1]
  <2>1. /\ t.rows = stream[c].rows /\ t.sent = stream[c].sent + 1
        /\ t.chan = 1 /\ t.got = stream[c].got /\ t.open = stream[c].open
    BY <1>0, Sent, Zenon
  <2>2. stream' = [stream EXCEPT ![c] = t]
    BY <1>7, Zenon DEF SendRow
  <2> HIDE DEF t
  <2>3. stream'[c] = t /\ \A d \in Call \ {c} : stream'[d] = stream[d]
    BY <1>0, <2>2
  <2>4. UNCHANGED <<pc, kind, result>> /\ pc[c] = "holding" /\ stream[c].chan = 0
    BY <1>7 DEF SendRow
  <2>5. stream[c].sent \in Nat /\ stream[c].got \in Nat
    BY <1>0, StreamFields
  <2>7. ASSUME stream[c].open PROVE t.got + t.chan = t.sent
    <3>1. stream[c].got + 0 = stream[c].sent
      BY <1>r, <2>4, <2>7
    <3> QED BY <2>1, <2>5, <3>1
  <2>6. t.open => t.got + t.chan = t.sent
    BY <2>1, <2>7
  <2> QED BY <2>3, <2>4, <2>6, RowsOfOthers
<1>8. ASSUME NEW c \in Call, NEW accepts \in BOOLEAN, Receive(c, accepts)
      PROVE  RowsAccounted'
  <2> DEFINE a == [stream[c] EXCEPT !.chan = 0, !.got = stream[c].got + 1]
             b == [stream[c] EXCEPT !.chan = 0, !.open = FALSE, !.failed = TRUE]
  <2>1. /\ a.rows = stream[c].rows /\ a.sent = stream[c].sent
        /\ a.chan = 0 /\ a.got = stream[c].got + 1 /\ a.open = stream[c].open
    BY <1>0, Accepted, Zenon
  <2>2. b.rows = stream[c].rows /\ b.sent = stream[c].sent /\ b.open = FALSE
    BY <1>0, Refused, Zenon
  <2>3. stream' = [stream EXCEPT ![c] = IF accepts THEN a ELSE b]
    BY <1>8, Zenon DEF Receive
  <2> HIDE DEF a, b
  <2>4. stream'[c] \in {a, b} /\ \A d \in Call \ {c} : stream'[d] = stream[d]
    BY <1>0, <2>3
  <2>5. UNCHANGED <<pc, kind, result>> /\ stream[c].chan = 1
    BY <1>8 DEF Receive
  <2>6. stream[c].sent \in Nat /\ stream[c].got \in Nat
    BY <1>0, StreamFields
  <2>7. ASSUME stream[c].open PROVE a.got + a.chan = a.sent
    <3>1. stream[c].got + 1 = stream[c].sent
      BY <1>r, <2>5, <2>7
    <3> QED BY <2>1, <2>6, <3>1
  <2>10. a.open => a.got + a.chan = a.sent
    BY <2>1, <2>7
  <2>8. stream'[c].open => stream'[c].got + stream'[c].chan = stream'[c].sent
    BY <2>2, <2>4, <2>10
  <2>9. stream'[c].sent = stream[c].sent /\ stream'[c].rows = stream[c].rows
    BY <2>1, <2>2, <2>4
  <2> QED BY <1>r, <2>4, <2>5, <2>8, <2>9, RowsOfOthers
<1>9. ASSUME NEW c \in Call, Abandon(c)
      PROVE  RowsAccounted'
  <2> DEFINE t == [stream[c] EXCEPT !.open = FALSE, !.chan = 0]
  <2>1. t.rows = stream[c].rows /\ t.sent = stream[c].sent /\ t.open = FALSE
    BY <1>0, Abandoned, Zenon
  <2>2. stream' = [stream EXCEPT ![c] = t]
    BY <1>9, Zenon DEF Abandon
  <2> HIDE DEF t
  <2>3. stream'[c] = t /\ \A d \in Call \ {c} : stream'[d] = stream[d]
    BY <1>0, <2>2
  <2>4. UNCHANGED <<pc, kind, result>>
    BY <1>9 DEF Abandon
  <2> QED BY <1>r, <2>1, <2>3, <2>4, RowsOfOthers
<1>10. ASSUME NEW c \in Call, Join(c)
       PROVE  RowsAccounted'
  <2>1. stream'[c] = NoStream /\ pc'[c] = "out"
        /\ \A d \in Call \ {c} : stream'[d] = stream[d] /\ kind'[d] = kind[d]
                                 /\ result'[d] = result[d] /\ pc'[d] = pc[d]
    BY <1>0, <1>10 DEF Join, Goto, Returns
  <2> QED BY <2>1, NoStreamType, RowsOfOthers
<1>11. CASE UNCHANGED <<pc, kind, result, stream>>
  BY <1>11 DEF RowsAccounted
<1>12. ASSUME NEW c \in Call, LockWriter(c) \/ TimeOut(c) \/ Park(c)
       PROVE  RowsAccounted'
  BY <1>2, <1>12 DEF LockWriter, TimeOut, Park
<1>13. ASSUME NEW c \in Call, NEW conn \in Conn, Pop(c, conn)
       PROVE  RowsAccounted'
  BY <1>2, <1>13 DEF Pop
<1> QED BY <1>1, <1>3, <1>4, <1>5, <1>6, <1>7, <1>8, <1>9, <1>10, <1>11, <1>12, <1>13
        DEF Next, vars, Run, Consume, DeadlinePasses

-----------------------------------------------------------------------------
(* The theorems.                                                           *)

LEMMA PoolInit == Init => PoolInv
<1> SUFFICES ASSUME Init PROVE PoolInv
  OBVIOUS
<1>1. TypeOK
  BY TypeInit
<1>2. \A c \in Call : held[c] = NoConn /\ pc[c] = "out" /\ stream[c] = NoStream
  BY DEF Init
<1>3. Holders = {} /\ Parked = {}
  BY <1>2 DEF Holders, Parked
<1>4. GuardsHeld
  BY <1>2 DEF GuardsHeld
<1>5. ConnectionsConserved
  BY <1>3 DEF ConnectionsConserved, Init
<1>6. NoLostWakeup
  BY <1>3 DEF NoLostWakeup
<1>7. RowsAccounted
  BY <1>2, NoStreamType DEF RowsAccounted
<1> QED BY <1>1, <1>4, <1>5, <1>6, <1>7 DEF PoolInv

(* The inductive invariant behind the four results below. *)
THEOREM PoolInvariant == Spec => []PoolInv
<1>1. PoolInv /\ [Next]_vars => PoolInv'
  BY TypeStep, GuardsStep, ConservedStep, WakeupStep, RowsStep DEF PoolInv
<1> QED BY PoolInit, <1>1, PTL DEF Spec

(* Every variable of the pool keeps its type: the channel of a stream never  *)
(* holds more than one row, a guard only connections of the pool.            *)
THEOREM PoolTypeCorrect == Spec => []TypeOK
<1>1. PoolInv => TypeOK
  BY DEF PoolInv
<1> QED BY PoolInvariant, <1>1, PTL

(* However calls end, each read connection is on the stack or in exactly one *)
(* guard (ReadGuard::drop).                                                  *)
THEOREM ConnectionsAlwaysConserved == Spec => []ConnectionsConserved
<1>1. PoolInv => ConnectionsConserved
  BY DEF PoolInv
<1> QED BY PoolInvariant, <1>1, PTL

(* Notifying after the mutex is unlocked loses no wakeup, with any number of *)
(* readers and connections.                                                  *)
THEOREM WakeupsNeverLost == Spec => []NoLostWakeup
<1>1. PoolInv => NoLostWakeup
  BY DEF PoolInv
<1> QED BY PoolInvariant, <1>1, PTL

(* A stream that reports success handed over every row, one whose callback   *)
(* failed reports the callback's error, for scans of any length.             *)
THEOREM StreamsTellTheTruth == Spec => []StreamOutcome
<1>1. PoolInv => StreamOutcome
  <2> SUFFICES ASSUME PoolInv, NEW c \in Call, Returning(c), kind[c] = "stream",
                      stream[c].open \/ stream[c].failed
               PROVE  /\ Outcome(c) = "ok" => stream[c].got = stream[c].rows
                      /\ stream[c].failed => Outcome(c) \in {"callback", "panic"}
    BY DEF StreamOutcome
  <2>1. pc[c] = "join" /\ (stream[c].open => stream[c].chan = 0)
    BY DEF Returning
  <2>2. /\ stream[c].open => stream[c].got + stream[c].chan = stream[c].sent
        /\ result[c] = "ok" => stream[c].sent = stream[c].rows
    BY <2>1 DEF PoolInv, RowsAccounted
  <2>3. stream[c].got \in Nat /\ stream[c].failed \in BOOLEAN
    BY StreamFields DEF PoolInv, TypeOK
  <2>4. CASE stream[c].failed
    BY <2>4 DEF Outcome
  <2>5. CASE ~stream[c].failed
    <3>1. Outcome(c) = result[c] /\ stream[c].open
      BY <2>5 DEF Outcome
    <3> QED BY <2>1, <2>2, <2>3, <2>5, <3>1
  <2> QED BY <2>3, <2>4, <2>5
<1> QED BY PoolInvariant, <1>1, PTL
=============================================================================
