------------------------- MODULE FutureMemoryProofs -------------------------
(***************************************************************************)
(* Theorems about FutureMemory, for any facts and callers, every cap and   *)
(* every schedule.                                                         *)
(***************************************************************************)
EXTENDS FutureMemory, WellFoundedInduction, TLAPS

(* A stamp that a call has read or written is the one in the table.          *)
StampsAgree ==
    \A c \in Caller, f \in Fact : call[c].stamp[f] # Never => call[c].stamp[f] = surfaced[f]

-----------------------------------------------------------------------------
(* Types.                                                                  *)

Stamp == 0..Never
Polls == [at : {"awake", "hint", "list", "asleep"}, time : Time, hint : Stamp]

LEMMA Times ==
    /\ Never \in Nat /\ Never \notin Time /\ Time \subseteq Stamp /\ Never \in Stamp
    /\ 0 \in Time /\ \A t \in Time : t < Never
BY ScheduleAssumption DEF Never, Time, Stamp

LEMMA CallFields ==
    ASSUME NEW r \in Calls
    PROVE  /\ r.at \in Stages /\ r.time \in Time /\ r.capped \in BOOLEAN
           /\ r.tier \in [Tiers -> SUBSET Fact] /\ r.stamp \in [Fact -> Stamp]
BY DEF Calls, Stamp

LEMMA SetAt ==
    ASSUME NEW r \in Calls, NEW x \in Stages
    PROVE  LET t == [r EXCEPT !.at = x]
           IN  t \in Calls /\ t.at = x /\ t.time = r.time /\ t.tier = r.tier /\ t.stamp = r.stamp
               /\ t.capped = r.capped
BY DEF Calls

LEMMA SetTime ==
    ASSUME NEW r \in Calls, NEW x \in Time
    PROVE  LET t == [r EXCEPT !.time = x]
           IN  t \in Calls /\ t.at = r.at /\ t.tier = r.tier /\ t.stamp = r.stamp
BY DEF Calls

LEMMA SetCapped ==
    ASSUME NEW r \in Calls, NEW x \in BOOLEAN
    PROVE  LET t == [r EXCEPT !.capped = x]
           IN  t \in Calls /\ t.at = r.at /\ t.tier = r.tier /\ t.stamp = r.stamp
BY DEF Calls

LEMMA SetTier ==
    ASSUME NEW r \in Calls, NEW x \in [Tiers -> SUBSET Fact]
    PROVE  LET t == [r EXCEPT !.tier = x]
           IN  t \in Calls /\ t.at = r.at /\ t.stamp = r.stamp /\ t.time = r.time
BY DEF Calls

LEMMA SetStamp ==
    ASSUME NEW r \in Calls, NEW x \in [Fact -> Stamp]
    PROVE  LET t == [r EXCEPT !.stamp = x]
           IN  t \in Calls /\ t.at = r.at /\ t.stamp = x /\ t.time = r.time /\ t.tier = r.tier
BY DEF Calls, Stamp

LEMMA NoCallType == NoCall \in Calls /\ NoCall.stamp = NoStamps /\ NoCall.at = "idle"
<1>1. NoTiers \in [Tiers -> SUBSET Fact]
  BY DEF NoTiers
<1>2. NoStamps \in [Fact -> Stamp]
  BY Times DEF NoStamps
<1> QED BY <1>1, <1>2, Times DEF NoCall, Calls, Stages, Stamp

\* What Begin, a tier's read and the return make of a call.
LEMMA Begun ==
    ASSUME NEW capped \in BOOLEAN, NEW time \in Time
    PROVE  LET t == [NoCall EXCEPT !.at = IF capped THEN "pinned" ELSE "due",
                                   !.time = time, !.capped = capped]
           IN  t \in Calls /\ t.stamp = NoStamps /\ t.at # "done"
<1> DEFINE st == IF capped THEN "pinned" ELSE "due"
           a == [NoCall EXCEPT !.at = st]
           b == [a EXCEPT !.time = time]
           d == [b EXCEPT !.capped = capped]
<1>0. st \in Stages /\ st # "done"
  BY DEF Stages, Tiers
<1> HIDE DEF st
<1>1. a \in Calls /\ a.at = st /\ a.stamp = NoStamps
  BY <1>0, NoCallType, SetAt
<1> HIDE DEF a
<1>2. b \in Calls /\ b.at = st /\ b.stamp = NoStamps
  BY <1>1, SetTime
<1> HIDE DEF b
<1>3. d \in Calls /\ d.at = st /\ d.stamp = NoStamps
  BY <1>2, SetCapped
<1>4. d \in Calls /\ d.stamp = NoStamps /\ d.at # "done"
  BY <1>0, <1>3
<1> QED BY <1>4, Zenon DEF a, b, st

LEMMA DoneCall ==
    ASSUME NEW r \in Calls, NEW stamps \in [Fact -> Stamp]
    PROVE  LET t == [r EXCEPT !.at = "done", !.stamp = stamps]
           IN  /\ t \in Calls /\ t.at = "done" /\ t.time = r.time /\ t.tier = r.tier
               /\ t.stamp = stamps
<1> DEFINE a == [r EXCEPT !.at = "done"]
           b == [a EXCEPT !.stamp = stamps]
<1>1. a \in Calls /\ a.at = "done" /\ a.time = r.time /\ a.tier = r.tier
  BY SetAt DEF Stages
<1> HIDE DEF a
<1>2. b \in Calls /\ b.at = "done" /\ b.time = r.time /\ b.tier = r.tier /\ b.stamp = stamps
  BY <1>1, SetStamp
<1> QED BY <1>2, Zenon DEF a

\* Every tier's read, as a change of one call.
LEMMA TakeStep ==
    ASSUME TypeOK, NEW c \in Caller, NEW t \in Tiers, NEW taken \in SUBSET Fact,
           Take(c, t, taken)
    PROVE  /\ call' \in [Caller -> Calls]
           /\ \A d \in Caller \ {c} : call'[d] = call[d]
           /\ call'[c].at # "done"
           /\ call'[c].stamp = [f \in Fact |-> IF f \in taken THEN surfaced[f]
                                               ELSE call[c].stamp[f]]
<1> DEFINE r == call[c]
           st == IF r.capped THEN Following[t] ELSE "stamp"
           tiers == [r.tier EXCEPT ![t] = taken]
           stamps == [f \in Fact |-> IF f \in taken THEN surfaced[f] ELSE r.stamp[f]]
           a == [r EXCEPT !.at = st]
           b == [a EXCEPT !.tier = tiers]
           u == [b EXCEPT !.stamp = stamps]
<1>1. call \in [Caller -> Calls] /\ r \in Calls /\ surfaced \in [Fact -> Stamp]
  BY DEF TypeOK, Stamp
<1>2. st \in Stages /\ st # "done"
  BY DEF Following, Stages, Tiers
<1>3. tiers \in [Tiers -> SUBSET Fact]
  BY <1>1, CallFields
<1>4. stamps \in [Fact -> Stamp]
  BY <1>1, CallFields
<1>5. call' = [call EXCEPT ![c] = u]
  BY Zenon DEF Take
<1> HIDE DEF st, tiers, stamps, r
<1>6. a \in Calls /\ a.at = st
  BY <1>1, <1>2, SetAt
<1> HIDE DEF a
<1>7. b \in Calls /\ b.at = st
  BY <1>3, <1>6, SetTier
<1> HIDE DEF b
<1>8. u \in Calls /\ u.stamp = stamps /\ u.at = st
  BY <1>4, <1>7, SetStamp
<1> HIDE DEF u
<1>9. call' \in [Caller -> Calls] /\ call'[c] = u /\ \A d \in Caller \ {c} : call'[d] = call[d]
  BY <1>1, <1>5, <1>8
<1> QED BY <1>2, <1>8, <1>9 DEF stamps, r

\* stamp_surfaced writes only where there is no stamp.
LEMMA StampedType ==
    ASSUME TypeOK, NEW ids, NEW time \in Time
    PROVE  /\ Stamped(ids, time) \in [Fact -> Stamp]
           /\ \A f \in Fact :
                /\ surfaced[f] # Never => Stamped(ids, time)[f] = surfaced[f]
                /\ Stamped(ids, time)[f] # surfaced[f] => f \in ids /\ Stamped(ids, time)[f] = time
                /\ f \in ids /\ life[f] # "gone" => Stamped(ids, time)[f] # Never
BY Times DEF Stamped, TypeOK, Stamp

\* The smallest time still to come exists, and is after the consumer's now.
LEMMA HintIsLater ==
    ASSUME TypeOK, NEW time \in Time
    PROVE  LET h == CHOOSE t \in Upcoming(time) \cup {Never} : \A u \in Upcoming(time) : t <= u
           IN  h \in Stamp /\ time < h
<1> DEFINE T == Upcoming(time) \cup {Never}
<1>1. Upcoming(time) \subseteq Stamp /\ \A u \in Upcoming(time) : time < u
  BY ScheduleAssumption DEF Upcoming, Stamp, Active
<1>2. Stamp \subseteq Nat /\ Never \in Stamp /\ time < Never /\ time \in Nat
  BY Times, ScheduleAssumption DEF Stamp, Time
<1>3. T \subseteq Nat /\ T # {} /\ \A t \in T : time < t /\ t \in Stamp
  BY <1>1, <1>2
<1>4. \E x \in T : \A y \in T : ~(<<y, x>> \in OpToRel(<, Nat))
  <2> HIDE DEF T
  <2> QED BY <1>3, NatLessThanWellFounded, WFMin
<1>5. PICK x \in T : \A y \in T : ~(<<y, x>> \in OpToRel(<, Nat))
  BY <1>4
<1>6. \A y \in T : x <= y
  <2> SUFFICES ASSUME NEW y \in T, ~(x <= y) PROVE FALSE
    OBVIOUS
  <2>1. y < x /\ y \in Nat /\ x \in Nat
    BY <1>3
  <2>2. <<y, x>> \in OpToRel(<, Nat)
    BY <2>1 DEF OpToRel
  <2> QED BY <1>5, <2>2
<1>7. \E t \in T : \A u \in Upcoming(time) : t <= u
  BY <1>6
<1>8. (CHOOSE t \in T : \A u \in Upcoming(time) : t <= u) \in T
  BY <1>7
<1> QED BY <1>3, <1>8

PollStages == {"awake", "hint", "list", "asleep"}

LEMMA PollFields ==
    ASSUME NEW p \in Polls
    PROVE  p.at \in PollStages /\ p.time \in Time /\ p.hint \in Stamp
BY DEF Polls, PollStages

LEMMA SetPollAt ==
    ASSUME NEW p \in Polls, NEW x \in PollStages
    PROVE  LET t == [p EXCEPT !.at = x]
           IN  t \in Polls /\ t.at = x /\ t.time = p.time /\ t.hint = p.hint
BY DEF Polls, PollStages

LEMMA SetPollTime ==
    ASSUME NEW p \in Polls, NEW x \in Time
    PROVE  LET t == [p EXCEPT !.time = x]
           IN  t \in Polls /\ t.at = p.at
BY DEF Polls

LEMMA SetPollHint ==
    ASSUME NEW p \in Polls, NEW x \in Stamp
    PROVE  LET t == [p EXCEPT !.hint = x]
           IN  t \in Polls /\ t.at = p.at /\ t.time = p.time /\ t.hint = x
BY DEF Polls

PollOK == poll \in Polls /\ (poll.at \in {"list", "asleep"} => poll.time < poll.hint)

LEMMA PollStep == TypeOK /\ Poll => PollOK'
<1> SUFFICES ASSUME TypeOK, Poll PROVE PollOK'
  OBVIOUS
<1>0. /\ poll \in Polls /\ now \in Time
      /\ poll.at \in {"list", "asleep"} => poll.time < poll.hint
  BY DEF TypeOK, Polls, Stamp
<1>1. CASE AskHint
  <2> DEFINE a == [poll EXCEPT !.at = "hint"]
             b == [a EXCEPT !.time = now]
  <2>1. a \in Polls /\ a.at = "hint"
    BY <1>0, SetPollAt DEF PollStages
  <2> HIDE DEF a
  <2>2. b \in Polls /\ b.at = "hint"
    BY <1>0, <2>1, SetPollTime
  <2>3. poll' = b
    BY <1>1, Zenon DEF AskHint, a
  <2> HIDE DEF b
  <2> QED BY <2>2, <2>3 DEF PollOK
<1>2. CASE NextDueTime
  <2> DEFINE h == CHOOSE t \in Upcoming(poll.time) \cup {Never} :
                     \A u \in Upcoming(poll.time) : t <= u
             a == [poll EXCEPT !.at = "list"]
             b == [a EXCEPT !.hint = h]
  <2>0. poll.time \in Time
    BY <1>0, PollFields
  <2>1. h \in Stamp /\ poll.time < h
    BY <2>0, HintIsLater
  <2>2. a \in Polls /\ a.at = "list" /\ a.time = poll.time
    BY <1>0, SetPollAt DEF PollStages
  <2>3. poll' = b
    BY <1>2, Zenon DEF NextDueTime
  <2> HIDE DEF a, h
  <2>4. b \in Polls /\ b.at = "list" /\ b.time = poll.time /\ b.hint = h
    BY <2>1, <2>2, SetPollHint
  <2> HIDE DEF b
  <2> QED BY <2>1, <2>3, <2>4 DEF PollOK
<1>3. CASE PollDue
  <2> DEFINE a == [poll EXCEPT !.at = "asleep"]
  <2>1. poll' = a /\ poll.at = "list"
    BY <1>3 DEF PollDue
  <2>2. a \in Polls /\ a.time = poll.time /\ a.hint = poll.hint
    BY <1>0, SetPollAt DEF PollStages
  <2> HIDE DEF a
  <2> QED BY <1>0, <2>1, <2>2 DEF PollOK
<1>4. CASE Wake
  <2> DEFINE a == [poll EXCEPT !.at = "awake"]
  <2>1. poll' = a
    BY <1>4 DEF Wake
  <2>2. a \in Polls /\ a.at = "awake"
    BY <1>0, SetPollAt DEF PollStages
  <2> HIDE DEF a
  <2> QED BY <2>1, <2>2 DEF PollOK
<1> QED BY <1>1, <1>2, <1>3, <1>4 DEF Poll

-----------------------------------------------------------------------------
(* The steps, by what they do to the calls and the stamps.                 *)

\* StampAndReturn, as a change of one call.
LEMMA StampStep ==
    ASSUME TypeOK, NEW c \in Caller, StampAndReturn(c)
    PROVE  /\ surfaced' = Stamped(ToStamp(c), call[c].time)
           /\ call' \in [Caller -> Calls]
           /\ \A d \in Caller \ {c} : call'[d] = call[d]
           /\ call'[c].time = call[c].time /\ call'[c].tier = call[c].tier
           /\ call'[c].stamp = [f \in Fact |-> IF f \in ToStamp(c) /\ life[f] # "gone"
                                               THEN surfaced'[f] ELSE call[c].stamp[f]]
<1> DEFINE r == call[c]
           stamps == [f \in Fact |-> IF f \in ToStamp(c) /\ life[f] # "gone"
                                     THEN surfaced'[f] ELSE r.stamp[f]]
           u == [r EXCEPT !.at = "done", !.stamp = stamps]
<1>1. call \in [Caller -> Calls] /\ r \in Calls
  BY DEF TypeOK
<1>2. surfaced' = Stamped(ToStamp(c), r.time)
  BY DEF StampAndReturn
<1>3. surfaced' \in [Fact -> Stamp]
  BY <1>1, <1>2, CallFields, StampedType
<1>4. stamps \in [Fact -> Stamp]
  BY <1>1, <1>3, CallFields
<1>5. call' = [call EXCEPT ![c] = u]
  BY Zenon DEF StampAndReturn
<1> HIDE DEF stamps
<1>6. u \in Calls /\ u.time = r.time /\ u.tier = r.tier /\ u.stamp = stamps
  BY <1>1, <1>4, DoneCall, Zenon
<1> HIDE DEF u
<1>7. call' \in [Caller -> Calls] /\ call'[c] = u /\ \A d \in Caller \ {c} : call'[d] = call[d]
  BY <1>1, <1>5, <1>6
<1> QED BY <1>2, <1>6, <1>7 DEF stamps

\* A call that reads or begins: what it knows are stamps of the table.
Reads(c) ==
    /\ call' \in [Caller -> Calls]
    /\ \A d \in Caller \ {c} : call'[d] = call[d]
    /\ call'[c].at # "done"
    /\ \A f \in Fact : call'[c].stamp[f] \in {Never, surfaced[f], call[c].stamp[f]}
    /\ UNCHANGED <<now, life, pinned, surfaced, poll>>

LEMMA ReadsStep ==
    ASSUME TypeOK, NEW c \in Caller,
           \/ \E capped \in BOOLEAN : Begin(c, capped)
           \/ ReadPinned(c) \/ ReadHigh(c) \/ ReadDue(c) \/ ReadRecent(c) \/ Return(c)
    PROVE  Reads(c)
<1>0. call \in [Caller -> Calls] /\ now \in Time
  BY DEF TypeOK
<1>1. ASSUME NEW t \in Tiers, NEW taken \in SUBSET Fact, Take(c, t, taken),
             UNCHANGED <<now, life, pinned, surfaced, poll>>
      PROVE  Reads(c)
  <2>1. /\ call' \in [Caller -> Calls]
        /\ \A d \in Caller \ {c} : call'[d] = call[d]
        /\ call'[c].at # "done"
        /\ call'[c].stamp = [f \in Fact |-> IF f \in taken THEN surfaced[f] ELSE call[c].stamp[f]]
    BY <1>1, TakeStep
  <2> QED BY <1>1, <2>1 DEF Reads
<1>2. ASSUME NEW capped \in BOOLEAN, Begin(c, capped)
      PROVE  Reads(c)
  <2> DEFINE t == [NoCall EXCEPT !.at = IF capped THEN "pinned" ELSE "due",
                                 !.time = now, !.capped = capped]
  <2>1. t \in Calls /\ t.stamp = NoStamps /\ t.at # "done"
    BY <1>0, Begun, Zenon
  <2>2. call' = [call EXCEPT ![c] = t] /\ UNCHANGED <<now, life, pinned, surfaced, poll>>
    BY <1>2, Zenon DEF Begin
  <2> HIDE DEF t
  <2> QED BY <1>0, <2>1, <2>2 DEF Reads, NoStamps
<1>3. CASE Return(c)
  BY <1>0, <1>3, NoCallType DEF Return, Reads, NoStamps
<1>4. CASE ReadPinned(c)
  <2>1. PICK taken \in SUBSET (Active \cap pinned) : Take(c, "pinned", taken)
    BY <1>4 DEF ReadPinned
  <2>2. taken \in SUBSET Fact /\ "pinned" \in Tiers
    BY DEF Active, Tiers
  <2>3. UNCHANGED <<now, life, pinned, surfaced, poll>>
    BY <1>4 DEF ReadPinned
  <2> QED BY <1>1, <2>1, <2>2, <2>3
<1>5. CASE ReadHigh(c)
  <2>1. PICK taken \in SUBSET (Active \ Seen(c)) : Take(c, "high", taken)
    BY <1>5 DEF ReadHigh
  <2>2. taken \in SUBSET Fact /\ "high" \in Tiers
    BY DEF Active, Tiers
  <2>3. UNCHANGED <<now, life, pinned, surfaced, poll>>
    BY <1>5 DEF ReadHigh
  <2> QED BY <1>1, <2>1, <2>2, <2>3
<1>6. CASE ReadDue(c)
  <2> DEFINE due == {f \in Active : Due(f, call[c].time)} \ Seen(c)
  <2>1. PICK taken \in (IF call[c].capped THEN SUBSET due ELSE {due}) : Take(c, "due", taken)
    BY <1>6, Zenon DEF ReadDue
  <2>2. taken \in SUBSET Fact /\ "due" \in Tiers
    BY DEF Active, Tiers
  <2>3. UNCHANGED <<now, life, pinned, surfaced, poll>>
    BY <1>6 DEF ReadDue
  <2> QED BY <1>1, <2>1, <2>2, <2>3
<1>7. CASE ReadRecent(c)
  <2>1. PICK taken \in SUBSET (Active \ Seen(c)) : Take(c, "recent", taken)
    BY <1>7 DEF ReadRecent
  <2>2. taken \in SUBSET Fact /\ "recent" \in Tiers
    BY DEF Active, Tiers
  <2>3. UNCHANGED <<now, life, pinned, surfaced, poll>>
    BY <1>7 DEF ReadRecent
  <2> QED BY <1>1, <2>1, <2>2, <2>3
<1> QED BY <1>2, <1>3, <1>4, <1>5, <1>6, <1>7

\* The steps that touch neither the calls nor the stamps.
Elsewhere ==
    /\ UNCHANGED <<call, surfaced>>
    /\ \A f \in Fact : life'[f] # "gone" => life[f] # "gone"

LEMMA StepKinds ==
    ASSUME TypeOK, [Next]_vars
    PROVE  \/ Elsewhere
           \/ \E c \in Caller : Reads(c)
           \/ \E c \in Caller : StampAndReturn(c)
           \/ PollDue
<1>0. life \in [Fact -> {"active", "expired", "gone"}]
  BY DEF TypeOK
<1>1. CASE \E f \in Fact : SetPinned(f) \/ Expire(f) \/ Purge(f)
  BY <1>0, <1>1 DEF SetPinned, Expire, Purge, Elsewhere
<1>2. CASE Tick \/ AskHint \/ NextDueTime \/ Wake \/ UNCHANGED vars
  BY <1>2 DEF Tick, AskHint, NextDueTime, Wake, vars, Elsewhere
<1> QED BY <1>1, <1>2, ReadsStep DEF Next, Poll

-----------------------------------------------------------------------------
(* The invariant.                                                          *)

ScheduleInv == TypeOK /\ StampsAgree /\ SurfacedWhenDue /\ StampsReported

LEMMA InitSchedule == Init => ScheduleInv
<1> SUFFICES ASSUME Init PROVE ScheduleInv
  OBVIOUS
<1>1. TypeOK
  BY NoCallType, Times DEF Init, TypeOK, Stamp
<1>2. StampsAgree
  BY NoCallType DEF Init, StampsAgree, NoStamps
<1>3. SurfacedWhenDue
  BY DEF Init, SurfacedWhenDue
<1>4. StampsReported
  BY NoCallType DEF Init, StampsReported
<1> QED BY <1>1, <1>2, <1>3, <1>4 DEF ScheduleInv

\* Both ways of stamping: what is there stays, what is new is due.
LEMMA Stamping ==
    ASSUME TypeOK, PollDue \/ \E c \in Caller : StampAndReturn(c)
    PROVE  /\ surfaced' \in [Fact -> Stamp]
           /\ \A f \in Fact : /\ surfaced[f] # Never => surfaced'[f] = surfaced[f]
                              /\ surfaced'[f] # surfaced[f] => Due(f, surfaced'[f])
<1>1. ASSUME NEW c \in Caller, StampAndReturn(c)
      PROVE  /\ surfaced' \in [Fact -> Stamp]
             /\ \A f \in Fact : /\ surfaced[f] # Never => surfaced'[f] = surfaced[f]
                                /\ surfaced'[f] # surfaced[f] => Due(f, surfaced'[f])
  <2>1. call[c] \in Calls
    BY DEF TypeOK
  <2>2. call[c].time \in Time
    BY <2>1, CallFields
  <2>3. surfaced' = Stamped(ToStamp(c), call[c].time)
    BY <1>1 DEF StampAndReturn
  <2> QED BY <2>2, <2>3, StampedType DEF ToStamp
<1>2. CASE PollDue
  <2>1. now \in Time
    BY DEF TypeOK
  <2>2. surfaced' = Stamped({f \in Active : Due(f, now)}, now)
    BY <1>2 DEF PollDue
  <2> QED BY <2>1, <2>2, StampedType
<1> QED BY <1>1, <1>2

LEMMA TypeStep == TypeOK /\ [Next]_vars => TypeOK'
<1> SUFFICES ASSUME TypeOK, [Next]_vars PROVE TypeOK'
  OBVIOUS
<1> USE DEF Stamp
<1>1. ASSUME NEW c \in Caller, Reads(c) PROVE TypeOK'
  BY <1>1 DEF Reads, TypeOK
<1>2. ASSUME NEW c \in Caller, StampAndReturn(c) PROVE TypeOK'
  <2>1. call' \in [Caller -> Calls] /\ surfaced' \in [Fact -> Stamp]
    BY <1>2, StampStep, Stamping
  <2>2. UNCHANGED <<now, life, pinned, poll>>
    BY <1>2 DEF StampAndReturn
  <2> QED BY <2>1, <2>2 DEF TypeOK
<1>3. CASE Poll
  <2>1. PollOK'
    BY <1>3, PollStep
  <2>2. UNCHANGED <<now, life, pinned, call>>
    BY <1>3 DEF Poll, AskHint, NextDueTime, PollDue, Wake
  <2>3. surfaced' \in [Fact -> Stamp]
    <3>1. CASE PollDue
      BY <3>1, Stamping
    <3>2. CASE ~PollDue
      BY <1>3, <3>2 DEF Poll, AskHint, NextDueTime, Wake, TypeOK
    <3> QED BY <3>1, <3>2
  <2> QED BY <2>1, <2>2, <2>3 DEF TypeOK, PollOK, Polls
<1>4. CASE Tick
  BY <1>4, ScheduleAssumption DEF Tick, TypeOK, Time
<1>5. ASSUME NEW f \in Fact, SetPinned(f) \/ Expire(f) \/ Purge(f) PROVE TypeOK'
  <2>1. UNCHANGED <<now, surfaced, call, poll>>
    BY <1>5 DEF SetPinned, Expire, Purge
  <2>2. life' \in [Fact -> {"active", "expired", "gone"}] /\ pinned' \in SUBSET Fact
    BY <1>5 DEF SetPinned, Expire, Purge, TypeOK
  <2> QED BY <2>1, <2>2 DEF TypeOK
<1>6. CASE UNCHANGED vars
  BY <1>6 DEF vars, TypeOK
<1> QED BY <1>1, <1>2, <1>3, <1>4, <1>5, <1>6, ReadsStep DEF Next

LEMMA AgreeStep ==
    TypeOK /\ StampsAgree /\ [Next]_vars => StampsAgree'
<1> SUFFICES ASSUME TypeOK, StampsAgree, [Next]_vars, NEW d \in Caller, NEW f \in Fact,
                    call'[d].stamp[f] # Never
             PROVE  call'[d].stamp[f] = surfaced'[f]
  BY DEF StampsAgree
<1>0. call[d].stamp[f] # Never => call[d].stamp[f] = surfaced[f]
  BY DEF StampsAgree
<1>1. CASE Elsewhere
  BY <1>0, <1>1 DEF Elsewhere
<1>2. ASSUME NEW c \in Caller, Reads(c) PROVE call'[d].stamp[f] = surfaced'[f]
  <2>1. surfaced' = surfaced /\ (d # c => call'[d] = call[d])
    BY <1>2 DEF Reads
  <2>2. d = c => call'[d].stamp[f] \in {Never, surfaced[f], call[d].stamp[f]}
    BY <1>2 DEF Reads
  <2> QED BY <1>0, <2>1, <2>2
<1>3. ASSUME NEW c \in Caller, StampAndReturn(c) PROVE call'[d].stamp[f] = surfaced'[f]
  <2>1. surfaced[f] # Never => surfaced'[f] = surfaced[f]
    BY <1>3, Stamping
  <2>2. d # c => call'[d] = call[d]
    BY <1>3, StampStep
  <2>3. d = c => call'[d].stamp[f] \in {surfaced'[f], call[d].stamp[f]}
    BY <1>3, StampStep
  <2> QED BY <1>0, <2>1, <2>2, <2>3
<1>4. CASE PollDue
  <2>1. surfaced[f] # Never => surfaced'[f] = surfaced[f]
    BY <1>4, Stamping
  <2>2. call' = call
    BY <1>4 DEF PollDue
  <2> QED BY <1>0, <2>1, <2>2
<1> QED BY <1>1, <1>2, <1>3, <1>4, StepKinds

LEMMA DueStep ==
    TypeOK /\ SurfacedWhenDue /\ [Next]_vars => SurfacedWhenDue'
<1> SUFFICES ASSUME TypeOK, SurfacedWhenDue, [Next]_vars, NEW f \in Fact, surfaced'[f] # Never
             PROVE  Due(f, surfaced'[f])
  BY DEF SurfacedWhenDue, Due
<1>0. surfaced[f] # Never => Due(f, surfaced[f])
  BY DEF SurfacedWhenDue
<1>1. CASE surfaced' = surfaced
  BY <1>0, <1>1
<1>2. CASE PollDue \/ \E c \in Caller : StampAndReturn(c)
  <2>1. surfaced'[f] # surfaced[f] => Due(f, surfaced'[f])
    BY <1>2, Stamping
  <2> QED BY <1>0, <2>1
<1> QED BY <1>1, <1>2, StepKinds DEF Elsewhere, Reads

\* What one call owes to its consumer.
Reported(c) ==
    call[c].at = "done" =>
        \A f \in Seen(c) : Due(f, call[c].time) /\ life[f] # "gone" =>
            surfaced[f] # Never /\ call[c].stamp[f] = surfaced[f]

LEMMA ReportedStays ==
    ASSUME NEW d \in Caller, call[d] \in Calls, Reported(d), call'[d] = call[d],
           \A f \in Fact : /\ life'[f] # "gone" => life[f] # "gone"
                           /\ surfaced[f] # Never => surfaced'[f] = surfaced[f]
    PROVE  Reported(d)'
<1>1. Seen(d)' = Seen(d) /\ Seen(d) \subseteq Fact
  BY CallFields DEF Seen
<1> QED BY <1>1 DEF Reported, Due

LEMMA ReportedStep ==
    TypeOK /\ StampsAgree /\ StampsReported /\ [Next]_vars => StampsReported'
<1> SUFFICES ASSUME TypeOK, StampsAgree, StampsReported, [Next]_vars, NEW d \in Caller
             PROVE  Reported(d)'
  BY DEF StampsReported, Reported
<1>0. Reported(d) /\ call[d] \in Calls
  BY DEF StampsReported, Reported, TypeOK
<1>1. CASE Elsewhere
  BY <1>0, <1>1, ReportedStays DEF Elsewhere
<1>2. ASSUME NEW c \in Caller, Reads(c) PROVE Reported(d)'
  <2>1. CASE d = c
    BY <1>2, <2>1 DEF Reads, Reported
  <2>2. CASE d # c
    BY <1>0, <1>2, <2>2, ReportedStays DEF Reads
  <2> QED BY <2>1, <2>2
<1>3. ASSUME NEW c \in Caller, StampAndReturn(c) PROVE Reported(d)'
  <2>0. \A f \in Fact : surfaced[f] # Never => surfaced'[f] = surfaced[f]
    BY <1>3, Stamping
  <2>1. life' = life
    BY <1>3 DEF StampAndReturn
  <2>2. CASE d # c
    <3>1. call'[d] = call[d]
      BY <1>3, <2>2, StampStep
    <3> QED BY <1>0, <2>0, <2>1, <3>1, ReportedStays
  <2>3. CASE d = c
    <3>1. /\ call'[d].time = call[d].time /\ call'[d].tier = call[d].tier
          /\ call'[d].stamp = [f \in Fact |-> IF f \in ToStamp(d) /\ life[f] # "gone"
                                              THEN surfaced'[f] ELSE call[d].stamp[f]]
          /\ surfaced' = Stamped(ToStamp(d), call[d].time)
      BY <1>3, <2>3, StampStep
    <3>2. Seen(d)' = Seen(d) /\ Seen(d) \subseteq Fact /\ call[d].time \in Time
      BY <1>0, <3>1, CallFields DEF Seen
    <3>3. ASSUME NEW f \in Seen(d), Due(f, call[d].time), life[f] # "gone"
          PROVE  surfaced'[f] # Never /\ call'[d].stamp[f] = surfaced'[f]
      <4>0. f \in Fact
        BY <3>2
      <4>1. CASE call[d].stamp[f] = Never
        <5>1. f \in ToStamp(d)
          BY <3>3, <4>1 DEF ToStamp
        <5>2. surfaced'[f] # Never
          BY <3>1, <3>2, <3>3, <4>0, <5>1, StampedType
        <5> QED BY <3>1, <3>3, <4>0, <5>1, <5>2
      <4>2. CASE call[d].stamp[f] # Never
        <5>1. f \notin ToStamp(d)
          BY <4>2 DEF ToStamp
        <5>2. call[d].stamp[f] = surfaced[f]
          BY <4>0, <4>2 DEF StampsAgree
        <5> QED BY <2>0, <3>1, <4>0, <4>2, <5>1, <5>2
      <4> QED BY <4>1, <4>2
    <3>4. \A f \in Seen(d)' : Due(f, call'[d].time) /\ life'[f] # "gone" =>
             surfaced'[f] # Never /\ call'[d].stamp[f] = surfaced'[f]
      BY <2>1, <3>1, <3>2, <3>3
    <3> QED BY <3>4 DEF Reported, Due
  <2> QED BY <2>2, <2>3
<1>4. CASE PollDue
  <2>1. \A f \in Fact : surfaced[f] # Never => surfaced'[f] = surfaced[f]
    BY <1>4, Stamping
  <2>2. call' = call /\ life' = life
    BY <1>4 DEF PollDue
  <2> QED BY <1>0, <2>1, <2>2, ReportedStays
<1> QED BY <1>1, <1>2, <1>3, <1>4, StepKinds

LEMMA NextSchedule == ScheduleInv /\ [Next]_vars => ScheduleInv'
BY TypeStep, AgreeStep, DueStep, ReportedStep DEF ScheduleInv

(* Every reachable state satisfies the invariant, whatever the schedule of   *)
(* list_due, resume_context and the polling consumer.                        *)
THEOREM ScheduleInvariant == Spec => []ScheduleInv
BY InitSchedule, NextSchedule, PTL DEF Spec

(* Types of the facts' stamps, the calls and the consumer's loop; the hint   *)
(* of next_due_time is always after the time it was asked at.                *)
THEOREM FutureTypeCorrect == Spec => []TypeOK
<1>1. ScheduleInv => TypeOK
  BY DEF ScheduleInv
<1> QED BY <1>1, ScheduleInvariant, PTL

(* No call of stamp_surfaced marks a fact that was not due at its time.      *)
THEOREM SurfacedAlwaysWhenDue == Spec => []SurfacedWhenDue
<1>1. ScheduleInv => SurfacedWhenDue
  BY DEF ScheduleInv
<1> QED BY <1>1, ScheduleInvariant, PTL

(* Racing callers of list_due and resume_context: whatever due fact a call   *)
(* returns carries the stamp that the table holds.                           *)
THEOREM StampsAlwaysReported == Spec => []StampsReported
<1>1. ScheduleInv => StampsReported
  BY DEF ScheduleInv
<1> QED BY <1>1, ScheduleInvariant, PTL

(* The first stamp of stamp_surfaced is the last.                            *)
THEOREM SurfacedOnceOnly == Spec => SurfacedOnce
<1>1. TypeOK /\ [Next]_vars =>
        [\A f \in Fact : surfaced[f] # Never => surfaced'[f] = surfaced[f]]_vars
  <2> SUFFICES ASSUME TypeOK, [Next]_vars, NEW f \in Fact, surfaced[f] # Never
               PROVE  surfaced'[f] = surfaced[f]
    OBVIOUS
  <2>1. CASE surfaced' = surfaced
    BY <2>1
  <2>2. CASE PollDue \/ \E c \in Caller : StampAndReturn(c)
    BY <2>2, Stamping
  <2> QED BY <2>1, <2>2, StepKinds DEF Elsewhere, Reads
<1>2. ScheduleInv => TypeOK
  BY DEF ScheduleInv
<1> QED BY <1>1, <1>2, ScheduleInvariant, PTL DEF Spec, SurfacedOnce
=============================================================================
