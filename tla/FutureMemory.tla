---------------------------- MODULE FutureMemory ----------------------------
(***************************************************************************)
(* Facts with a t_valid: when list_due and resume_context return them,     *)
(* what they stamp on them, and whether a consumer that sleeps until       *)
(* next_due_time gets to see them all.  Each read and each stamp is a      *)
(* transaction of its own; between them facts are pinned, expired and      *)
(* purged by others.                                                       *)
(*                                                                         *)
(* Times are ticks.  Scores and creation times are abstracted: a tier that *)
(* ranks by them returns any set of its facts within its cap.              *)
(***************************************************************************)
EXTENDS Naturals, FiniteSets

CONSTANTS
    Fact,       \* fact ids, all in one scope
    Valid,      \* Valid[f]: t_valid, or Never
    Invalid,    \* Invalid[f]: t_invalid, or Never
    Caller,     \* callers of list_due and resume_context
    Cap,        \* the caps of resume_context's tiers
    MaxTime     \* bound: the clock

Never == MaxTime + 1
Time == 0..MaxTime

ASSUME ScheduleAssumption ==
    /\ IsFiniteSet(Fact)
    /\ MaxTime \in Nat /\ Cap \in Nat \ {0}
    /\ Valid \in [Fact -> 0..Never] /\ Invalid \in [Fact -> 0..Never]

VARIABLES
    now,        \* the wall clock
    life,       \* life[f]: "active", "expired" or "gone"
    pinned,     \* the facts with is_pinned
    surfaced,   \* surfaced[f]: surfaced_at, Never if it is NULL
    call,       \* the callers' calls
    poll        \* the consumer: where its loop is, and its last hint

vars == <<now, life, pinned, surfaced, call, poll>>

Tiers == {"pinned", "high", "due", "recent"}
Stages == Tiers \cup {"idle", "stamp", "done"}
\* time: the call's now; capped: it is resume_context; tier: what it has read;
\* stamp: the surfaced_at of the facts it has read.
Calls == [at : Stages, time : Time, capped : BOOLEAN,
          tier : [Tiers -> SUBSET Fact], stamp : [Fact -> 0..Never]]
NoTiers == [t \in Tiers |-> {}]
NoStamps == [f \in Fact |-> Never]
NoCall == [at |-> "idle", time |-> 0, capped |-> FALSE, tier |-> NoTiers, stamp |-> NoStamps]

TypeOK ==
    /\ now \in Time
    /\ life \in [Fact -> {"active", "expired", "gone"}]
    /\ pinned \in SUBSET Fact
    /\ surfaced \in [Fact -> 0..Never]
    /\ call \in [Caller -> Calls]
    /\ poll \in [at : {"awake", "hint", "list", "asleep"}, time : Time, hint : 0..Never]
    /\ poll.at \in {"list", "asleep"} => poll.time < poll.hint

Init ==
    /\ now = 0
    /\ life = [f \in Fact |-> "active"]
    /\ pinned = {}
    /\ surfaced = [f \in Fact |-> Never]
    /\ call = [c \in Caller |-> NoCall]
    /\ poll = [at |-> "awake", time |-> 0, hint |-> Never]

Active == {f \in Fact : life[f] = "active"}

\* Mutant: a fact is due only after its t_valid.
DueAfter(f, time) == Valid[f] # Never /\ Valid[f] < time /\ time < Invalid[f]

\* The predicate of list_due, and of is_temporally_due for a fact it was told.
Due(f, time) == Valid[f] # Never /\ Valid[f] <= time /\ time < Invalid[f]

\* External: time passes; facts are pinned, expired and purged by others.
Tick ==
    /\ now < MaxTime
    /\ now' = now + 1
    /\ UNCHANGED <<life, pinned, surfaced, call, poll>>

SetPinned(f) ==
    /\ life[f] # "gone"
    /\ \/ pinned' = pinned \cup {f}
       \/ pinned' = pinned \ {f}
    /\ UNCHANGED <<now, life, surfaced, call, poll>>

Expire(f) ==
    /\ life[f] = "active"
    /\ life' = [life EXCEPT ![f] = "expired"]
    /\ UNCHANGED <<now, pinned, surfaced, call, poll>>

Purge(f) ==
    /\ life[f] = "expired" /\ f \notin pinned
    /\ life' = [life EXCEPT ![f] = "gone"]
    /\ UNCHANGED <<now, pinned, surfaced, call, poll>>

-----------------------------------------------------------------------------
(* list_due begins with the due facts, resume_context with the pinned ones. *)
Begin(c, capped) ==
    /\ call[c].at = "idle"
    /\ call' = [call EXCEPT ![c] = [NoCall EXCEPT !.at = IF capped THEN "pinned" ELSE "due",
                                                  !.time = now, !.capped = capped]]
    /\ UNCHANGED <<now, life, pinned, surfaced, poll>>

Seen(c) == UNION {call[c].tier[t] : t \in Tiers}
Following == [pinned |-> "high", high |-> "due", due |-> "recent", recent |-> "stamp"]

\* A tier's read takes these facts, with the stamps they have now.
Take(c, t, taken) ==
    LET r == call[c] IN
    call' = [call EXCEPT ![c] =
               [r EXCEPT !.at = IF r.capped THEN Following[t] ELSE "stamp",
                         !.tier = [r.tier EXCEPT ![t] = taken],
                         !.stamp = [f \in Fact |-> IF f \in taken THEN surfaced[f]
                                                   ELSE r.stamp[f]]]]

\* ORDER BY t_valid ASC LIMIT.
Earliest(taken, candidates) ==
    /\ Cardinality(taken) = Cap \/ taken = candidates
    /\ \A f \in taken, g \in candidates \ taken : Valid[f] <= Valid[g]

ReadPinned(c) ==
    /\ call[c].at = "pinned"
    /\ \E taken \in SUBSET (Active \cap pinned) :
           /\ Cardinality(taken) = Cap \/ taken = Active \cap pinned
           /\ Cardinality(taken) <= Cap
           /\ Take(c, "pinned", taken)
    /\ UNCHANGED <<now, life, pinned, surfaced, poll>>

(* The high-importance tier; any facts may be the important ones. *)
ReadHigh(c) ==
    /\ call[c].at = "high"
    /\ \E taken \in SUBSET (Active \ Seen(c)) :
           Cardinality(taken) <= Cap /\ Take(c, "high", taken)
    /\ UNCHANGED <<now, life, pinned, surfaced, poll>>

(* Due facts not seen yet; list_due takes them all. *)
ReadDue(c) ==
    LET due == {f \in Active : Due(f, call[c].time)} \ Seen(c) IN
    /\ call[c].at = "due"
    /\ \E taken \in (IF call[c].capped THEN SUBSET due ELSE {due}) :
           /\ call[c].capped => Cardinality(taken) <= Cap /\ Earliest(taken, due)
           /\ Take(c, "due", taken)
    /\ UNCHANGED <<now, life, pinned, surfaced, poll>>

ReadRecent(c) ==
    LET rest == Active \ Seen(c) IN
    /\ call[c].at = "recent"
    /\ \E taken \in SUBSET rest :
           /\ Cardinality(taken) <= Cap
           /\ Cardinality(taken) = Cap \/ taken = rest
           /\ Take(c, "recent", taken)
    /\ UNCHANGED <<now, life, pinned, surfaced, poll>>

\* Mutant: whatever has no stamp is stamped.
ToStampAll(c) == {f \in Seen(c) : call[c].stamp[f] = Never}

\* What the call has read that is due and not surfaced, in whichever tier.
ToStamp(c) == {f \in Seen(c) : Due(f, call[c].time) /\ call[c].stamp[f] = Never}

\* Mutant: the last caller's stamp wins.
StampedAgain(ids, time) ==
    [f \in Fact |-> IF f \in ids /\ life[f] # "gone" THEN time ELSE surfaced[f]]

\* stamp_surfaced: rows without a stamp get this one, deleted rows nothing.
Stamped(ids, time) ==
    [f \in Fact |-> IF f \in ids /\ life[f] # "gone" /\ surfaced[f] = Never
                    THEN time ELSE surfaced[f]]

\* Mutant: the call returns its own time without reading the rows again.
StampWithoutReread(c) ==
    /\ call[c].at = "stamp"
    /\ surfaced' = Stamped(ToStamp(c), call[c].time)
    /\ LET r == call[c] IN
       call' = [call EXCEPT ![c] =
                  [r EXCEPT !.at = "done",
                            !.stamp = [f \in Fact |-> IF f \in ToStamp(c) THEN r.time
                                                      ELSE r.stamp[f]]]]
    /\ UNCHANGED <<now, life, pinned, poll>>

(* Stamp, re-read the rows asked for, and put what they have into the result. *)
StampAndReturn(c) ==
    /\ call[c].at = "stamp"
    /\ surfaced' = Stamped(ToStamp(c), call[c].time)
    /\ LET r == call[c] IN
       call' = [call EXCEPT ![c] =
                  [r EXCEPT !.at = "done",
                            !.stamp = [f \in Fact |->
                                IF f \in ToStamp(c) /\ life[f] # "gone" THEN surfaced'[f]
                                ELSE r.stamp[f]]]]
    /\ UNCHANGED <<now, life, pinned, poll>>

Return(c) ==
    /\ call[c].at = "done"
    /\ call' = [call EXCEPT ![c] = NoCall]
    /\ UNCHANGED <<now, life, pinned, surfaced, poll>>

-----------------------------------------------------------------------------
(* External, a consumer as docs/design/architecture-overview.md describes    *)
(* it: it asks for the hint, takes what is due, and sleeps until the hint.   *)
(* (In the other order it can miss a fact that becomes due in between.)      *)

\* next_due_time(scope) takes its own now before it waits for a connection.
AskHint ==
    /\ poll.at = "awake"
    /\ poll' = [poll EXCEPT !.at = "hint", !.time = now]
    /\ UNCHANGED <<now, life, pinned, surfaced, call>>

\* Mutant: a t_valid of this very moment counts as still to come.
UpcomingFromNow(time) == {Valid[f] : f \in {f \in Active : time <= Valid[f] /\ time < Invalid[f]}}

\* MIN(t_valid) of the active facts that are still to come.
Upcoming(time) == {Valid[f] : f \in {f \in Active : time < Valid[f] /\ time < Invalid[f]}}

NextDueTime ==
    /\ poll.at = "hint"
    /\ poll' = [poll EXCEPT !.at = "list",
                            !.hint = CHOOSE t \in Upcoming(poll.time) \cup {Never} :
                                         \A u \in Upcoming(poll.time) : t <= u]
    /\ UNCHANGED <<now, life, pinned, surfaced, call>>

\* The consumer's list_due(now), read and stamp in one step: the callers above
\* show what the two steps do.
PollDue ==
    /\ poll.at = "list"
    /\ surfaced' = Stamped({f \in Active : Due(f, now)}, now)
    /\ poll' = [poll EXCEPT !.at = "asleep"]
    /\ UNCHANGED <<now, life, pinned, call>>

Wake ==
    /\ poll.at = "asleep" /\ poll.hint <= now
    /\ poll' = [poll EXCEPT !.at = "awake"]
    /\ UNCHANGED <<now, life, pinned, surfaced, call>>

Poll == AskHint \/ NextDueTime \/ PollDue \/ Wake

Next ==
    \/ Tick \/ Poll
    \/ \E f \in Fact : SetPinned(f) \/ Expire(f) \/ Purge(f)
    \/ \E c \in Caller :
          \/ \E capped \in BOOLEAN : Begin(c, capped)
          \/ ReadPinned(c) \/ ReadHigh(c) \/ ReadDue(c) \/ ReadRecent(c)
          \/ StampAndReturn(c) \/ Return(c)

Spec == Init /\ [][Next]_vars

(* Time passes and the consumer is not stopped; nothing is assumed of the    *)
(* callers.                                                                  *)
FairSpec == Spec /\ WF_vars(Tick) /\ WF_vars(Poll)

-----------------------------------------------------------------------------
(* Surfaced once: whoever comes first, the stamp never changes afterwards.   *)
SurfacedOnce ==
    [][\A f \in Fact : surfaced[f] # Never => surfaced'[f] = surfaced[f]]_vars

(* A fact is stamped only with a time at which it was due, even by a call    *)
(* that met it in another tier.                                              *)
SurfacedWhenDue == \A f \in Fact : surfaced[f] # Never => Due(f, surfaced[f])

(* Racing callers agree with the table: what a call returns for a due fact   *)
(* is the stamp that is stored, its own or an earlier one.                   *)
StampsReported ==
    \A c \in Caller : call[c].at = "done" =>
        \A f \in Seen(c) : Due(f, call[c].time) /\ life[f] # "gone" =>
            surfaced[f] # Never /\ call[c].stamp[f] = surfaced[f]

(* The hint and the due list leave no gap: a consumer that follows the hint  *)
(* surfaces every fact whose time comes, unless it dies first.               *)
DueFactsSurface ==
    \A f \in Fact :
        Valid[f] <= now ~> surfaced[f] # Never \/ life[f] # "active" \/ Invalid[f] <= now
=============================================================================
