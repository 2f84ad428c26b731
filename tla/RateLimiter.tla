----------------------------- MODULE RateLimiter -----------------------------
(* ncei::RateLimiter (include/ncei/rate_limit.hpp, src/core/rate_limit.cpp):  *)
(* one limiter object shared by a set of threads.                             *)
(*                                                                            *)
(* try_acquire holds the mutex from its first clock reading to its return, so *)
(* it is one step; acquire and acquire_for hold nothing between their calls   *)
(* of try_acquire, their deadline check and their sleep, so each of those is  *)
(* a step and the other threads and both clocks run in between.  The steady   *)
(* clock never goes back; the system clock may, when ClockSetBack is TRUE.    *)
(*                                                                            *)
(* An operator Name_Flaw next to an operator Name is Name with the flaw that  *)
(* its suffix tells: the specification does not use it, the model checker     *)
(* puts it in Name's place to see that a property notices.                    *)
EXTENDS IntegerBounds, Sequences

CONSTANTS
  Thread,           \* the threads that share the limiter
  RawConfigs,       \* the Config values a caller may construct it with
  NoWait,           \* an empty max_wait
  Waits,            \* the waits that callers pass to acquire_for
  Poll,             \* the 10 ms for which a refused caller sleeps
  DefaultInterval,  \* the 200 ms that replace an interval that is not positive
  Int32Max,
  ClockMax,         \* steady_clock::time_point::max()
  LastDay,          \* bound: the last day the system clock shows
  MaxNow,           \* bound: the last instant the steady clock shows
  ClockSetBack      \* whether the system clock may be set back by a day

Day == 0..LastDay

\* struct RateLimiter::Config, times in units of the steady clock.
Config ==
  [max_tokens : Nat, initial_tokens : Nat, refill_interval : Int,
   max_wait : Int \cup {NoWait}, daily_limit : Int]

ASSUME ConstantsAssumption ==
  /\ NoWait \notin Int
  /\ Waits \subseteq Int
  /\ Poll \in Nat \ {0}
  /\ DefaultInterval \in Nat \ {0}
  /\ Int32Max \in Nat \ {0}
  /\ ClockMax \in Nat
  /\ LastDay \in Nat
  /\ MaxNow \in 0..ClockMax
  /\ ClockSetBack \in BOOLEAN

ASSUME ConfigAssumption ==
  /\ RawConfigs \subseteq Config
  /\ \A raw \in RawConfigs : raw.daily_limit <= Int32Max

VARIABLES
  config,               \* config_
  tokens,               \* tokens_
  last_refill,          \* last_refill_
  daily_requests_used,  \* daily_requests_used_
  day_start,            \* day_start_
  now,                  \* what steady_clock::now() returns
  today,                \* the UTC day of system_clock::now()
  pc,                   \* where each thread is
  deadline,             \* each thread's deadline inside acquire_for, or NoWait
  wake,                 \* the instant before which its sleep does not end, or 0
  result                \* what its last call returned

\* History: the grants since construction or the last reset, how many of them
\* were billed to each day, and whether a thread's current call has already
\* made an attempt at or after its deadline.
VARIABLES log, spent, late

limiterVars == <<config, tokens, last_refill, daily_requests_used, day_start>>
clockVars   == <<now, today>>
threadVars  == <<pc, deadline, wake, result>>
grantVars   == <<log, spent>>
vars == <<limiterVars, clockVars, threadVars, grantVars, late>>
----------------------------------------------------------------------------
Sanitized(raw) ==
  LET cap == Greater(raw.max_tokens, 1)
  IN  [raw EXCEPT !.max_tokens = cap,
                  !.initial_tokens = Lesser(@, cap),
                  !.refill_interval = IF @ <= 0 THEN DefaultInterval ELSE @]

Init ==
  /\ now = 0
  /\ today = 0
  /\ \E raw \in RawConfigs : config = Sanitized(raw)
  /\ tokens = config.initial_tokens
  /\ last_refill = now
  /\ daily_requests_used = 0
  /\ day_start = today
  /\ pc = [t \in Thread |-> "idle"]
  /\ deadline = [t \in Thread |-> NoWait]
  /\ wake = [t \in Thread |-> 0]
  /\ result = [t \in Thread |-> "none"]
  /\ log = << >>
  /\ spent = [d \in Day |-> 0]
  /\ late = [t \in Thread |-> FALSE]
----------------------------------------------------------------------------
\* check_daily_reset: the day and the count that it leaves behind.
DayAfterCheck  == Greater(today, day_start)
UsedAfterCheck_AnyOtherDay == IF today # day_start THEN 0 ELSE daily_requests_used
UsedAfterCheck == IF today > day_start THEN 0 ELSE daily_requests_used

QuotaSpent == config.daily_limit > 0 /\ UsedAfterCheck >= config.daily_limit

\* refill: the tokens and the instant that it leaves behind.
Earned == (now - last_refill) \div config.refill_interval

RefilledTokens == Lesser(tokens + Earned, config.max_tokens)

RefilledAt_StaleWhenFull ==
  IF tokens >= config.max_tokens THEN last_refill
  ELSE IF tokens + Earned >= config.max_tokens THEN now
  ELSE last_refill + Earned * config.refill_interval

RefilledAt_DropsRemainder == IF Earned > 0 THEN now ELSE last_refill

RefilledAt ==
  IF tokens + Earned >= config.max_tokens
    THEN now
    ELSE last_refill + Earned * config.refill_interval

AvailableTokens == Lesser(tokens + Greater(Earned, 0), config.max_tokens)

DailyRequestsRemaining_OldDay ==
  IF config.daily_limit <= 0 THEN Int32Max
  ELSE Greater(config.daily_limit - daily_requests_used, 0)

DailyRequestsRemaining ==
  IF config.daily_limit <= 0 THEN Int32Max
  ELSE IF today > day_start THEN config.daily_limit
  ELSE Greater(config.daily_limit - daily_requests_used, 0)
----------------------------------------------------------------------------
(* try_acquire, the critical section.                                         *)
CountAfterGrant_Unbounded == UsedAfterCheck + 1
CountAfterGrant == Lesser(UsedAfterCheck + 1, Int32Max)

TryGranted ==
  /\ ~QuotaSpent
  /\ RefilledTokens > 0
  /\ tokens' = RefilledTokens - 1
  /\ last_refill' = RefilledAt
  /\ day_start' = DayAfterCheck
  /\ daily_requests_used' = CountAfterGrant
  /\ log' = Append(log, now)
  /\ spent' = [spent EXCEPT ![DayAfterCheck] = @ + 1]
  /\ UNCHANGED config

TryQuotaRefused ==
  /\ QuotaSpent
  /\ day_start' = DayAfterCheck
  /\ daily_requests_used' = UsedAfterCheck
  /\ UNCHANGED <<config, tokens, last_refill, grantVars>>

TryEmpty ==
  /\ ~QuotaSpent
  /\ RefilledTokens = 0
  /\ tokens' = RefilledTokens
  /\ last_refill' = RefilledAt
  /\ day_start' = DayAfterCheck
  /\ daily_requests_used' = UsedAfterCheck
  /\ UNCHANGED <<config, grantVars>>
----------------------------------------------------------------------------
(* The calls.  pc[t] names the next thing the thread does:                    *)
(*   idle         it is outside the limiter                                   *)
(*   try_once     it is in try_acquire called by the application              *)
(*   try_forever  it is at the top of the loop of acquire                     *)
(*   try_until    it is at the top of the loop of acquire_for                 *)
(*   check        it was refused and reads the clock                          *)
(*   nap_forever, nap_until: it sleeps in that loop                           *)
Enter(t, where, until) ==
  /\ pc[t] = "idle"
  /\ pc' = [pc EXCEPT ![t] = where]
  /\ deadline' = [deadline EXCEPT ![t] = until]
  /\ result' = [result EXCEPT ![t] = "none"]
  /\ UNCHANGED <<limiterVars, clockVars, wake, grantVars, late>>

Return(t, value) ==
  /\ pc' = [pc EXCEPT ![t] = "idle"]
  /\ result' = [result EXCEPT ![t] = value]
  /\ deadline' = [deadline EXCEPT ![t] = NoWait]
  /\ late' = [late EXCEPT ![t] = FALSE]

Deadline(wait) ==
  IF wait <= 0 THEN now ELSE Lesser(now + wait, ClockMax)

CallTryAcquire(t) == Enter(t, "try_once", NoWait)

CallAcquireFor(t, wait) == Enter(t, "try_until", Deadline(wait))

\* acquire: with a max_wait it is acquire_for(max_wait).
CallAcquire(t) ==
  IF config.max_wait = NoWait
    THEN Enter(t, "try_forever", NoWait)
    ELSE CallAcquireFor(t, config.max_wait)

Granted(t) == TryGranted /\ Return(t, "granted") /\ UNCHANGED wake

RefusedOnce(t) ==
  /\ pc[t] = "try_once"
  /\ Return(t, "refused")
  /\ UNCHANGED wake

RefusedForever(t) ==
  /\ pc[t] = "try_forever"
  /\ pc' = [pc EXCEPT ![t] = "nap_forever"]
  /\ wake' = [wake EXCEPT ![t] = now + Poll]
  /\ UNCHANGED <<deadline, result, late>>

RefusedUntil(t) ==
  /\ pc[t] = "try_until"
  /\ pc' = [pc EXCEPT ![t] = "check"]
  /\ late' = [late EXCEPT ![t] = now >= deadline[t]]
  /\ UNCHANGED <<deadline, wake, result>>

Refused(t) ==
  /\ TryQuotaRefused \/ TryEmpty
  /\ RefusedOnce(t) \/ RefusedForever(t) \/ RefusedUntil(t)

Attempt(t) ==
  /\ pc[t] \in {"try_once", "try_forever", "try_until"}
  /\ Granted(t) \/ Refused(t)
  /\ UNCHANGED clockVars

\* The rest of acquire_for's loop: give up, or sleep for the poll interval or
\* until the deadline, whichever is sooner.
TimeOut(t) ==
  /\ pc[t] = "check"
  /\ now >= deadline[t]
  /\ Return(t, "timed_out")
  /\ UNCHANGED <<limiterVars, clockVars, wake, grantVars>>

NapUntil_WholePoll(t) ==
  /\ pc[t] = "check"
  /\ now < deadline[t]
  /\ pc' = [pc EXCEPT ![t] = "nap_until"]
  /\ wake' = [wake EXCEPT ![t] = now + Poll]
  /\ UNCHANGED <<limiterVars, clockVars, deadline, result, grantVars, late>>

NapUntil_RestartsWait(t) ==
  /\ pc[t] = "check"
  /\ now < deadline[t]
  /\ pc' = [pc EXCEPT ![t] = "nap_until"]
  /\ wake' = [wake EXCEPT ![t] = now + Lesser(deadline[t] - now, Poll)]
  /\ deadline' = [deadline EXCEPT ![t] = @ + Lesser(@ - now, Poll)]
  /\ UNCHANGED <<limiterVars, clockVars, result, grantVars, late>>

NapUntil(t) ==
  /\ pc[t] = "check"
  /\ now < deadline[t]
  /\ pc' = [pc EXCEPT ![t] = "nap_until"]
  /\ wake' = [wake EXCEPT ![t] = now + Lesser(deadline[t] - now, Poll)]
  /\ UNCHANGED <<limiterVars, clockVars, deadline, result, grantVars, late>>

\* sleep_for blocks for at least the time asked for.
WakeUp(t) ==
  /\ pc[t] \in {"nap_forever", "nap_until"}
  /\ now >= wake[t]
  /\ pc' = [pc EXCEPT ![t] = IF @ = "nap_until" THEN "try_until" ELSE "try_forever"]
  /\ wake' = [wake EXCEPT ![t] = 0]
  /\ UNCHANGED <<limiterVars, clockVars, deadline, result, grantVars, late>>

\* reset, called by any thread at any moment.
Reset ==
  /\ tokens' = config.initial_tokens
  /\ last_refill' = now
  /\ daily_requests_used' = 0
  /\ day_start' = today
  /\ log' = << >>
  /\ spent' = [d \in Day |-> 0]
  /\ UNCHANGED <<config, clockVars, threadVars, late>>
----------------------------------------------------------------------------
(* The clocks.                                                                *)
Tick ==
  /\ now < MaxNow
  /\ now' = now + 1
  /\ UNCHANGED <<limiterVars, today, threadVars, grantVars, late>>

SetDay(d) ==
  /\ today' = d
  /\ UNCHANGED <<limiterVars, now, threadVars, grantVars, late>>

MidnightPasses == today < LastDay /\ SetDay(today + 1)

ClockStepsBack == ClockSetBack /\ today > 0 /\ SetDay(today - 1)
----------------------------------------------------------------------------
Call(t) ==
  \/ CallTryAcquire(t)
  \/ CallAcquire(t)
  \/ \E wait \in Waits : CallAcquireFor(t, wait)

Continue(t) == Attempt(t) \/ TimeOut(t) \/ NapUntil(t) \/ WakeUp(t)

Clocks == Tick \/ MidnightPasses \/ ClockStepsBack

Next == (\E t \in Thread : Call(t) \/ Continue(t)) \/ Reset \/ Clocks

Spec == Init /\ [][Next]_vars

\* A thread inside a call is scheduled again and again and gets the mutex when
\* it asks for it, and time passes.  Nobody has to call, and no day has to end.
Fairness == WF_vars(Tick) /\ \A t \in Thread : WF_vars(Continue(t))

FairSpec == Spec /\ Fairness
----------------------------------------------------------------------------
TypeOK ==
  /\ config \in Config
  /\ config.max_tokens > 0
  /\ config.refill_interval > 0
  /\ config.initial_tokens <= config.max_tokens
  /\ tokens \in 0..config.max_tokens
  /\ last_refill \in 0..now
  /\ daily_requests_used \in 0..Int32Max
  /\ day_start \in Day
  /\ now \in 0..MaxNow
  /\ today \in Day
  /\ pc \in [Thread -> {"idle", "try_once", "try_forever", "try_until",
                        "check", "nap_forever", "nap_until"}]
  /\ deadline \in [Thread -> Int \cup {NoWait}]
  /\ wake \in [Thread -> Nat]
  /\ result \in [Thread -> {"none", "granted", "refused", "timed_out"}]
  /\ log \in Seq(Nat)
  /\ spent \in [Day -> Nat]
  /\ late \in [Thread -> BOOLEAN]

\* The bucket of module TokenBucket holds the whole tokens and the time since
\* the last refill, up to its brim.
BucketLevel ==
  Lesser(config.max_tokens * config.refill_interval,
         tokens * config.refill_interval + (now - last_refill))

TB == INSTANCE TokenBucket WITH level <- BucketLevel

\* Every behaviour of the limiter, however its threads interleave and whenever
\* they happen to refill, is one of the fluid bucket: whole tokens, the lazy
\* refill and the lazy midnight check lose nothing and add nothing.
ImplementsTokenBucket == TB!Spec

\* Consecutive grants by all threads together keep to the pace: n of them take
\* at least (n - max_tokens) refill intervals (try_acquire, refill).
RateBound == TB!RateBound

\* The 5 requests a second of rate_limit.hpp, read as the server counts them: in
\* no window as long as a whole bucket takes to fill are there more than
\* max_tokens grants.  A full bucket and the refill after it give more.
AtMostMaxTokensPerSecond ==
  \A i \in 1..Len(log) :
     i + config.max_tokens <= Len(log)
       => log[i + config.max_tokens] - log[i]
            >= config.max_tokens * config.refill_interval

\* What daily_requests_remaining() reports under a positive limit is exactly
\* the part of the limit that the day a grant would now be billed to has left:
\* never negative, whichever thread noticed midnight first and even after the
\* system clock was set back (check_daily_reset, daily_requests_remaining).
QuotaExact ==
  config.daily_limit > 0 =>
    /\ DailyRequestsRemaining = config.daily_limit - spent[DayAfterCheck]
    /\ \A d \in Day : spent[d] <= config.daily_limit

\* The two observers, which recompute refill and midnight on their own without
\* storing them, agree with try_acquire: both are positive exactly when an
\* attempt made now would be granted (available_tokens, try_acquire).
ObserversHonest ==
  (AvailableTokens > 0 /\ DailyRequestsRemaining > 0)
    <=> (~QuotaSpent /\ RefilledTokens > 0)

\* acquire_for never naps past its deadline, and once an attempt made at or
\* after the deadline was refused it is never made again: at most one attempt
\* is late, however late the thread is woken up (the loop of acquire_for).
DeadlineRespected ==
  \A t \in Thread :
     /\ pc[t] = "nap_until" => wake[t] <= deadline[t]
     /\ late[t] => pc[t] = "check"

\* A call with a deadline comes back, whatever the other threads do with the
\* tokens (the loop of acquire_for).
BoundedWaitEnds ==
  \A t \in Thread :
     (pc[t] \in {"try_until", "check", "nap_until"} /\ deadline[t] <= MaxNow)
        ~> pc[t] = "idle"
=============================================================================
