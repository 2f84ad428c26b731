----------------------------- MODULE TokenBucket -----------------------------
(* What ncei::RateLimiter promises its callers, whoever they are and however  *)
(* they interleave: a fluid token bucket with a daily quota.  The bucket      *)
(* holds up to max_tokens tokens' worth of time, fills by one unit per unit   *)
(* of the steady clock, and a grant takes one refill_interval out of it; no   *)
(* day is billed for more grants than daily_limit.                            *)
(*                                                                            *)
(* Nothing here knows of whole tokens, of the instant of the last refill, of  *)
(* threads, or of the lazy way in which the code notices midnight: module     *)
(* RateLimiter has those, and implements this specification.                  *)
EXTENDS IntegerBounds, Sequences

CONSTANT Day  \* the UTC days the system clock may show

VARIABLES
  config,  \* the limiter's settings; chosen once
  level,   \* what the bucket holds, in units of the steady clock
  now,     \* the steady clock
  today,   \* the UTC day the system clock shows
  log,     \* instants of the grants since construction or the last reset
  spent    \* grants billed to each day since then

vars == <<config, level, now, today, log, spent>>

Interval == config.refill_interval
Full     == config.max_tokens * Interval
Starting == config.initial_tokens * Interval
Untouched == [d \in Day |-> 0]

ValidConfig ==
  /\ config.max_tokens \in Nat \ {0}
  /\ config.refill_interval \in Nat \ {0}
  /\ config.initial_tokens \in 0..config.max_tokens
  /\ config.daily_limit \in Int

Init ==
  /\ ValidConfig
  /\ level = Starting
  /\ now \in Nat
  /\ today \in Day
  /\ log = << >>
  /\ spent = Untouched

\* The steady clock advances and the bucket fills with it.
Elapse ==
  /\ now' \in Nat
  /\ now' > now
  /\ level' = Lesser(Full, level + (now' - now))
  /\ UNCHANGED <<config, today, log, spent>>

\* The system clock changes its day, forward at midnight or however it is set.
ClockSet ==
  /\ today' \in Day
  /\ UNCHANGED <<config, level, now, log, spent>>

\* A request is let through and billed to a day that is not over.
Grant ==
  /\ level >= Interval
  /\ level' = level - Interval
  /\ log' = Append(log, now)
  /\ \E d \in Day :
        /\ d >= today
        /\ config.daily_limit > 0 => spent[d] < config.daily_limit
        /\ spent' = [spent EXCEPT ![d] = @ + 1]
  /\ UNCHANGED <<config, now, today>>

Reset ==
  /\ level' = Starting
  /\ log' = << >>
  /\ spent' = Untouched
  /\ UNCHANGED <<config, now, today>>

Next == Elapse \/ ClockSet \/ Grant \/ Reset

Spec == Init /\ [][Next]_vars
----------------------------------------------------------------------------
\* Any run of consecutive grants is paid for by the burst allowance plus the
\* tokens that time earned while the run lasted: n grants take at least
\* (n - max_tokens) refill intervals (RateLimiter::try_acquire with refill).
RateBound ==
  \A i, j \in 1..Len(log) :
     i <= j => (j - i + 1) * Interval <= Full + (log[j] - log[i])

\* With a positive daily_limit no day is billed for more grants than the limit
\* (the quota check of RateLimiter::try_acquire with check_daily_reset).
QuotaHolds ==
  config.daily_limit > 0 => \A d \in Day : spent[d] <= config.daily_limit
=============================================================================
