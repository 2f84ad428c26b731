------------------------------ MODULE CdoClient ------------------------------
(* ncei::CDOClient::do_get (src/api/cdo_client.cpp): the retry loop of module *)
(* Retry around the quota check, the limiter of module RateLimiter and        *)
(* HttpClient::get.  A client is used by one thread, the Caller, and nobody   *)
(* else has its limiter; the clocks run between any two of its steps, so the  *)
(* quota that was checked, the token that was taken and the request that is   *)
(* sent belong to three different moments.                                    *)
(*                                                                            *)
(* HttpClient::get is a request sent and, some time later, an outcome.  A     *)
(* moved-from client answers before any of this and is left out.              *)
(*                                                                            *)
(* An operator Name_Flaw is Name with the flaw that its suffix tells, for the *)
(* model checker to put in Name's place.                                      *)
EXTENDS RetriedGet

CONSTANTS
  Caller,
  \* RateLimiter
  RawConfigs, NoWait, Poll, DefaultInterval, Int32Max, ClockMax, LastDay, MaxNow,
  ClockSetBack,
  \* bound: how many requests a behaviour sends
  MaxFetches

VARIABLES
  config, tokens, last_refill, daily_requests_used, day_start, now, today,
  pc, deadline, wake, result, log, spent, late,               \* RateLimiter
  step,     \* inside the operation: what do_get's lambda does next, or "none"
  waking,   \* the instant before which the sleep between attempts does not end
  fetches   \* history: the instants at which requests were sent

Limiter == INSTANCE RateLimiter WITH Thread <- {Caller}, Waits <- {}

ASSUME ClientAssumption ==
  /\ Limiter!ConstantsAssumption
  /\ Limiter!ConfigAssumption

pacing  == <<config, tokens, last_refill, daily_requests_used, day_start, now, today,
             pc, deadline, wake, result, log, spent, late>>
vars == <<pacing, looping, step, waking, fetches>>
----------------------------------------------------------------------------
Init ==
  /\ Limiter!Init
  /\ Loop!Init
  /\ step = "none"
  /\ waking = 0
  /\ fetches = << >>

\* The loop has just been told to run the operation, or has stopped.
EnterOperation_Always == step' = "check"

EnterOperation == step' = IF phase' = "operation" THEN "check" ELSE "none"

DoGet ==
  /\ Len(fetches) < MaxFetches
  /\ Loop!Call
  /\ EnterOperation
  /\ UNCHANGED <<pacing, waking, fetches>>

\* The operation ends, and with_retry decides what becomes of it.
Finish(outcome) ==
  /\ Loop!Operated(outcome)
  /\ step' = "none"
  /\ waking' = IF phase' = "sleep" THEN now + delay' ELSE 0
  /\ UNCHANGED <<pacing, fetches>>

QuotaGone_OneEarly ==
  /\ step = "check"
  /\ Limiter!DailyRequestsRemaining <= 1
  /\ Finish(Loop!Error("QuotaExceeded"))

QuotaGone ==
  /\ step = "check"
  /\ Limiter!DailyRequestsRemaining <= 0
  /\ Finish(Loop!Error("QuotaExceeded"))

QuotaLeft_Unchecked ==
  /\ step = "check"
  /\ Limiter!CallAcquire(Caller)
  /\ step' = "acquire"
  /\ UNCHANGED <<looping, waking, fetches>>

QuotaLeft ==
  /\ step = "check"
  /\ Limiter!DailyRequestsRemaining > 0
  /\ Limiter!CallAcquire(Caller)
  /\ step' = "acquire"
  /\ UNCHANGED <<looping, waking, fetches>>

\* acquire runs.
Acquiring ==
  /\ step = "acquire"
  /\ Limiter!Continue(Caller)
  /\ UNCHANGED <<looping, step, waking, fetches>>

AcquireFailed ==
  /\ step = "acquire"
  /\ pc[Caller] = "idle"
  /\ result[Caller] = "timed_out"
  /\ Finish(Loop!Error("RateLimited"))

AcquireSucceeded ==
  /\ step = "acquire"
  /\ pc[Caller] = "idle"
  /\ result[Caller] = "granted"
  /\ step' = "send"
  /\ UNCHANGED <<pacing, looping, waking, fetches>>

\* HttpClient::get.
Send ==
  /\ step = "send"
  /\ fetches' = Append(fetches, now)
  /\ step' = "await"
  /\ UNCHANGED <<pacing, looping, waking>>

Receive ==
  /\ step = "await"
  /\ \/ \E status \in Statuses : Finish(Loop!Response(status))
     \/ \E code \in HttpErrors : Finish(Loop!Error(code))

\* The sleep between attempts is over and the whole operation runs again, its
\* quota check and its token included.
Awake_KeepsToken ==
  /\ now >= waking
  /\ Len(fetches) < MaxFetches
  /\ Loop!Awake
  /\ step' = IF phase' = "operation" THEN "send" ELSE "none"
  /\ waking' = 0
  /\ UNCHANGED <<pacing, fetches>>

Awake ==
  /\ now >= waking
  /\ Len(fetches) < MaxFetches
  /\ Loop!Awake
  /\ EnterOperation
  /\ waking' = 0
  /\ UNCHANGED <<pacing, fetches>>

Clocks == Limiter!Clocks /\ UNCHANGED <<looping, step, waking, fetches>>

Next ==
  \/ DoGet \/ QuotaGone \/ QuotaLeft \/ Acquiring \/ AcquireFailed
  \/ AcquireSucceeded \/ Send \/ Receive \/ Awake \/ Clocks

Spec == Init /\ [][Next]_vars
----------------------------------------------------------------------------
Interval == config.refill_interval

TypeOK ==
  /\ step \in {"none", "check", "acquire", "send", "await"}
  /\ (step # "none") <=> (phase = "operation")
  /\ phase # "sleep" => waking = 0
  /\ fetches \in Seq(0..now)
  /\ Limiter!TypeOK
  /\ Loop!TypeOK

\* Every request that goes out, retries included, was paid for with a token and
\* a unit of daily quota of its own, after it was granted and before the next
\* one is (do_get: the limiter is asked inside the retried operation).
EveryFetchIsPaid ==
  LET held == step = "send" \/ (step = "acquire" /\ result[Caller] = "granted")
  IN  /\ Len(log) = Len(fetches) + (IF held THEN 1 ELSE 0)
      /\ \A i \in 1..Len(fetches) :
            /\ log[i] <= fetches[i]
            /\ i < Len(log) => fetches[i] <= log[i + 1]

\* What the server sees: however long the thread is held up between a grant
\* and the request, n requests take at least (n - max_tokens - 1) refill
\* intervals - one more in a burst than the limiter grants, and no more.
FetchPace ==
  \A i, j \in 1..Len(fetches) :
     i <= j => (j - i) * Interval
                 <= config.max_tokens * Interval + (fetches[j] - fetches[i])

\* With a system clock that is never set back, the caller only sleeps inside
\* the limiter for want of a token; it never sits out a spent daily quota
\* (do_get checks the quota before it blocks, since acquire alone would wait
\* for midnight).
SleepsForATokenOnly ==
  pc[Caller] \in {"nap_forever", "nap_until"} =>
     /\ ~Limiter!QuotaSpent
     /\ tokens = 0

\* do_get reports QuotaExceeded only on a day on which daily_limit requests
\* were really granted.
QuotaErrorIsHonest ==
  [][(returned' = Loop!Error("QuotaExceeded") /\ returned # returned')
        => /\ config.daily_limit > 0
           /\ spent[today] = config.daily_limit]_vars
=============================================================================
