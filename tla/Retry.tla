-------------------------------- MODULE Retry --------------------------------
(* ncei::with_retry, should_retry and calculate_retry_delay                   *)
(* (include/ncei/retry.hpp): one call of with_retry at a time, over an        *)
(* operation of which only the outcome matters.  RetryingClient::get is this  *)
(* loop over HttpClient::get; CDOClient::do_get is this loop over the quota   *)
(* check, the limiter and HttpClient::get (module CdoClient).                 *)
(*                                                                            *)
(* The policy's two real numbers are percentages here, and the delay keeps    *)
(* its fraction until the end as in the code: after k multiplications it is   *)
(* held as a numerator over 100^k.  What a uniform jitter may draw becomes    *)
(* the set of delays that can result.                                         *)
(*                                                                            *)
(* An operator Name_Flaw is Name with the flaw that its suffix tells, for the *)
(* model checker to put in Name's place.                                      *)
EXTENDS IntegerBounds, Sequences

CONSTANTS
  Policies,      \* the RetryPolicy values callers use
  Statuses,      \* the HTTP status codes responses carry
  ErrorCodes,    \* the codes of the errors an operation ends with
  NotFinite,     \* a multiplier or jitter that is infinite or not a number
  UInt8Max       \* 255, the width of the attempt counter

Policy ==
  [initial_delay : Int, max_delay : Int,
   backoff_multiplier : Int \cup {NotFinite}, jitter_factor : Int \cup {NotFinite},
   max_attempts : 0..UInt8Max,
   retry_on_network_error : BOOLEAN, retry_on_rate_limit : BOOLEAN,
   retry_on_server_error : BOOLEAN]

Response(status) == [kind |-> "response", status |-> status]
Error(code)      == [kind |-> "error", code |-> code]

Outcome == {Response(s) : s \in Statuses} \cup {Error(c) : c \in ErrorCodes}

ASSUME RetryAssumption ==
  /\ NotFinite \notin Int
  /\ UInt8Max \in Nat \ {0}
  /\ Policies \subseteq Policy
  /\ Statuses \subseteq Int
  /\ "NetworkError" \in ErrorCodes

VARIABLES
  policy,    \* the policy of the calls; set_policy changes it between calls
  phase,     \* "idle", "operation" running, or "sleep" between two attempts
  attempt,   \* the loop counter
  delay,     \* how long the current sleep lasts
  returned   \* what the last call returned

\* History of the current or last call: what its attempts came to and how long
\* it slept after each.
VARIABLES outcomes, slept

vars == <<policy, phase, attempt, delay, returned, outcomes, slept>>
----------------------------------------------------------------------------
ShouldRetryResponse(status) ==
  IF status = 429 THEN policy.retry_on_rate_limit
  ELSE policy.retry_on_server_error /\ status >= 500 /\ status < 600

ShouldRetryError(code) == policy.retry_on_network_error /\ code = "NetworkError"

ShouldRetry(outcome) ==
  IF outcome.kind = "response" THEN ShouldRetryResponse(outcome.status)
  ELSE ShouldRetryError(outcome.code)

MaximumDelay == Greater(policy.max_delay, 0)

Multiplier_MayBeNegative ==
  IF policy.backoff_multiplier = NotFinite THEN 100 ELSE policy.backoff_multiplier

Multiplier ==
  IF policy.backoff_multiplier = NotFinite THEN 100
  ELSE Greater(policy.backoff_multiplier, 0)

Spread ==
  IF policy.jitter_factor = NotFinite THEN 0 ELSE Clamp(policy.jitter_factor, 0, 100)

\* Hundred[k] is 100^k.
Hundred[k \in 0..UInt8Max] == IF k = 0 THEN 1 ELSE 100 * Hundred[k - 1]

\* The loop of calculate_retry_delay: the delay after the n-th attempt, without
\* jitter, times 100^(n-1).
Backoff[n \in 0..UInt8Max] ==
  IF n <= 1 THEN Clamp(policy.initial_delay, 0, MaximumDelay)
  ELSE Lesser(Backoff[n - 1] * Multiplier, MaximumDelay * Hundred[n - 1])

\* calculate_retry_delay(n, policy): every delay that the jitter can make of it.
RetryDelays_JitterLast(n) ==
  LET unit == Hundred[Greater(n, 1)]
  IN  (Backoff[n] * (100 - Spread)) \div unit .. (Backoff[n] * (100 + Spread)) \div unit

RetryDelays(n) ==
  LET unit == Hundred[Greater(n, 1)]
      Truncated(value) == Lesser(value \div unit, MaximumDelay)
  IN  Truncated(Backoff[n] * (100 - Spread)) .. Truncated(Backoff[n] * (100 + Spread))
----------------------------------------------------------------------------
Init ==
  /\ policy \in Policies
  /\ phase = "idle"
  /\ attempt = 0
  /\ delay = 0
  /\ returned = Error("none")
  /\ outcomes = << >>
  /\ slept = << >>

Exhausted == Error("NetworkError")

\* The head of the for loop, reached with the counter at n.
LoopHead(n) ==
  /\ attempt' = n
  /\ delay' = 0
  /\ IF n <= policy.max_attempts
       THEN phase' = "operation" /\ UNCHANGED returned
       ELSE phase' = "idle" /\ returned' = Exhausted

Call ==
  /\ phase = "idle"
  /\ LoopHead(1)
  /\ outcomes' = << >>
  /\ slept' = << >>
  /\ UNCHANGED policy

\* The history is only kept of as many attempts as the counter can count.
Recorded(history, item) ==
  IF Len(history) <= UInt8Max THEN Append(history, item) ELSE history

\* The operation comes back with an outcome: retry it after a sleep, or return.
GoesOn_OnLastToo(outcome) == ShouldRetry(outcome) /\ attempt <= policy.max_attempts
GoesOn_Whatever(outcome) == attempt < policy.max_attempts
GoesOn(outcome) == ShouldRetry(outcome) /\ attempt < policy.max_attempts

Operated(outcome) ==
  /\ phase = "operation"
  /\ outcomes' = Recorded(outcomes, outcome)
  /\ IF GoesOn(outcome)
       THEN /\ \E d \in RetryDelays(attempt) :
                  delay' = d /\ slept' = Recorded(slept, d)
            /\ phase' = "sleep"
            /\ UNCHANGED returned
       ELSE /\ phase' = "idle"
            /\ returned' = outcome
            /\ UNCHANGED <<delay, slept>>
  /\ UNCHANGED <<policy, attempt>>

\* The sleep is over; the counter, eight bits wide, goes up.
Awake ==
  /\ phase = "sleep"
  /\ LoopHead((attempt + 1) % (UInt8Max + 1))
  /\ UNCHANGED <<policy, outcomes, slept>>

\* RetryingClient::set_policy; the history starts over with the new policy.
SetPolicy ==
  /\ phase = "idle"
  /\ policy' \in Policies
  /\ attempt' = 0
  /\ returned' = Error("none")
  /\ outcomes' = << >>
  /\ slept' = << >>
  /\ UNCHANGED <<phase, delay>>

Next == Call \/ (\E o \in Outcome : Operated(o)) \/ Awake \/ SetPolicy

Spec == Init /\ [][Next]_vars

\* The operation comes back and sleeps end.
FairSpec == Spec /\ WF_vars(\E o \in Outcome : Operated(o)) /\ WF_vars(Awake)
----------------------------------------------------------------------------
TypeOK ==
  /\ policy \in Policies
  /\ phase \in {"idle", "operation", "sleep"}
  /\ attempt \in 0..UInt8Max
  /\ delay \in Nat
  /\ returned \in Outcome \cup {Error("none"), Exhausted}
  /\ outcomes \in Seq(Outcome)
  /\ slept \in Seq(Nat)

\* A call makes at most max_attempts attempts and sleeps only between two of
\* them; it goes on only after an outcome that the policy retries, returns the
\* outcome of its last attempt, and returns a retryable one only when the
\* attempts are used up.  The error that follows the loop is what a policy of
\* zero attempts gets, and nobody else (with_retry).
RetryDisciplined ==
  LET made == Len(outcomes)
      over == phase = "idle" /\ made > 0
  IN  /\ made <= policy.max_attempts
      /\ \A i \in 1..made : i < made => ShouldRetry(outcomes[i])
      /\ phase = "sleep" => ShouldRetry(outcomes[made]) /\ Len(slept) = made
      /\ phase = "operation" => Len(slept) = made
      /\ over => /\ returned = outcomes[made]
                 /\ Len(slept) = made - 1
                 /\ ShouldRetry(returned) => made = policy.max_attempts
      /\ (phase = "idle" /\ attempt > 0 /\ made = 0)
            => policy.max_attempts = 0 /\ returned = Exhausted

\* The exponential that the loop of calculate_retry_delay stands for, in closed
\* form: initial_delay times the n-th power of the multiplier, capped once, as
\* a numerator over 100^n.
Power[n \in 0..UInt8Max] == IF n = 0 THEN 1 ELSE Multiplier * Power[n - 1]

Nominal(n) ==
  Lesser(Clamp(policy.initial_delay, 0, MaximumDelay) * Power[n],
         MaximumDelay * Hundred[n])

\* Every sleep is within the jitter's band around the capped exponential and
\* never exceeds max_delay nor falls below zero, for negative, zero, infinite
\* and fractional settings alike (calculate_retry_delay).
BackoffInBand ==
  \A n \in 1..Len(slept) :
     /\ 0 <= slept[n]
     /\ slept[n] <= MaximumDelay
     /\ slept[n] >= Lesser((Nominal(n - 1) * (100 - Spread)) \div Hundred[n], MaximumDelay)
     /\ slept[n] <= (Nominal(n - 1) * (100 + Spread)) \div Hundred[n]

\* Every call returns, also when the policy allows as many attempts as the
\* counter can count (with_retry: the counter must not wrap around).
CallReturns == (phase # "idle") ~> (phase = "idle")
=============================================================================
