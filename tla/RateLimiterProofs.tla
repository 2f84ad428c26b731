-------------------------- MODULE RateLimiterProofs --------------------------
(* Proofs about ncei::RateLimiter, module RateLimiter: its types, its quota   *)
(* ledger, its deadlines, the honesty of its observers, that it implements    *)
(* the fluid bucket of module TokenBucket, and that this one keeps its        *)
(* promise of pace and quota, which so becomes the limiter's.                 *)
EXTENDS RateLimiter, TLAPS

----------------------------------------------------------------------------
(* Arithmetic of the refill, away from the state.                             *)

\* Whole intervals in a stretch of time, and what they leave of it.
LEMMA DivisionFacts ==
  ASSUME NEW x \in Nat, NEW step \in Nat, step > 0
  PROVE  /\ x \div step \in Nat
         /\ (x \div step) * step <= x
         /\ x < (x \div step) * step + step
OBVIOUS

\* What the bucket of TokenBucket holds when the limiter has tok tokens and
\* last refilled x units ago.
Level(cap, step, tok, x) == Lesser(cap * step, tok * step + x)

\* refill, as a function of the tokens and the time since the last refill.
TokensAfter(cap, step, tok, x) == Lesser(tok + (x \div step), cap)
SinceAfter(cap, step, tok, x) ==
  IF tok + (x \div step) >= cap THEN 0 ELSE x - (x \div step) * step

\* A refill neither loses nor gains: the level stays what it was, and less
\* than an interval is left over unless the bucket is full.
LEMMA RefillKeepsLevel ==
  ASSUME NEW cap \in Nat, NEW step \in Nat, step > 0, NEW tok \in 0..cap, NEW x \in Nat
  PROVE  LET after == TokensAfter(cap, step, tok, x)
             since == SinceAfter(cap, step, tok, x)
         IN  /\ after \in 0..cap
             /\ since \in 0..x
             /\ after < cap => since < step
             /\ after = cap => since = 0
             /\ Level(cap, step, after, since) = Level(cap, step, tok, x)
<1> DEFINE e == x \div step
<1>1. e \in Nat /\ e * step <= x /\ x < e * step + step
  BY DivisionFacts
<1> HIDE DEF e
<1>2. cap * step \in Nat /\ tok * step \in Nat /\ e * step \in Nat
  BY <1>1
<1>3. CASE tok + e >= cap
  <2>1. (tok + e) * step >= cap * step
    BY <1>1, <1>3
  <2>2. (tok + e) * step = tok * step + e * step
    BY <1>1
  <2>3. tok * step + x >= cap * step
    BY <1>1, <1>2, <2>1, <2>2
  <2>4. Level(cap, step, tok, x) = cap * step
    BY <1>2, <2>3 DEF Level, Lesser
  <2>5. TokensAfter(cap, step, tok, x) = cap /\ SinceAfter(cap, step, tok, x) = 0
    BY <1>1, <1>3 DEF TokensAfter, SinceAfter, Lesser, e
  <2>6. Level(cap, step, cap, 0) = cap * step
    BY <1>2 DEF Level, Lesser
  <2>7. QED
    BY <2>4, <2>5, <2>6
<1>4. CASE tok + e < cap
  <2>1. /\ TokensAfter(cap, step, tok, x) = tok + e
        /\ SinceAfter(cap, step, tok, x) = x - e * step
    BY <1>1, <1>4 DEF TokensAfter, SinceAfter, Lesser, e
  <2>2. (tok + e) * step = tok * step + e * step
    BY <1>1
  <2>3. (tok + e) * step + (x - e * step) = tok * step + x
    BY <1>2, <2>2
  <2>4. Level(cap, step, tok + e, x - e * step) = Level(cap, step, tok, x)
    BY <2>3 DEF Level
  <2>5. x - e * step \in 0..x /\ x - e * step < step
    BY <1>1, <1>2
  <2>6. tok + e \in 0..cap /\ tok + e < cap
    BY <1>1, <1>4
  <2>7. QED
    BY <2>1, <2>4, <2>5, <2>6
<1>5. QED
  BY <1>1, <1>3, <1>4

\* The instant that a refill leaves behind is that of the time left over.
LEMMA InstantOfRefill ==
  ASSUME NEW cap \in Nat, NEW step \in Nat, step > 0, NEW tok \in 0..cap,
         NEW last \in Nat, NEW t \in Nat, last <= t
  PROVE  LET e == (t - last) \div step
         IN  (IF tok + e >= cap THEN t ELSE last + e * step)
                = t - SinceAfter(cap, step, tok, t - last)
<1> DEFINE e == (t - last) \div step
<1>1. e \in Nat /\ e * step \in Nat
  BY DivisionFacts
<1>2. SinceAfter(cap, step, tok, t - last)
        = IF tok + e >= cap THEN 0 ELSE (t - last) - e * step
  BY DEF SinceAfter
<1> DEFINE y == e * step
<1>3. y \in Nat
  BY <1>1
<1> HIDE DEF y
<1>4. last + y = t - ((t - last) - y)
  BY <1>3
<1>5. QED
  BY <1>1, <1>2, <1>4 DEF y

\* Taking a token takes one interval out of the bucket.
LEMMA TokenIsAnInterval ==
  ASSUME NEW cap \in Nat, NEW step \in Nat, step > 0, NEW tok \in 1..cap, NEW x \in Nat,
         tok < cap => x < step,
         tok = cap => x = 0
  PROVE  /\ Level(cap, step, tok, x) >= step
         /\ Level(cap, step, tok - 1, x) = Level(cap, step, tok, x) - step
<1>1. cap * step \in Nat /\ tok * step \in Nat /\ step <= tok * step
  BY tok >= 1
<1>2. (tok - 1) * step = tok * step - step
  OBVIOUS
<1>3. tok * step + x <= cap * step
  <2>1. CASE tok = cap
    BY <2>1, <1>1
  <2>2. CASE tok < cap
    <3>1. (tok + 1) * step <= cap * step
      BY <2>2
    <3>2. (tok + 1) * step = tok * step + step
      OBVIOUS
    <3>3. QED
      BY <1>1, <2>2, <3>1, <3>2
  <2>3. QED
    BY <2>1, <2>2
<1>4. Level(cap, step, tok, x) = tok * step + x
  BY <1>1, <1>3 DEF Level, Lesser
<1>5. Level(cap, step, tok - 1, x) = tok * step - step + x
  BY <1>1, <1>2, <1>3 DEF Level, Lesser
<1>6. QED
  BY <1>1, <1>4, <1>5

\* While time passes the level grows by the time passed, up to the brim.
LEMMA LevelGrows ==
  ASSUME NEW full \in Nat, NEW held \in Nat, NEW gain \in Nat
  PROVE  Lesser(full, held + gain) = Lesser(full, Lesser(full, held) + gain)
BY DEF Lesser
----------------------------------------------------------------------------
(* Types.                                                                     *)

\* Where a thread is inside acquire_for it has a deadline.
DeadlineSet ==
  \A t \in Thread :
     pc[t] \in {"try_until", "check", "nap_until"} => deadline[t] \in Int

Inv1 == TypeOK /\ DeadlineSet

\* The constructor only accepts what sanitized makes of a Config.
LEMMA SanitizedIsValid ==
  ASSUME NEW raw \in Config
  PROVE  /\ Sanitized(raw) \in Config
         /\ Sanitized(raw).max_tokens > 0
         /\ Sanitized(raw).refill_interval > 0
         /\ Sanitized(raw).initial_tokens <= Sanitized(raw).max_tokens
         /\ Sanitized(raw).daily_limit = raw.daily_limit
<1> DEFINE cap == Greater(raw.max_tokens, 1)
           ini == Lesser(raw.initial_tokens, cap)
           step == IF raw.refill_interval <= 0 THEN DefaultInterval ELSE raw.refill_interval
<1>1. /\ raw.max_tokens \in Nat /\ raw.initial_tokens \in Nat
      /\ raw.refill_interval \in Int
  BY DEF Config
<1>2. cap \in Nat /\ cap > 0
  BY <1>1 DEF Greater
<1>3. ini \in Nat /\ ini <= cap
  BY <1>1, <1>2 DEF Lesser
<1>4. step \in Int /\ step > 0
  BY <1>1, ConstantsAssumption
<1> HIDE DEF cap, ini, step
<1>5. Sanitized(raw) = [raw EXCEPT !.max_tokens = cap, !.initial_tokens = ini,
                                   !.refill_interval = step]
  BY DEF Sanitized, cap, ini, step
<1>6. QED
  BY <1>2, <1>3, <1>4, <1>5 DEF Config

LEMMA ConfigFacts ==
  ASSUME TypeOK
  PROVE  /\ config.max_tokens \in Nat /\ config.max_tokens > 0
         /\ config.refill_interval \in Nat /\ config.refill_interval > 0
         /\ config.initial_tokens \in 0..config.max_tokens
         /\ config.daily_limit \in Int
         /\ config.max_wait \in Int \cup {NoWait}
BY DEF TypeOK, Config

\* What the critical section computes from the state it finds.
LEMMA RefillFacts ==
  ASSUME TypeOK
  PROVE  /\ RefilledTokens \in 0..config.max_tokens
         /\ RefilledAt \in 0..now
         /\ DayAfterCheck \in Day
         /\ UsedAfterCheck \in 0..Int32Max
<1> DEFINE cap == config.max_tokens
           step == config.refill_interval
           x == now - last_refill
<1>1. /\ cap \in Nat /\ step \in Nat /\ step > 0 /\ tokens \in 0..cap
      /\ now \in Nat /\ last_refill \in 0..now
  BY ConfigFacts, ConstantsAssumption DEF TypeOK
<1>2. x \in Nat /\ x <= now
  BY <1>1
<1>3. /\ RefilledTokens = TokensAfter(cap, step, tokens, x)
      /\ RefilledAt = now - SinceAfter(cap, step, tokens, x)
  <2>1. RefilledTokens = TokensAfter(cap, step, tokens, x)
    BY DEF RefilledTokens, TokensAfter, Earned
  <2>2. RefilledAt = IF tokens + (x \div step) >= cap
                       THEN now ELSE last_refill + (x \div step) * step
    BY DEF RefilledAt, Earned
  <2>3. last_refill \in Nat /\ last_refill <= now
    BY <1>1
  <2> HIDE DEF cap, step
  <2>4. RefilledAt = now - SinceAfter(cap, step, tokens, x)
    BY <1>1, <2>2, <2>3, InstantOfRefill
  <2>5. QED
    BY <2>1, <2>4
<1> HIDE DEF cap, step, x
<1>4. /\ TokensAfter(cap, step, tokens, x) \in 0..cap
      /\ SinceAfter(cap, step, tokens, x) \in 0..x
  BY <1>1, <1>2, RefillKeepsLevel
<1>5. RefilledTokens \in 0..config.max_tokens /\ RefilledAt \in 0..now
  BY <1>1, <1>2, <1>3, <1>4 DEF cap
<1>6. DayAfterCheck \in Day
  BY DEF DayAfterCheck, Greater, TypeOK
<1>7. UsedAfterCheck \in 0..Int32Max
  BY ConstantsAssumption DEF UsedAfterCheck, TypeOK
<1>8. QED
  BY <1>5, <1>6, <1>7

LEMMA InitInv1 == Init => Inv1
<1> SUFFICES ASSUME Init PROVE Inv1
  OBVIOUS
<1>1. PICK raw \in RawConfigs : config = Sanitized(raw)
  BY DEF Init
<1>2. /\ config \in Config /\ config.max_tokens > 0
      /\ config.refill_interval > 0
      /\ config.initial_tokens <= config.max_tokens
  BY <1>1, SanitizedIsValid, ConfigAssumption
<1>3. now \in 0..MaxNow /\ today \in Day /\ day_start \in Day /\ last_refill \in 0..now
  BY ConstantsAssumption DEF Init, Day
<1>4. tokens \in 0..config.max_tokens
  BY <1>2 DEF Init, Config
<1>5. daily_requests_used \in 0..Int32Max
  BY ConstantsAssumption DEF Init
<1>6. /\ pc \in [Thread -> {"idle", "try_once", "try_forever", "try_until",
                            "check", "nap_forever", "nap_until"}]
      /\ deadline \in [Thread -> Int \cup {NoWait}]
      /\ wake \in [Thread -> Nat]
      /\ result \in [Thread -> {"none", "granted", "refused", "timed_out"}]
      /\ late \in [Thread -> BOOLEAN]
  BY DEF Init
<1>7. log \in Seq(Nat) /\ spent \in [Day -> Nat]
  BY DEF Init
<1>8. DeadlineSet
  BY DEF Init, DeadlineSet
<1>9. QED
  BY <1>2, <1>3, <1>4, <1>5, <1>6, <1>7, <1>8 DEF Inv1, TypeOK

\* The parts of TypeOK that the limiter, the grants and the threads own.
LimiterTyped ==
  /\ tokens \in 0..config.max_tokens
  /\ last_refill \in 0..now
  /\ daily_requests_used \in 0..Int32Max
  /\ day_start \in Day
  /\ log \in Seq(Nat)
  /\ spent \in [Day -> Nat]

ThreadsTyped ==
  /\ pc \in [Thread -> {"idle", "try_once", "try_forever", "try_until",
                        "check", "nap_forever", "nap_until"}]
  /\ deadline \in [Thread -> Int \cup {NoWait}]
  /\ wake \in [Thread -> Nat]
  /\ result \in [Thread -> {"none", "granted", "refused", "timed_out"}]
  /\ late \in [Thread -> BOOLEAN]
  /\ DeadlineSet

ClocksTyped == now \in 0..MaxNow /\ today \in Day

\* The three parts and an untouched configuration make the next state's types.
LEMMA TypedInParts ==
  ASSUME Inv1, UNCHANGED config, LimiterTyped', ThreadsTyped', ClocksTyped'
  PROVE  Inv1'
BY DEF Inv1, TypeOK, LimiterTyped, ThreadsTyped, ClocksTyped

\* Whatever try_acquire decides, it leaves the limiter's state well typed.
LEMMA TryTyped ==
  ASSUME Inv1, TryGranted \/ TryQuotaRefused \/ TryEmpty, UNCHANGED clockVars
  PROVE  UNCHANGED config /\ LimiterTyped'
<1>1. /\ RefilledTokens \in 0..config.max_tokens /\ RefilledAt \in 0..now
      /\ DayAfterCheck \in Day /\ UsedAfterCheck \in 0..Int32Max
  BY RefillFacts DEF Inv1
<1>2. /\ now \in Nat /\ now' = now
      /\ config.max_tokens \in Nat
  BY ConfigFacts, ConstantsAssumption DEF Inv1, TypeOK, clockVars
<1>3. CASE TryGranted
  <2>1. config' = config /\ last_refill' \in 0..now' /\ day_start' \in Day
    BY <1>1, <1>2, <1>3 DEF TryGranted
  <2>2. tokens' \in 0..config'.max_tokens
    BY <1>1, <1>2, <1>3 DEF TryGranted
  <2>3. Lesser(UsedAfterCheck + 1, Int32Max) \in 0..Int32Max
    BY <1>1, ConstantsAssumption DEF Lesser
  <2>4. log' \in Seq(Nat) /\ spent' \in [Day -> Nat]
    BY <1>1, <1>2, <1>3 DEF TryGranted, Inv1, TypeOK
  <2>5. QED
    BY <2>1, <2>2, <2>3, <2>4, <1>3 DEF TryGranted, CountAfterGrant, LimiterTyped
<1>4. CASE TryQuotaRefused
  BY <1>1, <1>2, <1>4 DEF TryQuotaRefused, Inv1, TypeOK, LimiterTyped, grantVars
<1>5. CASE TryEmpty
  BY <1>1, <1>2, <1>5 DEF TryEmpty, Inv1, TypeOK, LimiterTyped, grantVars
<1>6. QED
  BY <1>3, <1>4, <1>5

\* A thread that enters a call enters it at the top of one of the loops, and
\* into that of acquire_for only with a deadline.
LEMMA CallTyped ==
  ASSUME Inv1, NEW t \in Thread, Call(t)
  PROVE  Inv1'
<1>1. ASSUME NEW until \in Int, Enter(t, "try_until", until)
      PROVE  Inv1'
  BY <1>1 DEF Enter, Inv1, TypeOK, DeadlineSet, limiterVars, clockVars, grantVars
<1>2. ASSUME NEW where \in {"try_once", "try_forever"}, Enter(t, where, NoWait)
      PROVE  Inv1'
  BY <1>2 DEF Enter, Inv1, TypeOK, DeadlineSet, limiterVars, clockVars, grantVars
<1>3. ASSUME NEW wait \in Int PROVE Deadline(wait) \in Int
  BY ConstantsAssumption DEF Inv1, TypeOK, Deadline, Lesser
<1>4. CASE CallTryAcquire(t)
  BY <1>4, <1>2 DEF CallTryAcquire
<1>5. CASE CallAcquire(t)
  <2>1. config.max_wait \in Int \cup {NoWait}
    BY ConfigFacts DEF Inv1
  <2>2. QED
    BY <1>1, <1>2, <1>3, <1>5, <2>1 DEF CallAcquire, CallAcquireFor
<1>6. CASE \E wait \in Waits : CallAcquireFor(t, wait)
  BY <1>1, <1>3, <1>6, ConstantsAssumption DEF CallAcquireFor
<1>7. QED
  BY <1>4, <1>5, <1>6 DEF Call

\* The thread's side of an attempt: it returns, or naps, or reads the clock.
LEMMA AttemptTyped ==
  ASSUME Inv1, NEW t \in Thread, Attempt(t)
  PROVE  Inv1'
<1>1. UNCHANGED config /\ LimiterTyped'
  BY TryTyped DEF Attempt, Granted, Refused
<1>2. ClocksTyped'
  BY DEF Attempt, clockVars, Inv1, TypeOK, ClocksTyped
<1>3. now \in Nat /\ now + Poll \in Nat
  BY ConstantsAssumption DEF Inv1, TypeOK
<1>4. ThreadsTyped'
  <2>1. CASE Granted(t)
    BY <2>1 DEF Granted, Return, Inv1, TypeOK, ThreadsTyped, DeadlineSet
  <2>2. CASE RefusedOnce(t)
    BY <2>2 DEF RefusedOnce, Return, Inv1, TypeOK, ThreadsTyped, DeadlineSet
  <2>3. CASE RefusedForever(t)
    BY <2>3, <1>3 DEF RefusedForever, Inv1, TypeOK, ThreadsTyped, DeadlineSet
  <2>4. CASE RefusedUntil(t)
    <3>1. (now >= deadline[t]) \in BOOLEAN
      OBVIOUS
    <3>2. QED
      BY <2>4, <3>1 DEF RefusedUntil, Inv1, TypeOK, ThreadsTyped, DeadlineSet
  <2>5. QED
    BY <2>1, <2>2, <2>3, <2>4 DEF Attempt, Refused
<1>5. QED
  BY <1>1, <1>2, <1>4, TypedInParts

\* The rest of acquire_for's loop and the naps.
LEMMA WaitTyped ==
  ASSUME Inv1, NEW t \in Thread, TimeOut(t) \/ NapUntil(t) \/ WakeUp(t)
  PROVE  Inv1'
<1> USE DEF limiterVars, clockVars, grantVars
<1>1. CASE TimeOut(t)
  BY <1>1 DEF TimeOut, Return, Inv1, TypeOK, DeadlineSet
<1>2. CASE NapUntil(t)
  <2>1. deadline[t] \in Int /\ now \in Nat /\ now < deadline[t]
    BY <1>2, ConstantsAssumption DEF NapUntil, Inv1, DeadlineSet, TypeOK
  <2>2. now + Lesser(deadline[t] - now, Poll) \in Nat
    BY <2>1, ConstantsAssumption DEF Lesser
  <2>3. QED
    BY <1>2, <2>2 DEF NapUntil, Inv1, TypeOK, DeadlineSet
<1>3. CASE WakeUp(t)
  BY <1>3 DEF WakeUp, Inv1, TypeOK, DeadlineSet
<1>4. QED
  BY <1>1, <1>2, <1>3

LEMMA ResetTyped ==
  ASSUME Inv1, Reset
  PROVE  Inv1'
<1>1. UNCHANGED config /\ ClocksTyped'
  BY DEF Reset, clockVars, Inv1, TypeOK, ClocksTyped
<1>2. LimiterTyped'
  <2>1. config.initial_tokens \in 0..config.max_tokens /\ now \in 0..now
    BY ConfigFacts, ConstantsAssumption DEF Inv1, TypeOK
  <2>2. QED
    BY <2>1, ConstantsAssumption DEF Reset, clockVars, Inv1, TypeOK, LimiterTyped
<1>3. ThreadsTyped'
  BY DEF Reset, threadVars, Inv1, TypeOK, ThreadsTyped, DeadlineSet
<1>4. QED
  BY <1>1, <1>2, <1>3, TypedInParts

LEMMA ClocksTypedNext ==
  ASSUME Inv1, Clocks
  PROVE  Inv1'
<1>1. UNCHANGED config
  BY DEF Clocks, Tick, MidnightPasses, ClockStepsBack, SetDay, limiterVars
<1>2. ClocksTyped' /\ now' >= now
  BY ConstantsAssumption
  DEF Clocks, Tick, MidnightPasses, ClockStepsBack, SetDay, Inv1, TypeOK, ClocksTyped, Day
<1>3. LimiterTyped'
  <2>1. last_refill \in 0..now'
    BY <1>2, ConstantsAssumption DEF Inv1, TypeOK, ClocksTyped
  <2>2. QED
    BY <2>1
    DEF Clocks, Tick, MidnightPasses, ClockStepsBack, SetDay, limiterVars, grantVars,
        Inv1, TypeOK, LimiterTyped
<1>4. ThreadsTyped'
  BY DEF Clocks, Tick, MidnightPasses, ClockStepsBack, SetDay, threadVars,
         Inv1, TypeOK, ThreadsTyped, DeadlineSet
<1>5. QED
  BY <1>1, <1>2, <1>3, <1>4, TypedInParts

LEMMA NextInv1 == Inv1 /\ [Next]_vars => Inv1'
<1> SUFFICES ASSUME Inv1, [Next]_vars PROVE Inv1'
  OBVIOUS
<1>1. ASSUME NEW t \in Thread, Call(t) PROVE Inv1'
  BY <1>1, CallTyped
<1>2. ASSUME NEW t \in Thread, Continue(t) PROVE Inv1'
  BY <1>2, AttemptTyped, WaitTyped DEF Continue
<1>3. CASE UNCHANGED vars
  BY <1>3 DEF vars, limiterVars, clockVars, threadVars, grantVars, Inv1, TypeOK, DeadlineSet
<1>4. QED
  BY <1>1, <1>2, <1>3, ResetTyped, ClocksTypedNext DEF Next

\* The types of the limiter's state: the tokens never exceed the capacity nor
\* fall below zero, the daily count stays within an int32, the last refill is
\* never in the future, for any configuration, threads and clocks.
THEOREM TypeCorrect == Spec => []TypeOK
<1>1. Inv1 => TypeOK
  BY DEF Inv1
<1>2. QED
  BY <1>1, InitInv1, NextInv1, PTL DEF Spec
----------------------------------------------------------------------------
(* The quota ledger.                                                          *)

\* What a step does to the limiter and the clocks, whichever thread takes it.
LEMMA StepKinds ==
  ASSUME [Next]_vars
  PROVE  \/ (TryGranted \/ TryQuotaRefused \/ TryEmpty) /\ UNCHANGED clockVars
         \/ Reset
         \/ Clocks
         \/ UNCHANGED <<limiterVars, clockVars, grantVars>>
<1>1. ASSUME NEW t \in Thread, Call(t)
      PROVE  UNCHANGED <<limiterVars, clockVars, grantVars>>
  BY <1>1 DEF Call, CallTryAcquire, CallAcquire, CallAcquireFor, Enter
<1>2. ASSUME NEW t \in Thread, TimeOut(t) \/ NapUntil(t) \/ WakeUp(t)
      PROVE  UNCHANGED <<limiterVars, clockVars, grantVars>>
  BY <1>2 DEF TimeOut, NapUntil, WakeUp
<1>3. ASSUME NEW t \in Thread, Attempt(t)
      PROVE  (TryGranted \/ TryQuotaRefused \/ TryEmpty) /\ UNCHANGED clockVars
  BY <1>3 DEF Attempt, Granted, Refused
<1>4. CASE UNCHANGED vars
  BY <1>4 DEF vars
<1>5. QED
  BY <1>1, <1>2, <1>3, <1>4 DEF Next, Continue

\* daily_requests_used is the bill of day_start, no bill exceeds the limit,
\* and no later day has one.
LedgerInv ==
  /\ config.daily_limit <= Int32Max
  /\ \A d \in Day : d > day_start => spent[d] = 0
  /\ config.daily_limit > 0 =>
       /\ spent[day_start] = daily_requests_used
       /\ \A d \in Day : spent[d] <= config.daily_limit

Inv2 == Inv1 /\ LedgerInv

LEMMA InitInv2 == Init => Inv2
<1> SUFFICES ASSUME Init PROVE LedgerInv
  BY InitInv1 DEF Inv2
<1>1. PICK raw \in RawConfigs : config = Sanitized(raw)
  BY DEF Init
<1>2. config.daily_limit <= Int32Max /\ config.daily_limit \in Int
  BY <1>1, SanitizedIsValid, ConfigAssumption DEF Config
<1>3. day_start \in Day
  BY ConstantsAssumption DEF Init, Day
<1>4. QED
  BY <1>2, <1>3 DEF Init, LedgerInv

\* The day a request would now be billed to has been billed what the check
\* leaves in the counter.
LEMMA BillIsCount ==
  ASSUME Inv2, config.daily_limit > 0
  PROVE  spent[DayAfterCheck] = UsedAfterCheck
BY DEF Inv2, Inv1, TypeOK, LedgerInv, DayAfterCheck, UsedAfterCheck, Greater, Day

LEMMA TryLedger ==
  ASSUME Inv2, TryGranted \/ TryQuotaRefused \/ TryEmpty, UNCHANGED clockVars
  PROVE  LedgerInv'
<1>1. /\ DayAfterCheck \in Day /\ UsedAfterCheck \in 0..Int32Max
      /\ config.daily_limit \in Int /\ config.daily_limit <= Int32Max
      /\ day_start \in Int /\ DayAfterCheck \in Int /\ DayAfterCheck >= day_start
      /\ spent \in [Day -> Nat] /\ Day \subseteq Int /\ day_start \in Day
  BY RefillFacts, ConfigFacts DEF Inv2, Inv1, TypeOK, LedgerInv, Day, DayAfterCheck, Greater
<1>2. config' = config /\ day_start' = DayAfterCheck
  BY DEF TryGranted, TryQuotaRefused, TryEmpty
<1>3. CASE TryGranted
  <2>1. spent' = [spent EXCEPT ![DayAfterCheck] = @ + 1]
    BY <1>3 DEF TryGranted
  <2>2. \A d \in Day : d > day_start' => spent'[d] = 0
    BY <1>1, <1>2, <2>1 DEF Inv2, LedgerInv
  <2>3. ASSUME config.daily_limit > 0
        PROVE  /\ spent'[day_start'] = daily_requests_used'
               /\ \A d \in Day : spent'[d] <= config.daily_limit
    <3>1. UsedAfterCheck < config.daily_limit
      BY <1>1, <1>3, <2>3 DEF TryGranted, QuotaSpent
    <3>2. daily_requests_used' = UsedAfterCheck + 1
      BY <1>1, <1>3, <3>1, ConstantsAssumption DEF TryGranted, CountAfterGrant, Lesser
    <3>3. spent[DayAfterCheck] = UsedAfterCheck
      BY <2>3, BillIsCount
    <3>4. QED
      BY <1>1, <1>2, <2>1, <2>3, <3>1, <3>2, <3>3 DEF Inv2, LedgerInv
  <2>4. QED
    BY <1>1, <1>2, <2>2, <2>3 DEF LedgerInv
<1>4. CASE TryQuotaRefused \/ TryEmpty
  <2>1. spent' = spent /\ daily_requests_used' = UsedAfterCheck
    BY <1>4 DEF TryQuotaRefused, TryEmpty, grantVars
  <2>2. \A d \in Day : d > day_start' => spent'[d] = 0
    BY <1>1, <1>2, <2>1 DEF Inv2, LedgerInv
  <2>3. config.daily_limit > 0 => spent[DayAfterCheck] = UsedAfterCheck
    BY BillIsCount
  <2>4. QED
    BY <1>1, <1>2, <2>1, <2>2, <2>3 DEF Inv2, LedgerInv
<1>5. QED
  BY <1>3, <1>4

LEMMA NextInv2 == Inv2 /\ [Next]_vars => Inv2'
<1> SUFFICES ASSUME Inv2, [Next]_vars PROVE LedgerInv'
  BY NextInv1 DEF Inv2
<1>1. CASE (TryGranted \/ TryQuotaRefused \/ TryEmpty) /\ UNCHANGED clockVars
  BY <1>1, TryLedger
<1>2. CASE Reset
  <2>1. today \in Day /\ config.daily_limit \in Int
    BY ConfigFacts DEF Inv2, Inv1, TypeOK
  <2>2. QED
    BY <1>2, <2>1 DEF Reset, Inv2, LedgerInv
<1>3. CASE Clocks
  BY <1>3 DEF Clocks, Tick, MidnightPasses, ClockStepsBack, SetDay,
              limiterVars, grantVars, Inv2, LedgerInv
<1>4. CASE UNCHANGED <<limiterVars, clockVars, grantVars>>
  BY <1>4 DEF limiterVars, grantVars, Inv2, LedgerInv
<1>5. QED
  BY <1>1, <1>2, <1>3, <1>4, StepKinds

\* With a positive limit the remaining quota that the limiter reports is what
\* the day to be billed has left, and no day is billed for more than the limit:
\* for any limit, number of threads and course of the system clock.
THEOREM QuotaIsExact == Spec => []QuotaExact
<1>1. Inv2 => QuotaExact
  <2> SUFFICES ASSUME Inv2, config.daily_limit > 0
               PROVE  /\ DailyRequestsRemaining = config.daily_limit - spent[DayAfterCheck]
                      /\ \A d \in Day : spent[d] <= config.daily_limit
    BY DEF QuotaExact
  <2>1. spent[DayAfterCheck] = UsedAfterCheck
    BY BillIsCount
  <2>2. /\ config.daily_limit \in Int /\ daily_requests_used \in Nat
        /\ daily_requests_used <= config.daily_limit
    BY ConfigFacts, ConstantsAssumption DEF Inv2, Inv1, TypeOK, LedgerInv
  <2>3. DailyRequestsRemaining = config.daily_limit - UsedAfterCheck
    BY <2>2 DEF DailyRequestsRemaining, UsedAfterCheck, Greater
  <2>4. QED
    BY <2>1, <2>3 DEF Inv2, LedgerInv
<1>2. QED
  BY <1>1, InitInv2, NextInv2, PTL DEF Spec

\* available_tokens and daily_requests_remaining are both positive exactly
\* when try_acquire would grant, in every reachable state.
THEOREM ObserversAreHonest == Spec => []ObserversHonest
<1>1. Inv1 => ObserversHonest
  <2> SUFFICES ASSUME Inv1 PROVE ObserversHonest
    OBVIOUS
  <2>1. /\ config.max_tokens \in Nat /\ config.max_tokens > 0
        /\ config.daily_limit \in Int /\ daily_requests_used \in Nat
        /\ tokens \in Nat /\ tokens <= config.max_tokens
    BY ConfigFacts, ConstantsAssumption DEF Inv1, TypeOK
  <2>2. Earned \in Nat
    <3> DEFINE x == now - last_refill
    <3>1. x \in Nat
      BY ConstantsAssumption DEF Inv1, TypeOK
    <3> HIDE DEF x
    <3>2. x \div config.refill_interval \in Nat
      BY <3>1, ConfigFacts, DivisionFacts DEF Inv1
    <3>3. QED
      BY <3>2 DEF Earned, x
  <2>3. AvailableTokens = RefilledTokens
    BY <2>2 DEF AvailableTokens, RefilledTokens, Greater
  <2>4. DailyRequestsRemaining > 0 <=> ~QuotaSpent
    BY <2>1, ConstantsAssumption
    DEF DailyRequestsRemaining, QuotaSpent, UsedAfterCheck, Greater, Inv1, TypeOK, Day
  <2>5. QED
    BY <2>3, <2>4 DEF ObserversHonest
<1>2. QED
  BY <1>1, InitInv1, NextInv1, PTL DEF Spec
----------------------------------------------------------------------------
(* Deadlines.                                                                 *)

\* A late attempt leaves its mark only while the clock is past the deadline.
DeadlineInv ==
  /\ DeadlineRespected
  /\ \A t \in Thread : late[t] => now >= deadline[t]

Inv3 == Inv1 /\ DeadlineInv

LEMMA NextInv3 == Inv3 /\ [Next]_vars => Inv3'
<1> SUFFICES ASSUME Inv3, [Next]_vars PROVE DeadlineInv'
  BY NextInv1 DEF Inv3
<1> USE DEF DeadlineInv, DeadlineRespected, limiterVars, clockVars, grantVars, threadVars
<1>0. /\ now \in Nat /\ Poll \in Nat /\ Inv1
      /\ \A t \in Thread : pc[t] \in {"try_until", "check", "nap_until"} => deadline[t] \in Int
  BY ConstantsAssumption DEF Inv3, Inv1, TypeOK, DeadlineSet
<1>1. ASSUME NEW t \in Thread, Call(t) PROVE DeadlineInv'
  <2>1. ASSUME NEW where \in {"try_once", "try_forever", "try_until"},
               NEW until \in Int \cup {NoWait}, Enter(t, where, until)
        PROVE  DeadlineInv'
    BY <2>1 DEF Enter, Inv3, Inv1, TypeOK
  <2>2. ASSUME NEW wait \in Int PROVE Deadline(wait) \in Int
    BY <1>0, ConstantsAssumption DEF Deadline, Lesser
  <2>3. config.max_wait \in Int \cup {NoWait}
    BY <1>0, ConfigFacts DEF Inv1
  <2>4. CASE CallTryAcquire(t)
    BY <2>1, <2>4 DEF CallTryAcquire
  <2>5. CASE CallAcquire(t)
    BY <2>1, <2>2, <2>3, <2>5 DEF CallAcquire, CallAcquireFor
  <2>6. CASE \E wait \in Waits : CallAcquireFor(t, wait)
    BY <2>1, <2>2, <2>6, ConstantsAssumption DEF CallAcquireFor
  <2>7. QED
    BY <1>1, <2>4, <2>5, <2>6 DEF Call
<1>2. ASSUME NEW t \in Thread, Attempt(t) PROVE DeadlineInv'
  <2>1. CASE Granted(t)
    BY <1>2, <2>1 DEF Attempt, Granted, Return, Inv3, Inv1, TypeOK
  <2>2. CASE RefusedOnce(t)
    BY <1>2, <2>2 DEF Attempt, RefusedOnce, Return, Inv3, Inv1, TypeOK
  <2>3. CASE RefusedForever(t)
    BY <1>2, <2>3 DEF Attempt, RefusedForever, Inv3, Inv1, TypeOK
  <2>4. CASE RefusedUntil(t)
    BY <1>2, <2>4 DEF Attempt, RefusedUntil, Inv3, Inv1, TypeOK
  <2>5. QED
    BY <1>2, <2>1, <2>2, <2>3, <2>4 DEF Attempt, Refused
<1>3. ASSUME NEW t \in Thread, TimeOut(t) PROVE DeadlineInv'
  BY <1>3 DEF TimeOut, Return, Inv3, Inv1, TypeOK
<1>4. ASSUME NEW t \in Thread, NapUntil(t) PROVE DeadlineInv'
  <2>1. deadline[t] \in Int /\ now < deadline[t]
    BY <1>0, <1>4 DEF NapUntil
  <2>2. ~late[t]
    BY <1>0, <2>1 DEF Inv3
  <2>3. now + Lesser(deadline[t] - now, Poll) <= deadline[t]
    BY <1>0, <2>1 DEF Lesser
  <2>4. QED
    BY <1>4, <2>2, <2>3 DEF NapUntil, Inv3, Inv1, TypeOK
<1>5. ASSUME NEW t \in Thread, WakeUp(t) PROVE DeadlineInv'
  BY <1>5 DEF WakeUp, Inv3, Inv1, TypeOK
<1>6. CASE Reset
  BY <1>6 DEF Reset, Inv3
<1>7. CASE Clocks
  <2>1. now' \in Nat /\ now' >= now /\ UNCHANGED <<threadVars, late>>
    BY <1>0, <1>7 DEF Clocks, Tick, MidnightPasses, ClockStepsBack, SetDay
  <2>2. \A t \in Thread : late[t] => deadline[t] \in Int /\ now >= deadline[t]
    BY <1>0 DEF Inv3
  <2>3. \A t \in Thread : late[t] => now' >= deadline[t]
    BY <1>0, <2>1, <2>2
  <2>4. QED
    BY <2>1, <2>3 DEF Inv3
<1>8. CASE UNCHANGED vars
  BY <1>8 DEF vars, Inv3
<1>9. QED
  BY <1>1, <1>2, <1>3, <1>4, <1>5, <1>6, <1>7, <1>8 DEF Next, Continue

\* acquire_for never naps past its deadline and never tries again after an
\* attempt at or past the deadline was refused, for any waits and interleaving.
THEOREM DeadlinesHold == Spec => []DeadlineRespected
<1>1. Init => Inv3
  BY InitInv1 DEF Init, Inv3, DeadlineInv, DeadlineRespected
<1>2. Inv3 => DeadlineRespected
  BY DEF Inv3, DeadlineInv
<1>3. QED
  BY <1>1, <1>2, NextInv3, PTL DEF Spec
----------------------------------------------------------------------------
(* The limiter implements the fluid bucket.                                   *)

cap   == config.max_tokens
step  == config.refill_interval
since == now - last_refill

\* What every step's proof needs to know of the state.
LEMMA BucketFacts ==
  ASSUME Inv2
  PROVE  /\ cap \in Nat /\ cap > 0 /\ step \in Nat /\ step > 0
         /\ tokens \in 0..cap /\ since \in Nat
         /\ now \in Nat /\ last_refill \in Nat /\ last_refill <= now
         /\ BucketLevel = Level(cap, step, tokens, since)
<1>1. /\ cap \in Nat /\ cap > 0 /\ step \in Nat /\ step > 0
      /\ tokens \in 0..cap
      /\ now \in Nat /\ last_refill \in Nat /\ last_refill <= now
  BY ConfigFacts, ConstantsAssumption DEF Inv2, Inv1, TypeOK, cap, step
<1>2. since \in Nat
  BY <1>1 DEF since
<1>3. QED
  BY <1>1, <1>2 DEF BucketLevel, Level, cap, step, since

\* Refilling within try_acquire, by itself, does not change the level.
LEMMA RefillIsInvisible ==
  ASSUME Inv2
  PROVE  /\ RefilledTokens \in 0..cap
         /\ now - RefilledAt \in Nat
         /\ RefilledTokens < cap => now - RefilledAt < step
         /\ RefilledTokens = cap => now - RefilledAt = 0
         /\ Level(cap, step, RefilledTokens, now - RefilledAt) = BucketLevel
<1>0. /\ cap \in Nat /\ step \in Nat /\ step > 0 /\ tokens \in 0..cap
      /\ since \in Nat /\ now \in Nat /\ last_refill \in Nat /\ last_refill <= now
  BY BucketFacts
<1>1. RefilledTokens = TokensAfter(cap, step, tokens, since)
  BY DEF RefilledTokens, TokensAfter, Earned, cap, step, since
<1>2. RefilledAt = now - SinceAfter(cap, step, tokens, since)
  <2>1. RefilledAt = IF tokens + (since \div step) >= cap
                       THEN now ELSE last_refill + (since \div step) * step
    BY DEF RefilledAt, Earned, cap, step, since
  <2>2. (IF tokens + ((now - last_refill) \div step) >= cap
           THEN now ELSE last_refill + ((now - last_refill) \div step) * step)
        = now - SinceAfter(cap, step, tokens, now - last_refill)
    BY <1>0, InstantOfRefill
  <2>3. QED
    BY <2>1, <2>2 DEF since
<1>3. /\ TokensAfter(cap, step, tokens, since) \in 0..cap
      /\ SinceAfter(cap, step, tokens, since) \in 0..since
      /\ TokensAfter(cap, step, tokens, since) < cap
           => SinceAfter(cap, step, tokens, since) < step
      /\ TokensAfter(cap, step, tokens, since) = cap
           => SinceAfter(cap, step, tokens, since) = 0
      /\ Level(cap, step, TokensAfter(cap, step, tokens, since),
               SinceAfter(cap, step, tokens, since)) = Level(cap, step, tokens, since)
  BY <1>0, RefillKeepsLevel
<1>4. now - RefilledAt = SinceAfter(cap, step, tokens, since)
  BY <1>2, <1>3, BucketFacts
<1>5. QED
  BY <1>1, <1>3, <1>4, BucketFacts

LEMMA InitRefines == Init => TB!Init
<1> SUFFICES ASSUME Init PROVE TB!Init
  OBVIOUS
<1>1. Inv2
  BY InitInv2
<1>2. /\ config.max_tokens \in Nat \ {0} /\ config.refill_interval \in Nat \ {0}
      /\ config.initial_tokens \in 0..config.max_tokens
      /\ config.daily_limit \in Int
  BY <1>1, ConfigFacts DEF Inv2, Inv1
<1>3. now \in Nat /\ today \in Day
  BY <1>1, BucketFacts DEF Inv2, Inv1, TypeOK
<1>4. BucketLevel = config.initial_tokens * step
  <2>1. tokens = config.initial_tokens /\ since = 0
    BY DEF Init, since
  <2>2. tokens * step <= cap * step /\ cap * step \in Nat /\ tokens * step \in Nat
    BY <1>1, BucketFacts
  <2>3. QED
    BY <2>1, <2>2 DEF BucketLevel, Lesser, cap, step, since
<1>5. QED
  BY <1>2, <1>3, <1>4
  DEF Init, TB!Init, TB!ValidConfig, TB!Starting, TB!Interval, TB!Untouched,
      BucketLevel, cap, step, since

\* A granted attempt is a grant of the bucket, billed to a day not yet over.
LEMMA GrantRefines ==
  ASSUME Inv2, TryGranted, UNCHANGED clockVars
  PROVE  TB!Grant
<1>1. /\ cap \in Nat /\ step \in Nat /\ step > 0
      /\ RefilledTokens \in 1..cap /\ now - RefilledAt \in Nat
      /\ RefilledTokens < cap => now - RefilledAt < step
      /\ RefilledTokens = cap => now - RefilledAt = 0
      /\ Level(cap, step, RefilledTokens, now - RefilledAt) = BucketLevel
  BY BucketFacts, RefillIsInvisible DEF TryGranted
<1>2. /\ BucketLevel >= step
      /\ Level(cap, step, RefilledTokens - 1, now - RefilledAt) = BucketLevel - step
  BY <1>1, TokenIsAnInterval
<1>3. BucketLevel' = BucketLevel - step
  <2>1. BucketLevel' = Level(cap, step, tokens', now - last_refill')
    BY DEF BucketLevel, Level, cap, step, since, TryGranted, clockVars
  <2>2. QED
    BY <2>1, <1>2 DEF TryGranted
<1>4. /\ DayAfterCheck \in Day
      /\ DayAfterCheck >= today
      /\ config.daily_limit > 0 => spent[DayAfterCheck] < config.daily_limit
  <2>1. DayAfterCheck \in Day /\ DayAfterCheck >= today
    BY RefillFacts DEF Inv2, Inv1, TypeOK, Day, DayAfterCheck, Greater
  <2>2. ASSUME config.daily_limit > 0
        PROVE  spent[DayAfterCheck] < config.daily_limit
    BY <2>2, BillIsCount, RefillFacts, ConfigFacts DEF TryGranted, QuotaSpent, Inv2, Inv1
  <2>3. QED
    BY <2>1, <2>2
<1>5. /\ log' = Append(log, now)
      /\ spent' = [spent EXCEPT ![DayAfterCheck] = @ + 1]
      /\ UNCHANGED <<config, now, today>>
  BY DEF TryGranted, clockVars
<1>6. QED
  BY <1>2, <1>3, <1>4, <1>5
  DEF TB!Grant, TB!Interval, BucketLevel, cap, step, since

\* A refused attempt is invisible.
LEMMA RefusalRefines ==
  ASSUME Inv2, TryQuotaRefused \/ TryEmpty, UNCHANGED clockVars
  PROVE  UNCHANGED TB!vars
<1>1. BucketLevel' = BucketLevel
  <2>1. BucketLevel' = Level(cap, step, tokens', now - last_refill')
    BY DEF BucketLevel, Level, cap, step, since, TryQuotaRefused, TryEmpty, clockVars
  <2>2. CASE TryQuotaRefused
    BY <2>1, <2>2, BucketFacts DEF TryQuotaRefused, since
  <2>3. CASE TryEmpty
    BY <2>1, <2>3, RefillIsInvisible DEF TryEmpty
  <2>4. QED
    BY <2>2, <2>3
<1>2. UNCHANGED <<config, now, today, log, spent>>
  BY DEF TryQuotaRefused, TryEmpty, clockVars, grantVars
<1>3. QED
  BY <1>1, <1>2 DEF TB!vars, BucketLevel, cap, step, since

LEMMA ResetRefines ==
  ASSUME Inv2, Reset
  PROVE  TB!Reset
<1>1. BucketLevel' = config.initial_tokens * step
  <2>1. /\ config.initial_tokens \in 0..cap /\ cap \in Nat /\ step \in Nat
        /\ now \in Nat
    BY BucketFacts, ConfigFacts DEF Inv2, Inv1, cap
  <2>2. /\ config.initial_tokens * step <= cap * step
        /\ cap * step \in Nat /\ config.initial_tokens * step \in Nat
    BY <2>1
  <2>3. BucketLevel' = Lesser(cap * step, config.initial_tokens * step + (now - now))
    BY DEF Reset, clockVars, BucketLevel, cap, step, since
  <2>4. config.initial_tokens * step + (now - now) = config.initial_tokens * step
    BY <2>1, <2>2
  <2>5. QED
    BY <2>2, <2>3, <2>4 DEF Lesser
<1>2. QED
  BY <1>1 DEF Reset, clockVars, TB!Reset, TB!Starting, TB!Interval, TB!Untouched,
              BucketLevel, cap, step, since

LEMMA ClocksRefine ==
  ASSUME Inv2, Clocks
  PROVE  TB!Elapse \/ TB!ClockSet
<1>1. CASE Tick
  <2>1. now' = now + 1 /\ UNCHANGED <<config, today, log, spent>>
        /\ UNCHANGED <<tokens, last_refill>>
    BY <1>1 DEF Tick, limiterVars, grantVars
  <2>2. now' \in Nat /\ now' > now
    BY <2>1, BucketFacts
  <2>3. BucketLevel' = Lesser(cap * step, BucketLevel + (now' - now))
    <3> DEFINE held == tokens * step + since
               full == cap * step
    <3>1. full \in Nat /\ held \in Nat
      BY BucketFacts
    <3>2. now' - last_refill = since + 1 /\ now' - now = 1
      BY <2>1, BucketFacts DEF since
    <3>3. tokens * step + (since + 1) = held + 1
      BY BucketFacts
    <3>4. BucketLevel' = Lesser(full, held + 1)
      BY <2>1, <3>2, <3>3 DEF BucketLevel, cap, step, since
    <3>5. BucketLevel = Lesser(full, held)
      BY DEF BucketLevel, cap, step, since
    <3> HIDE DEF held, full
    <3>6. Lesser(full, held + 1) = Lesser(full, Lesser(full, held) + 1)
      BY <3>1, LevelGrows
    <3>7. QED
      BY <3>2, <3>4, <3>5, <3>6 DEF full
  <2>4. TB!Full = cap * step
    BY DEF TB!Full, TB!Interval, cap, step
  <2>5. ASSUME NEW a, NEW b PROVE TB!Lesser(a, b) = Lesser(a, b)
    BY DEF Lesser, TB!Lesser
  <2>6. TB!Elapse
    BY <2>1, <2>2, <2>3, <2>4, <2>5 DEF TB!Elapse
  <2>7. QED
    BY <2>6
<1>2. CASE MidnightPasses \/ ClockStepsBack
  <2>1. today' \in Day
    BY <1>2, ConstantsAssumption
    DEF MidnightPasses, ClockStepsBack, SetDay, Inv2, Inv1, TypeOK, Day
  <2>2. UNCHANGED <<config, tokens, last_refill, now, log, spent>>
    BY <1>2 DEF MidnightPasses, ClockStepsBack, SetDay, limiterVars, grantVars
  <2>3. QED
    BY <2>1, <2>2 DEF TB!ClockSet, BucketLevel
<1>3. QED
  BY <1>1, <1>2 DEF Clocks

\* Every behaviour of the limiter is one of the fluid bucket, for any
\* configuration, any set of threads and any course of the clocks: the lazy
\* refill, the whole tokens and the lazy midnight check change nothing that a
\* caller could tell.
THEOREM LimiterIsATokenBucket == Spec => ImplementsTokenBucket
<1>1. Init => TB!Init
  BY InitRefines
<1>2. Inv2 /\ [Next]_vars => [TB!Next]_(TB!vars)
  <2> SUFFICES ASSUME Inv2, [Next]_vars PROVE TB!Next \/ UNCHANGED TB!vars
    OBVIOUS
  <2>1. CASE TryGranted /\ UNCHANGED clockVars
    BY <2>1, GrantRefines DEF TB!Next
  <2>2. CASE (TryQuotaRefused \/ TryEmpty) /\ UNCHANGED clockVars
    BY <2>2, RefusalRefines
  <2>3. CASE Reset
    BY <2>3, ResetRefines DEF TB!Next
  <2>4. CASE Clocks
    BY <2>4, ClocksRefine DEF TB!Next
  <2>5. CASE UNCHANGED <<limiterVars, clockVars, grantVars>>
    BY <2>5 DEF TB!vars, BucketLevel, limiterVars, clockVars, grantVars
  <2>6. QED
    BY <2>1, <2>2, <2>3, <2>4, <2>5, StepKinds
<1>3. QED
  BY <1>1, <1>2, InitInv2, NextInv2, PTL DEF Spec, ImplementsTokenBucket, TB!Spec
----------------------------------------------------------------------------
(* The promise of the fluid bucket, whatever steps it takes: pace and quota.   *)

BucketTyped ==
  /\ TB!ValidConfig
  /\ BucketLevel \in 0..TB!Full
  /\ now \in Nat
  /\ log \in Seq(Nat)
  /\ spent \in [Day -> Nat]

\* What makes RateBound inductive: the grants from the i-th on, together with
\* what is still in the bucket, were paid for by a full bucket and the time
\* since the i-th grant.
BucketPace ==
  \A i \in 1..Len(log) :
     /\ log[i] <= now
     /\ (Len(log) - i + 1) * TB!Interval + BucketLevel <= TB!Full + (now - log[i])

BucketInv == BucketTyped /\ BucketPace /\ TB!RateBound /\ TB!QuotaHolds

\* Burst allowance and starting level are natural numbers, the second within
\* the first (the sanitized Config of RateLimiter).
LEMMA LevelsAreNatural ==
  ASSUME TB!ValidConfig
  PROVE  /\ TB!Interval \in Nat /\ TB!Interval > 0
         /\ TB!Full \in Nat /\ TB!Starting \in 0..TB!Full
<1> DEFINE burst == config.max_tokens
           ini == config.initial_tokens
           I == config.refill_interval
<1>1. burst \in Nat /\ ini \in Nat /\ ini <= burst /\ I \in Nat /\ I > 0
  BY DEF TB!ValidConfig
<1> HIDE DEF burst, ini, I
<1>2. burst * I \in Nat /\ ini * I \in Nat
  BY <1>1
<1>3. ini * I <= burst * I
  BY <1>1
<1>4. QED
  BY <1>1, <1>2, <1>3 DEF TB!Full, TB!Starting, TB!Interval, burst, ini, I

\* Filling a bucket up to its brim.
LEMMA FillBound ==
  ASSUME NEW full \in Nat, NEW held \in 0..full, NEW gain \in Nat
  PROVE  /\ TB!Lesser(full, held + gain) \in 0..full
         /\ TB!Lesser(full, held + gain) <= held + gain
BY DEF TB!Lesser

\* The time between two readings of a clock that only advances.
LEMMA GapIsNatural ==
  ASSUME NEW before \in Nat, NEW after \in Nat, after > before
  PROVE  after - before \in Nat
OBVIOUS

\* The invariant holds of a limiter that has just been constructed.
LEMMA InitBucketInv == TB!Init => BucketInv
<1> SUFFICES ASSUME TB!Init PROVE BucketInv
  OBVIOUS
<1>1. TB!Full \in Nat /\ TB!Starting \in 0..TB!Full
  BY LevelsAreNatural DEF TB!Init
<1>2. BucketTyped
  BY <1>1 DEF TB!Init, BucketTyped, TB!Untouched
<1>3. log = << >> /\ Len(log) = 0
  BY DEF TB!Init
<1>4. BucketPace /\ TB!RateBound
  BY <1>3 DEF BucketPace, TB!RateBound
<1>5. TB!QuotaHolds
  BY DEF TB!Init, TB!QuotaHolds, TB!Untouched, TB!ValidConfig
<1>6. QED
  BY <1>2, <1>4, <1>5 DEF BucketInv

\* One grant moves the invariant from one log to the next: the new grant takes
\* an interval out of the bucket for itself and for every run it ends.
LEMMA GrantBucketInv ==
  ASSUME BucketInv, TB!Grant
  PROVE  BucketInv'
<1> USE DEF TB!Grant
<1>0. TB!Interval \in Nat /\ TB!Interval > 0 /\ TB!Full \in Nat
  BY LevelsAreNatural DEF BucketInv, BucketTyped
<1>1. TB!Interval' = TB!Interval /\ TB!Full' = TB!Full
  BY DEF TB!Interval, TB!Full
<1>2. /\ BucketLevel \in 0..TB!Full /\ BucketLevel' \in 0..TB!Full
      /\ BucketLevel' = BucketLevel - TB!Interval
  BY <1>0 DEF BucketInv, BucketTyped
<1>3. BucketTyped'
  <2>1. TB!ValidConfig'
    BY DEF BucketInv, BucketTyped, TB!ValidConfig
  <2>2. log' \in Seq(Nat)
    BY DEF BucketInv, BucketTyped
  <2>3. spent' \in [Day -> Nat]
    BY DEF BucketInv, BucketTyped
  <2>4. QED
    BY <1>1, <1>2, <2>1, <2>2, <2>3 DEF BucketInv, BucketTyped
<1>4. /\ log \in Seq(Nat) /\ now \in Nat
      /\ Len(log') = Len(log) + 1
      /\ log'[Len(log')] = now
      /\ \A i \in 1..Len(log) : log'[i] = log[i] /\ log[i] \in Nat
      /\ Len(log) \in Nat
  BY DEF BucketInv, BucketTyped
<1>5. ASSUME NEW i \in 1..Len(log')
      PROVE  /\ log'[i] <= now
             /\ (Len(log') - i + 1) * TB!Interval + BucketLevel' <= TB!Full + (now - log'[i])
  <2>1. CASE i = Len(log')
    <3>1. (Len(log') - i + 1) * TB!Interval = TB!Interval
      BY <2>1, <1>0, <1>4
    <3>2. QED
      BY <2>1, <3>1, <1>0, <1>2, <1>4
  <2>2. CASE i \in 1..Len(log)
    <3>1. (Len(log) - i + 1) * TB!Interval + BucketLevel <= TB!Full + (now - log[i])
          /\ log[i] <= now
      BY <2>2 DEF BucketInv, BucketPace
    <3>2. (Len(log') - i + 1) * TB!Interval = (Len(log) - i + 1) * TB!Interval + TB!Interval
      BY <1>0, <1>4, <2>2
    <3>3. (Len(log) - i + 1) * TB!Interval \in Int
      BY <1>0, <1>4, <2>2
    <3>4. QED
      BY <3>1, <3>2, <3>3, <1>0, <1>2, <1>4, <2>2
  <2>3. QED
    BY <2>1, <2>2, <1>4
<1>6. BucketPace'
  BY <1>1, <1>5 DEF BucketPace
<1>7. TB!RateBound'
  <2> SUFFICES ASSUME NEW i \in 1..Len(log'), NEW j \in 1..Len(log'), i <= j
               PROVE  (j - i + 1) * TB!Interval <= TB!Full + (log'[j] - log'[i])
    BY <1>1 DEF TB!RateBound
  <2>1. CASE j = Len(log')
    <3>1. (j - i + 1) * TB!Interval \in Int
      BY <1>0, <1>4
    <3>2. log'[j] = now
      BY <2>1, <1>4
    <3>3. (j - i + 1) * TB!Interval + BucketLevel' <= TB!Full + (now - log'[i])
      BY <2>1, <1>5
    <3>4. log'[i] \in Nat
      BY <1>4
    <3>5. QED
      BY <3>1, <3>2, <3>3, <3>4, <1>0, <1>2, <1>4, SMTT(30)
  <2>2. CASE j \in 1..Len(log)
    <3>1. i \in 1..Len(log)
      BY <2>2, <1>4
    <3>2. (j - i + 1) * TB!Interval <= TB!Full + (log[j] - log[i])
      BY <2>2, <3>1 DEF BucketInv, TB!RateBound
    <3>3. QED
      BY <3>1, <3>2, <2>2, <1>4
  <2>3. QED
    BY <2>1, <2>2, <1>4
<1>8. TB!QuotaHolds'
  BY DEF TB!QuotaHolds, BucketInv, BucketTyped, TB!ValidConfig
<1>9. QED
  BY <1>3, <1>6, <1>7, <1>8 DEF BucketInv

\* While the steady clock advances the bucket never gains more than the time.
LEMMA ElapseBucketInv ==
  ASSUME BucketInv, TB!Elapse
  PROVE  BucketInv'
<1> USE DEF TB!Elapse
<1>0. TB!Interval \in Nat /\ TB!Full \in Nat
  BY LevelsAreNatural DEF BucketInv, BucketTyped
<1>1. TB!Interval' = TB!Interval /\ TB!Full' = TB!Full
  BY DEF TB!Interval, TB!Full
<1>2. /\ BucketLevel \in 0..TB!Full /\ BucketLevel' \in 0..TB!Full
      /\ BucketLevel' <= BucketLevel + (now' - now)
  <2> DEFINE gone == now' - now
  <2>0. now \in Nat /\ now' \in Nat /\ now' > now
    BY DEF BucketInv, BucketTyped
  <2>1. BucketLevel \in 0..TB!Full /\ gone \in Nat
    BY <2>0, GapIsNatural DEF BucketInv, BucketTyped
  <2>2. BucketLevel' = TB!Lesser(TB!Full, BucketLevel + gone)
    OBVIOUS
  <2> HIDE DEF gone
  <2>3. /\ TB!Lesser(TB!Full, BucketLevel + gone) \in 0..TB!Full
        /\ TB!Lesser(TB!Full, BucketLevel + gone) <= BucketLevel + gone
    BY <1>0, <2>1, FillBound
  <2>4. BucketLevel' \in 0..TB!Full /\ BucketLevel' <= BucketLevel + gone
    BY <2>2, <2>3
  <2>5. QED
    BY <2>1, <2>4 DEF gone
<1>3. BucketTyped'
  BY <1>1, <1>2 DEF BucketInv, BucketTyped, TB!ValidConfig
<1>4. ASSUME NEW i \in 1..Len(log)
      PROVE  /\ log[i] <= now'
             /\ (Len(log) - i + 1) * TB!Interval + BucketLevel' <= TB!Full + (now' - log[i])
  <2>1. log[i] \in Nat /\ now \in Nat /\ now' \in Nat /\ Len(log) \in Nat
    BY DEF BucketInv, BucketTyped
  <2>2. (Len(log) - i + 1) * TB!Interval \in Int
    BY <1>0, <2>1
  <2>3. /\ log[i] <= now
        /\ (Len(log) - i + 1) * TB!Interval + BucketLevel <= TB!Full + (now - log[i])
    BY DEF BucketInv, BucketPace
  <2>4. QED
    BY <1>0, <1>2, <2>1, <2>2, <2>3, SMTT(30)
<1>5. BucketPace'
  BY <1>1, <1>4 DEF BucketPace
<1>6. TB!RateBound' /\ TB!QuotaHolds'
  BY <1>1 DEF BucketInv, TB!RateBound, TB!QuotaHolds
<1>7. QED
  BY <1>3, <1>5, <1>6 DEF BucketInv

LEMMA ResetBucketInv ==
  ASSUME BucketInv, TB!Reset
  PROVE  BucketInv'
<1> USE DEF TB!Reset
<1>1. TB!Full' = TB!Full /\ TB!Interval' = TB!Interval
  BY DEF TB!Full, TB!Interval
<1>2. TB!Full \in Nat /\ TB!Starting \in 0..TB!Full
  BY LevelsAreNatural DEF BucketInv, BucketTyped
<1>3. BucketTyped'
  BY <1>1, <1>2 DEF BucketInv, BucketTyped, TB!ValidConfig, TB!Untouched
<1>4. BucketPace' /\ TB!RateBound'
  BY DEF BucketPace, TB!RateBound
<1>5. TB!QuotaHolds'
  BY DEF BucketInv, BucketTyped, TB!ValidConfig, TB!QuotaHolds, TB!Untouched
<1>6. QED
  BY <1>3, <1>4, <1>5 DEF BucketInv

\* Changing the day of the system clock, or nothing, disturbs nothing.
LEMMA IdleBucketInv ==
  ASSUME BucketInv, UNCHANGED <<config, BucketLevel, now, log, spent>>
  PROVE  BucketInv'
BY DEF BucketInv, BucketTyped, TB!ValidConfig, BucketPace, TB!RateBound, TB!QuotaHolds,
       TB!Full, TB!Interval

\* The promise of the limiter: in every behaviour of the fluid bucket, for
\* every configuration, every clock and every set of days, consecutive grants
\* keep to the pace and no day is billed for more than the limit.
THEOREM BucketKeepsItsPromise == TB!Spec => [](TB!RateBound /\ TB!QuotaHolds)
<1>1. TB!Init => BucketInv
  BY InitBucketInv
<1>2. BucketInv /\ [TB!Next]_(TB!vars) => BucketInv'
  <2> SUFFICES ASSUME BucketInv, [TB!Next]_(TB!vars) PROVE BucketInv'
    OBVIOUS
  <2>1. CASE TB!Elapse
    BY <2>1, ElapseBucketInv
  <2>2. CASE TB!ClockSet
    BY <2>2, IdleBucketInv DEF TB!ClockSet
  <2>3. CASE TB!Grant
    BY <2>3, GrantBucketInv
  <2>4. CASE TB!Reset
    BY <2>4, ResetBucketInv
  <2>5. CASE UNCHANGED TB!vars
    BY <2>5, IdleBucketInv DEF TB!vars
  <2>6. QED
    BY <2>1, <2>2, <2>3, <2>4, <2>5 DEF TB!Next
<1>3. BucketInv => TB!RateBound /\ TB!QuotaHolds
  BY DEF BucketInv
<1>4. QED
  BY <1>1, <1>2, <1>3, PTL DEF TB!Spec

\* All threads' grants together keep to the pace of the configuration.
THEOREM LimiterKeepsThePace == Spec => []RateBound
<1>1. Spec => TB!Spec
  BY LimiterIsATokenBucket DEF ImplementsTokenBucket
<1>2. TB!RateBound => RateBound
  BY DEF RateBound
<1>3. QED
  BY <1>1, <1>2, BucketKeepsItsPromise, PTL
=============================================================================
