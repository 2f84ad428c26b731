------------------------------ MODULE ClientProofs ------------------------------
(* Proofs about the clients.  First CdoClient, for any configuration of the   *)
(* limiter, any policy, and any course of the clocks and of the transfers:    *)
(* every request is paid for (PaidInv, from which step of do_get the token    *)
(* was taken in), and so the limiter's pace, which module RateLimiterProofs   *)
(* proves of its grants, is a pace of the requests as well; and do_get        *)
(* implements the retry loop, whose theorems (module RetryProofs) hold of it. *)
(*                                                                            *)
(* Then the operations (module Endpoints), for any arguments, texts, bodies   *)
(* and policy: the server reads in every request what the caller asked for,   *)
(* which rests on what is read of sequences that are joined and split again;  *)
(* and every answer tells what came of the last attempt.                      *)
EXTENDS CdoClient, Endpoints, SequenceTheorems, TLAPS

Held == step = "send" \/ (step = "acquire" /\ result[Caller] = "granted")

\* The thread is inside the limiter only while do_get is in acquire, and has
\* the result of acquire when it is out again.
InStep ==
  /\ step \in {"none", "check", "acquire", "send", "await"}
  /\ step # "none" <=> phase = "operation"
  /\ step # "acquire" => pc[Caller] = "idle"
  /\ step = "acquire" =>
       /\ pc[Caller] # "try_once"
       /\ pc[Caller] = "idle" => result[Caller] \in {"granted", "timed_out"}
       /\ pc[Caller] # "idle" => result[Caller] = "none"

Histories ==
  /\ now \in Nat
  /\ log \in Seq(Nat) /\ fetches \in Seq(Nat)
  /\ \A i \in 1..Len(log) : log[i] <= now
  /\ \A i \in 1..Len(fetches) : fetches[i] <= now

Threads ==
  /\ pc \in [{Caller} -> {"idle", "try_once", "try_forever", "try_until",
                          "check", "nap_forever", "nap_until"}]
  /\ result \in [{Caller} -> {"none", "granted", "refused", "timed_out"}]

PaidInv == InStep /\ Threads /\ Histories /\ EveryFetchIsPaid

LEMMA PaidInitially == Init => PaidInv
BY DEF Init, Limiter!Init, Loop!Init, PaidInv, InStep, Threads, Histories,
       EveryFetchIsPaid

\* Where grants and requests stay as they are, it is enough that as many
\* tokens are held as before.
LEMMA NothingPaid ==
  ASSUME PaidInv, UNCHANGED <<log, fetches>>, InStep', Threads',
         now' \in Nat, now <= now', Held' <=> Held
  PROVE  PaidInv'
<1>1. Histories'
  BY DEF PaidInv, Histories
<1>2. EveryFetchIsPaid'
  BY DEF PaidInv, EveryFetchIsPaid, Held
<1>3. QED
  BY <1>1, <1>2 DEF PaidInv

\* A step of the retry loop: one more turn, a sleep, or the end.
LEMMA LoopSteps ==
  /\ Loop!Call => phase = "idle" /\ phase' \in {"idle", "operation"}
  /\ Loop!Awake => phase = "sleep" /\ phase' \in {"idle", "operation"}
  /\ \A outcome : Loop!Operated(outcome) =>
        phase = "operation" /\ phase' \in {"idle", "sleep"}
BY DEF Loop!Call, Loop!Awake, Loop!Operated, Loop!LoopHead

LEMMA OperationEnds ==
  ASSUME PaidInv, NEW outcome, Finish(outcome), ~Held, pc[Caller] = "idle"
  PROVE  PaidInv'
<1>1. /\ step' = "none" /\ phase' # "operation"
      /\ UNCHANGED <<now, pc, result, log, fetches>>
  BY LoopSteps DEF Finish, pacing
<1>2. now \in Nat /\ InStep' /\ Threads' /\ ~Held'
  BY <1>1 DEF PaidInv, InStep, Threads, Histories, Held
<1>3. QED
  BY <1>1, <1>2, NothingPaid

LEMMA OperationStarts ==
  ASSUME PaidInv, Loop!Call \/ Loop!Awake, EnterOperation, UNCHANGED <<pacing, fetches>>
  PROVE  PaidInv'
<1>1. /\ phase # "operation" /\ phase' \in {"idle", "operation"}
      /\ UNCHANGED <<now, pc, result, log, fetches>>
  BY LoopSteps DEF pacing
<1>2. step = "none" /\ step' \in {"none", "check"} /\ (step' # "none" <=> phase' = "operation")
  BY <1>1 DEF PaidInv, InStep, EnterOperation
<1>3. now \in Nat /\ InStep' /\ Threads' /\ ~Held /\ ~Held'
  BY <1>1, <1>2 DEF PaidInv, InStep, Threads, Histories, Held
<1>4. QED
  BY <1>1, <1>3, NothingPaid

\* acquire begins.
LEMMA QuotaLeftPaid ==
  ASSUME PaidInv, QuotaLeft
  PROVE  PaidInv'
<1>1. PICK where \in {"try_forever", "try_until"} :
        \E until : Limiter!Enter(Caller, where, until)
  BY DEF QuotaLeft, Limiter!CallAcquire, Limiter!CallAcquireFor
<1>2. /\ step = "check" /\ step' = "acquire" /\ phase' = phase
      /\ UNCHANGED <<now, log, fetches>>
      /\ pc' = [pc EXCEPT ![Caller] = where]
      /\ result' = [result EXCEPT ![Caller] = "none"]
  BY <1>1 DEF QuotaLeft, looping, Limiter!Enter, Limiter!clockVars, Limiter!grantVars
<1>3. now \in Nat /\ InStep' /\ Threads' /\ ~Held /\ ~Held'
  BY <1>2 DEF PaidInv, InStep, Threads, Histories, Held
<1>4. QED
  BY <1>2, <1>3, NothingPaid

\* A token is granted: it is the one in hand.
LEMMA GrantPaid ==
  ASSUME PaidInv, step = "acquire", pc[Caller] # "idle", Limiter!TryGranted,
         Limiter!Return(Caller, "granted"), UNCHANGED <<now, step, phase, fetches>>
  PROVE  PaidInv'
<1>1. /\ log' = Append(log, now)
      /\ pc' = [pc EXCEPT ![Caller] = "idle"]
      /\ result' = [result EXCEPT ![Caller] = "granted"]
  BY DEF Limiter!TryGranted, Limiter!Return
<1>2. /\ log \in Seq(Nat) /\ now \in Nat /\ fetches \in Seq(Nat) /\ Threads
      /\ \A i \in 1..Len(log) : log[i] <= now
      /\ \A i \in 1..Len(fetches) : fetches[i] <= now
  BY DEF PaidInv, Histories
<1>3. ~Held /\ Held'
  BY <1>1, <1>2 DEF PaidInv, InStep, Held, Threads
<1>4. /\ log' \in Seq(Nat) /\ Len(log') = Len(log) + 1
      /\ log'[Len(log) + 1] = now
      /\ \A i \in 1..Len(log) : log'[i] = log[i]
  BY <1>1, <1>2
<1>5. /\ Len(log) = Len(fetches)
      /\ \A i \in 1..Len(fetches) : /\ log[i] <= fetches[i]
                                    /\ i < Len(log) => fetches[i] <= log[i + 1]
  BY <1>3 DEF PaidInv, EveryFetchIsPaid, Held
<1>6. Histories'
  <2>1. \A i \in 1..Len(log') : log'[i] <= now
    <3> TAKE i \in 1..Len(log')
    <3>1. CASE i \in 1..Len(log)
      BY <1>2, <1>4, <3>1
    <3>2. CASE i = Len(log) + 1
      BY <1>2, <1>4, <3>2
    <3>3. QED
      BY <1>2, <1>4, <3>1, <3>2
  <2>2. /\ now' = now /\ now' \in Nat /\ log' \in Seq(Nat)
        /\ fetches' = fetches /\ fetches' \in Seq(Nat)
    BY <1>2, <1>4
  <2>3. \A i \in 1..Len(fetches') : fetches'[i] <= now'
    BY <1>2, <2>2
  <2>4. QED
    BY <2>1, <2>2, <2>3 DEF Histories
<1>7. EveryFetchIsPaid'
  <2>1. \A i \in 1..Len(fetches) : /\ log'[i] <= fetches[i]
                                   /\ i < Len(log') => fetches[i] <= log'[i + 1]
    <3> TAKE i \in 1..Len(fetches)
    <3>1. log'[i] <= fetches[i]
      BY <1>4, <1>5
    <3>2. CASE i < Len(log)
      <4>1. i + 1 \in 1..Len(log) /\ fetches[i] <= log[i + 1]
        BY <1>2, <1>5, <3>2
      <4>2. QED
        BY <1>4, <3>1, <4>1
    <3>3. CASE i = Len(log)
      BY <1>2, <1>4, <1>5, <3>1, <3>3
    <3>4. QED
      BY <1>2, <1>5, <3>1, <3>2, <3>3
  <2>2. QED
    BY <1>2, <1>3, <1>4, <1>5, <2>1 DEF EveryFetchIsPaid, Held
<1>8. InStep' /\ Threads'
  BY <1>1, <1>2 DEF PaidInv, InStep, Threads
<1>9. QED
  BY <1>6, <1>7, <1>8 DEF PaidInv

\* acquire goes on: a token, or none.
LEMMA AcquiringPaid ==
  ASSUME PaidInv, Acquiring
  PROVE  PaidInv'
<1>1. /\ step = "acquire" /\ UNCHANGED <<step, phase, fetches>>
      /\ Limiter!Continue(Caller)
  BY DEF Acquiring, looping
<1>2. now \in Nat /\ Threads
  BY DEF PaidInv, Histories
<1>3. ASSUME UNCHANGED <<now, log>>, pc' = [pc EXCEPT ![Caller] = pc'[Caller]],
             pc[Caller] # "idle", result[Caller] = "none",
             pc'[Caller] \in {"check", "nap_forever", "nap_until", "try_forever", "try_until"},
             result' = result
      PROVE  PaidInv'
  <2>1. InStep' /\ Threads' /\ ~Held /\ ~Held'
    BY <1>1, <1>2, <1>3 DEF PaidInv, InStep, Threads, Held
  <2>2. QED
    BY <1>1, <1>2, <1>3, <2>1, NothingPaid
<1>4. CASE Limiter!Attempt(Caller)
  <2>1. pc[Caller] \in {"try_forever", "try_until"} /\ result[Caller] = "none" /\ now' = now
    BY <1>1, <1>4 DEF Limiter!Attempt, Limiter!clockVars, PaidInv, InStep
  <2>2. CASE Limiter!Granted(Caller)
    BY <1>1, <2>1, <2>2, GrantPaid DEF Limiter!Granted
  <2>3. CASE Limiter!Refused(Caller)
    <3>1. log' = log
      BY <2>3 DEF Limiter!Refused, Limiter!TryQuotaRefused, Limiter!TryEmpty, Limiter!grantVars
    <3>2. /\ result' = result
          /\ \/ pc' = [pc EXCEPT ![Caller] = "nap_forever"]
             \/ pc' = [pc EXCEPT ![Caller] = "check"]
      BY <2>1, <2>3
      DEF Limiter!Refused, Limiter!RefusedOnce, Limiter!RefusedForever, Limiter!RefusedUntil
    <3>3. QED
      BY <1>2, <1>3, <2>1, <3>1, <3>2 DEF Threads
  <2>4. QED
    BY <1>4, <2>2, <2>3 DEF Limiter!Attempt
<1>5. CASE Limiter!TimeOut(Caller)
  <2>1. /\ pc[Caller] = "check" /\ UNCHANGED <<now, log>>
        /\ pc' = [pc EXCEPT ![Caller] = "idle"]
        /\ result' = [result EXCEPT ![Caller] = "timed_out"]
    BY <1>5 DEF Limiter!TimeOut, Limiter!Return, Limiter!clockVars, Limiter!grantVars
  <2>2. InStep' /\ Threads' /\ ~Held /\ ~Held'
    BY <1>1, <1>2, <2>1 DEF PaidInv, InStep, Threads, Held
  <2>3. QED
    BY <1>1, <1>2, <2>1, <2>2, NothingPaid
<1>6. CASE Limiter!NapUntil(Caller)
  <2>1. /\ pc[Caller] = "check" /\ UNCHANGED <<now, log>> /\ result' = result
        /\ pc' = [pc EXCEPT ![Caller] = "nap_until"]
    BY <1>6 DEF Limiter!NapUntil, Limiter!clockVars, Limiter!grantVars
  <2>2. result[Caller] = "none"
    BY <1>1, <2>1 DEF PaidInv, InStep
  <2>3. QED
    BY <1>2, <1>3, <2>1, <2>2 DEF Threads
<1>7. CASE Limiter!WakeUp(Caller)
  <2>1. /\ pc[Caller] \in {"nap_forever", "nap_until"}
        /\ UNCHANGED <<now, log>> /\ result' = result
        /\ \E where \in {"try_until", "try_forever"} : pc' = [pc EXCEPT ![Caller] = where]
    BY <1>7 DEF Limiter!WakeUp, Limiter!clockVars, Limiter!grantVars
  <2>2. result[Caller] = "none"
    BY <1>1, <2>1 DEF PaidInv, InStep
  <2>3. QED
    BY <1>2, <1>3, <2>1, <2>2 DEF Threads
<1>8. QED
  BY <1>1, <1>4, <1>5, <1>6, <1>7 DEF Limiter!Continue

\* The token in hand is spent on a request.
LEMMA SendPaid ==
  ASSUME PaidInv, Send
  PROVE  PaidInv'
<1>1. /\ step = "send" /\ step' = "await" /\ UNCHANGED <<now, log, pc, result, phase>>
      /\ fetches' = Append(fetches, now)
  BY DEF Send, pacing, looping
<1>2. /\ log \in Seq(Nat) /\ now \in Nat /\ fetches \in Seq(Nat)
      /\ \A i \in 1..Len(log) : log[i] <= now
      /\ \A i \in 1..Len(fetches) : fetches[i] <= now
  BY DEF PaidInv, Histories
<1>3. /\ Len(log) = Len(fetches) + 1
      /\ \A i \in 1..Len(fetches) : /\ log[i] <= fetches[i]
                                    /\ i < Len(log) => fetches[i] <= log[i + 1]
  BY <1>1 DEF PaidInv, EveryFetchIsPaid
<1>4. /\ fetches' \in Seq(Nat) /\ Len(fetches') = Len(fetches) + 1
      /\ fetches'[Len(fetches) + 1] = now
      /\ \A i \in 1..Len(fetches) : fetches'[i] = fetches[i]
  BY <1>1, <1>2
<1>5. \A i \in 1..Len(fetches') : /\ fetches'[i] <= now
                                  /\ log[i] <= fetches'[i]
                                  /\ i < Len(log) => fetches'[i] <= log[i + 1]
  <2> TAKE i \in 1..Len(fetches')
  <2>1. CASE i \in 1..Len(fetches)
    BY <1>2, <1>3, <1>4, <2>1
  <2>2. CASE i = Len(fetches) + 1
    <3>1. i \in 1..Len(log) /\ ~(i < Len(log))
      BY <1>2, <1>3, <2>2
    <3>2. QED
      BY <1>2, <1>4, <2>2, <3>1
  <2>3. QED
    BY <1>2, <1>4, <2>1, <2>2
<1>6. Histories'
  BY <1>1, <1>2, <1>4, <1>5 DEF Histories
<1>7. EveryFetchIsPaid'
  BY <1>1, <1>2, <1>3, <1>4, <1>5 DEF EveryFetchIsPaid
<1>8. InStep' /\ Threads'
  BY <1>1 DEF PaidInv, InStep, Threads
<1>9. QED
  BY <1>6, <1>7, <1>8 DEF PaidInv

LEMMA ClocksPaid ==
  ASSUME PaidInv, Clocks
  PROVE  PaidInv'
<1>1. /\ UNCHANGED <<step, phase, pc, result, log, fetches>>
      /\ now' \in {now, now + 1}
  BY DEF Clocks, looping, Limiter!Clocks, Limiter!Tick, Limiter!MidnightPasses,
         Limiter!ClockStepsBack, Limiter!SetDay, Limiter!threadVars, Limiter!grantVars
<1>2. now \in Nat /\ InStep' /\ Threads' /\ (Held' <=> Held)
  BY <1>1 DEF PaidInv, InStep, Threads, Histories, Held
<1>3. QED
  BY <1>1, <1>2, NothingPaid

LEMMA PaidStep == PaidInv /\ [Next]_vars => PaidInv'
<1> SUFFICES ASSUME PaidInv, [Next]_vars PROVE PaidInv'
  OBVIOUS
<1>1. CASE DoGet
  BY <1>1, OperationStarts DEF DoGet
<1>2. CASE QuotaGone
  BY <1>2, OperationEnds DEF QuotaGone, PaidInv, InStep, Held
<1>3. CASE QuotaLeft
  BY <1>3, QuotaLeftPaid
<1>4. CASE Acquiring
  BY <1>4, AcquiringPaid
<1>5. CASE AcquireFailed
  BY <1>5, OperationEnds DEF AcquireFailed, Held
<1>6. CASE AcquireSucceeded
  <2>1. /\ step = "acquire" /\ step' = "send"
        /\ UNCHANGED <<now, pc, result, phase, log, fetches>>
        /\ pc[Caller] = "idle" /\ result[Caller] = "granted"
    BY <1>6 DEF AcquireSucceeded, pacing, looping
  <2>2. now \in Nat /\ InStep' /\ Threads' /\ Held /\ Held'
    BY <2>1 DEF PaidInv, InStep, Threads, Histories, Held
  <2>3. QED
    BY <2>1, <2>2, NothingPaid
<1>7. CASE Send
  BY <1>7, SendPaid
<1>8. CASE Receive
  BY <1>8, OperationEnds DEF Receive, PaidInv, InStep, Held
<1>9. CASE Awake
  BY <1>9, OperationStarts DEF Awake
<1>10. CASE Clocks
  BY <1>10, ClocksPaid
<1>11. CASE UNCHANGED vars
  <2>1. UNCHANGED <<step, phase, pc, result, now, log, fetches>>
    BY <1>11 DEF vars, pacing, looping
  <2>2. now \in Nat /\ InStep' /\ Threads' /\ (Held' <=> Held)
    BY <2>1 DEF PaidInv, InStep, Threads, Histories, Held
  <2>3. QED
    BY <2>1, <2>2, NothingPaid
<1>12. QED
  BY <1>1, <1>2, <1>3, <1>4, <1>5, <1>6, <1>7, <1>8, <1>9, <1>10, <1>11 DEF Next

\* Every request of do_get, retries included, was paid for with a token of its
\* own that was granted after the request before it went out.
THEOREM RequestsArePaid == Spec => []EveryFetchIsPaid
<1>1. PaidInv => EveryFetchIsPaid
  BY DEF PaidInv
<1>2. QED
  BY <1>1, PaidInitially, PaidStep, PTL DEF Spec
----------------------------------------------------------------------------
(* The pace of the requests.                                                  *)

\* The proofs about the limiter, read for the one that do_get asks.
Pace == INSTANCE RateLimiterProofs WITH Thread <- {Caller}, Waits <- {}

LEMMA SameArithmetic ==
  /\ \A a, b : Limiter!Lesser(a, b) = Pace!Lesser(a, b)
  /\ \A a, b : Limiter!Greater(a, b) = Pace!Greater(a, b)
  /\ Limiter!DayAfterCheck = Pace!DayAfterCheck
  /\ Limiter!UsedAfterCheck = Pace!UsedAfterCheck
  /\ Limiter!QuotaSpent = Pace!QuotaSpent
  /\ Limiter!RefilledTokens = Pace!RefilledTokens
  /\ Limiter!RefilledAt = Pace!RefilledAt
BY DEF Limiter!Lesser, Pace!Lesser, Limiter!Greater, Pace!Greater,
     Limiter!DayAfterCheck, Pace!DayAfterCheck, Limiter!UsedAfterCheck,
     Pace!UsedAfterCheck, Limiter!QuotaSpent, Pace!QuotaSpent, Limiter!Earned,
     Pace!Earned, Limiter!RefilledTokens, Pace!RefilledTokens,
     Limiter!RefilledAt, Pace!RefilledAt

\* acquire is the same in both readings.
LEMMA SameAcquire == Limiter!Continue(Caller) => Pace!Continue(Caller)
<1>1. Limiter!TryGranted => Pace!TryGranted
  BY SameArithmetic DEF Limiter!TryGranted, Pace!TryGranted,
       Limiter!CountAfterGrant, Pace!CountAfterGrant
<1>2. Limiter!TryQuotaRefused \/ Limiter!TryEmpty => Pace!TryQuotaRefused \/ Pace!TryEmpty
  BY SameArithmetic DEF Limiter!TryQuotaRefused, Pace!TryQuotaRefused,
       Limiter!TryEmpty, Pace!TryEmpty, Limiter!grantVars, Pace!grantVars
<1>3. \A value : Limiter!Return(Caller, value) => Pace!Return(Caller, value)
  BY DEF Limiter!Return, Pace!Return
<1>4. Limiter!Granted(Caller) => Pace!Granted(Caller)
  BY <1>1, <1>3 DEF Limiter!Granted, Pace!Granted
<1>5. Limiter!Refused(Caller) => Pace!Refused(Caller)
  BY <1>2, <1>3 DEF Limiter!Refused, Pace!Refused, Limiter!RefusedOnce,
       Pace!RefusedOnce, Limiter!RefusedForever, Pace!RefusedForever,
       Limiter!RefusedUntil, Pace!RefusedUntil
<1>6. Limiter!Attempt(Caller) => Pace!Attempt(Caller)
  BY <1>4, <1>5 DEF Limiter!Attempt, Pace!Attempt, Limiter!clockVars,
       Pace!clockVars
<1>7. Limiter!TimeOut(Caller) => Pace!TimeOut(Caller)
  BY <1>3 DEF Limiter!TimeOut, Pace!TimeOut, Limiter!limiterVars,
       Pace!limiterVars, Limiter!clockVars, Pace!clockVars, Limiter!grantVars,
       Pace!grantVars
<1>8. Limiter!NapUntil(Caller) => Pace!NapUntil(Caller)
  BY SameArithmetic DEF Limiter!NapUntil, Pace!NapUntil, Limiter!limiterVars,
       Pace!limiterVars, Limiter!clockVars, Pace!clockVars, Limiter!grantVars,
       Pace!grantVars
<1>9. Limiter!WakeUp(Caller) => Pace!WakeUp(Caller)
  BY DEF Limiter!WakeUp, Pace!WakeUp, Limiter!limiterVars, Pace!limiterVars,
       Limiter!clockVars, Pace!clockVars, Limiter!grantVars, Pace!grantVars
<1>10. QED
  BY <1>6, <1>7, <1>8, <1>9 DEF Limiter!Continue, Pace!Continue

\* What do_get does to the limiter is what a thread may do to it.
LEMMA LimiterSteps == Spec => Pace!Spec
<1>1. Init => Pace!Init
  BY DEF Init, Limiter!Init, Pace!Init, Limiter!Sanitized, Pace!Sanitized,
         Limiter!Greater, Pace!Greater, Limiter!Lesser, Pace!Lesser, Limiter!Day, Pace!Day
<1>2. [Next]_vars => [Pace!Next]_(Pace!vars)
  <2> SUFFICES ASSUME [Next]_vars PROVE Pace!Next \/ UNCHANGED Pace!vars
    OBVIOUS
  <2>1. CASE UNCHANGED pacing
    BY <2>1 DEF pacing, Pace!vars, Pace!limiterVars, Pace!clockVars, Pace!threadVars,
                Pace!grantVars
  <2>2. CASE QuotaLeft
    <3>1. Pace!CallAcquire(Caller)
      BY <2>2 DEF QuotaLeft, Limiter!CallAcquire, Pace!CallAcquire,
           Limiter!CallAcquireFor, Pace!CallAcquireFor, Limiter!Enter, Pace!Enter,
           Limiter!Deadline, Pace!Deadline, Limiter!Lesser, Pace!Lesser,
           Limiter!limiterVars, Pace!limiterVars, Limiter!clockVars, Pace!clockVars,
           Limiter!grantVars, Pace!grantVars
    <3>2. QED
      BY <3>1 DEF Pace!Next, Pace!Call
  <2>3. CASE Acquiring
    <3>1. Pace!Continue(Caller)
      BY <2>3, SameAcquire DEF Acquiring
    <3>2. QED
      BY <3>1 DEF Pace!Next
  <2>4. CASE Clocks
    BY <2>4 DEF Clocks, Limiter!Clocks, Pace!Clocks, Limiter!Tick, Pace!Tick,
         Limiter!MidnightPasses, Pace!MidnightPasses, Limiter!ClockStepsBack,
         Pace!ClockStepsBack, Limiter!SetDay, Pace!SetDay, Pace!Next,
         Limiter!limiterVars, Pace!limiterVars, Limiter!threadVars, Pace!threadVars,
         Limiter!grantVars, Pace!grantVars
  <2>5. QED
    BY <2>1, <2>2, <2>3, <2>4
    DEF Next, vars, DoGet, QuotaGone, AcquireFailed, AcquireSucceeded, Send, Receive,
        Awake, Finish
<1>3. QED
  BY <1>1, <1>2, PTL DEF Spec, Pace!Spec

LEMMA PaceAssumption == Pace!ConstantsAssumption /\ Pace!ConfigAssumption
BY ClientAssumption
   DEF Pace!ConstantsAssumption, Pace!ConfigAssumption, Pace!Config, Limiter!Config,
       Limiter!ConstantsAssumption, Limiter!ConfigAssumption

LEMMA AlwaysTyped == Spec => []Pace!TypeOK
<1>1. Pace!Spec => []Pace!TypeOK
  BY PaceAssumption, Pace!TypeCorrect
<1>2. QED
  BY <1>1, LimiterSteps, PTL

\* n requests take at least n - max_tokens - 1 refill intervals, however long
\* the thread is held up between a grant and the request that it is for.
THEOREM RequestsKeepThePace == Spec => []FetchPace
<1>1. Spec => [](Pace!RateBound /\ Pace!TypeOK)
  <2>1. Pace!Spec => []Pace!RateBound
    BY PaceAssumption, Pace!LimiterKeepsThePace
  <2>2. QED
    BY <2>1, AlwaysTyped, LimiterSteps, PTL
<1>2. ASSUME PaidInv, Pace!RateBound, Pace!TypeOK
      PROVE  FetchPace
  <2> SUFFICES ASSUME NEW i \in 1..Len(fetches), NEW j \in 1..Len(fetches), i <= j
               PROVE  (j - i) * config.refill_interval
                        <= config.max_tokens * config.refill_interval + (fetches[j] - fetches[i])
    BY DEF FetchPace, Interval
  <2> DEFINE full == config.max_tokens * config.refill_interval
  <2>1. full \in Nat /\ config.refill_interval \in Nat
    BY <1>2 DEF Pace!TypeOK, Pace!Config
  <2>2. /\ log \in Seq(Nat) /\ fetches \in Seq(Nat)
        /\ Len(log) >= Len(fetches)
        /\ \A k \in 1..Len(fetches) : /\ log[k] <= fetches[k]
                                      /\ k < Len(log) => fetches[k] <= log[k + 1]
    BY <1>2 DEF PaidInv, Histories, EveryFetchIsPaid
  <2>3. fetches[i] \in Nat /\ fetches[j] \in Nat
    BY <2>2
  <2> HIDE DEF full
  <2>4. CASE i = j
    <3>1. (j - i) * config.refill_interval = 0
      BY <2>1, <2>4
    <3>2. QED
      BY <2>1, <2>3, <2>4, <3>1 DEF full
  <2>5. CASE i < j
    <3>1. i + 1 \in 1..Len(log) /\ j \in 1..Len(log) /\ i + 1 <= j
      BY <2>2, <2>5
    <3>2. (j - (i + 1) + 1) * config.refill_interval <= full + (log[j] - log[i + 1])
      BY <1>2, <3>1 DEF full, Pace!RateBound, Pace!TB!RateBound, Pace!TB!Full, Pace!TB!Interval
    <3>3. /\ j - (i + 1) + 1 = j - i
          /\ log[j] \in Nat /\ log[i + 1] \in Nat
          /\ log[j] <= fetches[j] /\ fetches[i] <= log[i + 1]
      <4>1. log[j] \in Nat /\ log[i + 1] \in Nat
        BY <2>2, <3>1, SMTT(30)
      <4>2. i < Len(log)
        BY <2>2, <3>1
      <4>3. log[j] <= fetches[j] /\ fetches[i] <= log[i + 1]
        BY <2>2, <4>2
      <4>4. QED
        BY <4>1, <4>3
    <3> DEFINE gap == (j - i) * config.refill_interval
    <3>4. gap \in Int
      BY <2>1
    <3>5. gap <= full + (log[j] - log[i + 1])
      BY <3>2, <3>3
    <3> HIDE DEF gap
    <3>6. gap <= full + (fetches[j] - fetches[i])
      BY <2>1, <2>3, <3>3, <3>4, <3>5, SMTT(30)
    <3>7. QED
      BY <3>6 DEF gap, full
  <2>6. QED
    BY <2>4, <2>5
<1>3. QED
  BY <1>1, <1>2, PaidInitially, PaidStep, PTL DEF Spec
----------------------------------------------------------------------------
(* The daily quota, on a system clock that is never set back.                 *)

DayInv == day_start <= today

LEMMA LimiterTypes ==
  ASSUME Pace!TypeOK
  PROVE  /\ today \in Int /\ day_start \in Int
         /\ daily_requests_used \in Int /\ config.daily_limit \in Int
         /\ tokens \in Nat /\ config.max_tokens \in Nat \ {0}
         /\ today \in Pace!Day /\ spent \in [Pace!Day -> Nat]
         /\ Int32Max \in Nat \ {0}
BY PaceAssumption DEF Pace!TypeOK, Pace!Config, Pace!Day, Pace!ConstantsAssumption

LEMMA DayStep ==
  ASSUME ClockSetBack = FALSE, Pace!TypeOK, DayInv, [Next]_vars
  PROVE  DayInv'
<1>1. today \in Int /\ day_start \in Int
  BY LimiterTypes
<1>2. CASE UNCHANGED pacing
  BY <1>2 DEF pacing, DayInv
<1>3. CASE QuotaLeft
  <2>1. UNCHANGED <<today, day_start>>
    BY <1>3 DEF QuotaLeft, Limiter!CallAcquire, Limiter!CallAcquireFor, Limiter!Enter,
                Limiter!limiterVars, Limiter!clockVars
  <2>2. QED
    BY <2>1 DEF DayInv
<1>4. CASE Acquiring
  <2>1. today' = today /\ day_start' \in {day_start, Limiter!DayAfterCheck}
    BY <1>4 DEF Acquiring, Limiter!Continue, Limiter!Attempt, Limiter!Granted,
         Limiter!Refused, Limiter!TryGranted, Limiter!TryQuotaRefused, Limiter!TryEmpty,
         Limiter!TimeOut, Limiter!NapUntil, Limiter!WakeUp, Limiter!limiterVars,
         Limiter!clockVars
  <2>2. QED
    BY <1>1, <2>1 DEF DayInv, Limiter!DayAfterCheck, Limiter!Greater
<1>5. CASE Clocks
  <2>1. day_start' = day_start /\ today' \in {today, today + 1}
    BY <1>5 DEF Clocks, Limiter!Clocks, Limiter!Tick, Limiter!MidnightPasses,
         Limiter!ClockStepsBack, Limiter!SetDay, Limiter!limiterVars
  <2>2. QED
    BY <1>1, <2>1 DEF DayInv
<1>6. QED
  BY <1>2, <1>3, <1>4, <1>5
  DEF Next, vars, DoGet, QuotaGone, AcquireFailed, AcquireSucceeded, Send, Receive,
      Awake, Finish

LEMMA AlwaysDayInv == ClockSetBack = FALSE /\ Spec => []DayInv
<1> SUFFICES ASSUME ClockSetBack = FALSE PROVE Spec => []DayInv
  OBVIOUS
<1>1. Init => DayInv
  BY DEF Init, Limiter!Init, DayInv
<1>2. Pace!TypeOK /\ DayInv /\ [Next]_vars => DayInv'
  BY DayStep
<1>3. QED
  BY <1>1, <1>2, AlwaysTyped, PTL DEF Spec

\* Only the quota check ends a call with QuotaExceeded.
LEMMA OnlyTheCheck ==
  ASSUME [Next]_vars, returned' = Loop!Error("QuotaExceeded"), returned # returned'
  PROVE  QuotaGone
<1>1. Loop!Exhausted # Loop!Error("QuotaExceeded")
  BY DEF Loop!Exhausted, Loop!Error
<1>2. \A outcome : Finish(outcome) => outcome = Loop!Error("QuotaExceeded")
  BY DEF Finish, Loop!Operated
<1>3. ~DoGet /\ ~Awake
  BY <1>1 DEF DoGet, Awake, Loop!Call, Loop!Awake, Loop!LoopHead
<1>4. ~AcquireFailed
  BY <1>2 DEF AcquireFailed, Loop!Error
<1>5. ~Receive
  BY <1>2 DEF Receive, Loop!Error, Loop!Response, HttpErrors
<1>6. QED
  BY <1>3, <1>4, <1>5
  DEF Next, vars, looping, QuotaLeft, Acquiring, AcquireSucceeded, Send, Clocks

\* do_get says QuotaExceeded only on a day on which as many requests as the
\* limit allows were granted.
THEOREM QuotaErrorsAreTrue == ClockSetBack = FALSE /\ Spec => QuotaErrorIsHonest
<1> DEFINE Honest == (returned' = Loop!Error("QuotaExceeded") /\ returned # returned')
                        => /\ config.daily_limit > 0
                           /\ spent[today] = config.daily_limit
<1>1. ASSUME Pace!TypeOK, Pace!QuotaExact, DayInv, [Next]_vars
      PROVE  [Honest]_vars
  <2> SUFFICES ASSUME returned' = Loop!Error("QuotaExceeded"), returned # returned'
               PROVE  config.daily_limit > 0 /\ spent[today] = config.daily_limit
    OBVIOUS
  <2>1. Limiter!DailyRequestsRemaining <= 0
    BY <1>1, OnlyTheCheck DEF QuotaGone
  <2>2. config.daily_limit > 0
    BY <1>1, <2>1, LimiterTypes DEF Limiter!DailyRequestsRemaining
  <2>3. Limiter!DailyRequestsRemaining = Pace!DailyRequestsRemaining
    BY SameArithmetic DEF Limiter!DailyRequestsRemaining, Pace!DailyRequestsRemaining
  <2>4. Pace!DayAfterCheck = today
    BY <1>1, LimiterTypes DEF DayInv, Pace!DayAfterCheck, Pace!Greater
  <2>5. /\ Pace!DailyRequestsRemaining = config.daily_limit - spent[today]
        /\ spent[today] <= config.daily_limit
    BY <1>1, <2>2, <2>4, LimiterTypes DEF Pace!QuotaExact
  <2>6. spent[today] \in Nat /\ config.daily_limit \in Int
    BY <1>1, LimiterTypes
  <2>7. QED
    BY <2>1, <2>2, <2>3, <2>5, <2>6
<1>2. Pace!Spec => []Pace!QuotaExact
  BY PaceAssumption, Pace!QuotaIsExact
<1>3. QED
  BY <1>1, <1>2, LimiterSteps, AlwaysTyped, AlwaysDayInv, PTL
  DEF Spec, QuotaErrorIsHonest

\* Inside acquire the day's quota lasts, and whoever was refused lacks a token.
Waiting ==
  step = "acquire" /\ pc[Caller] # "idle" =>
    /\ ~Limiter!QuotaSpent
    /\ pc[Caller] \in {"check", "nap_forever", "nap_until"} => tokens = 0

LEMMA AcquiringWaits ==
  ASSUME PaidInv, Pace!TypeOK, DayInv, Waiting, Acquiring
  PROVE  Waiting'
<1>1. /\ step = "acquire" /\ Limiter!Continue(Caller)
      /\ pc[Caller] # "idle" => ~Limiter!QuotaSpent
  BY DEF Acquiring, Waiting
<1>2. /\ pc \in [{Caller} -> {"idle", "try_once", "try_forever", "try_until",
                              "check", "nap_forever", "nap_until"}]
      /\ pc[Caller] # "try_once"
  BY <1>1 DEF PaidInv, Threads, InStep
<1>3. CASE Limiter!Attempt(Caller)
  <2>1. ~Limiter!QuotaSpent
    BY <1>1, <1>3 DEF Limiter!Attempt
  <2>2. CASE Limiter!Granted(Caller)
    BY <1>2, <2>2 DEF Limiter!Granted, Limiter!Return, Waiting
  <2>3. CASE Limiter!TryEmpty
    <3>1. /\ tokens' = 0 /\ day_start' = today /\ today' = today /\ config' = config
          /\ daily_requests_used' = Limiter!UsedAfterCheck
      BY <1>3, <2>3, LimiterTypes
      DEF Limiter!Attempt, Limiter!clockVars, Limiter!TryEmpty, Limiter!DayAfterCheck,
          Limiter!Greater, DayInv
    <3>2. today \in Int
      BY LimiterTypes
    <3>3. Limiter!QuotaSpent' <=> Limiter!QuotaSpent
      BY <3>1, <3>2 DEF Limiter!QuotaSpent, Limiter!UsedAfterCheck
    <3>4. QED
      BY <2>1, <3>1, <3>3 DEF Waiting
  <2>4. QED
    BY <1>3, <2>1, <2>2, <2>3 DEF Limiter!Attempt, Limiter!Refused, Limiter!TryQuotaRefused
<1>4. CASE Limiter!TimeOut(Caller)
  BY <1>2, <1>4 DEF Limiter!TimeOut, Limiter!Return, Waiting
<1>5. CASE Limiter!NapUntil(Caller) \/ Limiter!WakeUp(Caller)
  <2>1. /\ pc[Caller] \in {"check", "nap_forever", "nap_until"}
        /\ UNCHANGED <<tokens, config, today, day_start, daily_requests_used>>
    BY <1>5 DEF Limiter!NapUntil, Limiter!WakeUp, Limiter!limiterVars, Limiter!clockVars
  <2>2. Limiter!QuotaSpent' <=> Limiter!QuotaSpent
    BY <2>1 DEF Limiter!QuotaSpent, Limiter!UsedAfterCheck
  <2>3. QED
    BY <1>1, <2>1, <2>2 DEF Waiting
<1>6. QED
  BY <1>1, <1>3, <1>4, <1>5 DEF Limiter!Continue

LEMMA WaitingStep ==
  ASSUME ClockSetBack = FALSE, PaidInv, Pace!TypeOK, DayInv, Waiting, [Next]_vars
  PROVE  Waiting'
<1>1. CASE QuotaLeft
  <2>1. /\ UNCHANGED <<tokens, config, today, day_start, daily_requests_used>>
        /\ Limiter!DailyRequestsRemaining > 0
        /\ \E where \in {"try_forever", "try_until"} : pc' = [pc EXCEPT ![Caller] = where]
    BY <1>1 DEF QuotaLeft, Limiter!CallAcquire, Limiter!CallAcquireFor, Limiter!Enter,
                Limiter!limiterVars, Limiter!clockVars
  <2>2. pc'[Caller] \in {"try_forever", "try_until"}
    BY <2>1 DEF PaidInv, Threads
  <2>3. ~Limiter!QuotaSpent
    BY <2>1, LimiterTypes DEF Limiter!DailyRequestsRemaining, Limiter!QuotaSpent,
                              Limiter!UsedAfterCheck, Limiter!Greater
  <2>4. ~Limiter!QuotaSpent'
    BY <2>1, <2>3 DEF Limiter!QuotaSpent, Limiter!UsedAfterCheck
  <2>5. QED
    BY <2>2, <2>4 DEF Waiting
<1>2. CASE Acquiring
  BY <1>2, AcquiringWaits
<1>3. CASE Clocks
  <2>1. /\ UNCHANGED <<step, pc, tokens, config, day_start, daily_requests_used>>
        /\ today' \in {today, today + 1}
    BY <1>3 DEF Clocks, looping, Limiter!Clocks, Limiter!Tick, Limiter!MidnightPasses,
         Limiter!ClockStepsBack, Limiter!SetDay, Limiter!limiterVars, Limiter!threadVars
  <2>2. Limiter!QuotaSpent' => Limiter!QuotaSpent
    BY <2>1, LimiterTypes DEF Limiter!QuotaSpent, Limiter!UsedAfterCheck
  <2>3. QED
    BY <2>1, <2>2 DEF Waiting
<1>4. CASE UNCHANGED pacing
  <2>1. Limiter!QuotaSpent' <=> Limiter!QuotaSpent
    BY <1>4 DEF pacing, Limiter!QuotaSpent, Limiter!UsedAfterCheck
  <2>2. step' = "acquire" => step = "acquire" \/ pc[Caller] = "idle"
    BY DEF PaidInv, InStep
  <2>3. QED
    BY <1>4, <2>1, <2>2 DEF pacing, Waiting
<1>5. QED
  BY <1>1, <1>2, <1>3, <1>4
  DEF Next, vars, DoGet, QuotaGone, AcquireFailed, AcquireSucceeded, Send, Receive,
      Awake, Finish

\* do_get sleeps in the limiter for want of a token and never for the next day.
THEOREM NeverSleepsForTheQuota == ClockSetBack = FALSE /\ Spec => []SleepsForATokenOnly
<1> SUFFICES ASSUME ClockSetBack = FALSE PROVE Spec => []SleepsForATokenOnly
  OBVIOUS
<1>1. Init => Waiting
  BY DEF Init, Waiting
<1>2. PaidInv /\ Pace!TypeOK /\ DayInv /\ Waiting /\ [Next]_vars => Waiting'
  BY WaitingStep
<1>3. PaidInv /\ Waiting => SleepsForATokenOnly
  BY DEF PaidInv, InStep, Waiting, SleepsForATokenOnly
<1>4. Spec => []DayInv
  BY AlwaysDayInv
<1>5. QED
  BY <1>1, <1>2, <1>3, <1>4, AlwaysTyped, PaidInitially, PaidStep, PTL DEF Spec
----------------------------------------------------------------------------
(* The retry loop inside do_get.                                              *)

\* The proofs about with_retry, read for the loop of do_get.
Retrying == INSTANCE RetryProofs

LEMMA SameRetries ==
  /\ Loop!Init <=> Retrying!Init
  /\ Loop!Call <=> Retrying!Call
  /\ Loop!Awake <=> Retrying!Awake
  /\ \A outcome : Loop!Operated(outcome) <=> Retrying!Operated(outcome)
  /\ Loop!Outcome = Retrying!Outcome
<1>1. /\ Loop!Init <=> Retrying!Init
      /\ Loop!Call <=> Retrying!Call
      /\ Loop!Awake <=> Retrying!Awake
  BY DEF Loop!Init, Retrying!Init, Loop!Call, Retrying!Call, Loop!Awake, Retrying!Awake, Loop!LoopHead,
         Retrying!LoopHead, Loop!Exhausted, Retrying!Exhausted, Loop!Error, Retrying!Error
<1>2. ASSUME NEW n PROVE Loop!RetryDelays(n) = Retrying!RetryDelays(n)
  BY DEF Loop!RetryDelays, Retrying!RetryDelays, Loop!Backoff, Retrying!Backoff,
         Loop!Hundred, Retrying!Hundred, Loop!Multiplier, Retrying!Multiplier,
         Loop!MaximumDelay, Retrying!MaximumDelay, Loop!Spread, Retrying!Spread,
         Loop!Greater, Retrying!Greater, Loop!Lesser, Retrying!Lesser,
         Loop!Clamp, Retrying!Clamp
<1>3. ASSUME NEW outcome PROVE Loop!GoesOn(outcome) <=> Retrying!GoesOn(outcome)
  BY DEF Loop!GoesOn, Retrying!GoesOn, Loop!ShouldRetry, Retrying!ShouldRetry,
         Loop!ShouldRetryResponse, Retrying!ShouldRetryResponse,
         Loop!ShouldRetryError, Retrying!ShouldRetryError
<1>4. ASSUME NEW history, NEW item
      PROVE  Loop!Recorded(history, item) = Retrying!Recorded(history, item)
  BY DEF Loop!Recorded, Retrying!Recorded
<1>5. \A outcome : Loop!Operated(outcome) <=> Retrying!Operated(outcome)
  BY <1>2, <1>3, <1>4 DEF Loop!Operated, Retrying!Operated
<1>6. Loop!Outcome = Retrying!Outcome
  BY DEF Loop!Outcome, Retrying!Outcome, Loop!Response, Retrying!Response,
         Loop!Error, Retrying!Error
<1>7. QED
  BY <1>1, <1>5, <1>6

\* What do_get does to the loop is what a call of with_retry may do.
LEMMA LoopRefined == Spec => Retrying!Spec
<1>1. Init => Retrying!Init
  BY SameRetries DEF Init
<1>2. ASSUME NEW outcome \in Loop!Outcome, Finish(outcome) PROVE Retrying!Next
  BY <1>2, SameRetries DEF Finish, Retrying!Next
<1>3. [Next]_vars => [Retrying!Next]_(Retrying!vars)
  <2> SUFFICES ASSUME [Next]_vars PROVE Retrying!Next \/ UNCHANGED Retrying!vars
    OBVIOUS
  <2>1. CASE UNCHANGED looping
    BY <2>1 DEF looping, Retrying!vars
  <2>2. CASE DoGet \/ Awake
    BY <2>2, SameRetries DEF DoGet, Awake, Retrying!Next
  <2>3. CASE QuotaGone \/ AcquireFailed
    <3>1. /\ Loop!Error("QuotaExceeded") \in Loop!Outcome
          /\ Loop!Error("RateLimited") \in Loop!Outcome
      BY DEF Loop!Outcome, ErrorCodes, LimitErrors
    <3>2. QED
      BY <1>2, <2>3, <3>1 DEF QuotaGone, AcquireFailed
  <2>4. CASE Receive
    <3>1. /\ \A status \in Statuses : Loop!Response(status) \in Loop!Outcome
          /\ \A code \in HttpErrors : Loop!Error(code) \in Loop!Outcome
      BY DEF Loop!Outcome, ErrorCodes
    <3>2. QED
      BY <1>2, <2>4, <3>1 DEF Receive
  <2>5. QED
    BY <2>1, <2>2, <2>3, <2>4
    DEF Next, vars, QuotaLeft, Acquiring, AcquireSucceeded, Send, Clocks
<1>4. QED
  BY <1>1, <1>3, PTL DEF Spec, Retrying!Spec

LEMMA RetryingAssumption == Retrying!RetryAssumption
BY LoopAssumption
   DEF Retrying!RetryAssumption, Loop!RetryAssumption, Loop!Policy, Retrying!Policy

\* The sleep has an end only while it lasts.
Sleeping == phase # "sleep" => waking = 0

LEMMA SleepingStep == Sleeping /\ [Next]_vars => Sleeping'
<1> SUFFICES ASSUME Sleeping, [Next]_vars PROVE Sleeping'
  OBVIOUS
<1>1. CASE DoGet
  BY <1>1, LoopSteps DEF DoGet, Sleeping
<1>2. CASE waking' = 0
  BY <1>2 DEF Sleeping
<1>3. CASE \E outcome : Finish(outcome)
  BY <1>3 DEF Finish, Sleeping
<1>4. CASE UNCHANGED <<phase, waking>>
  BY <1>4 DEF Sleeping
<1>5. QED
  BY <1>1, <1>2, <1>3, <1>4
  DEF Next, vars, QuotaGone, QuotaLeft, Acquiring, AcquireFailed, AcquireSucceeded,
      Send, Receive, Awake, Clocks, looping

\* Types, with what ties the parts of a client together: it is inside the
\* operation exactly when the retry loop runs it, a sleep has an end only while
\* it lasts, and no request is dated later than now.
THEOREM ClientTyped == Spec => []TypeOK
<1>1. Retrying!Spec => []Retrying!TypeOK
  BY RetryingAssumption, Retrying!RetryTyped
<1>2. Init => Sleeping
  BY DEF Init, Sleeping
<1>3. PaidInv /\ Sleeping /\ Pace!TypeOK /\ Retrying!TypeOK => TypeOK
  <2> SUFFICES ASSUME PaidInv, Sleeping, Pace!TypeOK, Retrying!TypeOK PROVE TypeOK
    OBVIOUS
  <2>1. fetches \in Seq(0..now)
    <3>1. /\ now \in Nat /\ fetches \in Seq(Nat)
          /\ \A i \in 1..Len(fetches) : fetches[i] \in 0..now
      BY DEF PaidInv, Histories
    <3>2. QED
      BY <3>1
  <2>2. Limiter!TypeOK
    BY DEF Pace!TypeOK, Limiter!TypeOK, Pace!Config, Limiter!Config, Pace!Day, Limiter!Day
  <2>3. Loop!TypeOK
    BY SameRetries DEF Retrying!TypeOK, Loop!TypeOK, Loop!Error, Retrying!Error, Loop!Exhausted,
           Retrying!Exhausted
  <2>4. QED
    BY <2>1, <2>2, <2>3 DEF TypeOK, PaidInv, InStep, Sleeping
<1>4. QED
  BY <1>1, <1>2, <1>3, AlwaysTyped, PaidInitially, PaidStep, SleepingStep, LoopRefined,
     PTL DEF Spec

\* do_get keeps to the discipline of with_retry and to its delays, for it is a
\* refinement of that loop: the quota check, the limiter and the transfer that
\* it puts inside change nothing of it.
THEOREM DoGetIsTheRetryLoop ==
  Spec => Retrying!Spec /\ []Retrying!RetryDisciplined /\ []Retrying!BackoffInBand
<1>1. Retrying!Spec => []Retrying!RetryDisciplined
  BY RetryingAssumption, Retrying!RetriesAreDisciplined
<1>2. Retrying!Spec => []Retrying!BackoffInBand
  BY RetryingAssumption, Retrying!DelaysKeepTheBand
<1>3. QED
  BY <1>1, <1>2, LoopRefined, PTL
----------------------------------------------------------------------------
(* Sequences that are put one after the other.  The induction is over sets of *)
(* sequences, as in module RetryProofs over sets of numbers.                  *)

\* FlattenSeq is the last of the sums of the first few.
LEMMA FlattenUnfolds ==
  ASSUME NEW S, NEW seqs \in Seq(Seq(S)), NEW sum \in [0..Len(seqs) -> Seq(S)],
         sum[0] = << >>, \A i \in 1..Len(seqs) : sum[i] = sum[i - 1] \o seqs[i]
  PROVE  FlattenSeq(seqs) = sum[Len(seqs)]
<1> DEFINE n == Len(seqs)
           Body(f) == [i \in 1..n |-> IF i = 1 THEN seqs[i] ELSE f[i - 1] \o seqs[i]]
           flatten == CHOOSE f : f = Body(f)
           f == [i \in 1..n |-> sum[i]]
           T == {k \in 0..n : k > 0 => flatten[k] = sum[k]}
<1>1. n \in Nat /\ seqs \in [1..n -> Seq(S)]
  BY LenProperties
<1>2. n > 0 => FlattenSeq(seqs) = flatten[n]
  BY DEF FlattenSeq
<1>3. n = 0 => FlattenSeq(seqs) = << >>
  BY DEF FlattenSeq
<1>4. /\ sum \in [0..n -> Seq(S)] /\ sum[0] = << >>
      /\ \A i \in 1..n : sum[i] = sum[i - 1] \o seqs[i]
  OBVIOUS
<1> HIDE DEF n
<1>5. n > 0 => sum[1] = seqs[1]
  <2> SUFFICES ASSUME n > 0 PROVE sum[1] = seqs[1]
    OBVIOUS
  <2>1. 1 \in 1..n /\ 1 - 1 = 0
    BY <1>1
  <2>2. seqs[1] \in Seq(S)
    BY <1>1, <2>1
  <2>3. sum[1] = << >> \o seqs[1]
    BY <1>4, <2>1
  <2>4. QED
    BY <2>2, <2>3, ConcatEmptySeq
<1>6. f = Body(f)
  <2>1. ASSUME NEW i \in 1..n PROVE f[i] = IF i = 1 THEN seqs[i] ELSE f[i - 1] \o seqs[i]
    <3>1. i # 1 => i - 1 \in 1..n
      BY <1>1
    <3>2. n > 0
      BY <1>1
    <3>3. QED
      BY <1>4, <1>5, <3>1, <3>2
  <2>2. QED
    BY <2>1
<1>7. flatten = Body(flatten)
  BY <1>6
<1> HIDE DEF flatten, f
<1>8. \A i \in 1..n : flatten[i] = IF i = 1 THEN seqs[i] ELSE flatten[i - 1] \o seqs[i]
  BY <1>7
<1> HIDE DEF Body
<1>9. 0 \in T
  BY <1>1
<1>10. ASSUME NEW k \in 0..n, k < n /\ k \in T PROVE k + 1 \in T
  <2>1. k + 1 \in 1..n /\ (k + 1) - 1 = k
    BY <1>1, <1>10
  <2>2. sum[k + 1] = sum[k] \o seqs[k + 1]
    BY <1>4, <2>1
  <2>3. CASE k = 0
    BY <1>1, <1>5, <1>8, <2>1, <2>3
  <2>4. CASE k > 0
    <3>1. k + 1 # 1
      BY <1>1, <2>4
    <3>2. flatten[k + 1] = flatten[k] \o seqs[k + 1]
      BY <1>8, <2>1, <3>1
    <3>3. flatten[k] = sum[k]
      BY <1>10, <2>4
    <3>4. flatten[k + 1] = sum[k + 1]
      BY <2>2, <3>2, <3>3
    <3>5. QED
      BY <2>1, <3>4
  <2>5. QED
    BY <2>3, <2>4
<1> HIDE DEF T
<1>11. 0..n \subseteq T
  BY <1>1, <1>9, <1>10, RetryingAssumption, Retrying!InductionUpTo
<1>12. n \in T
  BY <1>1, <1>11
<1>13. QED
  BY <1>1, <1>2, <1>3, <1>4, <1>12 DEF T, n

\* The sums there are.
LEMMA FlattenSums ==
  ASSUME NEW S, NEW seqs \in Seq(Seq(S))
  PROVE  \E sum \in [0..Len(seqs) -> Seq(S)] :
            /\ sum[0] = << >>
            /\ \A i \in 1..Len(seqs) : sum[i] = sum[i - 1] \o seqs[i]
<1> DEFINE n == Len(seqs)
           adding == [i \in 1..n |-> [s \in Seq(S) |-> s \o seqs[i]]]
<1>1. n \in Nat /\ seqs \in [1..n -> Seq(S)]
  BY LenProperties
<1> HIDE DEF n
<1>2. adding \in [1..n -> [Seq(S) -> Seq(S)]]
  <2>1. ASSUME NEW i \in 1..n, NEW s \in Seq(S) PROVE s \o seqs[i] \in Seq(S)
    <3>1. seqs[i] \in Seq(S)
      BY <1>1
    <3>2. QED
      BY <3>1, ConcatProperties
  <2>2. QED
    BY <2>1
<1>3. << >> \in Seq(S)
  OBVIOUS
<1>4. Retrying!Recursion(Seq(S))
  BY RetryingAssumption, Retrying!RecursionOver
<1> HIDE DEF adding
<1>5. PICK sum \in [0..n -> Seq(S)] :
         sum[0] = << >> /\ \A i \in 1..n : sum[i] = adding[i][sum[i - 1]]
  BY <1>1, <1>2, <1>3, <1>4 DEF Retrying!Recursion
<1>6. ASSUME NEW i \in 1..n PROVE sum[i] = sum[i - 1] \o seqs[i]
  <2>1. i - 1 \in 0..n
    BY <1>1
  <2>2. sum[i - 1] \in Seq(S) /\ sum[i] = adding[i][sum[i - 1]]
    BY <1>5, <2>1
  <2>3. QED
    BY <2>2 DEF adding
<1>7. QED
  BY <1>5, <1>6 DEF n

\* The sequences of a set, one after the other, are a sequence of it.
LEMMA FlattenType ==
  ASSUME NEW S, NEW seqs \in Seq(Seq(S))
  PROVE  FlattenSeq(seqs) \in Seq(S)
<1>1. PICK sum \in [0..Len(seqs) -> Seq(S)] :
         sum[0] = << >> /\ \A i \in 1..Len(seqs) : sum[i] = sum[i - 1] \o seqs[i]
  BY FlattenSums
<1>2. FlattenSeq(seqs) = sum[Len(seqs)]
  BY <1>1, FlattenUnfolds
<1>3. Len(seqs) \in 0..Len(seqs)
  BY LenProperties
<1>4. QED
  BY <1>1, <1>2, <1>3

\* Of no sequences, nothing.
LEMMA FlattenEmpty == FlattenSeq(<< >>) = << >>
BY DEF FlattenSeq

\* One sequence more comes at the end.
LEMMA FlattenAppend ==
  ASSUME NEW S, NEW seqs \in Seq(Seq(S)), NEW last \in Seq(S)
  PROVE  FlattenSeq(Append(seqs, last)) = FlattenSeq(seqs) \o last
<1> DEFINE n == Len(seqs)
           more == Append(seqs, last)
<1>1. /\ n \in Nat /\ seqs \in [1..n -> Seq(S)]
      /\ more \in Seq(Seq(S)) /\ Len(more) = n + 1
      /\ \A i \in 1..n : more[i] = seqs[i]
      /\ more[n + 1] = last
  BY LenProperties, AppendProperties
<1>2. PICK sum \in [0..Len(more) -> Seq(S)] :
         sum[0] = << >> /\ \A i \in 1..Len(more) : sum[i] = sum[i - 1] \o more[i]
  BY <1>1, FlattenSums
<1> DEFINE less == [i \in 0..n |-> sum[i]]
<1>3. FlattenSeq(more) = sum[n + 1]
  <2>1. FlattenSeq(more) = sum[Len(more)]
    BY <1>1, <1>2, FlattenUnfolds
  <2>2. QED
    BY <1>1, <2>1
<1>4. FlattenSeq(seqs) = less[n]
  <2> HIDE DEF more
  <2>1. less \in [0..n -> Seq(S)] /\ less[0] = << >>
    BY <1>1, <1>2
  <2>2. ASSUME NEW i \in 1..n PROVE less[i] = less[i - 1] \o seqs[i]
    <3>1. i \in 1..Len(more) /\ i \in 0..n /\ i - 1 \in 0..n
      BY <1>1
    <3>2. sum[i] = sum[i - 1] \o more[i] /\ more[i] = seqs[i]
      BY <1>1, <1>2, <3>1
    <3>3. QED
      BY <3>1, <3>2
  <2> HIDE DEF less
  <2>3. QED
    BY <2>1, <2>2, FlattenUnfolds
<1>5. sum[n + 1] = sum[n] \o last
  <2> HIDE DEF more, n
  <2>1. n + 1 \in 1..Len(more) /\ (n + 1) - 1 = n
    BY <1>1
  <2>2. QED
    BY <1>1, <1>2, <2>1
<1>6. less[n] = sum[n]
  BY <1>1
<1>7. QED
  BY <1>3, <1>4, <1>5, <1>6

\* Induction over the sequences of a set, over a set instead of a predicate.
LEMMA SequenceInduction ==
  ASSUME NEW S, NEW T, << >> \in T,
         \A s \in Seq(S) : \A x \in S : s \in T => Append(s, x) \in T
  PROVE  Seq(S) \subseteq T
<1> SUFFICES ASSUME NEW seq \in Seq(S) PROVE seq \in T
  OBVIOUS
<1> DEFINE top == Len(seq)
           N == {n \in 0..top : \A s \in Seq(S) : Len(s) = n => s \in T}
<1>1. top \in Nat
  BY LenProperties
<1> HIDE DEF top
<1>2. 0 \in N
  <2>1. \A s \in Seq(S) : Len(s) = 0 => s = << >>
    BY EmptySeq
  <2>2. QED
    BY <1>1, <2>1
<1>3. ASSUME NEW n \in 0..top, n < top /\ n \in N PROVE n + 1 \in N
  <2>1. ASSUME NEW s \in Seq(S), Len(s) = n + 1 PROVE s \in T
    <3>1. s # << >>
      BY <1>1, <2>1
    <3>2. PICK r \in Seq(S), x \in S : s = Append(r, x)
      BY <3>1, SequenceEmptyOrAppend
    <3>3. Len(r) \in Nat /\ Len(s) = Len(r) + 1
      BY <3>2, AppendProperties, LenProperties
    <3>4. Len(r) = n
      BY <1>1, <2>1, <3>3
    <3>5. QED
      BY <1>3, <3>2, <3>4
  <2>2. QED
    BY <1>1, <1>3, <2>1
<1> HIDE DEF N
<1>4. 0..top \subseteq N
  BY <1>1, <1>2, <1>3, RetryingAssumption, Retrying!InductionUpTo
<1>5. top \in N
  BY <1>1, <1>4
<1>6. QED
  BY <1>5 DEF N, top

\* What is appended comes at the end of the whole.
LEMMA ConcatAppend ==
  ASSUME NEW S, NEW s \in Seq(S), NEW t \in Seq(S), NEW x \in S
  PROVE  s \o Append(t, x) = Append(s \o t, x)
<1>1. /\ Append(t, x) = t \o <<x>> /\ <<x>> \in Seq(S) /\ s \o t \in Seq(S)
  BY AppendIsConcat, ConcatProperties
<1>2. Append(s \o t, x) = (s \o t) \o <<x>>
  BY <1>1, AppendIsConcat
<1>3. QED
  BY <1>1, <1>2, ConcatAssociative

\* Some sequences and then others.
LEMMA FlattenConcat ==
  ASSUME NEW S, NEW s \in Seq(Seq(S)), NEW t \in Seq(Seq(S))
  PROVE  FlattenSeq(s \o t) = FlattenSeq(s) \o FlattenSeq(t)
<1> DEFINE T == {r \in Seq(Seq(S)) : FlattenSeq(s \o r) = FlattenSeq(s) \o FlattenSeq(r)}
<1>1. << >> \in T
  <2>1. s \o << >> = s
    BY ConcatEmptySeq
  <2>2. FlattenSeq(s) \o << >> = FlattenSeq(s)
    BY ConcatEmptySeq, FlattenType
  <2>3. FlattenSeq(s \o << >>) = FlattenSeq(s) \o FlattenSeq(<< >>)
    BY <2>1, <2>2, FlattenEmpty
  <2>4. QED
    BY <2>3
<1>2. ASSUME NEW r \in Seq(Seq(S)), NEW x \in Seq(S), r \in T PROVE Append(r, x) \in T
  <2>1. /\ s \o Append(r, x) = Append(s \o r, x) /\ s \o r \in Seq(Seq(S))
        /\ Append(r, x) \in Seq(Seq(S))
    BY ConcatAppend, ConcatProperties, AppendProperties
  <2>2. FlattenSeq(s \o Append(r, x)) = FlattenSeq(s \o r) \o x
    BY <2>1, FlattenAppend
  <2>3. FlattenSeq(Append(r, x)) = FlattenSeq(r) \o x
    BY FlattenAppend
  <2>4. /\ FlattenSeq(s) \in Seq(S) /\ FlattenSeq(r) \in Seq(S)
        /\ FlattenSeq(s \o r) = FlattenSeq(s) \o FlattenSeq(r)
    BY <1>2, FlattenType
  <2>5. FlattenSeq(s) \o (FlattenSeq(r) \o x) = (FlattenSeq(s) \o FlattenSeq(r)) \o x
    BY <2>4, ConcatAssociative, SMTT(30)
  <2>6. FlattenSeq(s \o Append(r, x)) = FlattenSeq(s) \o FlattenSeq(Append(r, x))
    BY <2>2, <2>3, <2>4, <2>5, Zenon
  <2>7. QED
    BY <2>1, <2>6
<1> HIDE DEF T
<1>3. Seq(Seq(S)) \subseteq T
  BY <1>1, <1>2, SequenceInduction
<1>4. QED
  BY <1>3 DEF T

\* Of empty sequences, nothing.
LEMMA FlattenNothing ==
  ASSUME NEW S, NEW seqs \in Seq(Seq(S)), \A i \in 1..Len(seqs) : seqs[i] = << >>
  PROVE  FlattenSeq(seqs) = << >>
<1> DEFINE T == {r \in Seq(Seq(S)) :
                   (\A i \in 1..Len(r) : r[i] = << >>) => FlattenSeq(r) = << >>}
<1>1. << >> \in T
  BY FlattenEmpty
<1>2. ASSUME NEW r \in Seq(Seq(S)), NEW x \in Seq(S), r \in T PROVE Append(r, x) \in T
  <2> SUFFICES ASSUME \A i \in 1..Len(Append(r, x)) : Append(r, x)[i] = << >>
               PROVE  FlattenSeq(Append(r, x)) = << >>
    BY AppendProperties
  <2>1. /\ Len(Append(r, x)) = Len(r) + 1 /\ Len(r) \in Nat
        /\ \A i \in 1..Len(r) : Append(r, x)[i] = r[i]
        /\ Append(r, x)[Len(r) + 1] = x
    BY AppendProperties, LenProperties
  <2>2. x = << >> /\ \A i \in 1..Len(r) : r[i] = << >>
    BY <2>1
  <2>3. FlattenSeq(Append(r, x)) = FlattenSeq(r) \o x
    BY FlattenAppend
  <2>4. FlattenSeq(r) = << >>
    BY <1>2, <2>2
  <2>5. QED
    BY <2>2, <2>3, <2>4
<1> HIDE DEF T
<1>3. Seq(Seq(S)) \subseteq T
  BY <1>1, <1>2, SequenceInduction
<1>4. QED
  BY <1>3 DEF T

\* If all but one are empty, the one.
LEMMA FlattenOnly ==
  ASSUME NEW S, NEW seqs \in Seq(Seq(S)), NEW k \in 1..Len(seqs),
         \A i \in 1..Len(seqs) : i # k => seqs[i] = << >>
  PROVE  FlattenSeq(seqs) = seqs[k]
<1> DEFINE Only(r, j) == \A i \in 1..Len(r) : i # j => r[i] = << >>
           T == {r \in Seq(Seq(S)) :
                   \A j \in 1..Len(r) : Only(r, j) => FlattenSeq(r) = r[j]}
<1>1. << >> \in T
  OBVIOUS
<1>2. ASSUME NEW r \in Seq(Seq(S)), NEW x \in Seq(S), r \in T PROVE Append(r, x) \in T
  <2> DEFINE more == Append(r, x)
  <2>1. /\ more \in Seq(Seq(S)) /\ Len(more) = Len(r) + 1 /\ Len(r) \in Nat
        /\ \A i \in 1..Len(r) : more[i] = r[i]
        /\ more[Len(r) + 1] = x
    BY AppendProperties, LenProperties
  <2>2. FlattenSeq(more) = FlattenSeq(r) \o x /\ FlattenSeq(r) \in Seq(S)
    BY FlattenAppend, FlattenType
  <2> HIDE DEF more
  <2>3. ASSUME NEW j \in 1..Len(more), Only(more, j) PROVE FlattenSeq(more) = more[j]
    <3>1. CASE j = Len(r) + 1
      <4>1. ASSUME NEW i \in 1..Len(r) PROVE r[i] = << >>
        <5>1. i \in 1..Len(more) /\ i # j
          BY <2>1, <3>1
        <5>2. QED
          BY <2>1, <2>3, <5>1
      <4>2. FlattenSeq(r) = << >>
        BY <4>1, FlattenNothing
      <4>3. QED
        BY <2>1, <2>2, <3>1, <4>2, ConcatEmptySeq
    <3>2. CASE j # Len(r) + 1
      <4>1. j \in 1..Len(r)
        BY <2>1, <3>2
      <4>2. ASSUME NEW i \in 1..Len(r), i # j PROVE r[i] = << >>
        <5>1. i \in 1..Len(more)
          BY <2>1
        <5>2. QED
          BY <2>1, <2>3, <4>2, <5>1
      <4>3. x = << >>
        <5>1. Len(r) + 1 \in 1..Len(more)
          BY <2>1
        <5>2. QED
          BY <2>1, <2>3, <3>2, <5>1
      <4>4. FlattenSeq(r) = r[j]
        BY <1>2, <4>1, <4>2
      <4>5. QED
        BY <2>1, <2>2, <4>1, <4>3, <4>4, ConcatEmptySeq
    <3>3. QED
      BY <3>1, <3>2
  <2>4. QED
    BY <2>1, <2>3 DEF more
<1> HIDE DEF T
<1>3. Seq(Seq(S)) \subseteq T
  BY <1>1, <1>2, SequenceInduction
<1>4. QED
  BY <1>3 DEF T

\* Sequences of one each.
LEMMA FlattenSingles ==
  ASSUME NEW S, NEW seq \in Seq(S)
  PROVE  FlattenSeq([i \in DOMAIN seq |-> <<seq[i]>>]) = seq
<1> DEFINE Singles(r) == [i \in DOMAIN r |-> <<r[i]>>]
           T == {r \in Seq(S) : Singles(r) \in Seq(Seq(S)) /\ FlattenSeq(Singles(r)) = r}
<1>1. << >> \in T
  <2>1. Singles(<< >>) = << >>
    OBVIOUS
  <2>2. QED
    BY <2>1, FlattenEmpty
<1>2. ASSUME NEW r \in Seq(S), NEW x \in S, r \in T PROVE Append(r, x) \in T
  <2>1. /\ Append(r, x) \in Seq(S) /\ Len(Append(r, x)) = Len(r) + 1 /\ Len(r) \in Nat
        /\ \A i \in 1..Len(r) : Append(r, x)[i] = r[i]
        /\ Append(r, x)[Len(r) + 1] = x
    BY AppendProperties, LenProperties
  <2>2. <<x>> \in Seq(S) /\ Singles(r) \in Seq(Seq(S)) /\ Len(Singles(r)) = Len(r)
    BY <1>2
  <2>3. Singles(Append(r, x)) = Append(Singles(r), <<x>>)
    <3>1. Singles(Append(r, x)) \in Seq(Seq(S))
      BY <2>1
    <3>2. Append(Singles(r), <<x>>) \in Seq(Seq(S))
      BY <2>2
    <3>3. Len(Singles(Append(r, x))) = Len(Append(Singles(r), <<x>>))
      BY <2>1, <2>2
    <3>4. ASSUME NEW i \in 1..(Len(r) + 1)
          PROVE  Singles(Append(r, x))[i] = Append(Singles(r), <<x>>)[i]
      BY <2>1, <2>2
    <3>5. QED
      BY <2>1, <3>1, <3>2, <3>3, <3>4, SeqEqual
  <2>4. FlattenSeq(Singles(Append(r, x))) = r \o <<x>>
    BY <1>2, <2>2, <2>3, FlattenAppend
  <2>5. r \o <<x>> = Append(r, x)
    BY AppendIsConcat
  <2>6. Append(Singles(r), <<x>>) \in Seq(Seq(S))
    BY <2>2, AppendProperties
  <2>7. QED
    BY <2>1, <2>3, <2>4, <2>5, <2>6
<1> HIDE DEF T
<1>3. Seq(S) \subseteq T
  BY <1>1, <1>2, SequenceInduction
<1>4. QED
  BY <1>3 DEF T

----------------------------------------------------------------------------
(* Tokens split at a delimiter, and parts joined with one.                    *)

\* Where tokens are split, there is a first part, and a token goes to the last.
PartsOf(T) == Seq(Seq(T)) \ {<< >>}

\* A token more leaves them parts.
LEMMA ExtendedType ==
  ASSUME NEW T, NEW parts \in PartsOf(T), NEW token \in T, NEW c
  PROVE  Extended(parts, token, c) \in PartsOf(T)
<1>1. parts \in Seq(Seq(T)) /\ Len(parts) \in Nat \ {0} /\ parts \in [1..Len(parts) -> Seq(T)]
  BY EmptySeq, LenProperties DEF PartsOf
<1>2. Append(parts, << >>) \in PartsOf(T)
  <2>1. ASSUME NEW part \in Seq(T) PROVE Append(parts, part) \in PartsOf(T)
    BY <1>1, AppendProperties DEF PartsOf
  <2>2. << >> \in Seq(T)
    OBVIOUS
  <2>3. QED
    BY <2>1, <2>2
<1>3. [parts EXCEPT ![Len(parts)] = Append(@, token)] \in PartsOf(T)
  <2>1. Len(parts) \in 1..Len(parts) /\ parts[Len(parts)] \in Seq(T)
    BY <1>1
  <2>2. Append(parts[Len(parts)], token) \in Seq(T)
    BY <2>1, AppendProperties
  <2>3. /\ [parts EXCEPT ![Len(parts)] = Append(@, token)] \in Seq(Seq(T))
        /\ Len([parts EXCEPT ![Len(parts)] = Append(@, token)]) = Len(parts)
    BY <1>1, <2>1, <2>2, ExceptSeq
  <2>4. QED
    BY <1>1, <2>3 DEF PartsOf
<1>4. QED
  BY <1>2, <1>3 DEF Extended

\* The parts of the first few tokens, one token after the other.
AreParts(parts, T, string, c) ==
  /\ parts \in [0..Len(string) -> PartsOf(T)]
  /\ parts[0] = << << >> >>
  /\ \A i \in 1..Len(string) : parts[i] = Extended(parts[i - 1], string[i], c)

\* There are such parts, for any tokens.
LEMMA PartsThere ==
  ASSUME NEW T, NEW string \in Seq(T), NEW c
  PROVE  \E parts : AreParts(parts, T, string, c)
<1> DEFINE n == Len(string)
           extending == [i \in 1..n |-> [p \in PartsOf(T) |-> Extended(p, string[i], c)]]
<1>1. n \in Nat /\ string \in [1..n -> T]
  BY LenProperties
<1> HIDE DEF n
<1>2. extending \in [1..n -> [PartsOf(T) -> PartsOf(T)]]
  <2>1. ASSUME NEW i \in 1..n, NEW p \in PartsOf(T)
        PROVE  Extended(p, string[i], c) \in PartsOf(T)
    BY <1>1, ExtendedType
  <2>2. QED
    BY <2>1
<1>3. << << >> >> \in PartsOf(T)
  BY DEF PartsOf
<1>4. Retrying!Recursion(PartsOf(T))
  BY RetryingAssumption, Retrying!RecursionOver
<1> HIDE DEF extending
<1>5. PICK parts \in [0..n -> PartsOf(T)] :
         parts[0] = << << >> >> /\ \A i \in 1..n : parts[i] = extending[i][parts[i - 1]]
  BY <1>1, <1>2, <1>3, <1>4 DEF Retrying!Recursion
<1>6. ASSUME NEW i \in 1..n PROVE parts[i] = Extended(parts[i - 1], string[i], c)
  <2>1. i - 1 \in 0..n
    BY <1>1
  <2>2. parts[i - 1] \in PartsOf(T) /\ parts[i] = extending[i][parts[i - 1]]
    BY <1>5, <2>1
  <2>3. QED
    BY <2>2 DEF extending
<1>7. QED
  BY <1>5, <1>6 DEF n, AreParts

\* Split is the last of them.
LEMMA SplitUnfolds ==
  ASSUME NEW T, NEW string \in Seq(T), NEW c, NEW parts, AreParts(parts, T, string, c)
  PROVE  Split(string, c) = parts[Len(string)]
<1> DEFINE n == Len(string)
           Body(f) == [i \in 0..n |-> IF i = 0 THEN << << >> >>
                                      ELSE Extended(f[i - 1], string[i], c)]
           all == CHOOSE f : f = Body(f)
           N == {i \in 0..n : all[i] = parts[i]}
<1>1. n \in Nat
  BY LenProperties
<1>2. Split(string, c) = all[n]
  BY DEF Split
<1>3. /\ parts \in [0..n -> PartsOf(T)] /\ parts[0] = << << >> >>
      /\ \A i \in 1..n : parts[i] = Extended(parts[i - 1], string[i], c)
  BY DEF AreParts
<1> HIDE DEF n
<1>4. parts = Body(parts)
  <2>1. ASSUME NEW i \in 0..n
        PROVE  parts[i] = IF i = 0 THEN << << >> >> ELSE Extended(parts[i - 1], string[i], c)
    <3>1. i # 0 => i \in 1..n
      BY <1>1
    <3>2. QED
      BY <1>3, <3>1
  <2>2. QED
    BY <1>3, <2>1
<1>5. all = Body(all)
  BY <1>4
<1> HIDE DEF all
<1>6. \A i \in 0..n : all[i] = IF i = 0 THEN << << >> >>
                               ELSE Extended(all[i - 1], string[i], c)
  BY <1>5
<1> HIDE DEF Body
<1>7. 0 \in N
  BY <1>1, <1>3, <1>6
<1>8. ASSUME NEW i \in 0..n, i < n /\ i \in N PROVE i + 1 \in N
  <2>1. i + 1 \in 1..n /\ i + 1 \in 0..n /\ (i + 1) - 1 = i /\ i + 1 # 0
    BY <1>1, <1>8
  <2>2. parts[i + 1] = Extended(parts[i], string[i + 1], c)
    BY <1>3, <2>1
  <2>3. all[i + 1] = Extended(all[i], string[i + 1], c)
    BY <1>6, <2>1
  <2>4. QED
    BY <1>8, <2>1, <2>2, <2>3
<1> HIDE DEF N
<1>9. 0..n \subseteq N
  BY <1>1, <1>7, <1>8, RetryingAssumption, Retrying!InductionUpTo
<1>10. n \in N
  BY <1>1, <1>9
<1>11. QED
  BY <1>2, <1>10 DEF N, n

\* What is split of tokens is parts of them.
LEMMA SplitType ==
  ASSUME NEW T, NEW string \in Seq(T), NEW c
  PROVE  Split(string, c) \in PartsOf(T)
<1>1. PICK parts : AreParts(parts, T, string, c)
  BY PartsThere
<1>2. Split(string, c) = parts[Len(string)]
  BY <1>1, SplitUnfolds
<1>3. Len(string) \in 0..Len(string)
  BY LenProperties
<1>4. QED
  BY <1>1, <1>2, <1>3 DEF AreParts

\* No tokens are one part, which is empty.
LEMMA SplitEmpty ==
  ASSUME NEW c
  PROVE  Split(<< >>, c) = << << >> >>
<1>1. << >> \in Seq({}) /\ Len(<< >>) = 0
  OBVIOUS
<1>2. PICK parts : AreParts(parts, {}, << >>, c)
  BY <1>1, PartsThere
<1>3. Split(<< >>, c) = parts[0]
  BY <1>1, <1>2, SplitUnfolds
<1>4. QED
  BY <1>2, <1>3 DEF AreParts

\* A token more extends the parts.
LEMMA SplitAppend ==
  ASSUME NEW T, NEW string \in Seq(T), NEW token \in T, NEW c
  PROVE  Split(Append(string, token), c) = Extended(Split(string, c), token, c)
<1> DEFINE n == Len(string)
           more == Append(string, token)
<1>1. /\ n \in Nat /\ more \in Seq(T) /\ Len(more) = n + 1
      /\ \A i \in 1..n : more[i] = string[i]
      /\ more[n + 1] = token
  BY LenProperties, AppendProperties
<1>2. PICK parts : AreParts(parts, T, more, c)
  BY <1>1, PartsThere
<1> DEFINE less == [i \in 0..n |-> parts[i]]
<1>3. Split(more, c) = parts[n + 1]
  <2>1. Split(more, c) = parts[Len(more)]
    BY <1>1, <1>2, SplitUnfolds
  <2>2. QED
    BY <1>1, <2>1
<1>4. Split(string, c) = less[n]
  <2> HIDE DEF more
  <2>1. less \in [0..n -> PartsOf(T)] /\ less[0] = << << >> >>
    BY <1>1, <1>2 DEF AreParts
  <2>2. ASSUME NEW i \in 1..n PROVE less[i] = Extended(less[i - 1], string[i], c)
    <3>1. i \in 1..Len(more) /\ i \in 0..n /\ i - 1 \in 0..n
      BY <1>1
    <3>2. parts[i] = Extended(parts[i - 1], more[i], c) /\ more[i] = string[i]
      BY <1>1, <1>2, <3>1 DEF AreParts
    <3>3. QED
      BY <3>1, <3>2
  <2> HIDE DEF less
  <2>3. AreParts(less, T, string, c)
    BY <2>1, <2>2 DEF AreParts
  <2>4. QED
    BY <2>3, SplitUnfolds
<1>5. parts[n + 1] = Extended(parts[n], token, c)
  <2> HIDE DEF more, n
  <2>1. n + 1 \in 1..Len(more) /\ (n + 1) - 1 = n
    BY <1>1
  <2>2. QED
    BY <1>1, <1>2, <2>1 DEF AreParts
<1>6. less[n] = parts[n]
  BY <1>1
<1>7. QED
  BY <1>3, <1>4, <1>5, <1>6

\* Tokens that are no delimiter are one part.
LEMMA SplitWhole ==
  ASSUME NEW T, NEW c, NEW string \in Seq(T \ {Raw(c)})
  PROVE  Split(string, c) = <<string>>
<1> DEFINE U == T \ {Raw(c)}
           N == {s \in Seq(U) : Split(s, c) = <<s>>}
<1>1. << >> \in N
  BY SplitEmpty
<1>2. ASSUME NEW s \in Seq(U), NEW x \in U, s \in N PROVE Append(s, x) \in N
  <2>1. Split(Append(s, x), c) = Extended(<<s>>, x, c)
    BY <1>2, SplitAppend
  <2>2. Extended(<<s>>, x, c) = [<<s>> EXCEPT ![1] = Append(@, x)]
    BY DEF Extended
  <2>3. [<<s>> EXCEPT ![1] = Append(@, x)] = <<Append(s, x)>>
    OBVIOUS
  <2>4. Append(s, x) \in Seq(U)
    BY AppendProperties
  <2>5. QED
    BY <2>1, <2>2, <2>3, <2>4
<1> HIDE DEF N
<1>3. Seq(U) \subseteq N
  BY <1>1, <1>2, SequenceInduction
<1>4. QED
  BY <1>3 DEF N

\* Only the last part is looked at.
LEMMA ExtendedConcat ==
  ASSUME NEW T, NEW before \in PartsOf(T), NEW parts \in PartsOf(T), NEW token \in T, NEW c
  PROVE  Extended(before \o parts, token, c) = before \o Extended(parts, token, c)
<1> DEFINE m == Len(before)
           n == Len(parts)
           both == before \o parts
<1>1. /\ before \in Seq(Seq(T)) /\ parts \in Seq(Seq(T)) /\ m \in Nat /\ n \in Nat \ {0}
      /\ both \in Seq(Seq(T)) /\ Len(both) = m + n
      /\ \A i \in 1..(m + n) : both[i] = IF i <= m THEN before[i] ELSE parts[i - m]
  BY EmptySeq, LenProperties, ConcatProperties DEF PartsOf
<1>2. CASE token = Raw(c)
  <2>1. << >> \in Seq(T)
    OBVIOUS
  <2>2. before \o Append(parts, << >>) = Append(both, << >>)
    BY <1>1, <2>1, ConcatAppend
  <2>3. QED
    BY <1>2, <2>2 DEF Extended
<1>3. CASE token # Raw(c)
  <2> DEFINE e == Append(parts[n], token)
             left == [both EXCEPT ![m + n] = e]
             right == [parts EXCEPT ![n] = e]
  <2>1. parts[n] \in Seq(T) /\ both[m + n] = parts[n] /\ n \in 1..n /\ m + n \in 1..(m + n)
    BY <1>1
  <2>2. e \in Seq(T)
    BY <2>1, AppendProperties
  <2>3. Extended(both, token, c) = left
    BY <1>1, <1>3, <2>1 DEF Extended
  <2>4. Extended(parts, token, c) = right
    BY <1>3 DEF Extended
  <2> HIDE DEF e, both, m, n
  <2>5. /\ left \in Seq(Seq(T)) /\ Len(left) = m + n
        /\ \A i \in 1..(m + n) : left[i] = IF i = m + n THEN e ELSE both[i]
    BY <1>1, <2>1, <2>2, ExceptSeq
  <2>6. /\ right \in Seq(Seq(T)) /\ Len(right) = n
        /\ \A i \in 1..n : right[i] = IF i = n THEN e ELSE parts[i]
    BY <1>1, <2>1, <2>2, ExceptSeq DEF n
  <2> HIDE DEF left, right
  <2>7. /\ before \o right \in Seq(Seq(T)) /\ Len(before \o right) = m + n
        /\ \A i \in 1..(m + n) : (before \o right)[i] = IF i <= m THEN before[i] ELSE right[i - m]
    BY <1>1, <2>6, ConcatProperties DEF m
  <2>8. ASSUME NEW i \in 1..(m + n) PROVE left[i] = (before \o right)[i]
    <3>1. CASE i <= m
      <4>1. i # m + n
        BY <1>1, <3>1
      <4>2. both[i] = before[i]
        BY <1>1, <3>1
      <4>3. QED
        BY <2>5, <2>7, <3>1, <4>1, <4>2
    <3>2. CASE i > m
      <4>1. i - m \in 1..n /\ (i = m + n <=> i - m = n) /\ ~(i <= m)
        BY <1>1, <3>2
      <4>2. both[i] = parts[i - m]
        BY <1>1, <4>1
      <4>3. left[i] = IF i - m = n THEN e ELSE parts[i - m]
        BY <2>5, <4>1, <4>2
      <4>4. right[i - m] = IF i - m = n THEN e ELSE parts[i - m]
        BY <2>6, <4>1
      <4>5. QED
        BY <2>7, <4>1, <4>3, <4>4
    <3>3. i <= m \/ i > m
      BY <1>1
    <3>4. QED
      BY <3>1, <3>2, <3>3, Zenon
  <2>9. left = before \o right
    BY <2>5, <2>7, <2>8, SeqEqual
  <2>10. QED
    BY <2>3, <2>4, <2>9 DEF both
<1>4. QED
  BY <1>2, <1>3

\* A delimiter ends one part and begins another.
LEMMA SplitAround ==
  ASSUME NEW T, NEW s \in Seq(T), NEW t \in Seq(T), NEW c, Raw(c) \in T
  PROVE  Split(s \o (<<Raw(c)>> \o t), c) = Split(s, c) \o Split(t, c)
<1> DEFINE Around(r) == s \o (<<Raw(c)>> \o r)
           N == {r \in Seq(T) : /\ Around(r) \in Seq(T)
                                 /\ Split(Around(r), c) = Split(s, c) \o Split(r, c)}
<1>1. Split(s, c) \in PartsOf(T) /\ Split(s, c) \in Seq(Seq(T)) /\ <<Raw(c)>> \in Seq(T)
  BY SplitType DEF PartsOf
<1>2. << >> \in N
  <2>1. Around(<< >>) = Append(s, Raw(c))
    <3>1. <<Raw(c)>> \o << >> = <<Raw(c)>>
      BY <1>1, ConcatEmptySeq
    <3>2. s \o <<Raw(c)>> = Append(s, Raw(c))
      BY AppendIsConcat
    <3>3. QED
      BY <3>1, <3>2
  <2>2. Split(Append(s, Raw(c)), c) = Append(Split(s, c), << >>)
    BY SplitAppend DEF Extended
  <2>3. << >> \in Seq(T) /\ << >> \in Seq(T)
    OBVIOUS
  <2>4. Append(Split(s, c), << >>) = Split(s, c) \o << << >> >>
    BY <1>1, <2>3, AppendIsConcat
  <2>5. Append(s, Raw(c)) \in Seq(T)
    BY AppendProperties
  <2>6. QED
    BY <2>1, <2>2, <2>3, <2>4, <2>5, SplitEmpty
<1>3. ASSUME NEW r \in Seq(T), NEW x \in T, r \in N PROVE Append(r, x) \in N
  <2>1. Around(Append(r, x)) = Append(Around(r), x)
    <3>1. <<Raw(c)>> \o Append(r, x) = Append(<<Raw(c)>> \o r, x) /\ <<Raw(c)>> \o r \in Seq(T)
      BY <1>1, ConcatAppend, ConcatProperties
    <3>2. QED
      BY <3>1, ConcatAppend
  <2>2. Around(r) \in Seq(T) /\ Split(Around(r), c) = Split(s, c) \o Split(r, c)
    BY <1>3
  <2> HIDE DEF Around
  <2>3. Split(Append(Around(r), x), c) = Extended(Split(s, c) \o Split(r, c), x, c)
    BY <2>2, SplitAppend
  <2>4. Split(r, c) \in PartsOf(T)
    BY SplitType
  <2>5. Extended(Split(s, c) \o Split(r, c), x, c) = Split(s, c) \o Extended(Split(r, c), x, c)
    BY <1>1, <2>4, ExtendedConcat
  <2>6. Split(Append(r, x), c) = Extended(Split(r, c), x, c)
    BY SplitAppend
  <2>7. Append(Around(r), x) \in Seq(T) /\ Append(r, x) \in Seq(T)
    BY <2>2, AppendProperties
  <2>8. QED
    BY <2>1, <2>3, <2>5, <2>6, <2>7
<1> HIDE DEF N
<1>4. Seq(T) \subseteq N
  BY <1>2, <1>3, SequenceInduction
<1>5. QED
  BY <1>4 DEF N

\* A sequence of parts, with a delimiter between any two.
Separator(k, c) == IF k = 1 THEN << >> ELSE <<Raw(c)>>

Between(parts, c) == [k \in DOMAIN parts |-> Separator(k, c) \o parts[k]]

\* The parts with their separators are sequences of the same tokens.
LEMMA BetweenType ==
  ASSUME NEW T, NEW parts \in Seq(Seq(T)), NEW c, Raw(c) \in T
  PROVE  /\ Between(parts, c) \in Seq(Seq(T)) /\ Len(Between(parts, c)) = Len(parts)
         /\ \A k \in 1..Len(parts) : Between(parts, c)[k] = Separator(k, c) \o parts[k]
<1>1. Len(parts) \in Nat /\ parts \in [1..Len(parts) -> Seq(T)] /\ DOMAIN parts = 1..Len(parts)
  BY LenProperties
<1>2. ASSUME NEW k \in 1..Len(parts)
      PROVE  Separator(k, c) \o parts[k] \in Seq(T)
  <2>1. << >> \in Seq(T) /\ <<Raw(c)>> \in Seq(T) /\ parts[k] \in Seq(T)
    BY <1>1
  <2>2. Separator(k, c) \in Seq(T)
    BY <2>1 DEF Separator
  <2>3. QED
    BY <2>1, <2>2, ConcatProperties
<1>3. QED
  BY <1>1, <1>2 DEF Between

\* What is joined is made of the tokens of the parts, and of the separator.
LEMMA JoinedType ==
  ASSUME NEW T, NEW parts \in Seq(Seq(T)), NEW c, Raw(c) \in T
  PROVE  Joined(parts, c) \in Seq(T)
BY BetweenType, FlattenType DEF Joined, Between, Separator

\* One part more comes after a separator, unless it is the first.
LEMMA JoinedAppend ==
  ASSUME NEW T, NEW parts \in Seq(Seq(T)), NEW last \in Seq(T), NEW c, Raw(c) \in T
  PROVE  Joined(Append(parts, last), c)
           = IF parts = << >> THEN last ELSE Joined(parts, c) \o (<<Raw(c)>> \o last)
<1> DEFINE n == Len(parts)
           more == Append(parts, last)
           final == (IF n = 0 THEN << >> ELSE <<Raw(c)>>) \o last
<1>1. /\ n \in Nat /\ more \in Seq(Seq(T)) /\ Len(more) = n + 1
      /\ \A i \in 1..n : more[i] = parts[i]
      /\ more[n + 1] = last
      /\ n = 0 <=> parts = << >>
  BY LenProperties, AppendProperties, EmptySeq
<1>2. final \in Seq(T)
  <2>1. << >> \in Seq(T) /\ <<Raw(c)>> \in Seq(T)
    OBVIOUS
  <2>2. QED
    BY <2>1, ConcatProperties
<1> HIDE DEF n, more, final
<1>3. Between(more, c) = Append(Between(parts, c), final)
  <2>1. /\ Between(more, c) \in Seq(Seq(T)) /\ Len(Between(more, c)) = n + 1
        /\ \A k \in 1..(n + 1) : Between(more, c)[k] = Separator(k, c) \o more[k]
    <3>1. /\ Between(more, c) \in Seq(Seq(T)) /\ Len(Between(more, c)) = Len(more)
          /\ \A k \in 1..Len(more) : Between(more, c)[k] = Separator(k, c) \o more[k]
      <4>1. more \in Seq(Seq(T))
        BY <1>1
      <4>2. QED
        BY <4>1, BetweenType
    <3>2. QED
      BY <1>1, <3>1
  <2>2. /\ Between(parts, c) \in Seq(Seq(T)) /\ Len(Between(parts, c)) = n
        /\ \A k \in 1..n : Between(parts, c)[k] = Separator(k, c) \o parts[k]
    BY BetweenType DEF n
  <2>3. /\ Append(Between(parts, c), final) \in Seq(Seq(T))
        /\ Len(Append(Between(parts, c), final)) = n + 1
        /\ \A k \in 1..n : Append(Between(parts, c), final)[k] = Between(parts, c)[k]
        /\ Append(Between(parts, c), final)[n + 1] = final
    BY <1>2, <2>2, AppendProperties
  <2>4. ASSUME NEW k \in 1..(n + 1)
        PROVE  Between(more, c)[k] = Append(Between(parts, c), final)[k]
    <3>1. CASE k \in 1..n
      BY <1>1, <2>1, <2>2, <2>3, <3>1
    <3>2. CASE k = n + 1
      <4>1. (n + 1 = 1) <=> n = 0
        BY <1>1
      <4>2. QED
        BY <1>1, <2>1, <2>3, <3>2, <4>1 DEF final, Separator
    <3>3. k \in 1..n \/ k = n + 1
      BY <1>1
    <3>4. QED
      BY <3>1, <3>2, <3>3
  <2>5. QED
    BY <2>1, <2>3, <2>4, SeqEqual
<1>4. Joined(more, c) = Joined(parts, c) \o final
  <2>1. Joined(more, c) = FlattenSeq(Between(more, c))
        /\ Joined(parts, c) = FlattenSeq(Between(parts, c))
    BY DEF Joined, Between, Separator
  <2>2. Between(parts, c) \in Seq(Seq(T))
    BY BetweenType
  <2>3. QED
    BY <1>2, <1>3, <2>1, <2>2, FlattenAppend
<1>5. CASE parts = << >>
  <2>1. Joined(parts, c) = << >>
    BY <1>5, FlattenEmpty DEF Joined
  <2>2. << >> \in Seq(T) /\ final = << >> \o last
    BY <1>1, <1>5 DEF final
  <2>3. << >> \o last = last
    BY ConcatEmptySeq
  <2>4. QED
    BY <1>4, <1>5, <2>1, <2>2, <2>3 DEF more
<1>6. CASE parts # << >>
  BY <1>1, <1>4, <1>6 DEF final, more
<1>7. QED
  BY <1>5, <1>6

\* What was joined is read again: parts without the delimiter.
LEMMA SplitJoined ==
  ASSUME NEW T, NEW c, NEW parts \in Seq(Seq(T \ {Raw(c)})), Raw(c) \in T, parts # << >>
  PROVE  Split(Joined(parts, c), c) = parts
<1> DEFINE U == T \ {Raw(c)}
           N == {ps \in Seq(Seq(U)) : ps # << >> => Split(Joined(ps, c), c) = ps}
<1>1. << >> \in N
  OBVIOUS
<1>2. ASSUME NEW ps \in Seq(Seq(U)), NEW p \in Seq(U), ps \in N PROVE Append(ps, p) \in N
  <2>1. /\ p \in Seq(T) /\ ps \in Seq(Seq(T))
    <3>1. Seq(U) \subseteq Seq(T)
      BY SeqMonotonic
    <3>2. QED
      BY <3>1, SeqMonotonic
  <2>2. Split(p, c) = <<p>>
    BY SplitWhole
  <2>3. Append(ps, p) \in Seq(Seq(U))
    BY AppendProperties
  <2>4. CASE ps = << >>
    <3>1. Joined(Append(ps, p), c) = p
      BY <2>1, <2>4, JoinedAppend
    <3>2. Append(ps, p) = <<p>>
      BY <2>4
    <3>3. QED
      BY <2>2, <2>3, <3>1, <3>2
  <2>5. CASE ps # << >>
    <3>1. Joined(Append(ps, p), c) = Joined(ps, c) \o (<<Raw(c)>> \o p)
      BY <2>1, <2>5, JoinedAppend
    <3>2. Joined(ps, c) \in Seq(T)
      BY <2>1, JoinedType
    <3>3. Split(Joined(ps, c) \o (<<Raw(c)>> \o p), c) = Split(Joined(ps, c), c) \o Split(p, c)
      BY <2>1, <3>2, SplitAround
    <3>4. Split(Joined(ps, c), c) = ps
      BY <1>2, <2>5
    <3>5. ps \o <<p>> = Append(ps, p)
      BY AppendIsConcat
    <3>6. QED
      BY <2>2, <2>3, <3>1, <3>3, <3>4, <3>5
  <2>6. QED
    BY <2>4, <2>5
<1> HIDE DEF N
<1>3. Seq(Seq(U)) \subseteq N
  BY <1>1, <1>2, SequenceInduction
<1>4. QED
  BY <1>3 DEF N

----------------------------------------------------------------------------
(* What a server reads of a text and of a pair.                               *)

\* What URLs are made of, and which tokens come where.
Keys == ToSet(CDOListKeys) \cup ToSet(GetDataKeys) \cup ToSet(DataRequestKeys)
Words == Characters \cup Delimiters \cup Keys
Tokens == {"raw", "escaped"} \X Words
PathTokens == Tokens \ {Raw("?")}
PairTokens == Tokens \ {Raw("?"), Raw("&")}
ValueTokens == Tokens \ {Raw("?"), Raw("&"), Raw("=")}
TextTokens == Tokens \ {Raw(d) : d \in Delimiters}

\* Raw characters are told apart.
LEMMA RawIsInjective ==
  ASSUME NEW c, NEW d
  PROVE  Raw(c) = Raw(d) <=> c = d
BY DEF Raw

\* One and another are a pair.
LEMMA TwoAreAPair ==
  ASSUME NEW S, NEW x \in S, NEW y \in S
  PROVE  <<x>> \o <<y>> = <<x, y>>
<1> DEFINE one   == <<x>>
           other == <<y>>
           both  == <<x, y>>
<1>1. /\ one \in Seq(S) /\ Len(one) = 1 /\ one[1] = x
      /\ other \in Seq(S) /\ Len(other) = 1 /\ other[1] = y
      /\ both \in Seq(S) /\ Len(both) = 2 /\ both[1] = x /\ both[2] = y
  OBVIOUS
<1> HIDE DEF one, other, both
<1>2. /\ one \o other \in Seq(S) /\ Len(one \o other) = 2
      /\ \A i \in 1..2 : (one \o other)[i] = IF i <= 1 THEN one[i] ELSE other[i - 1]
  BY <1>1, ConcatProperties
<1>3. (one \o other)[1] = x /\ (one \o other)[2] = y
  BY <1>1, <1>2
<1>4. ASSUME NEW i \in 1..2 PROVE (one \o other)[i] = both[i]
  <2>1. i = 1 \/ i = 2
    OBVIOUS
  <2>2. QED
    BY <1>1, <1>3, <2>1
<1>5. one \o other = both
  BY <1>1, <1>2, <1>4, SeqEqual
<1>6. QED
  BY <1>5 DEF one, other, both

\* One delimiter makes two parts.
LEMMA SplitOnce ==
  ASSUME NEW T, NEW c, NEW s \in Seq(T \ {Raw(c)}), NEW t \in Seq(T \ {Raw(c)}), Raw(c) \in T
  PROVE  Split(s \o (<<Raw(c)>> \o t), c) = <<s, t>>
<1>1. s \in Seq(T) /\ t \in Seq(T)
  <2>1. T \ {Raw(c)} \subseteq T
    OBVIOUS
  <2>2. QED
    BY <2>1, SeqMonotonic
<1>2. Split(s, c) = <<s>> /\ Split(t, c) = <<t>>
  BY SplitWhole
<1>3. Split(s \o (<<Raw(c)>> \o t), c) = Split(s, c) \o Split(t, c)
  BY <1>1, SplitAround
<1>4. <<s>> \o <<t>> = <<s, t>>
  BY <1>1, TwoAreAPair
<1>5. QED
  BY <1>2, <1>3, <1>4

\* No key is in a struct twice, and none is a delimiter.
LEMMA KeysAreApart ==
  /\ DOMAIN CDOListKeys = 1..12
  /\ \A i \in 1..12 : CDOListKeys[i] \notin Delimiters
  /\ \A i, j \in 1..12 : CDOListKeys[i] = CDOListKeys[j] => i = j
  /\ DOMAIN GetDataKeys = 1..12
  /\ \A i \in 1..12 : GetDataKeys[i] \notin Delimiters
  /\ \A i, j \in 1..12 : GetDataKeys[i] = GetDataKeys[j] => i = j
  /\ DOMAIN DataRequestKeys = 1..11
  /\ \A i \in 1..11 : DataRequestKeys[i] \notin Delimiters
  /\ \A i, j \in 1..11 : DataRequestKeys[i] = DataRequestKeys[j] => i = j
BY DEF CDOListKeys, GetDataKeys, DataRequestKeys, Delimiters

\* So it is with all of them.
LEMMA KeysAreNoDelimiters == Keys \cap Delimiters = {}
BY KeysAreApart DEF Keys, ToSet

\* A raw word is a token.
LEMMA RawTokens ==
  ASSUME NEW word \in Words
  PROVE  Raw(word) \in Tokens
BY DEF Raw, Tokens

\* Which of the sets of tokens are in which.
LEMMA TokenSets ==
  /\ TextTokens \subseteq ValueTokens /\ ValueTokens \subseteq PairTokens
  /\ PairTokens \subseteq PathTokens /\ PathTokens \subseteq Tokens
  /\ \A d \in Delimiters : Raw(d) \in Tokens
  /\ \A key \in Keys : Raw(key) \in ValueTokens
<1>1. \A d \in Delimiters : Raw(d) \in Tokens
  BY RawTokens DEF Words
<1>2. ASSUME NEW key \in Keys PROVE Raw(key) \in ValueTokens
  <2>1. key \notin Delimiters
    BY KeysAreNoDelimiters
  <2>2. key # "?" /\ key # "&" /\ key # "="
    BY <2>1 DEF Delimiters
  <2>3. QED
    BY <2>2, RawTokens, RawIsInjective DEF ValueTokens, Words
<1>3. TextTokens \subseteq ValueTokens
  BY DEF TextTokens, ValueTokens, Delimiters
<1>4. QED
  BY <1>1, <1>2, <1>3 DEF ValueTokens, PairTokens, PathTokens

\* A text is read as it was, and none of its characters as a delimiter.
LEMMA EncodeReads ==
  ASSUME NEW text \in Text
  PROVE  Encode(text) \in Seq(TextTokens) /\ Decoded(Encode(text)) = text
<1>1. Len(text) \in Nat /\ text \in [1..Len(text) -> Characters]
  BY LenProperties DEF Text
<1>2. ASSUME NEW c \in Characters
      PROVE  <<IF c \in Unreserved THEN "raw" ELSE "escaped", c>> \in TextTokens
  <2>1. <<IF c \in Unreserved THEN "raw" ELSE "escaped", c>> \in Tokens
    BY DEF Tokens, Words
  <2>2. ASSUME NEW d \in Delimiters
        PROVE  <<IF c \in Unreserved THEN "raw" ELSE "escaped", c>> # Raw(d)
    BY RequestsAssumption DEF Raw
  <2>3. QED
    BY <2>1, <2>2 DEF TextTokens
<1>3. Encode(text) \in [1..Len(text) -> TextTokens]
  BY <1>1, <1>2 DEF Encode
<1>4. \A k \in 1..Len(text) : Encode(text)[k][2] = text[k]
  BY <1>1 DEF Encode
<1>5. DOMAIN Encode(text) = 1..Len(text)
  BY <1>3
<1>6. Decoded(Encode(text)) = text
  BY <1>1, <1>4, <1>5 DEF Decoded
<1>7. QED
  BY <1>1, <1>3, <1>6

\* So is a text that is written as it is and has no delimiter in it.
LEMMA PlainReads ==
  ASSUME NEW text \in PlainText
  PROVE  Plain(text) \in Seq(TextTokens) /\ Decoded(Plain(text)) = text
<1>1. Len(text) \in Nat /\ text \in [1..Len(text) -> Characters \ Delimiters]
  BY LenProperties DEF PlainText
<1>2. ASSUME NEW c \in Characters \ Delimiters PROVE Raw(c) \in TextTokens
  <2>1. Raw(c) \in Tokens
    BY RawTokens DEF Words
  <2>2. ASSUME NEW d \in Delimiters PROVE Raw(c) # Raw(d)
    BY RawIsInjective
  <2>3. QED
    BY <2>1, <2>2 DEF TextTokens
<1>3. Plain(text) \in [1..Len(text) -> TextTokens]
  BY <1>1, <1>2 DEF Plain
<1>4. \A k \in 1..Len(text) : Plain(text)[k][2] = text[k]
  BY <1>1 DEF Plain, Raw
<1>5. DOMAIN Plain(text) = 1..Len(text)
  BY <1>3
<1>6. Decoded(Plain(text)) = text
  BY <1>1, <1>4, <1>5 DEF Decoded
<1>7. QED
  BY <1>1, <1>3, <1>6

\* A pair is read as its key and its value.
Pairs(key) == {Pair(key, value) : value \in Seq(ValueTokens)}
AllPairs == UNION {Pairs(key) : key \in Keys}

\* The first = of a pair is the one that was put there, and so its key and its
\* value are read.
LEMMA PairReads ==
  ASSUME NEW key \in Keys, NEW value \in Seq(ValueTokens)
  PROVE  /\ Pair(key, value) \in Seq(PairTokens)
         /\ KeyOf(Pair(key, value)) = <<key>>
         /\ ValuesOf(Pair(key, value)) = AllDecoded(Split(value, ","))
<1>1. Raw("=") \in PairTokens /\ Raw("=") \in Tokens
  <2>1. Raw("=") \in Tokens
    BY TokenSets DEF Delimiters
  <2>2. QED
    BY <2>1, RawIsInjective DEF PairTokens
<1>2. /\ Raw(key) \in PairTokens /\ <<Raw(key)>> \in Seq(ValueTokens)
      /\ value \in Seq(PairTokens)
  BY TokenSets, SeqMonotonic
<1>3. Pair(key, value) = <<Raw(key)>> \o (<<Raw("=")>> \o value)
  <2>1. <<Raw(key)>> \in Seq(PairTokens) /\ <<Raw("=")>> \in Seq(PairTokens)
    BY <1>1, <1>2
  <2>2. <<Raw(key), Raw("=")>> = <<Raw(key)>> \o <<Raw("=")>>
    BY <2>1
  <2>3. QED
    BY <1>2, <2>1, <2>2, ConcatAssociative DEF Pair
<1>4. Pair(key, value) \in Seq(PairTokens)
  <2>1. <<Raw(key), Raw("=")>> \in Seq(PairTokens)
    BY <1>1, <1>2
  <2>2. QED
    BY <1>2, <2>1, ConcatProperties DEF Pair
<1>5. Split(Pair(key, value), "=") = <<<<Raw(key)>>, value>>
  <2>1. ValueTokens \subseteq Tokens \ {Raw("=")}
    BY DEF ValueTokens
  <2>2. <<Raw(key)>> \in Seq(Tokens \ {Raw("=")}) /\ value \in Seq(Tokens \ {Raw("=")})
    BY <1>2, <2>1, SeqMonotonic
  <2>3. Split(<<Raw(key)>> \o (<<Raw("=")>> \o value), "=") = <<<<Raw(key)>>, value>>
    BY <1>1, <2>2, SplitOnce
  <2>4. QED
    BY <1>3, <2>3
<1>6. Decoded(<<Raw(key)>>) = <<key>>
  BY DEF Decoded, Raw
<1>7. KeyOf(Pair(key, value)) = <<key>>
  BY <1>5, <1>6 DEF KeyOf
<1>8. ValuesOf(Pair(key, value)) = AllDecoded(Split(value, ","))
  <2>1. Split(Pair(key, value), "=")[2] = value
    BY <1>5
  <2>2. QED
    BY <2>1 DEF ValuesOf
<1>9. QED
  BY <1>4, <1>7, <1>8

----------------------------------------------------------------------------
(* What it reads of a URL with its query.                                     *)

\* What is gathered of the members of a sequence, one after the other.
Maps(values, S, R) == values \in [S -> R]

Mapped(values, seq) == [k \in DOMAIN seq |-> values[seq[k]]]

Gathered(values, seq) == FlattenSeq(Mapped(values, seq))

\* As many as there are members.
LEMMA MappedType ==
  ASSUME NEW S, NEW R, NEW values, NEW seq \in Seq(S), Maps(values, S, R)
  PROVE  /\ Mapped(values, seq) \in Seq(R) /\ Len(Mapped(values, seq)) = Len(seq)
<1>1. Len(seq) \in Nat /\ seq \in [1..Len(seq) -> S]
  BY LenProperties
<1>2. Mapped(values, seq) \in [1..Len(seq) -> R]
  BY <1>1 DEF Mapped, Maps
<1>3. Mapped(values, seq) \in Seq(R) /\ Len(Mapped(values, seq)) = Len(seq)
  BY <1>1, <1>2
<1>4. QED
  BY <1>3

\* Of some members and then others.
LEMMA MappedConcat ==
  ASSUME NEW S, NEW R, NEW values, NEW s \in Seq(S), NEW t \in Seq(S), Maps(values, S, R)
  PROVE  Mapped(values, s \o t) = Mapped(values, s) \o Mapped(values, t)
<1> DEFINE m == Len(s)
           n == Len(t)
           st == s \o t
           ms == Mapped(values, s)
           mt == Mapped(values, t)
           mst == Mapped(values, st)
<1>1. /\ m \in Nat /\ n \in Nat /\ st \in Seq(S) /\ Len(st) = m + n
      /\ \A i \in 1..(m + n) : st[i] = IF i <= m THEN s[i] ELSE t[i - m]
  BY LenProperties, ConcatProperties
<1>2. /\ ms \in Seq(R) /\ Len(ms) = m /\ \A k \in 1..m : ms[k] = values[s[k]]
      /\ mt \in Seq(R) /\ Len(mt) = n /\ \A k \in 1..n : mt[k] = values[t[k]]
  <2>1. ms \in Seq(R) /\ Len(ms) = m
    <3>1. Maps(values, S, R) /\ s \in Seq(S)
      OBVIOUS
    <3>2. QED
      BY <3>1, MappedType
  <2>2. mt \in Seq(R) /\ Len(mt) = n
    <3>1. Maps(values, S, R) /\ t \in Seq(S)
      OBVIOUS
    <3>2. QED
      BY <3>1, MappedType
  <2>3. DOMAIN s = 1..m /\ DOMAIN t = 1..n
    BY LenProperties
  <2>4. QED
    BY <2>1, <2>3, <2>2 DEF Mapped
<1>3. mst \in Seq(R) /\ Len(mst) = m + n /\ \A k \in 1..(m + n) : mst[k] = values[st[k]]
  <2>1. mst \in Seq(R) /\ Len(mst) = Len(st)
    <3>1. Maps(values, S, R) /\ st \in Seq(S)
      BY <1>1
    <3> HIDE DEF st
    <3>2. QED
      BY <3>1, MappedType
  <2>2. DOMAIN st = 1..(m + n)
    BY <1>1, LenProperties
  <2>3. QED
    BY <1>1, <2>1, <2>2 DEF Mapped
<1> HIDE DEF m, n, st, ms, mt, mst
<1>4. /\ ms \o mt \in Seq(R) /\ Len(ms \o mt) = m + n
      /\ \A i \in 1..(m + n) : (ms \o mt)[i] = IF i <= m THEN ms[i] ELSE mt[i - m]
  <2>1. ms \in Seq(R) /\ Len(ms) = m /\ mt \in Seq(R) /\ Len(mt) = n
    BY <1>2
  <2>2. QED
    BY <2>1, ConcatProperties
<1>5. ASSUME NEW i \in 1..(m + n) PROVE mst[i] = (ms \o mt)[i]
  <2>1. mst[i] = values[st[i]]
    BY <1>3
  <2>2. CASE i <= m
    <3>1. i \in 1..m
      BY <1>1, <2>2
    <3>2. st[i] = s[i] /\ (ms \o mt)[i] = ms[i]
      BY <1>1, <1>4, <2>2
    <3>3. ms[i] = values[s[i]]
      BY <1>2, <3>1
    <3>4. QED
      BY <2>1, <3>2, <3>3
  <2>3. CASE ~(i <= m)
    <3>1. i - m \in 1..n
      BY <1>1, <2>3
    <3>2. st[i] = t[i - m] /\ (ms \o mt)[i] = mt[i - m]
      BY <1>1, <1>4, <2>3
    <3>3. mt[i - m] = values[t[i - m]]
      BY <1>2, <3>1
    <3>4. QED
      BY <2>1, <3>2, <3>3
  <2>4. QED
    BY <2>2, <2>3
<1>6. mst = ms \o mt
  BY <1>3, <1>4, <1>5, SeqEqual
<1>7. QED
  BY <1>6 DEF ms, mt, mst, st

\* What is gathered of sequences is a sequence.
LEMMA GatheredType ==
  ASSUME NEW S, NEW R, NEW values, NEW seq \in Seq(S), Maps(values, S, Seq(R))
  PROVE  Gathered(values, seq) \in Seq(R)
<1>1. Mapped(values, seq) \in Seq(Seq(R))
  BY MappedType
<1>2. QED
  BY <1>1, FlattenType DEF Gathered

\* Of no members, nothing.
LEMMA GatheredNothing ==
  ASSUME NEW values
  PROVE  Gathered(values, << >>) = << >>
<1>1. Mapped(values, << >>) = << >>
  BY DEF Mapped
<1>2. QED
  BY <1>1, FlattenEmpty DEF Gathered

\* Of one member, what it has.
LEMMA GatheredOne ==
  ASSUME NEW S, NEW R, NEW values, NEW x \in S, Maps(values, S, Seq(R))
  PROVE  Gathered(values, <<x>>) = values[x]
<1>1. Mapped(values, <<x>>) = <<values[x]>>
  BY DEF Mapped
<1>2. values[x] \in Seq(R)
  BY DEF Maps
<1>3. << >> \in Seq(Seq(R)) /\ Append(<< >>, values[x]) = <<values[x]>>
  OBVIOUS
<1>4. FlattenSeq(Append(<< >>, values[x])) = FlattenSeq(<< >>) \o values[x]
  BY <1>2, <1>3, FlattenAppend
<1>5. FlattenSeq(<<values[x]>>) = values[x]
  BY <1>2, <1>3, <1>4, FlattenEmpty, ConcatEmptySeq
<1>6. QED
  BY <1>1, <1>5 DEF Gathered

\* Of some members and then others.
LEMMA GatheredConcat ==
  ASSUME NEW S, NEW R, NEW values, NEW s \in Seq(S), NEW t \in Seq(S), Maps(values, S, Seq(R))
  PROVE  Gathered(values, s \o t) = Gathered(values, s) \o Gathered(values, t)
<1>1. Mapped(values, s) \in Seq(Seq(R)) /\ Mapped(values, t) \in Seq(Seq(R))
  BY MappedType
<1>2. Mapped(values, s \o t) = Mapped(values, s) \o Mapped(values, t)
  BY MappedConcat
<1>3. QED
  BY <1>1, <1>2, FlattenConcat DEF Gathered

\* It makes no difference whether one gathers of all or first of each.
Each(values, seqs) == [i \in DOMAIN seqs |-> Gathered(values, seqs[i])]

\* As many as there are sequences.
LEMMA EachType ==
  ASSUME NEW S, NEW R, NEW values, NEW seqs \in Seq(Seq(S)), Maps(values, S, Seq(R))
  PROVE  /\ Each(values, seqs) \in Seq(Seq(R)) /\ Len(Each(values, seqs)) = Len(seqs)
<1>1. Len(seqs) \in Nat /\ seqs \in [1..Len(seqs) -> Seq(S)]
  BY LenProperties
<1>2. ASSUME NEW i \in 1..Len(seqs) PROVE Gathered(values, seqs[i]) \in Seq(R)
  <2>1. seqs[i] \in Seq(S)
    BY <1>1
  <2>2. QED
    BY <2>1, GatheredType
<1>3. Each(values, seqs) \in [1..Len(seqs) -> Seq(R)]
  BY <1>1, <1>2 DEF Each
<1>4. Each(values, seqs) \in Seq(Seq(R)) /\ Len(Each(values, seqs)) = Len(seqs)
  BY <1>1, <1>3
<1>5. QED
  BY <1>4

\* Gathering commutes with putting the sequences one after the other.
LEMMA GatheredOfAll ==
  ASSUME NEW S, NEW R, NEW values, NEW seqs \in Seq(Seq(S)), Maps(values, S, Seq(R))
  PROVE  Gathered(values, FlattenSeq(seqs)) = FlattenSeq(Each(values, seqs))
<1> DEFINE N == {r \in Seq(Seq(S)) :
                   Gathered(values, FlattenSeq(r)) = FlattenSeq(Each(values, r))}
<1>1. << >> \in N
  <2>1. Each(values, << >>) = << >>
    BY DEF Each
  <2>2. << >> \in Seq(Seq(S))
    OBVIOUS
  <2>3. QED
    BY <2>1, <2>2, GatheredNothing, FlattenEmpty
<1>2. ASSUME NEW r \in Seq(Seq(S)), NEW x \in Seq(S), r \in N PROVE Append(r, x) \in N
  <2>1. /\ Append(r, x) \in Seq(Seq(S)) /\ Len(Append(r, x)) = Len(r) + 1 /\ Len(r) \in Nat
        /\ \A i \in 1..Len(r) : Append(r, x)[i] = r[i]
        /\ Append(r, x)[Len(r) + 1] = x
    BY AppendProperties, LenProperties
  <2>2. Gathered(values, x) \in Seq(R) /\ Each(values, r) \in Seq(Seq(R))
    BY GatheredType, EachType
  <2>3. Each(values, Append(r, x)) = Append(Each(values, r), Gathered(values, x))
    <3>1. Each(values, Append(r, x)) \in Seq(Seq(R)) /\ Len(Each(values, Append(r, x))) = Len(r) + 1
      <4> DEFINE more == Append(r, x)
      <4>1. Maps(values, S, Seq(R)) /\ more \in Seq(Seq(S)) /\ Len(more) = Len(r) + 1
        BY <2>1
      <4> HIDE DEF more
      <4>2. more \in Seq(Seq(S))
        BY <4>1
      <4>3. Each(values, more) \in Seq(Seq(R)) /\ Len(Each(values, more)) = Len(more)
        BY <4>2, EachType
      <4>4. QED
        BY <4>1, <4>3 DEF more
    <3>2. ASSUME NEW i \in 1..(Len(r) + 1)
          PROVE  Each(values, Append(r, x))[i] = Gathered(values, Append(r, x)[i])
      <4>1. DOMAIN Append(r, x) = 1..(Len(r) + 1)
        BY <2>1, LenProperties
      <4>2. QED
        BY <4>1 DEF Each
    <3>3. /\ Len(Each(values, r)) = Len(r)
          /\ \A i \in 1..Len(r) : Each(values, r)[i] = Gathered(values, r[i])
      <4>1. DOMAIN r = 1..Len(r)
        BY LenProperties
      <4>2. QED
        BY <4>1, EachType DEF Each
    <3>4. /\ Append(Each(values, r), Gathered(values, x)) \in Seq(Seq(R))
          /\ Len(Append(Each(values, r), Gathered(values, x))) = Len(r) + 1
          /\ \A i \in 1..Len(r) :
               Append(Each(values, r), Gathered(values, x))[i] = Each(values, r)[i]
          /\ Append(Each(values, r), Gathered(values, x))[Len(r) + 1] = Gathered(values, x)
      BY <2>2, <3>3, AppendProperties
    <3>5. ASSUME NEW i \in 1..(Len(r) + 1)
          PROVE  Each(values, Append(r, x))[i] = Append(Each(values, r), Gathered(values, x))[i]
      <4>1. i \in 1..Len(r) \/ i = Len(r) + 1
        BY <2>1
      <4>2. CASE i \in 1..Len(r)
        BY <2>1, <3>3, <3>4, <3>2, <4>2
      <4>3. CASE i = Len(r) + 1
        BY <2>1, <3>4, <3>2, <4>3
      <4>4. QED
        BY <4>1, <4>2, <4>3
    <3>6. QED
      BY <3>1, <3>4, <3>5, SeqEqual
  <2>4. FlattenSeq(Each(values, Append(r, x)))
          = FlattenSeq(Each(values, r)) \o Gathered(values, x)
    BY <2>2, <2>3, FlattenAppend
  <2>5. FlattenSeq(r) \in Seq(S) /\ FlattenSeq(Append(r, x)) = FlattenSeq(r) \o x
    BY FlattenType, FlattenAppend
  <2>6. Gathered(values, FlattenSeq(r) \o x)
          = Gathered(values, FlattenSeq(r)) \o Gathered(values, x)
    BY <2>5, GatheredConcat
  <2>7. Gathered(values, FlattenSeq(r)) = FlattenSeq(Each(values, r))
    BY <1>2
  <2>8. QED
    BY <2>1, <2>4, <2>5, <2>6, <2>7
<1> HIDE DEF N
<1>3. Seq(Seq(S)) \subseteq N
  BY <1>1, <1>2, SequenceInduction
<1>4. QED
  BY <1>3 DEF N

\* Sequences of a set are sequences of a greater one.
LEMMA SeqsMonotonic ==
  ASSUME NEW S, NEW T, S \subseteq T
  PROVE  Seq(S) \subseteq Seq(T) /\ Seq(Seq(S)) \subseteq Seq(Seq(T))
<1>1. Seq(S) \subseteq Seq(T)
  BY SeqMonotonic
<1>2. QED
  BY <1>1, SeqMonotonic

\* No pair has a ? or a & in it.
LEMMA AllPairsType == AllPairs \subseteq Seq(PairTokens)
<1> SUFFICES ASSUME NEW key \in Keys, NEW value \in Seq(ValueTokens)
             PROVE  Pair(key, value) \in Seq(PairTokens)
  BY DEF AllPairs, Pairs
<1>1. QED
  BY PairReads

\* The path and the pairs of a URL are read as they were put together.
LEMMA UrlReads ==
  ASSUME NEW T, NEW path \in Seq(T \ {Raw("?")}), NEW fields \in Seq(Seq(AllPairs))
  PROVE  /\ Split(Url(path, fields), "?")[1] = path
         /\ PairsRead(Url(path, fields)) = FlattenSeq(fields)
<1> DEFINE pairs == FlattenSeq(fields)
           joined == Joined(pairs, "&")
           url == Url(path, fields)
<1>1. pairs \in Seq(AllPairs)
  BY FlattenType
<1>2. CASE pairs = << >>
  <2>1. path \in Seq(T)
    <3>1. T \ {Raw("?")} \subseteq T
      OBVIOUS
    <3>2. QED
      BY <3>1, SeqMonotonic
  <2>2. url = path
    BY <1>2, <2>1, ConcatEmptySeq DEF Url
  <2>3. Split(url, "?") = <<path>>
    BY <2>2, SplitWhole
  <2>4. Len(Split(url, "?")) = 1 /\ Split(url, "?")[1] = path
    BY <2>3
  <2>5. QED
    BY <1>2, <2>4 DEF PairsRead
<1>3. CASE pairs # << >>
  <2> DEFINE U == T \cup Tokens
  <2>1. Raw("?") \in Tokens /\ Raw("&") \in Tokens
    BY TokenSets DEF Delimiters
  <2>2. pairs \in Seq(Seq(Tokens \ {Raw("&")})) /\ pairs \in Seq(Seq(PathTokens))
    <3>1. PairTokens \subseteq Tokens \ {Raw("&")} /\ PairTokens \subseteq PathTokens
      BY DEF PairTokens, PathTokens
    <3>2. AllPairs \subseteq Seq(Tokens \ {Raw("&")}) /\ AllPairs \subseteq Seq(PathTokens)
      BY <3>1, AllPairsType, SeqsMonotonic
    <3>3. QED
      BY <1>1, <3>2, SeqsMonotonic
  <2>3. Raw("&") \in PathTokens
    BY <2>1, RawIsInjective DEF PathTokens
  <2>4. joined \in Seq(PathTokens)
    BY <2>2, <2>3, JoinedType
  <2>5. path \in Seq(U \ {Raw("?")}) /\ joined \in Seq(U \ {Raw("?")}) /\ Raw("?") \in U
    <3>1. T \ {Raw("?")} \subseteq U \ {Raw("?")} /\ PathTokens \subseteq U \ {Raw("?")}
      BY DEF PathTokens
    <3>2. QED
      BY <2>1, <2>4, <3>1, SeqsMonotonic
  <2>6. Split(joined, "&") = pairs
    BY <1>3, <2>1, <2>2, SplitJoined
  <2>7. url = path \o (<<Raw("?")>> \o joined)
    BY <1>3 DEF Url
  <2> HIDE DEF url, U, joined, pairs
  <2>8. Split(path \o (<<Raw("?")>> \o joined), "?") = <<path, joined>>
    BY <2>5, SplitOnce
  <2>9. /\ Len(Split(url, "?")) # 1
        /\ Split(url, "?")[1] = path /\ Split(url, "?")[2] = joined
    <3>1. Split(url, "?") = <<path, joined>>
      BY <2>7, <2>8
    <3>2. QED
      BY <3>1
  <2>10. PairsRead(url) = Split(joined, "&")
    BY <2>9 DEF PairsRead
  <2>11. QED
    BY <2>6, <2>9, <2>10 DEF url, pairs
<1>4. QED
  BY <1>2, <1>3

----------------------------------------------------------------------------
(* What it reads of the fields of a struct.                                   *)

\* What is decoded of tokens is words.
LEMMA DecodedType ==
  ASSUME NEW string \in Seq(Tokens)
  PROVE  Decoded(string) \in Seq(Words)
<1>1. Len(string) \in Nat /\ string \in [1..Len(string) -> Tokens]
  BY LenProperties
<1>2. Decoded(string) \in [1..Len(string) -> Words]
  BY <1>1 DEF Decoded, Tokens
<1>3. QED
  BY <1>1, <1>2

\* So it is with parts of them.
LEMMA AllDecodedType ==
  ASSUME NEW parts \in Seq(Seq(Tokens))
  PROVE  AllDecoded(parts) \in Seq(Seq(Words))
<1> DEFINE n == Len(parts)
<1>1. n \in Nat /\ parts \in [1..n -> Seq(Tokens)]
  BY LenProperties
<1> HIDE DEF n
<1>2. ASSUME NEW k \in 1..n PROVE Decoded(parts[k]) \in Seq(Words)
  <2>1. parts[k] \in Seq(Tokens)
    BY <1>1
  <2>2. QED
    BY <2>1, DecodedType
<1>3. AllDecoded(parts) \in [1..n -> Seq(Words)]
  BY <1>1, <1>2 DEF AllDecoded
<1>4. QED
  BY <1>1, <1>3

\* What a server reads under a key in a pair.
ValuesUnder(key) ==
  [pair \in AllPairs |-> IF KeyOf(pair) = <<key>> THEN ValuesOf(pair) ELSE << >>]

\* The pairs of a key are pairs.
LEMMA PairsType ==
  ASSUME NEW key \in Keys
  PROVE  Pairs(key) \subseteq AllPairs
BY DEF AllPairs

\* What is read under a key is a sequence of texts.
LEMMA ValuesUnderType ==
  ASSUME NEW key
  PROVE  Maps(ValuesUnder(key), AllPairs, Seq(Seq(Words)))
<1>1. ASSUME NEW pair \in AllPairs PROVE ValuesOf(pair) \in Seq(Seq(Words))
  <2>1. PICK own \in Keys, value \in Seq(ValueTokens) : pair = Pair(own, value)
    BY DEF AllPairs, Pairs
  <2>2. ValuesOf(pair) = AllDecoded(Split(value, ","))
    BY <2>1, PairReads
  <2>3. value \in Seq(Tokens)
    <3>1. ValueTokens \subseteq Tokens
      BY DEF ValueTokens
    <3>2. QED
      BY <3>1, SeqMonotonic
  <2>4. Split(value, ",") \in Seq(Seq(Tokens))
    BY <2>3, SplitType DEF PartsOf
  <2>5. QED
    BY <2>2, <2>4, AllDecodedType
<1>2. << >> \in Seq(Seq(Words))
  OBVIOUS
<1>3. QED
  BY <1>1, <1>2 DEF Maps, ValuesUnder

\* Under its own key, the texts of a pair are read.
LEMMA ValuesUnderKey ==
  ASSUME NEW key \in Keys, NEW value \in Seq(ValueTokens)
  PROVE  ValuesUnder(key)[Pair(key, value)] = AllDecoded(Split(value, ","))
<1>1. Pair(key, value) \in AllPairs
  BY PairsType DEF Pairs
<1>2. QED
  BY <1>1, PairReads DEF ValuesUnder

\* Under another key, nothing is.
LEMMA ValuesUnderAnother ==
  ASSUME NEW key \in Keys, NEW pair \in Pairs(key), NEW other, other # key
  PROVE  ValuesUnder(other)[pair] = << >>
<1>1. PICK value \in Seq(ValueTokens) : pair = Pair(key, value)
  BY DEF Pairs
<1>2. pair \in AllPairs /\ KeyOf(pair) = <<key>>
  BY <1>1, PairsType, PairReads
<1>3. <<key>> # <<other>>
  OBVIOUS
<1>4. QED
  BY <1>2, <1>3 DEF ValuesUnder

\* A field of a struct is read as the values it holds.
Says(field, key, values) ==
  /\ field \in Seq(Pairs(key))
  /\ Gathered(ValuesUnder(key), field) = values

\* A field says nothing under the key of another.
LEMMA NothingElseSaid ==
  ASSUME NEW key \in Keys, NEW field \in Seq(Pairs(key)), NEW other, other # key
  PROVE  Gathered(ValuesUnder(other), field) = << >>
<1> DEFINE mapped == Mapped(ValuesUnder(other), field)
<1>1. field \in Seq(AllPairs)
  BY PairsType, SeqMonotonic
<1>2. mapped \in Seq(Seq(Seq(Words))) /\ Len(mapped) = Len(field)
  BY <1>1, ValuesUnderType, MappedType
<1>3. ASSUME NEW i \in 1..Len(mapped) PROVE mapped[i] = << >>
  <2>1. DOMAIN field = 1..Len(field) /\ field[i] \in Pairs(key)
    BY <1>2, LenProperties
  <2>2. ValuesUnder(other)[field[i]] = << >>
    BY <2>1, ValuesUnderAnother
  <2>3. QED
    BY <1>2, <2>1, <2>2 DEF Mapped
<1> HIDE DEF mapped
<1>4. FlattenSeq(mapped) = << >>
  BY <1>2, <1>3, FlattenNothing
<1>5. QED
  BY <1>4 DEF mapped, Gathered

\* What is written of a text is one value.
LEMMA ValueTokensOfText ==
  ASSUME NEW written \in Seq(TextTokens)
  PROVE  /\ written \in Seq(ValueTokens)
         /\ Split(written, ",") = <<written>>
<1>1. TextTokens \subseteq Tokens \ {Raw(",")}
  BY DEF TextTokens, Delimiters
<1>2. written \in Seq(Tokens \ {Raw(",")}) /\ written \in Seq(ValueTokens)
  BY <1>1, TokenSets, SeqMonotonic
<1>3. QED
  BY <1>2, SplitWhole

\* A field of one pair and one value says what the value was written of.
LEMMA OnePairSays ==
  ASSUME NEW key \in Keys, NEW written \in Seq(TextTokens)
  PROVE  Says(<<Pair(key, written)>>, key, <<Decoded(written)>>)
<1>1. written \in Seq(ValueTokens) /\ Split(written, ",") = <<written>>
  BY ValueTokensOfText
<1>2. Pair(key, written) \in Pairs(key) /\ Pair(key, written) \in AllPairs
  BY <1>1, PairsType DEF Pairs
<1>3. AllDecoded(<<written>>) = <<Decoded(written)>>
  BY DEF AllDecoded
<1>4. ValuesUnder(key)[Pair(key, written)] = <<Decoded(written)>>
  BY <1>1, <1>3, ValuesUnderKey
<1>5. Gathered(ValuesUnder(key), <<Pair(key, written)>>) = <<Decoded(written)>>
  BY <1>2, <1>4, ValuesUnderType, GatheredOne
<1>6. <<Pair(key, written)>> \in Seq(Pairs(key))
  BY <1>2
<1>7. QED
  BY <1>5, <1>6 DEF Says

\* An encoded field says its text.
LEMMA EncodedSays ==
  ASSUME NEW key \in Keys, NEW params, key \in DOMAIN params, params[key] \in Text
  PROVE  Says(Encoded(key, params), key, <<params[key]>>)
<1>1. Encode(params[key]) \in Seq(TextTokens) /\ Decoded(Encode(params[key])) = params[key]
  BY EncodeReads
<1>2. Says(<<Pair(key, Encode(params[key]))>>, key, <<params[key]>>)
  BY <1>1, OnePairSays
<1>3. QED
  BY <1>2 DEF Encoded

\* A field that is written as it is says its text.
LEMMA AsItIsSays ==
  ASSUME NEW key \in Keys, NEW params, key \in DOMAIN params, params[key] \in PlainText
  PROVE  Says(AsItIs(key, params), key, <<params[key]>>)
<1>1. Plain(params[key]) \in Seq(TextTokens) /\ Decoded(Plain(params[key])) = params[key]
  BY PlainReads
<1>2. Says(<<Pair(key, Plain(params[key]))>>, key, <<params[key]>>)
  BY <1>1, OnePairSays
<1>3. QED
  BY <1>2 DEF AsItIs

\* The texts of a list are read as they were.
LEMMA EncodedEachReads ==
  ASSUME NEW list \in Seq(Text)
  PROVE  /\ EncodedEach(list) \in Seq(Seq(TextTokens)) /\ Len(EncodedEach(list)) = Len(list)
         /\ AllDecoded(EncodedEach(list)) = list
<1>1. Len(list) \in Nat /\ list \in [1..Len(list) -> Text] /\ DOMAIN list = 1..Len(list)
  BY LenProperties
<1>2. ASSUME NEW k \in 1..Len(list)
      PROVE  Encode(list[k]) \in Seq(TextTokens) /\ Decoded(Encode(list[k])) = list[k]
  <2>1. list[k] \in Text
    BY <1>1
  <2>2. QED
    BY <2>1, EncodeReads
<1>3. EncodedEach(list) \in [1..Len(list) -> Seq(TextTokens)]
  BY <1>1, <1>2 DEF EncodedEach
<1>4. EncodedEach(list) \in Seq(Seq(TextTokens)) /\ Len(EncodedEach(list)) = Len(list)
  BY <1>1, <1>3
<1>5. DOMAIN EncodedEach(list) = 1..Len(list)
  BY <1>3
<1>6. AllDecoded(EncodedEach(list)) = [k \in 1..Len(list) |-> list[k]]
  BY <1>1, <1>2, <1>5 DEF AllDecoded, EncodedEach
<1>7. list = [k \in 1..Len(list) |-> list[k]]
  BY <1>1
<1>8. QED
  BY <1>4, <1>6, <1>7

\* A list with a pair for each of its texts says all of them in their order.
LEMMA OneByOneSays ==
  ASSUME NEW key \in Keys, NEW params, key \in DOMAIN params, params[key] \in Seq(Text)
  PROVE  Says(OneByOne(key, params), key, params[key])
<1> DEFINE list == params[key]
           each == EncodedEach(list)
           field == OneByOne(key, params)
<1>1. list \in Seq(Text) /\ Len(list) \in Nat /\ DOMAIN list = 1..Len(list)
  BY LenProperties
<1>2. each \in Seq(Seq(TextTokens)) /\ Len(each) = Len(list) /\ AllDecoded(each) = list
  BY <1>1, EncodedEachReads
<1>3. field = [k \in 1..Len(list) |-> Pair(key, each[k])]
  BY <1>1 DEF OneByOne
<1> HIDE DEF each, field, list
<1>4. ASSUME NEW k \in 1..Len(list)
      PROVE  /\ Pair(key, each[k]) \in Pairs(key)
             /\ ValuesUnder(key)[Pair(key, each[k])] = <<list[k]>>
  <2>1. each[k] \in Seq(TextTokens) /\ DOMAIN each = 1..Len(list)
    BY <1>2, LenProperties
  <2>2. each[k] \in Seq(ValueTokens) /\ Split(each[k], ",") = <<each[k]>>
    BY <2>1, ValueTokensOfText
  <2>3. AllDecoded(<<each[k]>>) = <<Decoded(each[k])>>
    BY DEF AllDecoded
  <2>4. Decoded(each[k]) = list[k]
    BY <1>2, <2>1 DEF AllDecoded
  <2>5. Pair(key, each[k]) \in Pairs(key)
    BY <2>2 DEF Pairs
  <2>6. QED
    BY <2>2, <2>3, <2>4, <2>5, ValuesUnderKey
<1>5. field \in Seq(Pairs(key)) /\ DOMAIN field = 1..Len(list)
  BY <1>1, <1>3, <1>4
<1>6. Mapped(ValuesUnder(key), field) = [k \in DOMAIN list |-> <<list[k]>>]
  BY <1>1, <1>3, <1>4, <1>5 DEF Mapped
<1>7. FlattenSeq([k \in DOMAIN list |-> <<list[k]>>]) = list
  BY <1>1, FlattenSingles
<1>8. Gathered(ValuesUnder(key), field) = list
  BY <1>6, <1>7 DEF Gathered
<1>9. QED
  BY <1>5, <1>8 DEF Says, field, list

\* A list in one pair says all of its texts in their order, as no comma of
\* theirs is left raw.
LEMMA ListedSays ==
  ASSUME NEW key \in Keys, NEW params, key \in DOMAIN params, params[key] \in Seq(Text)
  PROVE  Says(Listed(key, params), key, params[key])
<1> DEFINE list == params[key]
           each == EncodedEach(list)
           joined == Joined(each, ",")
<1>1. list \in Seq(Text)
  OBVIOUS
<1>2. CASE list = << >>
  <2>1. Listed(key, params) = << >>
    BY <1>2 DEF Listed
  <2>2. << >> \in Seq(Pairs(key))
    OBVIOUS
  <2>3. QED
    BY <1>2, <2>1, <2>2, GatheredNothing DEF Says
<1>3. CASE list # << >>
  <2>1. Listed(key, params) = <<Pair(key, joined)>>
    BY <1>3 DEF Listed
  <2>2. each \in Seq(Seq(TextTokens)) /\ Len(each) = Len(list) /\ AllDecoded(each) = list
    BY <1>1, EncodedEachReads
  <2> HIDE DEF list, each, joined
  <2>3. each # << >>
    <3>1. Len(list) # 0
      BY <1>1, <1>3, EmptySeq
    <3>2. QED
      BY <2>2, <3>1
  <2>4. Raw(",") \in ValueTokens /\ Raw(",") \in Tokens
    <3>1. Raw(",") \in Tokens
      BY TokenSets DEF Delimiters
    <3>2. Raw(",") # Raw("?") /\ Raw(",") # Raw("&") /\ Raw(",") # Raw("=")
      BY DEF Raw
    <3>3. QED
      BY <3>1, <3>2 DEF ValueTokens
  <2>5. each \in Seq(Seq(ValueTokens)) /\ each \in Seq(Seq(Tokens \ {Raw(",")}))
    <3>1. TextTokens \subseteq Tokens \ {Raw(",")}
      BY DEF TextTokens, Delimiters
    <3>2. QED
      BY <2>2, <3>1, TokenSets, SeqsMonotonic
  <2>6. joined \in Seq(ValueTokens)
    BY <2>4, <2>5, JoinedType DEF joined
  <2>7. Split(joined, ",") = each
    BY <2>3, <2>4, <2>5, SplitJoined DEF joined
  <2>8. ValuesUnder(key)[Pair(key, joined)] = list
    BY <2>2, <2>6, <2>7, ValuesUnderKey
  <2>9. Pair(key, joined) \in Pairs(key) /\ Pair(key, joined) \in AllPairs
    BY <2>6, PairsType DEF Pairs
  <2>10. Gathered(ValuesUnder(key), <<Pair(key, joined)>>) = list
    BY <2>8, <2>9, ValuesUnderType, GatheredOne
  <2>11. <<Pair(key, joined)>> \in Seq(Pairs(key))
    BY <2>9
  <2>12. QED
    BY <2>1, <2>10, <2>11 DEF Says, list
<1>4. QED
  BY <1>2, <1>3

\* The fields of a struct say what it holds, and those that are not set, nothing.
FieldsSay(fields, keys, params, sent) ==
  /\ fields = [i \in 1..Len(keys) |-> fields[i]]
  /\ \A i \in 1..Len(keys) :
       IF keys[i] \in DOMAIN params THEN Says(fields[i], keys[i], sent[keys[i]])
                                    ELSE fields[i] = << >>

AreApart(keys) == \A i, j \in 1..Len(keys) : keys[i] = keys[j] => i = j

\* The fields are pairs of keys that are set.
LEMMA FieldsType ==
  ASSUME NEW keys \in Seq(Keys), NEW params, NEW sent, NEW fields,
         FieldsSay(fields, keys, params, sent)
  PROVE  /\ fields \in Seq(Seq(UNION {Pairs(key) : key \in Keys \cap DOMAIN params}))
         /\ Len(fields) = Len(keys)
<1> DEFINE n == Len(keys)
           P == UNION {Pairs(key) : key \in Keys \cap DOMAIN params}
<1>1. n \in Nat /\ keys \in [1..n -> Keys]
  BY LenProperties
<1>2. ASSUME NEW i \in 1..n PROVE fields[i] \in Seq(P)
  <2>1. CASE keys[i] \in DOMAIN params
    <3>1. fields[i] \in Seq(Pairs(keys[i]))
      BY <2>1 DEF FieldsSay, Says
    <3>2. Pairs(keys[i]) \subseteq P
      BY <1>1, <2>1
    <3>3. QED
      BY <3>1, <3>2, SeqMonotonic
  <2>2. CASE keys[i] \notin DOMAIN params
    <3>1. fields[i] = << >>
      BY <2>2 DEF FieldsSay
    <3>2. QED
      BY <3>1
  <2>3. QED
    BY <2>1, <2>2
<1>3. fields = [i \in 1..n |-> fields[i]]
  BY DEF FieldsSay
<1> HIDE DEF n, P
<1>4. fields \in [1..n -> Seq(P)]
  BY <1>2, <1>3
<1>5. fields \in Seq(Seq(P)) /\ Len(fields) = n
  BY <1>1, <1>4
<1>6. QED
  BY <1>5 DEF n, P

\* What each of the fields holds: the texts of a list, or one.
SentTexts(params, lists) ==
  [key \in DOMAIN params |-> IF key \in lists THEN params[key] ELSE <<params[key]>>]

\* A server reads in a URL this path and this struct.
Reads(url, path, params, lists) ==
  /\ Split(url, "?")[1] = path
  /\ KeysRead(url) \subseteq {<<key>> : key \in DOMAIN params}
  /\ \A key \in DOMAIN params :
       ValuesRead(url, key) = IF key \in lists THEN params[key] ELSE <<params[key]>>

\* A server reads in a URL the fields that it was made of, and no others.
LEMMA StructReads ==
  ASSUME NEW T, NEW path \in Seq(T \ {Raw("?")}), NEW keys \in Seq(Keys), NEW params,
         NEW lists, NEW fields,
         AreApart(keys), DOMAIN params \subseteq ToSet(keys),
         FieldsSay(fields, keys, params, SentTexts(params, lists))
  PROVE  Reads(Url(path, fields), path, params, lists)
<1> DEFINE n == Len(keys)
           sent == SentTexts(params, lists)
           P == UNION {Pairs(key) : key \in Keys \cap DOMAIN params}
           flat == FlattenSeq(fields)
           url == Url(path, fields)
<1>1. n \in Nat /\ keys \in [1..n -> Keys]
  BY LenProperties
<1>2. fields \in Seq(Seq(P)) /\ Len(fields) = n
  BY FieldsType
<1>3. P \subseteq AllPairs
  BY DEF AllPairs
<1> HIDE DEF P
<1>4. FieldsSay(fields, keys, params, sent)
  OBVIOUS
<1> HIDE DEF sent
<1>5. fields \in Seq(Seq(AllPairs))
  BY <1>2, <1>3, SeqsMonotonic
<1>6. Split(url, "?")[1] = path /\ PairsRead(url) = flat
  BY <1>5, UrlReads
<1>7. flat \in Seq(P) /\ flat \in Seq(AllPairs)
  BY <1>2, <1>5, FlattenType
<1> HIDE DEF url, flat, n
<1>8. KeysRead(url) \subseteq {<<key>> : key \in DOMAIN params}
  <2> SUFFICES ASSUME NEW k \in DOMAIN flat
               PROVE  KeyOf(flat[k]) \in {<<key>> : key \in DOMAIN params}
    BY <1>6 DEF KeysRead
  <2>1. flat[k] \in P
    BY <1>7, LenProperties
  <2>2. PICK key \in Keys \cap DOMAIN params, value \in Seq(ValueTokens) :
          flat[k] = Pair(key, value)
    BY <2>1 DEF P, Pairs
  <2>3. KeyOf(flat[k]) = <<key>>
    BY <2>2, PairReads
  <2>4. QED
    BY <2>2, <2>3
<1>9. ASSUME NEW key \in DOMAIN params PROVE ValuesRead(url, key) = sent[key]
  <2> DEFINE under == ValuesUnder(key)
             each == Each(under, fields)
  <2>1. PICK i \in 1..n : keys[i] = key
    <3>1. DOMAIN keys = 1..n
      BY <1>1
    <3>2. key \in ToSet(keys)
      OBVIOUS
    <3>3. QED
      BY <3>1, <3>2 DEF ToSet
  <2>2. Maps(under, AllPairs, Seq(Seq(Words)))
    BY ValuesUnderType
  <2>3. ValuesRead(url, key) = Gathered(under, flat)
    <3>1. \A k \in DOMAIN flat : flat[k] \in AllPairs
      BY <1>7, LenProperties
    <3>2. [k \in DOMAIN flat |-> IF KeyOf(flat[k]) = <<key>> THEN ValuesOf(flat[k]) ELSE << >>]
            = Mapped(under, flat)
      BY <3>1 DEF Mapped, ValuesUnder
    <3>3. QED
      BY <1>6, <3>2 DEF ValuesRead, Gathered
  <2> HIDE DEF under
  <2>4. Gathered(under, flat) = FlattenSeq(each)
    BY <1>5, <2>2, GatheredOfAll DEF flat
  <2>5. each \in Seq(Seq(Seq(Words))) /\ Len(each) = n
    <3>1. each \in Seq(Seq(Seq(Words))) /\ Len(each) = Len(fields)
      BY <1>5, <2>2, EachType
    <3>2. QED
      BY <1>2, <3>1
  <2>6. DOMAIN fields = 1..n
    BY <1>2, LenProperties
  <2>7. each[i] = sent[key]
    <3>1. Gathered(under, fields[i]) = sent[key]
      BY <1>4, <2>1 DEF FieldsSay, Says, under, n
    <3>2. QED
      BY <2>1, <2>6, <3>1 DEF Each
  <2>8. ASSUME NEW j \in 1..n, j # i PROVE each[j] = << >>
    <3>1. keys[j] # key /\ keys[j] \in Keys
      BY <1>1, <2>1, <2>8 DEF AreApart, n
    <3>2. CASE keys[j] \in DOMAIN params
      <4>1. fields[j] \in Seq(Pairs(keys[j]))
        BY <1>4, <3>2 DEF FieldsSay, Says, n
      <4>2. Gathered(under, fields[j]) = << >>
        BY <3>1, <4>1, NothingElseSaid DEF under
      <4>3. QED
        BY <2>6, <4>2 DEF Each
    <3>3. CASE keys[j] \notin DOMAIN params
      <4>1. fields[j] = << >>
        BY <1>4, <3>3 DEF FieldsSay, n
      <4>2. Gathered(under, fields[j]) = << >>
        BY <4>1, GatheredNothing
      <4>3. QED
        BY <2>6, <4>2 DEF Each
    <3>4. QED
      BY <3>2, <3>3
  <2> HIDE DEF each
  <2>9. FlattenSeq(each) = each[i]
    BY <2>1, <2>5, <2>8, FlattenOnly
  <2>10. QED
    BY <2>3, <2>4, <2>7, <2>9
<1>10. \A key \in DOMAIN params :
        sent[key] = IF key \in lists THEN params[key] ELSE <<params[key]>>
  BY DEF sent, SentTexts
<1>11. QED
  BY <1>6, <1>8, <1>9, <1>10 DEF url, Reads

\* The keys of each struct are sequences of keys, each there once.
LEMMA KeysType ==
  /\ CDOListKeys \in Seq(Keys) /\ Len(CDOListKeys) = 12 /\ AreApart(CDOListKeys)
  /\ GetDataKeys \in Seq(Keys) /\ Len(GetDataKeys) = 12 /\ AreApart(GetDataKeys)
  /\ DataRequestKeys \in Seq(Keys) /\ Len(DataRequestKeys) = 11 /\ AreApart(DataRequestKeys)
<1>1. Len(CDOListKeys) = 12 /\ Len(GetDataKeys) = 12 /\ Len(DataRequestKeys) = 11
  BY DEF CDOListKeys, GetDataKeys, DataRequestKeys
<1>2. AreApart(CDOListKeys) /\ AreApart(GetDataKeys) /\ AreApart(DataRequestKeys)
  BY <1>1, KeysAreApart DEF AreApart
<1>3. /\ CDOListKeys \in Seq(ToSet(CDOListKeys)) /\ GetDataKeys \in Seq(ToSet(GetDataKeys))
      /\ DataRequestKeys \in Seq(ToSet(DataRequestKeys))
  <2>1. CDOListKeys \in Seq({CDOListKeys[i] : i \in 1..12})
    BY DEF CDOListKeys
  <2>2. GetDataKeys \in Seq({GetDataKeys[i] : i \in 1..12})
    BY DEF GetDataKeys
  <2>3. DataRequestKeys \in Seq({DataRequestKeys[i] : i \in 1..11})
    BY DEF DataRequestKeys
  <2>4. QED
    BY <2>1, <2>2, <2>3, KeysAreApart DEF ToSet
<1>4. QED
  BY <1>1, <1>2, <1>3, SeqMonotonic DEF Keys

\* The fields of build_list_query say what its struct holds.
LEMMA ListQuerySays ==
  ASSUME NEW params, IsCDOListParams(params)
  PROVE  FieldsSay([k \in DOMAIN CDOListKeys |-> Encoded(CDOListKeys[k], params)],
                   CDOListKeys, params, SentTexts(params, {}))
<1> DEFINE fields == [k \in DOMAIN CDOListKeys |-> Encoded(CDOListKeys[k], params)]
<1>1. DOMAIN CDOListKeys = 1..Len(CDOListKeys)
  BY KeysType, LenProperties
<1>2. ASSUME NEW i \in 1..Len(CDOListKeys), CDOListKeys[i] \in DOMAIN params
      PROVE  Says(fields[i], CDOListKeys[i], SentTexts(params, {})[CDOListKeys[i]])
  <2>1. CDOListKeys[i] \in Keys
    BY KeysType, ElementOfSeq
  <2>2. params[CDOListKeys[i]] \in Text
    BY <1>2 DEF IsCDOListParams, IsStruct
  <2>3. Says(Encoded(CDOListKeys[i], params), CDOListKeys[i], <<params[CDOListKeys[i]]>>)
    BY <1>2, <2>1, <2>2, EncodedSays
  <2>4. SentTexts(params, {})[CDOListKeys[i]] = <<params[CDOListKeys[i]]>>
    BY <1>2 DEF SentTexts
  <2>5. fields[i] = Encoded(CDOListKeys[i], params)
    BY <1>1
  <2>6. QED
    BY <2>3, <2>4, <2>5
<1>3. ASSUME NEW i \in 1..Len(CDOListKeys), CDOListKeys[i] \notin DOMAIN params
      PROVE  fields[i] = << >>
  BY <1>1, <1>3 DEF Encoded
<1>4. fields = [i \in 1..Len(CDOListKeys) |-> fields[i]]
  BY <1>1
<1> HIDE DEF fields
<1>5. FieldsSay(fields, CDOListKeys, params, SentTexts(params, {}))
  BY <1>2, <1>3, <1>4 DEF FieldsSay
<1>6. QED
  BY <1>5 DEF fields

\* So do those of build_data_query of CDOClient, where data types have a pair
\* each.
LEMMA CdoDataQuerySays ==
  ASSUME NEW params, IsGetDataParams(params), NEW fields,
         fields = [k \in DOMAIN GetDataKeys |->
                     LET key == GetDataKeys[k]
                     IN  IF key = "datatypeid" THEN OneByOne(key, params)
                         ELSE IF key \in GetDataPlain THEN AsItIs(key, params)
                         ELSE Encoded(key, params)]
  PROVE  FieldsSay(fields, GetDataKeys, params, SentTexts(params, {"datatypeid"}))
<1>1. DOMAIN GetDataKeys = 1..Len(GetDataKeys)
  BY KeysType, LenProperties
<1>2. ASSUME NEW i \in 1..Len(GetDataKeys), GetDataKeys[i] \in DOMAIN params
      PROVE  Says(fields[i], GetDataKeys[i], SentTexts(params, {"datatypeid"})[GetDataKeys[i]])
  <2> DEFINE key == GetDataKeys[i]
  <2>1. key \in Keys
    BY KeysType, ElementOfSeq
  <2>2. params[key] \in IF key \in {"datatypeid"} THEN Seq(Text)
                        ELSE IF key \in GetDataPlain THEN PlainText ELSE Text
    BY <1>2 DEF IsGetDataParams, IsStruct
  <2>3. fields[i] = IF key = "datatypeid" THEN OneByOne(key, params)
                    ELSE IF key \in GetDataPlain THEN AsItIs(key, params)
                    ELSE Encoded(key, params)
    BY <1>1
  <2>4. SentTexts(params, {"datatypeid"})[key]
          = IF key \in {"datatypeid"} THEN params[key] ELSE <<params[key]>>
    BY <1>2 DEF SentTexts
  <2>5. key \in DOMAIN params
    BY <1>2
  <2> HIDE DEF key
  <2>6. CASE key = "datatypeid"
    <3>1. Says(OneByOne(key, params), key, params[key])
      BY <2>1, <2>2, <2>5, <2>6, OneByOneSays
    <3>2. QED
      BY <2>3, <2>4, <2>6, <3>1 DEF key
  <2>7. CASE key # "datatypeid" /\ key \in GetDataPlain
    <3>1. Says(AsItIs(key, params), key, <<params[key]>>)
      BY <2>1, <2>2, <2>5, <2>7, AsItIsSays
    <3>2. QED
      BY <2>3, <2>4, <2>7, <3>1 DEF key
  <2>8. CASE key # "datatypeid" /\ key \notin GetDataPlain
    <3>1. Says(Encoded(key, params), key, <<params[key]>>)
      BY <2>1, <2>2, <2>5, <2>8, EncodedSays
    <3>2. QED
      BY <2>3, <2>4, <2>8, <3>1 DEF key
  <2>9. QED
    BY <2>6, <2>7, <2>8
<1>3. ASSUME NEW i \in 1..Len(GetDataKeys), GetDataKeys[i] \notin DOMAIN params
      PROVE  fields[i] = << >>
  BY <1>1, <1>3 DEF Encoded, AsItIs, OneByOne
<1>4. fields = [i \in 1..Len(GetDataKeys) |-> fields[i]]
  BY <1>1
<1>5. QED
  BY <1>2, <1>3, <1>4 DEF FieldsSay

\* So do those of build_data_query of DataServiceClient, where a list has one
\* pair.
LEMMA DataServiceQuerySays ==
  ASSUME NEW params, IsDataRequestParams(params), NEW fields,
         fields = [k \in DOMAIN DataRequestKeys |->
                     LET key == DataRequestKeys[k]
                     IN  IF key \in DataRequestLists THEN Listed(key, params)
                         ELSE IF key \in DataRequestPlain THEN AsItIs(key, params)
                         ELSE Encoded(key, params)]
  PROVE  FieldsSay(fields, DataRequestKeys, params, SentTexts(params, DataRequestLists))
<1>1. DOMAIN DataRequestKeys = 1..Len(DataRequestKeys)
  BY KeysType, LenProperties
<1>2. ASSUME NEW i \in 1..Len(DataRequestKeys), DataRequestKeys[i] \in DOMAIN params
      PROVE  Says(fields[i], DataRequestKeys[i],
                  SentTexts(params, DataRequestLists)[DataRequestKeys[i]])
  <2> DEFINE key == DataRequestKeys[i]
  <2>1. key \in Keys
    BY KeysType, ElementOfSeq
  <2>2. params[key] \in IF key \in DataRequestLists THEN Seq(Text)
                        ELSE IF key \in DataRequestPlain THEN PlainText ELSE Text
    BY <1>2 DEF IsDataRequestParams, IsStruct
  <2>3. fields[i] = IF key \in DataRequestLists THEN Listed(key, params)
                    ELSE IF key \in DataRequestPlain THEN AsItIs(key, params)
                    ELSE Encoded(key, params)
    BY <1>1
  <2>4. SentTexts(params, DataRequestLists)[key]
          = IF key \in DataRequestLists THEN params[key] ELSE <<params[key]>>
    BY <1>2 DEF SentTexts
  <2>5. key \in DOMAIN params
    BY <1>2
  <2> HIDE DEF key
  <2>6. CASE key \in DataRequestLists
    <3>1. Says(Listed(key, params), key, params[key])
      BY <2>1, <2>2, <2>5, <2>6, ListedSays
    <3>2. QED
      BY <2>3, <2>4, <2>6, <3>1 DEF key
  <2>7. CASE key \notin DataRequestLists /\ key \in DataRequestPlain
    <3>1. Says(AsItIs(key, params), key, <<params[key]>>)
      BY <2>1, <2>2, <2>5, <2>7, AsItIsSays
    <3>2. QED
      BY <2>3, <2>4, <2>7, <3>1 DEF key
  <2>8. CASE key \notin DataRequestLists /\ key \notin DataRequestPlain
    <3>1. Says(Encoded(key, params), key, <<params[key]>>)
      BY <2>1, <2>2, <2>5, <2>8, EncodedSays
    <3>2. QED
      BY <2>3, <2>4, <2>8, <3>1 DEF key
  <2>9. QED
    BY <2>6, <2>7, <2>8
<1>3. ASSUME NEW i \in 1..Len(DataRequestKeys), DataRequestKeys[i] \notin DOMAIN params
      PROVE  fields[i] = << >>
  BY <1>1, <1>3 DEF Encoded, AsItIs, Listed
<1>4. fields = [i \in 1..Len(DataRequestKeys) |-> fields[i]]
  BY <1>1
<1>5. QED
  BY <1>2, <1>3, <1>4 DEF FieldsSay

\* The three queries are read as the structs that they were built of.
LEMMA QueriesRead ==
  ASSUME NEW T, NEW path \in Seq(T \ {Raw("?")}), NEW params
  PROVE  /\ IsCDOListParams(params) => Reads(CdoListQuery(path, params), path, params, {})
         /\ IsGetDataParams(params) =>
              Reads(CdoDataQuery(path, params), path, params, {"datatypeid"})
         /\ IsDataRequestParams(params) =>
              Reads(DataServiceQuery(path, params), path, params, DataRequestLists)
<1>1. ASSUME IsCDOListParams(params)
      PROVE  Reads(CdoListQuery(path, params), path, params, {})
  <2> DEFINE fields == [k \in DOMAIN CDOListKeys |-> Encoded(CDOListKeys[k], params)]
  <2>1. FieldsSay(fields, CDOListKeys, params, SentTexts(params, {}))
    BY <1>1, ListQuerySays
  <2>2. /\ DOMAIN params \subseteq ToSet(CDOListKeys)
        /\ CDOListKeys \in Seq(Keys) /\ AreApart(CDOListKeys)
    BY <1>1, KeysType DEF IsCDOListParams, IsStruct
  <2>3. CdoListQuery(path, params) = Url(path, fields)
    BY DEF CdoListQuery
  <2> HIDE DEF fields
  <2>4. Reads(Url(path, fields), path, params, {})
    BY <2>1, <2>2, StructReads
  <2>5. QED
    BY <2>3, <2>4
<1>2. ASSUME IsGetDataParams(params)
      PROVE  Reads(CdoDataQuery(path, params), path, params, {"datatypeid"})
  <2> DEFINE fields == [k \in DOMAIN GetDataKeys |->
                          LET key == GetDataKeys[k]
                          IN  IF key = "datatypeid" THEN OneByOne(key, params)
                              ELSE IF key \in GetDataPlain THEN AsItIs(key, params)
                              ELSE Encoded(key, params)]
  <2>1. FieldsSay(fields, GetDataKeys, params, SentTexts(params, {"datatypeid"}))
    BY <1>2, CdoDataQuerySays
  <2>2. /\ DOMAIN params \subseteq ToSet(GetDataKeys)
        /\ GetDataKeys \in Seq(Keys) /\ AreApart(GetDataKeys)
    BY <1>2, KeysType DEF IsGetDataParams, IsStruct
  <2>3. CdoDataQuery(path, params) = Url(path, fields)
    BY DEF CdoDataQuery
  <2> HIDE DEF fields
  <2>4. Reads(Url(path, fields), path, params, {"datatypeid"})
    BY <2>1, <2>2, StructReads
  <2>5. QED
    BY <2>3, <2>4
<1>3. ASSUME IsDataRequestParams(params)
      PROVE  Reads(DataServiceQuery(path, params), path, params, DataRequestLists)
  <2> DEFINE fields == [k \in DOMAIN DataRequestKeys |->
                          LET key == DataRequestKeys[k]
                          IN  IF key \in DataRequestLists THEN Listed(key, params)
                              ELSE IF key \in DataRequestPlain THEN AsItIs(key, params)
                              ELSE Encoded(key, params)]
  <2>1. FieldsSay(fields, DataRequestKeys, params, SentTexts(params, DataRequestLists))
    BY <1>3, DataServiceQuerySays
  <2>2. /\ DOMAIN params \subseteq ToSet(DataRequestKeys)
        /\ DataRequestKeys \in Seq(Keys) /\ AreApart(DataRequestKeys)
    BY <1>3, KeysType DEF IsDataRequestParams, IsStruct
  <2>3. DataServiceQuery(path, params) = Url(path, fields)
    BY DEF DataServiceQuery
  <2> HIDE DEF fields
  <2>4. Reads(Url(path, fields), path, params, DataRequestLists)
    BY <2>1, <2>2, StructReads
  <2>5. QED
    BY <2>3, <2>4
<1>4. QED
  BY <1>1, <1>2, <1>3

\* A request without a struct.
LEMMA PathAloneReads ==
  ASSUME NEW T, NEW path \in Seq(T \ {Raw("?")})
  PROVE  Reads(path, path, << >>, {})
<1>1. path \in Seq(T)
  <2>1. T \ {Raw("?")} \subseteq T
    OBVIOUS
  <2>2. QED
    BY <2>1, SeqMonotonic
<1>2. << >> \in Seq(Keys) /\ AreApart(<< >>)
  BY DEF AreApart
<1>3. FieldsSay(<< >>, << >>, << >>, SentTexts(<< >>, {}))
  BY DEF FieldsSay
<1>4. Url(path, << >>) = path
  BY <1>1, FlattenEmpty, ConcatEmptySeq DEF Url
<1>5. DOMAIN << >> \subseteq ToSet(<< >>)
  OBVIOUS
<1>6. Reads(Url(path, << >>), path, << >>, {})
  BY <1>2, <1>3, <1>5, StructReads
<1>7. QED
  BY <1>4, <1>6
----------------------------------------------------------------------------
(* What it reads of a path.                                                   *)

\* The tokens of paths that hold the words W.
TokensWith(W)    == {"raw", "escaped"} \X W
SegmentTokens(W) == TokensWith(W) \ {Raw("/"), Raw("?")}

\* A segment says these words.
SegmentSays(segment, W, words) ==
  segment \in Seq(SegmentTokens(W)) /\ Decoded(segment) = words

\* A segment of words of the API is read as it was written.
LEMMA WordSays ==
  ASSUME NEW W, NEW words \in Seq(W \ Delimiters)
  PROVE  SegmentSays(Plain(words), W, words)
<1> DEFINE n == Len(words)
<1>1. n \in Nat /\ words \in [1..n -> W \ Delimiters]
  BY LenProperties
<1> HIDE DEF n
<1>2. ASSUME NEW w \in W \ Delimiters PROVE Raw(w) \in SegmentTokens(W)
  BY DEF Raw, SegmentTokens, TokensWith, Delimiters
<1>3. Plain(words) \in [1..n -> SegmentTokens(W)]
  BY <1>1, <1>2 DEF Plain
<1>4. \A k \in 1..n : Plain(words)[k][2] = words[k]
  BY <1>1 DEF Plain, Raw
<1>5. DOMAIN Plain(words) = 1..n
  BY <1>3
<1>6. Decoded(Plain(words)) = words
  BY <1>1, <1>4, <1>5 DEF Decoded
<1>7. QED
  BY <1>1, <1>3, <1>6 DEF SegmentSays

\* So is one that a caller gave.
LEMMA TextSays ==
  ASSUME NEW W, NEW text \in Text, Words \subseteq W
  PROVE  SegmentSays(Encode(text), W, text)
<1>1. Encode(text) \in Seq(TextTokens) /\ Decoded(Encode(text)) = text
  BY EncodeReads
<1>2. TextTokens \subseteq SegmentTokens(W)
  BY DEF TextTokens, Tokens, SegmentTokens, TokensWith, Delimiters
<1>3. QED
  BY <1>1, <1>2, SeqMonotonic DEF SegmentSays

\* A text and a word after it, which is a segment of a metadata request.
LEMMA TextAndWordSay ==
  ASSUME NEW W, NEW text \in Text, Words \subseteq W, NEW word \in W \ Delimiters
  PROVE  SegmentSays(Append(Encode(text), Raw(word)), W, Append(text, word))
<1> DEFINE encoded == Encode(text)
           n == Len(text)
           both == Append(encoded, Raw(word))
<1>1. encoded \in Seq(SegmentTokens(W)) /\ Decoded(encoded) = text
  BY TextSays DEF SegmentSays
<1>2. Raw(word) \in SegmentTokens(W)
  BY DEF Raw, SegmentTokens, TokensWith, Delimiters
<1>3. n \in Nat /\ DOMAIN text = 1..n /\ text \in Seq(Characters) /\ text \in Seq(W)
  <2>1. Characters \subseteq W
    BY DEF Words
  <2>2. text \in Seq(Characters) /\ text \in Seq(W)
    BY <2>1, SeqMonotonic DEF Text
  <2>3. QED
    BY <2>2, LenProperties
<1>4. Len(encoded) = n /\ \A k \in 1..n : encoded[k][2] = text[k]
  <2>1. DOMAIN encoded = 1..n
    BY <1>3 DEF Encode
  <2>2. Len(encoded) = n
    BY <1>1, <1>3, <2>1, LenProperties
  <2>3. QED
    BY <1>3, <2>1, <2>2 DEF Encode
<1> HIDE DEF encoded, n
<1>5. /\ both \in Seq(SegmentTokens(W)) /\ Len(both) = n + 1
      /\ \A k \in 1..n : both[k] = encoded[k]
      /\ both[n + 1] = Raw(word)
  BY <1>1, <1>2, <1>4, AppendProperties
<1> HIDE DEF both
<1>6. /\ Append(text, word) \in Seq(W) /\ Len(Append(text, word)) = n + 1
      /\ \A k \in 1..n : Append(text, word)[k] = text[k]
      /\ Append(text, word)[n + 1] = word
  BY <1>3, AppendProperties DEF n
<1>7. DOMAIN both = 1..(n + 1) /\ DOMAIN Append(text, word) = 1..(n + 1)
  BY <1>5, <1>6, LenProperties
<1>8. Decoded(both) = [k \in 1..(n + 1) |-> both[k][2]]
  BY <1>7 DEF Decoded
<1>9. ASSUME NEW k \in 1..(n + 1) PROVE both[k][2] = Append(text, word)[k]
  <2>1. k \in 1..n \/ k = n + 1
    BY <1>3
  <2>2. CASE k \in 1..n
    BY <1>4, <1>5, <1>6, <2>2
  <2>3. CASE k = n + 1
    BY <1>5, <1>6, <2>3 DEF Raw
  <2>4. QED
    BY <2>1, <2>2, <2>3
<1>10. Append(text, word) = [k \in 1..(n + 1) |-> Append(text, word)[k]]
  <2>1. Append(text, word) \in [1..(n + 1) -> W]
    BY <1>6, LenProperties
  <2>2. QED
    BY <2>1
<1>11. Decoded(both) = Append(text, word)
  BY <1>8, <1>9, <1>10
<1>12. QED
  BY <1>5, <1>11 DEF SegmentSays, both, encoded

\* The segments that a server reads in a path.
SegmentsIn(path) == Tail(AllDecoded(Split(path, "/")))

\* What the segments say is what is read in the path, which has no query.
LEMMA PathReads ==
  ASSUME NEW W, Delimiters \subseteq W,
         NEW segments \in Seq(Seq(SegmentTokens(W))), segments # << >>
  PROVE  /\ Path(segments) \in Seq(TokensWith(W) \ {Raw("?")})
         /\ SegmentsIn(Path(segments)) = AllDecoded(segments)
<1> DEFINE T == TokensWith(W)
           joined == Joined(segments, "/")
           parts == << << >> >> \o segments
           n == Len(segments)
<1>1. Raw("/") \in T /\ Raw("/") \in T \ {Raw("?")}
  BY DEF TokensWith, Raw, Delimiters
<1>2. /\ segments \in Seq(Seq(T \ {Raw("/")})) /\ segments \in Seq(Seq(T \ {Raw("?")}))
      /\ segments \in Seq(Seq(T))
  <2>1. /\ SegmentTokens(W) \subseteq T \ {Raw("/")} /\ SegmentTokens(W) \subseteq T \ {Raw("?")}
        /\ SegmentTokens(W) \subseteq T
    BY DEF SegmentTokens
  <2>2. QED
    BY <2>1, SeqsMonotonic
<1> HIDE DEF T
<1>3. joined \in Seq(T) /\ joined \in Seq(T \ {Raw("?")})
  BY <1>1, <1>2, JoinedType
<1>4. Split(joined, "/") = segments
  BY <1>1, <1>2, SplitJoined
<1> HIDE DEF joined
<1>5. Path(segments) = <<Raw("/")>> \o joined
  BY DEF Path, joined
<1>6. Path(segments) \in Seq(T \ {Raw("?")})
  <2>1. <<Raw("/")>> \in Seq(T \ {Raw("?")})
    BY <1>1
  <2>2. QED
    BY <1>3, <1>5, <2>1, ConcatProperties
<1>7. Split(Path(segments), "/") = parts
  <2> DEFINE none == << >>
  <2>1. none \in Seq(T) /\ joined \in Seq(T) /\ Raw("/") \in T
    BY <1>1, <1>3
  <2> HIDE DEF none
  <2>2. Split(none \o (<<Raw("/")>> \o joined), "/") = Split(none, "/") \o Split(joined, "/")
    BY <2>1, SplitAround
  <2>3. <<Raw("/")>> \o joined \in Seq(T)
    <3>1. <<Raw("/")>> \in Seq(T)
      BY <1>1
    <3>2. QED
      BY <1>3, <3>1, ConcatProperties
  <2>4. << >> \o (<<Raw("/")>> \o joined) = <<Raw("/")>> \o joined
    BY <2>3, ConcatEmptySeq
  <2>5. QED
    BY <1>4, <1>5, <2>2, <2>4, SplitEmpty DEF none
<1>8. /\ n \in Nat /\ parts \in Seq(Seq(T)) /\ Len(parts) = n + 1
      /\ \A i \in 1..n : parts[i + 1] = segments[i]
  <2> DEFINE first == << << >> >>
  <2>1. first \in Seq(Seq(T)) /\ Len(first) = 1 /\ n \in Nat
    BY <1>2, LenProperties
  <2>2. first \in Seq(Seq(T)) /\ segments \in Seq(Seq(T))
    BY <1>2, <2>1
  <2> HIDE DEF first
  <2> DEFINE both == first \o segments
  <2>3. /\ both \in Seq(Seq(T)) /\ Len(both) = Len(first) + n
        /\ \A i \in 1..(Len(first) + n) :
             both[i] = IF i <= Len(first) THEN first[i] ELSE segments[i - Len(first)]
    BY <2>2, ConcatProperties
  <2> HIDE DEF both
  <2>4. /\ both \in Seq(Seq(T)) /\ Len(both) = n + 1
        /\ \A i \in 1..(1 + n) : both[i] = IF i <= 1 THEN first[i] ELSE segments[i - 1]
    BY <2>1, <2>3
  <2>5. ASSUME NEW i \in 1..n PROVE both[i + 1] = segments[i]
    <3>1. i + 1 \in 1..(1 + n) /\ ~(i + 1 <= 1) /\ (i + 1) - 1 = i
      BY <2>1
    <3>2. QED
      BY <2>4, <3>1
  <2>6. QED
    BY <2>1, <2>4, <2>5 DEF both, first
<1> HIDE DEF parts
<1>9. Tail(AllDecoded(parts)) = AllDecoded(segments)
  <2> DEFINE S == {Decoded(parts[k]) : k \in 1..(n + 1)}
             all == AllDecoded(parts)
             rest == AllDecoded(segments)
  <2>1. DOMAIN parts = 1..(n + 1) /\ DOMAIN segments = 1..n
    BY <1>2, <1>8, LenProperties
  <2>2. all = [k \in 1..(n + 1) |-> Decoded(parts[k])]
    BY <2>1 DEF AllDecoded
  <2>3. rest = [k \in 1..n |-> Decoded(segments[k])]
    BY <2>1 DEF AllDecoded
  <2> HIDE DEF all, rest, n
  <2>4. all \in Seq(S) /\ Len(all) = n + 1
    <3> DEFINE m == n + 1
    <3>1. all \in [1..m -> S] /\ m \in Nat
      BY <1>8, <2>2
    <3> HIDE DEF S, m
    <3>2. all \in Seq(S) /\ Len(all) = m
      BY <3>1
    <3>3. QED
      BY <3>2 DEF m
  <2>5. \A k \in 1..n : Decoded(segments[k]) \in S
    <3>1. ASSUME NEW k \in 1..n PROVE Decoded(segments[k]) \in S
      <4>1. k + 1 \in 1..(n + 1) /\ parts[k + 1] = segments[k]
        BY <1>8
      <4>2. Decoded(parts[k + 1]) \in S
        BY <4>1
      <4>3. QED
        BY <4>1, <4>2
    <3>2. QED
      BY <3>1
  <2> HIDE DEF S
  <2>6. rest \in Seq(S) /\ Len(rest) = n
    <3>1. rest \in [1..n -> S]
      BY <2>3, <2>5
    <3>2. QED
      BY <1>8, <3>1
  <2>7. all # << >>
    BY <1>8, <2>4
  <2>8. /\ Tail(all) \in Seq(S) /\ Len(Tail(all)) = n
        /\ \A i \in 1..n : Tail(all)[i] = all[i + 1]
    <3>1. /\ Tail(all) \in Seq(S) /\ Len(Tail(all)) = Len(all) - 1
          /\ \A i \in 1..Len(Tail(all)) : Tail(all)[i] = all[i + 1]
      BY <2>4, <2>7, HeadTailProperties
    <3>2. QED
      BY <1>8, <2>4, <3>1
  <2>9. ASSUME NEW i \in 1..n PROVE Tail(all)[i] = rest[i]
    <3>1. i + 1 \in 1..(n + 1)
      BY <1>8
    <3>2. Tail(all)[i] = Decoded(parts[i + 1]) /\ rest[i] = Decoded(segments[i])
      BY <2>2, <2>3, <2>8, <3>1
    <3>3. QED
      BY <1>8, <3>2
  <2>10. Tail(all) = rest
    BY <2>6, <2>8, <2>9, SeqEqual
  <2>11. QED
    BY <2>10 DEF all, rest
<1>10. QED
  BY <1>6, <1>7, <1>9 DEF SegmentsIn, T

----------------------------------------------------------------------------
(* The requests of the operations of the three clients (module Endpoints).    *)

\* An operation's request says what was asked.
ListIn(operation, key) ==
  \/ key \in DataRequestLists
  \/ key = "datatypeid" /\ operation.reading = "list of DataRecord"

SaysWhatWasAsked(operation) ==
  operation.url # << >> =>
    /\ SegmentsRead(operation.url) = operation.segments
    /\ KeysRead(operation.url) \subseteq {<<key>> : key \in DOMAIN operation.params}
    /\ \A key \in DOMAIN operation.params :
         ValuesRead(operation.url, key) =
           IF ListIn(operation, key) THEN operation.params[key] ELSE <<operation.params[key]>>

\* A request whose path and query are read as they were put together says what
\* was asked.
LEMMA RequestSays ==
  ASSUME NEW W, Delimiters \subseteq W,
         NEW segments \in Seq(Seq(SegmentTokens(W))), segments # << >>,
         NEW operation, NEW lists,
         operation.segments = AllDecoded(segments),
         Reads(operation.url, Path(segments), operation.params, lists),
         \A key \in DOMAIN operation.params : key \in lists <=> ListIn(operation, key)
  PROVE  SaysWhatWasAsked(operation)
<1>1. SegmentsIn(Path(segments)) = AllDecoded(segments)
  BY PathReads
<1>2. SegmentsRead(operation.url) = operation.segments
  BY <1>1 DEF SegmentsRead, SegmentsIn, Reads
<1>3. QED
  BY <1>2 DEF SaysWhatWasAsked, Reads

\* A path of one segment.
LEMMA OneSegment ==
  ASSUME NEW W, NEW segment, NEW words, SegmentSays(segment, W, words)
  PROVE  /\ <<segment>> \in Seq(Seq(SegmentTokens(W))) /\ <<segment>> # << >>
         /\ AllDecoded(<<segment>>) = <<words>>
BY DEF SegmentSays, AllDecoded

\* A path of two segments.
LEMMA TwoSegments ==
  ASSUME NEW W, NEW one, NEW words, NEW other, NEW more,
         SegmentSays(one, W, words), SegmentSays(other, W, more)
  PROVE  /\ <<one, other>> \in Seq(Seq(SegmentTokens(W))) /\ <<one, other>> # << >>
         /\ AllDecoded(<<one, other>>) = <<words, more>>
BY DEF SegmentSays, AllDecoded

\* A segment of one word.
LEMMA OneWordSays ==
  ASSUME NEW W, NEW word \in W \ Delimiters
  PROVE  SegmentSays(Plain(<<word>>), W, <<word>>)
<1>1. <<word>> \in Seq(W \ Delimiters)
  OBVIOUS
<1>2. QED
  BY <1>1, WordSays

\* Which keys hold lists, and in which structs.
LEMMA ListKeys ==
  /\ \A i \in 1..12 : CDOListKeys[i] \notin DataRequestLists
  /\ \A i \in 1..12 : GetDataKeys[i] \notin DataRequestLists
  /\ \A i \in 1..11 : DataRequestKeys[i] # "datatypeid"
BY DEF CDOListKeys, GetDataKeys, DataRequestKeys, DataRequestLists

\* The six operations that list what there is.
LEMMA ListOfSays ==
  ASSUME NEW reading, NEW word, NEW params,
         reading # "list of DataRecord", word \notin Delimiters, IsCDOListParams(params)
  PROVE  SaysWhatWasAsked(ListOf(reading, <<word>>, params))
<1> DEFINE W == Words \cup {word}
           segments == <<Plain(<<word>>)>>
           none == {}
           operation == ListOf(reading, <<word>>, params)
<1>1. Delimiters \subseteq W /\ word \in W \ Delimiters
  BY DEF Words
<1> HIDE DEF W
<1>2. /\ segments \in Seq(Seq(SegmentTokens(W))) /\ segments # << >>
      /\ AllDecoded(segments) = <<<<word>>>>
  BY <1>1, OneWordSays, OneSegment
<1>3. /\ operation.segments = <<<<word>>>> /\ operation.params = params
      /\ operation.url = CdoListQuery(Path(segments), params)
      /\ operation.reading = reading
  BY DEF ListOf, Operation
<1> HIDE DEF segments, operation
<1>4. Path(segments) \in Seq(TokensWith(W) \ {Raw("?")})
  BY <1>1, <1>2, PathReads
<1>5. Reads(CdoListQuery(Path(segments), params), Path(segments), params, {})
  BY <1>4, QueriesRead
<1>6. ASSUME NEW key \in DOMAIN params PROVE ~ListIn(operation, key)
  <2>1. key \in ToSet(CDOListKeys)
    BY DEF IsCDOListParams, IsStruct
  <2>2. key \notin DataRequestLists
    <3>1. PICK i \in 1..12 : key = CDOListKeys[i]
      BY <2>1, KeysAreApart DEF ToSet
    <3>2. QED
      BY <3>1, ListKeys
  <2>3. QED
    BY <1>3, <2>2 DEF ListIn
<1>7. /\ operation.segments = AllDecoded(segments)
      /\ Reads(operation.url, Path(segments), operation.params, none)
      /\ \A key \in DOMAIN operation.params : key \in none <=> ListIn(operation, key)
  BY <1>2, <1>3, <1>5, <1>6
<1> HIDE DEF none
<1>8. SaysWhatWasAsked(operation)
  BY <1>1, <1>2, <1>7, RequestSays
<1>9. QED
  BY <1>8 DEF operation

\* The six operations that look one up.
LEMMA OneOfSays ==
  ASSUME NEW kind, NEW word, NEW id \in Text, word \notin Delimiters
  PROVE  SaysWhatWasAsked(OneOf(kind, <<word>>, id))
<1> DEFINE W == Words \cup {word}
           segments == <<Plain(<<word>>), Encode(id)>>
           none == {}
           operation == OneOf(kind, <<word>>, id)
<1>1. Delimiters \subseteq W /\ Words \subseteq W /\ word \in W \ Delimiters
  BY DEF Words
<1> HIDE DEF W
<1>2. /\ segments \in Seq(Seq(SegmentTokens(W))) /\ segments # << >>
      /\ AllDecoded(segments) = <<<<word>>, id>>
  <2>1. SegmentSays(Plain(<<word>>), W, <<word>>) /\ SegmentSays(Encode(id), W, id)
    BY <1>1, OneWordSays, TextSays
  <2>2. QED
    BY <2>1, TwoSegments
<1>3. /\ operation.segments = <<<<word>>, id>> /\ operation.params = << >>
      /\ operation.url = Path(segments)
  BY DEF OneOf, Operation
<1> HIDE DEF segments, operation
<1>4. Path(segments) \in Seq(TokensWith(W) \ {Raw("?")})
  BY <1>1, <1>2, PathReads
<1>5. Reads(Path(segments), Path(segments), << >>, {})
  BY <1>4, PathAloneReads
<1>6. /\ operation.segments = AllDecoded(segments)
      /\ Reads(operation.url, Path(segments), operation.params, none)
      /\ \A key \in DOMAIN operation.params : key \in none <=> ListIn(operation, key)
  BY <1>2, <1>3, <1>5
<1> HIDE DEF none
<1>7. SaysWhatWasAsked(operation)
  BY <1>1, <1>2, <1>6, RequestSays
<1>8. QED
  BY <1>7 DEF operation

\* get_data of CDOClient.
LEMMA CdoDataSays ==
  ASSUME NEW params, IsGetDataParams(params)
  PROVE  SaysWhatWasAsked(GetCdoData(params))
<1> DEFINE W == Words \cup {"data"}
           segments == <<Plain(<<"data">>)>>
           operation == GetCdoData(params)
<1>1. Delimiters \subseteq W /\ "data" \in W \ Delimiters
  BY DEF Words, Delimiters
<1> HIDE DEF W
<1>2. /\ segments \in Seq(Seq(SegmentTokens(W))) /\ segments # << >>
      /\ AllDecoded(segments) = <<<<"data">>>>
  BY <1>1, OneWordSays, OneSegment
<1>3. /\ operation.segments = <<<<"data">>>> /\ operation.params = params
      /\ operation.url = CdoDataQuery(Path(segments), params)
      /\ operation.reading = "list of DataRecord"
  BY DEF GetCdoData, Operation
<1> HIDE DEF segments, operation
<1>4. Path(segments) \in Seq(TokensWith(W) \ {Raw("?")})
  BY <1>1, <1>2, PathReads
<1>5. Reads(CdoDataQuery(Path(segments), params), Path(segments), params, {"datatypeid"})
  BY <1>4, QueriesRead
<1>6. ASSUME NEW key \in DOMAIN params PROVE key \in {"datatypeid"} <=> ListIn(operation, key)
  <2>1. key \in ToSet(GetDataKeys)
    BY DEF IsGetDataParams, IsStruct
  <2>2. key \notin DataRequestLists
    BY <2>1, KeysAreApart, ListKeys DEF ToSet
  <2>3. QED
    BY <1>3, <2>2 DEF ListIn
<1>7. /\ operation.segments = AllDecoded(segments)
      /\ Reads(operation.url, Path(segments), operation.params, {"datatypeid"})
      /\ \A key \in DOMAIN operation.params : key \in {"datatypeid"} <=> ListIn(operation, key)
  BY <1>2, <1>3, <1>5, <1>6
<1>8. SaysWhatWasAsked(operation)
  BY <1>1, <1>2, <1>7, RequestSays
<1>9. QED
  BY <1>8 DEF operation

\* get_data and get_data_raw of DataServiceClient.
LEMMA ServiceDataSays ==
  ASSUME NEW params, NEW reading, IsDataRequestParams(params)
  PROVE  SaysWhatWasAsked(ServiceData(params, reading))
<1> DEFINE W == Words \cup {"data", "v1"}
           segments == <<Plain(<<"data">>), Plain(<<"v1">>)>>
           operation == ServiceData(params, reading)
<1>1. Delimiters \subseteq W /\ "data" \in W \ Delimiters /\ "v1" \in W \ Delimiters
  BY DEF Words, Delimiters
<1> HIDE DEF W
<1>2. /\ segments \in Seq(Seq(SegmentTokens(W))) /\ segments # << >>
      /\ AllDecoded(segments) = <<<<"data">>, <<"v1">>>>
  <2>1. /\ SegmentSays(Plain(<<"data">>), W, <<"data">>)
        /\ SegmentSays(Plain(<<"v1">>), W, <<"v1">>)
    BY <1>1, OneWordSays
  <2>2. QED
    BY <2>1, TwoSegments
<1>3. /\ operation.segments = <<<<"data">>, <<"v1">>>> /\ operation.params = params
      /\ operation.url = DataServiceQuery(Path(segments), params)
  BY DEF ServiceData, Operation
<1> HIDE DEF segments, operation
<1>4. Path(segments) \in Seq(TokensWith(W) \ {Raw("?")})
  BY <1>1, <1>2, PathReads
<1>5. Reads(DataServiceQuery(Path(segments), params), Path(segments), params, DataRequestLists)
  BY <1>4, QueriesRead
<1>6. ASSUME NEW key \in DOMAIN params PROVE key \in DataRequestLists <=> ListIn(operation, key)
  <2>1. key \in ToSet(DataRequestKeys)
    BY DEF IsDataRequestParams, IsStruct
  <2>2. key # "datatypeid"
    BY <2>1, KeysAreApart, ListKeys DEF ToSet
  <2>3. QED
    BY <2>2 DEF ListIn
<1>7. /\ operation.segments = AllDecoded(segments)
      /\ Reads(operation.url, Path(segments), operation.params, DataRequestLists)
      /\ \A key \in DOMAIN operation.params : key \in DataRequestLists <=> ListIn(operation, key)
  BY <1>2, <1>3, <1>5, <1>6
<1>8. SaysWhatWasAsked(operation)
  BY <1>1, <1>2, <1>7, RequestSays
<1>9. QED
  BY <1>8 DEF operation

\* A fourth after three.
LEMMA AppendToThree ==
  ASSUME NEW a, NEW b, NEW c, NEW d
  PROVE  Append(<<a, b, c>>, d) = <<a, b, c, d>>
<1> DEFINE S == {a, b, c, d}
           three == <<a, b, c>>
           four == <<a, b, c, d>>
           more == Append(three, d)
<1>1. /\ three \in Seq(S) /\ Len(three) = 3 /\ d \in S
      /\ three[1] = a /\ three[2] = b /\ three[3] = c
  OBVIOUS
<1>2. /\ four \in Seq(S) /\ Len(four) = 4
      /\ four[1] = a /\ four[2] = b /\ four[3] = c /\ four[4] = d
  OBVIOUS
<1> HIDE DEF S, three, four
<1>3. /\ more \in Seq(S) /\ Len(more) = 4
      /\ more[1] = three[1] /\ more[2] = three[2] /\ more[3] = three[3] /\ more[4] = d
  <2>1. three \in Seq(S) /\ d \in S
    BY <1>1
  <2>2. /\ more \in Seq(S) /\ Len(more) = Len(three) + 1
        /\ \A i \in 1..Len(three) : more[i] = three[i]
        /\ more[Len(three) + 1] = d
    BY <2>1, AppendProperties
  <2> HIDE DEF more
  <2>3. QED
    BY <1>1, <2>2
<1> HIDE DEF more
<1>4. ASSUME NEW i \in 1..4 PROVE more[i] = four[i]
  <2>1. i = 1 \/ i = 2 \/ i = 3 \/ i = 4
    OBVIOUS
  <2>2. QED
    BY <1>1, <1>2, <1>3, <2>1
<1>5. more = four
  BY <1>2, <1>3, <1>4, SeqEqual
<1>6. QED
  BY <1>5 DEF more, three, four

\* get_dataset_metadata.
LEMMA MetadataSays ==
  ASSUME NEW id \in Text
  PROVE  SaysWhatWasAsked(GetDatasetMetadata(id))
<1> DEFINE W == Words \cup {"support", "v3", "datasets", ".json"}
           last == Append(Encode(id), Raw(".json"))
           asked == Append(id, ".json")
           segments == <<Plain(<<"support">>), Plain(<<"v3">>), Plain(<<"datasets">>), last>>
           none == {}
           operation == GetDatasetMetadata(id)
<1>1. /\ Delimiters \subseteq W /\ Words \subseteq W
      /\ "support" \in W \ Delimiters /\ "v3" \in W \ Delimiters
      /\ "datasets" \in W \ Delimiters /\ ".json" \in W \ Delimiters
  BY DEF Words, Delimiters
<1> HIDE DEF W
<1>2. SegmentSays(last, W, asked)
  BY <1>1, TextAndWordSay
<1>3. /\ operation.segments = <<<<"support">>, <<"v3">>, <<"datasets">>, asked>>
      /\ operation.params = << >>
      /\ operation.url = Path(segments)
  <2>1. /\ operation.params = << >>
        /\ operation.segments = Append(<<<<"support">>, <<"v3">>, <<"datasets">>>>, asked)
        /\ operation.url = Path(segments)
    BY DEF GetDatasetMetadata, Operation
  <2> HIDE DEF asked
  <2>2. Append(<<<<"support">>, <<"v3">>, <<"datasets">>>>, asked)
          = <<<<"support">>, <<"v3">>, <<"datasets">>, asked>>
    BY AppendToThree
  <2>3. QED
    BY <2>1, <2>2
<1> HIDE DEF last, asked
<1>4. /\ segments \in Seq(Seq(SegmentTokens(W))) /\ segments # << >>
      /\ AllDecoded(segments) = <<<<"support">>, <<"v3">>, <<"datasets">>, asked>>
  <2>1. /\ SegmentSays(Plain(<<"support">>), W, <<"support">>)
        /\ SegmentSays(Plain(<<"v3">>), W, <<"v3">>)
        /\ SegmentSays(Plain(<<"datasets">>), W, <<"datasets">>)
    BY <1>1, OneWordSays
  <2>2. QED
    BY <1>2, <2>1 DEF SegmentSays, AllDecoded
<1> HIDE DEF segments, operation
<1>5. Path(segments) \in Seq(TokensWith(W) \ {Raw("?")})
  BY <1>1, <1>4, PathReads
<1>6. Reads(Path(segments), Path(segments), << >>, {})
  BY <1>5, PathAloneReads
<1>7. /\ operation.segments = AllDecoded(segments)
      /\ Reads(operation.url, Path(segments), operation.params, none)
      /\ \A key \in DOMAIN operation.params : key \in none <=> ListIn(operation, key)
  BY <1>3, <1>4, <1>6
<1> HIDE DEF none
<1>8. SaysWhatWasAsked(operation)
  BY <1>1, <1>4, <1>7, RequestSays
<1>9. QED
  BY <1>8 DEF operation

\* The operations of MonitoringClient.
LEMMA FeedSays ==
  ASSUME NEW V, NEW words \in Seq(V \ Delimiters), NEW reading
  PROVE  SaysWhatWasAsked(Feed(words, reading))
<1> DEFINE W == Words \cup V
           segments == <<Plain(words)>>
           none == {}
           operation == Feed(words, reading)
<1>1. Delimiters \subseteq W /\ words \in Seq(W \ Delimiters)
  <2>1. V \ Delimiters \subseteq W \ Delimiters /\ Delimiters \subseteq W
    BY DEF Words
  <2>2. QED
    BY <2>1, SeqMonotonic
<1> HIDE DEF W
<1>2. /\ segments \in Seq(Seq(SegmentTokens(W))) /\ segments # << >>
      /\ AllDecoded(segments) = <<words>>
  <2>1. SegmentSays(Plain(words), W, words)
    BY <1>1, WordSays
  <2>2. QED
    BY <2>1, OneSegment
<1>3. /\ operation.segments = <<words>> /\ operation.params = << >>
      /\ operation.url = Path(segments)
  BY DEF Feed, Operation
<1> HIDE DEF segments, operation
<1>4. Path(segments) \in Seq(TokensWith(W) \ {Raw("?")})
  BY <1>1, <1>2, PathReads
<1>5. Reads(Path(segments), Path(segments), << >>, {})
  BY <1>4, PathAloneReads
<1>6. /\ operation.segments = AllDecoded(segments)
      /\ Reads(operation.url, Path(segments), operation.params, none)
      /\ \A key \in DOMAIN operation.params : key \in none <=> ListIn(operation, key)
  BY <1>2, <1>3, <1>5
<1> HIDE DEF none
<1>7. SaysWhatWasAsked(operation)
  BY <1>1, <1>2, <1>6, RequestSays
<1>8. QED
  BY <1>7 DEF operation

\* The thirteen operations of CDOClient.
LEMMA CdoOperationsSay ==
  ASSUME NEW operation \in CdoOperations
  PROVE  SaysWhatWasAsked(operation)
<1>1. ASSUME NEW params \in CdoParams PROVE SaysWhatWasAsked(GetCdoData(params))
  <2>1. IsGetDataParams(params)
    BY ArgumentsAssumption
  <2>2. QED
    BY <2>1, CdoDataSays
<1>2. ASSUME NEW params \in ListParams
      PROVE  /\ SaysWhatWasAsked(GetDatasets(params))
             /\ SaysWhatWasAsked(GetDataCategories(params))
             /\ SaysWhatWasAsked(GetDataTypes(params))
             /\ SaysWhatWasAsked(GetLocationCategories(params))
             /\ SaysWhatWasAsked(GetLocations(params))
             /\ SaysWhatWasAsked(GetStations(params))
  <2>1. IsCDOListParams(params)
    BY ArgumentsAssumption
  <2>2. /\ "datasets" \notin Delimiters /\ "datacategories" \notin Delimiters
        /\ "datatypes" \notin Delimiters /\ "locationcategories" \notin Delimiters
        /\ "locations" \notin Delimiters /\ "stations" \notin Delimiters
    BY DEF Delimiters
  <2>3. SaysWhatWasAsked(GetDatasets(params))
    BY <2>1, <2>2, ListOfSays DEF GetDatasets
  <2>4. SaysWhatWasAsked(GetDataCategories(params))
    BY <2>1, <2>2, ListOfSays DEF GetDataCategories
  <2>5. SaysWhatWasAsked(GetDataTypes(params))
    BY <2>1, <2>2, ListOfSays DEF GetDataTypes
  <2>6. SaysWhatWasAsked(GetLocationCategories(params))
    BY <2>1, <2>2, ListOfSays DEF GetLocationCategories
  <2>7. SaysWhatWasAsked(GetLocations(params))
    BY <2>1, <2>2, ListOfSays DEF GetLocations
  <2>8. SaysWhatWasAsked(GetStations(params))
    BY <2>1, <2>2, ListOfSays DEF GetStations
  <2>9. QED
    BY <2>3, <2>4, <2>5, <2>6, <2>7, <2>8
<1>3. ASSUME NEW id \in Ids
      PROVE  /\ SaysWhatWasAsked(GetDataset(id))
             /\ SaysWhatWasAsked(GetDataCategory(id))
             /\ SaysWhatWasAsked(GetDataType(id))
             /\ SaysWhatWasAsked(GetLocationCategory(id))
             /\ SaysWhatWasAsked(GetLocation(id))
             /\ SaysWhatWasAsked(GetStation(id))
  <2>1. id \in Text
    BY ArgumentsAssumption
  <2>2. /\ "datasets" \notin Delimiters /\ "datacategories" \notin Delimiters
        /\ "datatypes" \notin Delimiters /\ "locationcategories" \notin Delimiters
        /\ "locations" \notin Delimiters /\ "stations" \notin Delimiters
    BY DEF Delimiters
  <2>3. /\ SaysWhatWasAsked(GetDataset(id))
        /\ SaysWhatWasAsked(GetDataCategory(id))
        /\ SaysWhatWasAsked(GetDataType(id))
    BY <2>1, <2>2, OneOfSays DEF GetDataset, GetDataCategory, GetDataType
  <2>4. /\ SaysWhatWasAsked(GetLocationCategory(id))
        /\ SaysWhatWasAsked(GetLocation(id))
        /\ SaysWhatWasAsked(GetStation(id))
    BY <2>1, <2>2, OneOfSays DEF GetLocationCategory, GetLocation, GetStation
  <2>5. QED
    BY <2>3, <2>4
<1>4. CASE operation \in {GetCdoData(params) : params \in CdoParams}
  BY <1>1, <1>4
<1>5. CASE \E params \in ListParams :
             operation \in {GetDatasets(params), GetDataCategories(params),
                            GetDataTypes(params), GetLocationCategories(params),
                            GetLocations(params), GetStations(params)}
  BY <1>2, <1>5
<1>6. CASE \E id \in Ids :
             operation \in {GetDataset(id), GetDataCategory(id), GetDataType(id),
                            GetLocationCategory(id), GetLocation(id), GetStation(id)}
  BY <1>3, <1>6
<1>7. \/ operation \in {GetCdoData(params) : params \in CdoParams}
      \/ operation \in UNION {{GetDatasets(params), GetDataCategories(params),
                               GetDataTypes(params), GetLocationCategories(params),
                               GetLocations(params), GetStations(params)} :
                                 params \in ListParams}
      \/ operation \in UNION {{GetDataset(id), GetDataCategory(id),
                               GetDataType(id), GetLocationCategory(id),
                               GetLocation(id), GetStation(id)} : id \in Ids}
  BY DEF CdoOperations
<1>8. QED
  BY <1>4, <1>5, <1>6, <1>7, Zenon

\* The three of DataServiceClient.
LEMMA ServiceOperationsSay ==
  ASSUME NEW operation \in ServiceOperations
  PROVE  SaysWhatWasAsked(operation)
<1>1. ASSUME NEW params \in ServiceParams, NEW reading
      PROVE  SaysWhatWasAsked(ServiceData(params, reading))
  <2>1. IsDataRequestParams(params)
    BY ArgumentsAssumption
  <2>2. QED
    BY <2>1, ServiceDataSays
<1>2. ASSUME NEW id \in Ids PROVE SaysWhatWasAsked(GetDatasetMetadata(id))
  <2>1. id \in Text
    BY ArgumentsAssumption
  <2>2. QED
    BY <2>1, MetadataSays
<1>3. QED
  BY <1>1, <1>2 DEF ServiceOperations, GetServiceData, GetDataRaw

\* The three of MonitoringClient, and what they refuse.
LEMMA MonitoringOperationsSay ==
  ASSUME NEW operation \in MonitoringOperations
  PROVE  SaysWhatWasAsked(operation)
<1>1. ASSUME NEW start_year \in Years, NEW end_year \in Years
      PROVE  SaysWhatWasAsked(GetCagGlobalAnnual(start_year, end_year))
  <2> DEFINE from == ToString(start_year)
             to == ToString(end_year)
             words == <<"climate-at-a-glance", from, "-", to>>
             V == {"climate-at-a-glance", "-", from, to}
  <2>1. from \notin Delimiters /\ to \notin Delimiters
    BY ArgumentsAssumption
  <2> HIDE DEF from, to
  <2>2. /\ "climate-at-a-glance" \in V \ Delimiters /\ "-" \in V \ Delimiters
        /\ from \in V \ Delimiters /\ to \in V \ Delimiters
    <3>1. "climate-at-a-glance" \notin Delimiters /\ "-" \notin Delimiters
      BY DEF Delimiters
    <3>2. QED
      BY <2>1, <3>1
  <2> HIDE DEF V
  <2>3. words \in Seq(V \ Delimiters)
    BY <2>2
  <2>4. GetCagGlobalAnnual(start_year, end_year) = Feed(words, "CagSeries")
    BY DEF GetCagGlobalAnnual, from, to
  <2> HIDE DEF words
  <2>5. QED
    BY <2>3, <2>4, FeedSays
<1>2. SaysWhatWasAsked(GetGistempGlobal)
  <2>1. <<"GLB.Ts+dSST.csv">> \in Seq({"GLB.Ts+dSST.csv"} \ Delimiters)
    BY DEF Delimiters
  <2>2. QED
    BY <2>1, FeedSays DEF GetGistempGlobal
<1>3. ASSUME NEW monthly \in BOOLEAN, NEW month \in Months
      PROVE  SaysWhatWasAsked(GetNsidcArcticExtent(monthly, month))
  <2> DEFINE name == ToString(month)
             zero == IF month < 10 THEN "0" ELSE ""
             words == IF monthly THEN <<"N", zero, name>> ELSE <<"N_daily">>
             V == {"N", "0", "", name, "N_daily"}
  <2>1. name \notin Delimiters
    BY ArgumentsAssumption
  <2>2. zero = "0" \/ zero = ""
    OBVIOUS
  <2> HIDE DEF name, zero
  <2>3. /\ "N" \in V \ Delimiters /\ zero \in V \ Delimiters /\ name \in V \ Delimiters
        /\ "N_daily" \in V \ Delimiters
    <3>1. /\ "N" \notin Delimiters /\ "0" \notin Delimiters /\ "" \notin Delimiters
          /\ "N_daily" \notin Delimiters
      BY DEF Delimiters
    <3>2. zero \in V /\ zero \notin Delimiters
      BY <2>2, <3>1
    <3>3. QED
      BY <2>1, <3>1, <3>2
  <2> HIDE DEF V
  <2>4. <<"N", zero, name>> \in Seq(V \ Delimiters) /\ <<"N_daily">> \in Seq(V \ Delimiters)
    BY <2>3
  <2>5. words \in Seq(V \ Delimiters)
    BY <2>4
  <2>6. GetNsidcArcticExtent(monthly, month) = Feed(words, "SeaIceSeries")
    BY DEF GetNsidcArcticExtent, name, zero
  <2> HIDE DEF words
  <2>7. QED
    BY <2>5, <2>6, FeedSays
<1>4. SaysWhatWasAsked(Refused("monitoring"))
  BY DEF Refused, Operation, SaysWhatWasAsked
<1>5. QED
  BY <1>1, <1>2, <1>3, <1>4 DEF MonitoringOperations

\* The operation that runs says what was asked.
CallInv == call = Nothing \/ SaysWhatWasAsked(call)

\* The server reads in every request of the three clients the path and the
\* fields that the caller asked for, and no other fields, whatever characters
\* the texts are made of and however many of them a list holds (the query
\* builders and encode).
THEOREM RequestsAreRead ==
  OperationsSpec => []RequestsSayWhatWasAsked
<1>1. OperationsInit => CallInv
  BY DEF OperationsInit, CallInv
<1>2. CallInv /\ [OperationsNext]_operationVars => CallInv'
  <2> SUFFICES ASSUME CallInv, [OperationsNext]_operationVars PROVE CallInv'
    OBVIOUS
  <2>1. ASSUME NEW operation \in CdoOperations \cup ServiceOperations, Ask(operation)
        PROVE  CallInv'
    BY <2>1, CdoOperationsSay, ServiceOperationsSay DEF Ask, CallInv
  <2>2. ASSUME NEW operation \in MonitoringOperations, Ask(operation)
        PROVE  CallInv'
    BY <2>2, MonitoringOperationsSay DEF Ask, CallInv
  <2>3. ASSUME Refuse("monitoring") PROVE CallInv'
    <3>1. Refused("monitoring") \in MonitoringOperations
      BY DEF MonitoringOperations
    <3>2. QED
      BY <2>3, <3>1, MonitoringOperationsSay DEF Refuse, CallInv
  <2>4. CASE AskMonitoring
    <3>1. ASSUME NEW start_year \in Years, NEW end_year \in Years
          PROVE  GetCagGlobalAnnual(start_year, end_year) \in MonitoringOperations
      BY DEF MonitoringOperations
    <3>2. GetGistempGlobal \in MonitoringOperations
      BY DEF MonitoringOperations
    <3>3. ASSUME NEW monthly \in BOOLEAN, NEW month \in Months
          PROVE  GetNsidcArcticExtent(monthly, month) \in MonitoringOperations
      BY DEF MonitoringOperations
    <3>4. QED
      BY <2>2, <2>3, <2>4, <3>1, <3>2, <3>3 DEF AskMonitoring
  <2>5. CASE UNCHANGED call
    BY <2>5 DEF CallInv
  <2>6. CASE Leave
    BY <2>6 DEF Leave, CallInv
  <2>7. [OperationsNext]_operationVars =>
          \/ \E operation \in CdoOperations \cup ServiceOperations : Ask(operation)
          \/ AskMonitoring
          \/ Leave
          \/ UNCHANGED call
    BY DEF OperationsNext, operationVars, Respond, Fail, SleepEnds, Conclude,
           MoveFrom, MoveInto
  <2>8. QED
    BY <2>1, <2>4, <2>5, <2>6, <2>7
<1>3. CallInv => RequestsSayWhatWasAsked
  BY DEF CallInv, SaysWhatWasAsked, RequestsSayWhatWasAsked, IsList, ListIn
<1>4. QED
  BY <1>1, <1>2, <1>3, PTL DEF OperationsSpec

----------------------------------------------------------------------------
(* The answers of the operations.                                             *)

\* What Retry keeps true, an operation that asks and waits keeps as well.
LEMMA OperationsRefined == OperationsSpec => Retrying!Spec
<1>1. OperationsInit => Retrying!Init
  BY SameRetries DEF OperationsInit
<1>2. ASSUME NEW status \in Statuses, NEW content, Respond(status, content)
      PROVE  Retrying!Next
  <2>1. Loop!Response(status) \in Retrying!Outcome
    BY DEF Loop!Response, Retrying!Response, Retrying!Outcome
  <2>2. QED
    BY <1>2, <2>1, SameRetries DEF Respond, Retrying!Next
<1>3. ASSUME NEW code \in ErrorCodes, Fail(code) PROVE Retrying!Next
  <2>1. Loop!Error(code) \in Retrying!Outcome
    BY DEF Loop!Error, Retrying!Error, Retrying!Outcome
  <2>2. QED
    BY <1>3, <2>1, SameRetries DEF Fail, Retrying!Next
<1>4. ASSUME NEW operation, Ask(operation) PROVE [Retrying!Next]_(Retrying!vars)
  BY <1>4, SameRetries
  DEF Ask, looping, Retrying!Next, Retrying!vars
<1>5. ASSUME NEW client, Refuse(client) PROVE UNCHANGED Retrying!vars
  BY <1>5 DEF Refuse, looping, Retrying!vars
<1>6. [OperationsNext]_operationVars => [Retrying!Next]_(Retrying!vars)
  <2> SUFFICES ASSUME [OperationsNext]_operationVars PROVE [Retrying!Next]_(Retrying!vars)
    OBVIOUS
  <2>1. CASE AskMonitoring
    BY <1>4, <1>5, <2>1 DEF AskMonitoring
  <2>2. CASE SleepEnds
    BY <2>2, SameRetries DEF SleepEnds, Retrying!Next
  <2>3. CASE \/ UNCHANGED operationVars \/ Conclude \/ Leave
             \/ \E client \in Clients : MoveFrom(client) \/ MoveInto(client)
    BY <2>3 DEF operationVars, Conclude, Leave, MoveFrom, MoveInto,
                looping, Retrying!vars
  <2>4. QED
    BY <1>2, <1>3, <1>4, <2>1, <2>2, <2>3 DEF OperationsNext
<1>7. QED
  BY <1>1, <1>6, PTL DEF OperationsSpec, Retrying!Spec

\* An operation that has asked and has no answer yet: the attempts made since
\* then, and the last of them, if it came to a response, is the one served.
Asked == call # Nothing /\ answer = Nothing

Told ==
  LET made == Len(outcomes)
      last == outcomes[made]
  IN  /\ answer # Nothing => phase = "idle"
      /\ call = Nothing => phase = "idle" /\ answer = Nothing
      /\ Asked =>
           /\ attempt > 0
           /\ made = 0 => served = Nothing
           /\ made > 0 /\ last.kind = "error" => last.code \in ErrorCodes
           /\ made > 0 /\ last.kind = "response" =>
                /\ served \in [status : Statuses, body : Bodies]
                /\ last = Loop!Response(served.status)
                /\ body = served.body

AnswerInv == Retrying!IInv /\ Told /\ AnswerTellsWhatHappened

\* A step that leaves the operation and the loop alone.
LEMMA NothingTold ==
  ASSUME AnswerInv, UNCHANGED <<phase, attempt, outcomes, call, body, answer, served>>
  PROVE  Told' /\ AnswerTellsWhatHappened'
BY DEF AnswerInv, Told, Asked, AnswerTellsWhatHappened, Last

\* No operation, response or answer is Nothing.
LEMMA OperationsAreThere ==
  /\ \A operation \in CdoOperations \cup ServiceOperations \cup MonitoringOperations :
        operation # Nothing
  /\ InvalidRequest # Nothing /\ NotInitialized # Nothing
  /\ Nothing \notin [status : Statuses, body : Bodies]
BY NothingAssumption

\* An operation begins, and nothing was served in it yet.
LEMMA AskTold ==
  ASSUME AnswerInv, NEW operation, operation # Nothing, NotInitialized # Nothing,
         Ask(operation)
  PROVE  Told' /\ AnswerTellsWhatHappened'
<1>1. /\ call' # Nothing /\ served' = Nothing /\ phase = "idle"
  BY DEF Ask, AnswerInv, Told
<1>2. CASE operation.client \in alive
  <2>1. /\ answer' = Nothing /\ attempt' = 1 /\ outcomes' = << >>
    BY <1>2 DEF Ask, Loop!Call, Loop!LoopHead
  <2>2. QED
    BY <1>1, <2>1 DEF Told, Asked, AnswerTellsWhatHappened
<1>3. CASE operation.client \notin alive
  <2>1. answer' = NotInitialized /\ phase' = "idle"
    BY <1>1, <1>3 DEF Ask, looping
  <2>2. QED
    BY <1>1, <2>1
    DEF Told, Asked, AnswerTellsWhatHappened,
        NotInitialized, InvalidRequest
<1>4. QED
  BY <1>2, <1>3

\* An operation that refuses its arguments has its answer at once.
LEMMA RefuseTold ==
  ASSUME AnswerInv, NEW client, Refused(client) # Nothing, InvalidRequest # Nothing,
         Refuse(client)
  PROVE  Told' /\ AnswerTellsWhatHappened'
<1>1. /\ call' # Nothing /\ served' = Nothing /\ phase' = "idle" 
      /\ answer' = InvalidRequest
  BY DEF Refuse, AnswerInv, Told, looping
<1>2. QED
  BY <1>1 DEF Told, Asked, AnswerTellsWhatHappened,
              InvalidRequest

\* An attempt that ends is the last of the call then.
LEMMA OutcomesGrow ==
  ASSUME Retrying!IInv, NEW outcome, Loop!Operated(outcome)
  PROVE  /\ Len(outcomes') > 0 /\ outcomes'[Len(outcomes')] = outcome
         /\ attempt' > 0
<1>1. /\ outcomes \in Seq(Retrying!Outcome) /\ policy \in Policies /\ phase = "operation"
      /\ attempt = Len(outcomes) + 1 /\ attempt <= policy.max_attempts
  BY DEF Loop!Operated, Retrying!IInv, Retrying!TypeOK, Retrying!Counted
<1>2. policy.max_attempts \in Nat /\ policy.max_attempts <= UInt8Max /\ UInt8Max \in Nat
  BY <1>1, RetryingAssumption, Retrying!AttemptsFit
<1>3. outcomes' = Append(outcomes, outcome) /\ attempt' = attempt
  BY <1>1, <1>2 DEF Loop!Operated, Loop!Recorded
<1>4. QED
  BY <1>1, <1>3

\* A response is the last attempt of the loop, and its body the one that is
\* kept.
LEMMA RespondTold ==
  ASSUME AnswerInv, NEW status \in Statuses, NEW content \in Bodies,
         Respond(status, content)
  PROVE  Told' /\ AnswerTellsWhatHappened'
<1>1. /\ Loop!Operated(Loop!Response(status))
      /\ call' = call /\ call # Nothing /\ phase = "operation" /\ answer' = answer
      /\ answer = Nothing
      /\ body' = content /\ served' = [status |-> status, body |-> content]
  BY DEF Respond, Running, Kept, AnswerInv, Told
<1>2. /\ Len(outcomes') > 0 /\ attempt' > 0
      /\ outcomes'[Len(outcomes')] = Loop!Response(status)
  BY <1>1, OutcomesGrow DEF AnswerInv
<1>3. QED
  BY <1>1, <1>2
  DEF Told, Asked, Loop!Response, AnswerTellsWhatHappened

\* An attempt that failed is the last of the loop, and leaves the body of
\* another.
LEMMA FailTold ==
  ASSUME AnswerInv, NEW code \in ErrorCodes, Fail(code)
  PROVE  Told' /\ AnswerTellsWhatHappened'
<1>1. /\ Loop!Operated(Loop!Error(code))
      /\ call' = call /\ call # Nothing /\ phase = "operation" /\ answer' = answer
      /\ answer = Nothing
  BY DEF Fail, Running, AnswerInv, Told
<1>2. /\ Len(outcomes') > 0 /\ attempt' > 0
      /\ outcomes'[Len(outcomes')] = Loop!Error(code)
  BY <1>1, OutcomesGrow DEF AnswerInv
<1>3. QED
  BY <1>1, <1>2
  DEF Told, Asked, Loop!Error, AnswerTellsWhatHappened

\* Between two attempts nothing is served.
LEMMA AwakeTold ==
  ASSUME AnswerInv, SleepEnds
  PROVE  Told' /\ AnswerTellsWhatHappened'
<1>1. /\ UNCHANGED <<outcomes, call, body, answer, served>>
      /\ phase = "sleep" /\ attempt' = (attempt + 1) % (UInt8Max + 1)
      /\ answer = Nothing /\ call # Nothing
  BY DEF SleepEnds, Loop!Awake, Loop!LoopHead, AnswerInv, Told
<1>2. policy \in Policies /\ attempt \in Nat /\ attempt < policy.max_attempts
  BY <1>1 DEF AnswerInv, Retrying!IInv, Retrying!TypeOK, Retrying!Counted
<1>3. policy.max_attempts \in Nat /\ policy.max_attempts <= UInt8Max /\ UInt8Max \in Nat
  BY <1>2, RetryingAssumption, Retrying!AttemptsFit
<1>4. attempt \in 0..UInt8Max /\ attempt < UInt8Max
  BY <1>2, <1>3
<1>5. attempt' = attempt + 1
  BY <1>1, <1>3, <1>4, Retrying!NoWrap
<1>6. QED
  BY <1>1, <1>2, <1>5
  DEF AnswerInv, Told, Asked, AnswerTellsWhatHappened

\* The message of from_response is a text of the body it is made of, or names
\* the status; whatever the body is.
LEMMA MessageIsFromTheBody ==
  ASSUME NEW status, NEW content
  PROVE  LET text == FromResponse(status, content).message
         IN  /\ text # << >>
             /\ text \in Texts(content) \cup {<<"HTTP", ToString(status)>>}
<1> DEFINE Said == IF content.json = "object" THEN Message(content.fields)
                   ELSE IF content.json = "none" THEN content.text ELSE << >>
<1>1. FromResponse(status, content).message
        = IF Said = << >> THEN <<"HTTP", ToString(status)>> ELSE Said
  BY DEF FromResponse
<1>2. <<"HTTP", ToString(status)>> # << >>
  OBVIOUS
<1>3. Said # << >> => Said \in Texts(content)
  <2>1. CASE content.json = "none"
    BY <2>1 DEF Texts
  <2>2. CASE content.json = "object"
    <3> DEFINE fields == content.fields
               Written == {fields[f].text :
                             f \in {g \in DOMAIN fields : fields[g].type = "string"}}
    <3>1. Texts(content) = Written
      BY <2>2 DEF Texts
    <3>2. Message(fields) # << >> => Message(fields) \in Written
      BY DEF Message, IsCdo, IsDataService, Extracted
    <3>3. QED
      BY <2>2, <3>1, <3>2
  <2>3. QED
    BY <2>1, <2>2
<1>4. QED
  BY <1>1, <1>2, <1>3

\* The answer is made of the last attempt.
LEMMA ConcludeTold ==
  ASSUME AnswerInv, Nothing \notin [status : Statuses, body : Bodies], Conclude
  PROVE  Told' /\ AnswerTellsWhatHappened'
<1> DEFINE made == Len(outcomes)
           answered == served # Nothing /\ outcomes[made].kind = "response"
<1>1. /\ UNCHANGED <<phase, attempt, outcomes, call, body, served, returned>>
      /\ phase = "idle" /\ Asked /\ answer' = Concluded
  BY DEF Conclude, looping, Asked
<1>2. made \in Nat
  BY DEF AnswerInv, Retrying!IInv, Retrying!TypeOK
<1>3. Told'
  BY <1>1 DEF AnswerInv, Told, Asked
<1>4. \/ made = 0 /\ served = Nothing /\ returned = Retrying!Exhausted
      \/ made > 0 /\ returned = outcomes[made]
  BY <1>1, <1>2 DEF AnswerInv, Told, Retrying!IInv, Retrying!RetryDisciplined
<1>5. returned \in Retrying!Outcome \cup {Retrying!Error("none"), Retrying!Exhausted}
  BY DEF AnswerInv, Retrying!IInv, Retrying!TypeOK
<1>6. CASE returned.kind = "error"
  <2>1. ~answered /\ returned.code # "ParseError"
    BY <1>1, <1>2, <1>4, <1>6
    DEF AnswerInv, Told, Retrying!Exhausted, Retrying!Error, ErrorCodes, HttpErrors,
        LimitErrors
  <2>2. answer' = [InvalidRequest EXCEPT !.code = returned.code, !.message = <<"failed">>]
    BY <1>1, <1>6 DEF Concluded
  <2>3. answer'.kind = "error" /\ answer'.http_status = 0 /\ answer'.code = returned.code
    BY <2>2 DEF InvalidRequest
  <2>4. QED
    BY <1>1, <1>3, <2>1, <2>3
    DEF AnswerTellsWhatHappened, Last
<1>7. CASE returned.kind # "error"
  <2>1. /\ made > 0 /\ returned = outcomes[made] /\ returned.kind = "response"
    BY <1>4, <1>5, <1>7
    DEF Retrying!Exhausted, Retrying!Error, Retrying!Response, Retrying!Outcome
  <2>2. /\ served \in [status : Statuses, body : Bodies] /\ served # Nothing
        /\ returned = Loop!Response(served.status) /\ body = served.body
    BY <1>1, <2>1 DEF AnswerInv, Told
  <2>3. answered /\ returned.status = served.status
    BY <2>1, <2>2 DEF Loop!Response
  <2>4. served.status \in Int
    BY <2>2, RetryingAssumption DEF Retrying!RetryAssumption
  <2>5. CASE served.status # 200
    <3>1. answer' = FromResponse(served.status, served.body.content)
      BY <1>1, <1>7, <2>2, <2>3, <2>5 DEF Concluded
    <3>2. /\ answer'.kind = "error" /\ answer'.http_status = served.status
          /\ answer'.code = CodeOf(served.status)
      BY <3>1 DEF FromResponse
    <3>3. /\ answer'.code = "NotFound" <=> served.status = 404
          /\ answer'.code = "InvalidRequest" <=> served.status = 400
          /\ answer'.code = "RateLimited" <=> served.status = 429
          /\ answer'.code = "ServerError" <=> served.status >= 500
      BY <2>4, <3>2 DEF CodeOf
    <3>4. /\ answer'.message # << >>
          /\ answer'.message \in Texts(served.body.content)
                                    \cup {<<"HTTP", ToString(served.status)>>}
      BY <3>1, MessageIsFromTheBody
    <3>5. QED
      BY <1>1, <1>3, <2>3, <2>5, <3>2, <3>3, <3>4
      DEF AnswerTellsWhatHappened, Last
  <2>6. CASE served.status = 200
    <3>1. answer' = Parsed(call.reading)
      BY <1>1, <1>7, <2>3, <2>6 DEF Concluded
    <3>2. \/ /\ answer'.kind = "error" /\ answer'.http_status = 0
             /\ answer'.code = "ParseError" => call.reading \notin body.readable
          \/ /\ answer'.kind = "value" /\ answer'.body = body
             /\ call.reading \in body.readable \cup {"raw"}
      BY <3>1 DEF Parsed, InvalidRequest
    <3>3. served = [status |-> 200, body |-> body]
      BY <2>2, <2>6
    <3>4. QED
      BY <1>1, <1>3, <2>2, <2>3, <2>6, <3>2, <3>3
      DEF AnswerTellsWhatHappened, Last
  <2>7. QED
    BY <2>5, <2>6
<1>8. QED
  BY <1>6, <1>7

\* When the caller has taken the answer, all starts anew.
LEMMA LeaveTold ==
  ASSUME AnswerInv, Leave
  PROVE  Told' /\ AnswerTellsWhatHappened'
BY DEF AnswerInv, Told, Asked, Leave, looping,
       AnswerTellsWhatHappened

\* Every step keeps the answers true.
LEMMA AnswerStep ==
  ASSUME AnswerInv, [OperationsNext]_operationVars
  PROVE  Told' /\ AnswerTellsWhatHappened'
<1>1. ASSUME NEW operation \in CdoOperations \cup ServiceOperations,
             Ask(operation)
      PROVE  Told' /\ AnswerTellsWhatHappened'
  BY <1>1, AskTold, OperationsAreThere
<1>2. CASE AskMonitoring
  <2>1. ASSUME NEW operation \in MonitoringOperations, Ask(operation)
        PROVE  Told' /\ AnswerTellsWhatHappened'
    BY <2>1, AskTold, OperationsAreThere
  <2>2. ASSUME Refuse("monitoring")
        PROVE  Told' /\ AnswerTellsWhatHappened'
    <3>1. Refused("monitoring") \in MonitoringOperations
      BY DEF MonitoringOperations
    <3>2. QED
      BY <2>2, <3>1, RefuseTold, OperationsAreThere
  <2>3. /\ \A start_year, end_year \in Years :
              GetCagGlobalAnnual(start_year, end_year) \in MonitoringOperations
        /\ GetGistempGlobal \in MonitoringOperations
        /\ \A monthly \in BOOLEAN, month \in Months :
              GetNsidcArcticExtent(monthly, month) \in MonitoringOperations
    BY DEF MonitoringOperations
  <2>4. QED
    BY <1>2, <2>1, <2>2, <2>3 DEF AskMonitoring
<1>3. CASE \/ UNCHANGED operationVars
           \/ \E client \in Clients : MoveFrom(client) \/ MoveInto(client)
  <2>1. UNCHANGED <<phase, attempt, outcomes, call, body, answer, served>>
    BY <1>3 DEF operationVars, MoveFrom, MoveInto, looping
  <2>2. QED
    BY <2>1, NothingTold
<1>4. QED
  BY <1>1, <1>2, <1>3, RespondTold, FailTold, AwakeTold, ConcludeTold, LeaveTold,
     OperationsAreThere
  DEF OperationsNext

\* Whatever the operation, its arguments, the statuses and the bodies: an
\* operation's answer tells what came of its last attempt and of no other.
THEOREM AnswersTellWhatHappened ==
  OperationsSpec => []AnswerTellsWhatHappened
<1>1. OperationsInit => Told /\ AnswerTellsWhatHappened
  BY DEF OperationsInit, Loop!Init, Told, Asked, AnswerTellsWhatHappened
<1>2. Retrying!IInv /\ Told /\ AnswerTellsWhatHappened /\ [OperationsNext]_operationVars
        => Told' /\ AnswerTellsWhatHappened'
  BY AnswerStep DEF AnswerInv
<1>3. Retrying!Spec => []Retrying!IInv
  BY RetryingAssumption, Retrying!Invariance
<1>4. QED
  BY <1>1, <1>2, <1>3, OperationsRefined, PTL DEF OperationsSpec
=================================================================================
