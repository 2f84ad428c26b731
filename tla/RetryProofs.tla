----------------------------- MODULE RetryProofs -----------------------------
(* Proofs about with_retry, module Retry.  The loop of calculate_retry_delay  *)
(* is a recursive function; that it has a value, and that its value is the    *)
(* capped exponential, is by induction on the attempts.  The library states   *)
(* induction for an operator, which the provers cannot instantiate, so it is  *)
(* restated for a set, from the well-foundedness of the naturals.             *)
EXTENDS Retry, WellFoundedInduction, TLAPS

\* The naturals are well founded under an order that contains theirs.
LEMMA LessIsWellFounded ==
  \E R : IsWellFoundedOn(R, Nat) /\ \A x, y \in Nat : x < y => <<x, y>> \in R
<1>1. \A x, y \in Nat : x < y => <<x, y>> \in OpToRel(<, Nat)
  BY DEF OpToRel
<1>2. QED
  BY <1>1, NatLessThanWellFounded, Zenon

\* A set of naturals that is not empty has a least element.
LEMMA LeastNatural ==
  ASSUME NEW T \in SUBSET Nat, T # {}
  PROVE  \E x \in T : \A y \in T : x <= y
<1>1. PICK R : IsWellFoundedOn(R, Nat) /\ \A x, y \in Nat : x < y => <<x, y>> \in R
  BY LessIsWellFounded
<1>2. IsWellFoundedOn(R, Nat) /\ T \subseteq Nat /\ T # {}
  BY <1>1
<1>3. PICK x \in T : \A y \in T : ~ (<<y, x>> \in R)
  BY <1>2, WFMin, Zenon
<1>4. ASSUME NEW y \in T PROVE x <= y
  <2>1. x \in Nat /\ y \in Nat /\ ~(y < x)
    BY <1>1, <1>3
  <2>2. QED
    BY <2>1
<1>5. QED
  BY <1>3, <1>4

\* Induction from zero to a bound, over a set instead of a predicate.
LEMMA InductionUpTo ==
  ASSUME NEW top \in Nat, NEW S, 0 \in S,
         \A n \in 0..top : n < top /\ n \in S => n + 1 \in S
  PROVE  0..top \subseteq S
<1> DEFINE T == {n \in 0..top : n \notin S}
<1> SUFFICES ASSUME T # {} PROVE FALSE
  OBVIOUS
<1>0. T \in SUBSET Nat /\ T # {}
  OBVIOUS
<1>1. PICK x \in T : \A y \in T : x <= y
  BY <1>0, LeastNatural
<1>2. x # 0
  OBVIOUS
<1>3. x - 1 \in 0..top /\ x - 1 < top /\ x - 1 \in S
  BY <1>1, <1>2
<1>4. QED
  BY <1>3

\* A function defined from its value at zero by steps exists, whatever its
\* values are.
Recursion(Values) ==
  \A top \in Nat : \A base \in Values : \A step \in [1..top -> [Values -> Values]] :
     \E f \in [0..top -> Values] :
        /\ f[0] = base
        /\ \A n \in 1..top : f[n] = step[n][f[n - 1]]

LEMMA RecursionOver ==
  ASSUME NEW Values
  PROVE  Recursion(Values)
<1> SUFFICES ASSUME NEW top \in Nat, NEW base \in Values,
                    NEW step \in [1..top -> [Values -> Values]]
             PROVE  \E f \in [0..top -> Values] :
                       /\ f[0] = base
                       /\ \A n \in 1..top : f[n] = step[n][f[n - 1]]
  BY DEF Recursion
<1> DEFINE Follows(f, n) == f[0] = base /\ \A k \in 1..n : f[k] = step[k][f[k - 1]]
           S == {n \in 0..top : \E f \in [0..n -> Values] : Follows(f, n)}
<1>1. 0 \in S
  <2>1. [k \in 0..0 |-> base] \in [0..0 -> Values] /\ Follows([k \in 0..0 |-> base], 0)
    OBVIOUS
  <2> HIDE DEF Follows
  <2>2. \E f \in [0..0 -> Values] : Follows(f, 0)
    BY <2>1
  <2>3. QED
    BY <2>2
<1>2. ASSUME NEW n \in 0..top, n < top, n \in S PROVE n + 1 \in S
  <2>1. PICK f \in [0..n -> Values] : Follows(f, n)
    BY <1>2
  <2> DEFINE g == [k \in 0..(n + 1) |-> IF k <= n THEN f[k] ELSE step[n + 1][f[n]]]
  <2>2. n + 1 \in 1..top /\ n \in 0..n
    BY <1>2
  <2>3. step[n + 1][f[n]] \in Values
    BY <2>2
  <2>4. g \in [0..(n + 1) -> Values]
    BY <2>3
  <2>5. ASSUME NEW k \in 1..(n + 1) PROVE g[k] = step[k][g[k - 1]]
    <3>1. k \in 0..(n+1) /\ k - 1 \in 0..(n+1) /\ k - 1 <= n
      OBVIOUS
    <3>2. g[k - 1] = f[k - 1]
      BY <3>1
    <3>3. CASE k <= n
      <4>1. k \in 1..n
        BY <3>3
      <4>2. g[k] = f[k]
        BY <3>1, <3>3
      <4>3. QED
        BY <4>1, <4>2, <3>2, <2>1
    <3>4. CASE k = n + 1
      BY <3>1, <3>2, <3>4
    <3>5. QED
      BY <3>3, <3>4
  <2>6. g[0] = base
    BY <2>1
  <2>7. Follows(g, n + 1)
    BY <2>5, <2>6
  <2> HIDE DEF g, Follows
  <2>8. \E h \in [0..(n + 1) -> Values] : Follows(h, n + 1)
    BY <2>4, <2>7
  <2>9. QED
    BY <2>2, <2>8
<1> HIDE DEF S
<1>3. 0..top \subseteq S
  BY <1>1, <1>2, InductionUpTo
<1>4. top \in S
  BY <1>3
<1>5. QED
  BY <1>4 DEF S

\* The same of functions that have integers for values.
LEMMA RecursionUpTo ==
  ASSUME NEW top \in Nat, NEW base \in Int, NEW step \in [1..top -> [Int -> Int]]
  PROVE  \E f \in [0..top -> Int] :
            /\ f[0] = base
            /\ \A n \in 1..top : f[n] = step[n][f[n - 1]]
<1>1. Recursion(Int)
  BY RecursionOver
<1>2. QED
  BY <1>1 DEF Recursion
----------------------------------------------------------------------------
\* A product of naturals is a natural, and grows with its factors.
LEMMA Products ==
  ASSUME NEW a \in Nat, NEW b \in Nat, NEW c \in Nat, a <= b
  PROVE  a * c \in Nat /\ a * c <= b * c
OBVIOUS

\* What sanitising leaves of a policy's settings, whatever they are.
LEMMA SettingsAreClean ==
  ASSUME policy \in Policies
  PROVE  /\ MaximumDelay \in Nat
         /\ Clamp(policy.initial_delay, 0, MaximumDelay) \in 0..MaximumDelay
         /\ Multiplier \in Nat
         /\ Spread \in 0..100
<1>1. /\ policy.max_delay \in Int /\ policy.initial_delay \in Int
      /\ policy.backoff_multiplier \in Int \cup {NotFinite}
      /\ policy.jitter_factor \in Int \cup {NotFinite}
  BY RetryAssumption DEF Policy
<1>2. MaximumDelay \in Nat
  BY <1>1 DEF MaximumDelay, Greater
<1>3. QED
  BY <1>1, <1>2 DEF Multiplier, Spread, Clamp, Lesser, Greater

\* Hundred is what its definition says, and positive: the recursion has a
\* solution.
LEMMA HundredValues ==
  /\ Hundred[0] = 1
  /\ \A n \in 1..UInt8Max : Hundred[n] = 100 * Hundred[n - 1]
  /\ \A n \in 0..UInt8Max : Hundred[n] \in Nat \ {0}
<1>0. UInt8Max \in Nat /\ 1 \in Int
  BY RetryAssumption
<1> DEFINE step == [k \in 1..UInt8Max |-> [v \in Int |-> 100 * v]]
<1>1. step \in [1..UInt8Max -> [Int -> Int]]
  OBVIOUS
<1> HIDE DEF step
<1>2. PICK f \in [0..UInt8Max -> Int] :
         f[0] = 1 /\ \A n \in 1..UInt8Max : f[n] = step[n][f[n - 1]]
  BY <1>0, <1>1, RecursionUpTo, Zenon
<1>3. \A n \in 1..UInt8Max : f[n - 1] \in Int
  BY <1>0
<1>4. f = [k \in 0..UInt8Max |-> IF k = 0 THEN 1 ELSE 100 * f[k - 1]]
  <2>1. \A n \in 1..UInt8Max : f[n] = 100 * f[n - 1]
    BY <1>2, <1>3 DEF step
  <2>2. QED
    BY <1>0, <1>2, <2>1
<1>5. Hundred = [k \in 0..UInt8Max |-> IF k = 0 THEN 1 ELSE 100 * Hundred[k - 1]]
  BY <1>4 DEF Hundred
<1> DEFINE S == {n \in 0..UInt8Max : Hundred[n] \in Nat \ {0}}
<1>6. 0 \in S
  BY <1>0, <1>5
<1>7. ASSUME NEW n \in 0..UInt8Max, n < UInt8Max /\ n \in S PROVE n + 1 \in S
  <2>1. n + 1 \in 0..UInt8Max /\ Hundred[n + 1] = 100 * Hundred[n]
    BY <1>0, <1>5, <1>7
  <2>2. QED
    BY <1>7, <2>1
<1> HIDE DEF S
<1>8. 0..UInt8Max \subseteq S
  BY <1>0, <1>6, <1>7, InductionUpTo
<1>9. QED
  BY <1>0, <1>5, <1>8 DEF S

\* The same of the powers of the multiplier.
LEMMA PowerValues ==
  ASSUME policy \in Policies
  PROVE  /\ Power[0] = 1
         /\ \A n \in 1..UInt8Max : Power[n] = Multiplier * Power[n - 1]
         /\ \A n \in 0..UInt8Max : Power[n] \in Nat
<1>0. UInt8Max \in Nat /\ 1 \in Int /\ Multiplier \in Nat
  BY RetryAssumption, SettingsAreClean
<1> DEFINE step == [k \in 1..UInt8Max |-> [v \in Int |-> Multiplier * v]]
<1>1. step \in [1..UInt8Max -> [Int -> Int]]
  BY <1>0
<1> HIDE DEF step
<1>2. PICK f \in [0..UInt8Max -> Int] :
         f[0] = 1 /\ \A n \in 1..UInt8Max : f[n] = step[n][f[n - 1]]
  BY <1>0, <1>1, RecursionUpTo, Zenon
<1>3. \A n \in 1..UInt8Max : f[n - 1] \in Int
  BY <1>0
<1>4. f = [k \in 0..UInt8Max |-> IF k = 0 THEN 1 ELSE Multiplier * f[k - 1]]
  <2>1. \A n \in 1..UInt8Max : f[n] = Multiplier * f[n - 1]
    BY <1>2, <1>3 DEF step
  <2>2. QED
    BY <1>0, <1>2, <2>1
<1>5. Power = [k \in 0..UInt8Max |-> IF k = 0 THEN 1 ELSE Multiplier * Power[k - 1]]
  BY <1>4 DEF Power
<1> DEFINE S == {n \in 0..UInt8Max : Power[n] \in Nat}
<1>6. 0 \in S
  BY <1>0, <1>5
<1>7. ASSUME NEW n \in 0..UInt8Max, n < UInt8Max /\ n \in S PROVE n + 1 \in S
  <2>1. n + 1 \in 0..UInt8Max /\ Power[n + 1] = Multiplier * Power[n]
    BY <1>0, <1>5, <1>7
  <2>2. QED
    BY <1>0, <1>7, <2>1
<1> HIDE DEF S
<1>8. 0..UInt8Max \subseteq S
  BY <1>0, <1>6, <1>7, InductionUpTo
<1>9. QED
  BY <1>0, <1>5, <1>8 DEF S

\* The loop of calculate_retry_delay, unfolded by one turn.
LEMMA BackoffUnfolds ==
  ASSUME policy \in Policies
  PROVE  Backoff = [n \in 0..UInt8Max |->
            IF n <= 1 THEN Clamp(policy.initial_delay, 0, MaximumDelay)
            ELSE Lesser(Backoff[n - 1] * Multiplier, MaximumDelay * Hundred[n - 1])]
<1> DEFINE first == Clamp(policy.initial_delay, 0, MaximumDelay)
           step == [n \in 1..UInt8Max |-> [v \in Int |->
                      IF n <= 1 THEN first
                      ELSE Lesser(v * Multiplier, MaximumDelay * Hundred[n - 1])]]
<1>0. UInt8Max \in Nat /\ first \in Int /\ Multiplier \in Nat /\ MaximumDelay \in Nat
  BY RetryAssumption, SettingsAreClean
<1> HIDE DEF first
<1>1. step \in [1..UInt8Max -> [Int -> Int]]
  <2>1. \A n \in 1..UInt8Max : Hundred[n - 1] \in Nat
    BY <1>0, HundredValues
  <2>2. \A n \in 1..UInt8Max, v \in Int :
           v * Multiplier \in Int /\ MaximumDelay * Hundred[n - 1] \in Int
    BY <1>0, <2>1
  <2>3. QED
    BY <1>0, <2>2 DEF Lesser
<1> HIDE DEF step
<1>2. PICK f \in [0..UInt8Max -> Int] :
         f[0] = first /\ \A n \in 1..UInt8Max : f[n] = step[n][f[n - 1]]
  BY <1>0, <1>1, RecursionUpTo, Zenon
<1>3. \A n \in 1..UInt8Max : f[n - 1] \in Int
  BY <1>0
<1>4. f = [n \in 0..UInt8Max |->
             IF n <= 1 THEN first
             ELSE Lesser(f[n - 1] * Multiplier, MaximumDelay * Hundred[n - 1])]
  <2>1. \A n \in 1..UInt8Max : f[n] = 
         IF n <= 1 THEN first
         ELSE Lesser(f[n - 1] * Multiplier, MaximumDelay * Hundred[n - 1])
    BY <1>2, <1>3 DEF step
  <2>2. QED
    BY <1>0, <1>2, <2>1
<1>5. QED
  BY <1>4 DEF Backoff, first

\* Capping before a multiplication by the factor, and again after it, is capping
\* once: a factor below one never reaches the cap, another never leaves it.
LEMMA CappingCommutes ==
  ASSUME NEW x \in Nat, NEW cap \in Nat, NEW m \in Nat, m <= 100 => x <= cap
  PROVE  /\ Lesser(Lesser(x, cap) * m, 100 * cap) = Lesser(m * x, 100 * cap)
         /\ m <= 100 => m * x <= 100 * cap
<1>1. CASE x <= cap
  <2>1. Lesser(x, cap) * m = m * x
    BY <1>1 DEF Lesser
  <2>2. x * m <= cap * m /\ (m <= 100 => m * cap <= 100 * cap)
    BY <1>1, Products
  <2>3. m * x = x * m /\ m * cap = cap * m /\ m * x \in Int /\ m * cap \in Int
    OBVIOUS
  <2>4. QED
    BY <2>1, <2>2, <2>3
<1>2. CASE cap < x
  <2>1. Lesser(x, cap) * m = m * cap /\ 100 <= m
    BY <1>2 DEF Lesser
  <2>2. 100 * cap <= m * cap /\ cap * m <= x * m
    BY <1>2, <2>1, Products
  <2>3. m * x = x * m /\ m * cap = cap * m /\ m * x \in Int /\ m * cap \in Int
    OBVIOUS
  <2>4. QED
    BY <1>2, <2>1, <2>2, <2>3 DEF Lesser
<1>3. QED
  BY <1>1, <1>2

\* The loop of calculate_retry_delay computes the exponential capped once: its
\* value after the n-th attempt is the closed form for n - 1 multiplications.
LEMMA BackoffIsNominal ==
  ASSUME policy \in Policies
  PROVE  \A n \in 1..UInt8Max : Backoff[n] = Nominal(n - 1) /\ Backoff[n] \in Nat
<1> DEFINE first == Clamp(policy.initial_delay, 0, MaximumDelay)
           S == {n \in 0..UInt8Max :
                   n >= 1 => /\ Backoff[n] = Nominal(n - 1)
                             /\ Multiplier <= 100 =>
                                  first * Power[n - 1] <= MaximumDelay * Hundred[n - 1]}
<1>0. UInt8Max \in Nat /\ first \in 0..MaximumDelay /\ Multiplier \in Nat /\ MaximumDelay \in Nat
  BY RetryAssumption, SettingsAreClean
<1>1. \A n \in 0..UInt8Max : /\ first * Power[n] \in Nat
                             /\ MaximumDelay * Hundred[n] \in Nat
  <2>1. \A n \in 0..UInt8Max : Power[n] \in Nat /\ Hundred[n] \in Nat
    BY PowerValues, HundredValues
  <2>2. first \in Nat
    BY <1>0
  <2> HIDE DEF first
  <2>3. QED
    BY <1>0, <2>1, <2>2
<1>2. 0 \in S
  BY <1>0
<1>3. ASSUME NEW n \in 0..UInt8Max, n < UInt8Max /\ n \in S PROVE n + 1 \in S
  <2>1. n + 1 \in 0..UInt8Max /\ (n + 1) - 1 = n
    BY <1>0, <1>3
  <2>2. CASE n = 0
    <3>1. Power[0] = 1 /\ Hundred[0] = 1
      BY PowerValues, HundredValues
    <3>2. Backoff[1] = first
      BY <1>0, <2>1, <2>2, BackoffUnfolds
    <3> HIDE DEF first
    <3>3. first * Power[0] = first /\ MaximumDelay * Hundred[0] = MaximumDelay
      BY <1>0, <3>1
    <3>4. Nominal(0) = first
      BY <1>0, <3>3 DEF Nominal, Lesser, first
    <3>5. QED
      BY <1>0, <2>1, <2>2, <3>2, <3>3, <3>4
  <2>3. CASE n >= 1
    <3> DEFINE x == first * Power[n - 1]
               cap == MaximumDelay * Hundred[n - 1]
    <3>1. x \in Nat /\ cap \in Nat
      BY <1>0, <1>1, <2>3
    <3>2. Backoff[n] = Lesser(x, cap) /\ (Multiplier <= 100 => x <= cap)
      BY <1>3, <2>3 DEF Nominal
    <3>3. n \in 1..UInt8Max /\ first \in Int /\ Power[n - 1] \in Int /\ Hundred[n - 1] \in Int
          /\ Power[n] = Multiplier * Power[n - 1] /\ Hundred[n] = 100 * Hundred[n - 1]
      BY <1>0, <2>3, PowerValues, HundredValues
    <3>4. MaximumDelay * Hundred[n] = 100 * cap
      BY <1>0, <3>3
    <3>5. first * Power[n] = Multiplier * x
      <4> HIDE DEF first
      <4>1. \A a, b, c \in Int : a * (b * c) = b * (a * c)
        OBVIOUS
      <4>2. QED
        BY <1>0, <3>3, <4>1
    <3>6. Backoff[n + 1] = Lesser(Backoff[n] * Multiplier, MaximumDelay * Hundred[n])
      BY <1>0, <2>1, <2>3, BackoffUnfolds
    <3>7. Nominal(n) = Lesser(first * Power[n], MaximumDelay * Hundred[n])
      BY DEF Nominal
    <3> HIDE DEF x, cap, first
    <3>8. /\ Lesser(Lesser(x, cap) * Multiplier, 100 * cap) = Lesser(Multiplier * x, 100 * cap)
          /\ Multiplier <= 100 => Multiplier * x <= 100 * cap
      BY <1>0, <3>1, <3>2, CappingCommutes
    <3>9. QED
      BY <2>1, <3>2, <3>4, <3>5, <3>6, <3>7, <3>8
  <2>4. QED
    BY <1>0, <2>2, <2>3
<1> HIDE DEF S
<1>4. 0..UInt8Max \subseteq S
  BY <1>0, <1>2, <1>3, InductionUpTo
<1>5. ASSUME NEW n \in 1..UInt8Max PROVE Backoff[n] = Nominal(n - 1) /\ Nominal(n - 1) \in Nat
  <2>1. n \in S /\ n >= 1 /\ n - 1 \in 0..UInt8Max
    BY <1>0, <1>4
  <2>2. Backoff[n] = Nominal(n - 1)
    BY <2>1 DEF S
  <2>3. Nominal(n - 1) \in Nat
    BY <1>1, <2>1 DEF Nominal, Lesser
  <2>4. QED
    BY <2>2, <2>3
<1>6. QED
  BY <1>5

\* The delay drawn after the n-th attempt is in the band that BackoffInBand
\* tells, whatever the jitter draws.
LEMMA DelaysInBand ==
  ASSUME policy \in Policies, NEW n \in 1..UInt8Max, NEW d \in RetryDelays(n)
  PROVE  /\ d \in Nat
         /\ d <= MaximumDelay
         /\ d >= Lesser((Nominal(n - 1) * (100 - Spread)) \div Hundred[n], MaximumDelay)
         /\ d <= (Nominal(n - 1) * (100 + Spread)) \div Hundred[n]
<1>0. /\ UInt8Max \in Nat /\ MaximumDelay \in Nat /\ Spread \in 0..100
      /\ Hundred[n] \in Nat \ {0}
      /\ Backoff[n] = Nominal(n - 1) /\ Nominal(n - 1) \in Nat
  BY RetryAssumption, SettingsAreClean, HundredValues, BackoffIsNominal
<1> DEFINE low  == (Nominal(n - 1) * (100 - Spread)) \div Hundred[n]
           high == (Nominal(n - 1) * (100 + Spread)) \div Hundred[n]
<1>1. low \in Nat /\ high \in Nat
  <2>1. 100 - Spread \in Nat /\ 100 + Spread \in Nat
    BY <1>0
  <2>2. Nominal(n - 1) * (100 - Spread) \in Nat /\ Nominal(n - 1) * (100 + Spread) \in Nat
    BY <1>0, <2>1, Products
  <2>3. \A v \in Nat, unit \in Nat \ {0} : v \div unit \in Nat
    OBVIOUS
  <2>4. QED
    BY <1>0, <2>2, <2>3
<1>2. Greater(n, 1) = n
  BY DEF Greater
<1>3. d \in Lesser(low, MaximumDelay) .. Lesser(high, MaximumDelay)
  BY <1>0, <1>2 DEF RetryDelays
<1> HIDE DEF low, high
<1>4. d \in Nat /\ d <= MaximumDelay /\ d >= Lesser(low, MaximumDelay) /\ d <= high
  BY <1>0, <1>1, <1>3 DEF Lesser
<1>5. QED
  BY <1>4 DEF low, high

\* The delays depend on the state through the policy alone.
LEMMA DelaysKept ==
  ASSUME policy' = policy, NEW n
  PROVE  RetryDelays(n)' = RetryDelays(n)
BY DEF RetryDelays, Backoff, Multiplier, MaximumDelay, Spread
----------------------------------------------------------------------------
\* While a call goes on every outcome so far was retryable; the counter is one
\* ahead of the attempts made while one runs, equal to them during a sleep, and
\* never beyond the policy's number.
Counted ==
  /\ phase # "idle" => \A i \in 1..Len(outcomes) : ShouldRetry(outcomes[i])
  /\ phase = "operation" =>
       attempt = Len(outcomes) + 1 /\ attempt <= policy.max_attempts
  /\ phase = "sleep" =>
       attempt = Len(outcomes) /\ attempt < policy.max_attempts

\* Every sleep of the call was drawn by calculate_retry_delay after the attempt
\* it followed, and no attempt is beyond the width of the counter.
Drawn ==
  \A n \in 1..Len(slept) : n <= UInt8Max /\ slept[n] \in RetryDelays(n)

IInv == TypeOK /\ Counted /\ Drawn /\ RetryDisciplined

LEMMA AttemptsFit ==
  ASSUME NEW p \in Policies
  PROVE  p.max_attempts \in Nat /\ p.max_attempts <= UInt8Max /\ UInt8Max \in Nat
BY RetryAssumption DEF Policy

\* Counting up from below the widest value does not wrap around.
LEMMA NoWrap ==
  ASSUME NEW top \in Nat, NEW n \in 0..top, n < top
  PROVE  (n + 1) % (top + 1) = n + 1
OBVIOUS

LEMMA InitIInv == Init => IInv
<1> SUFFICES ASSUME Init PROVE IInv
  OBVIOUS
<1>1. outcomes = << >> /\ slept = << >> /\ phase = "idle" /\ attempt = 0
      /\ policy \in Policies /\ delay = 0 /\ returned = Error("none")
  BY DEF Init
<1>2. policy.max_attempts \in Nat
  BY <1>1, AttemptsFit
<1>3. QED
  BY <1>1, <1>2, RetryAssumption DEF IInv, TypeOK, Counted, Drawn, RetryDisciplined

\* A call starts with the counter at one, or ends at once.
LEMMA CallIInv ==
  ASSUME IInv, Call
  PROVE  IInv'
<1>1. /\ outcomes' = << >> /\ slept' = << >> /\ policy' = policy /\ attempt' = 1
      /\ policy \in Policies /\ delay' = 0
      /\ returned \in Outcome \cup {Error("none"), Exhausted}
  BY DEF Call, LoopHead, IInv, TypeOK
<1>2. policy.max_attempts \in Nat /\ UInt8Max \in Nat /\ 1 <= UInt8Max
  BY <1>1, AttemptsFit, RetryAssumption
<1>3. CASE 1 <= policy.max_attempts
  <2>1. phase' = "operation" /\ returned' = returned
    BY <1>3 DEF Call, LoopHead
  <2>2. QED
    BY <1>1, <1>2, <1>3, <2>1 DEF IInv, TypeOK, Counted, Drawn, RetryDisciplined, Exhausted
<1>4. CASE ~(1 <= policy.max_attempts)
  <2>1. phase' = "idle" /\ returned' = Exhausted
    BY <1>4 DEF Call, LoopHead
  <2>2. QED
    BY <1>1, <1>2, <1>4, <2>1 DEF IInv, TypeOK, Counted, Drawn, RetryDisciplined, Exhausted
<1>5. QED
  BY <1>3, <1>4

\* An attempt comes back: the history grows by its outcome, and the call goes
\* on only below the last attempt and after a retryable outcome.
LEMMA OperatedIInv ==
  ASSUME IInv, NEW o \in Outcome, Operated(o)
  PROVE  IInv'
<1> DEFINE made == Len(outcomes)
<1>1. /\ policy \in Policies /\ policy' = policy /\ phase = "operation"
      /\ attempt' = attempt /\ attempt = made + 1 /\ made \in Nat
      /\ attempt \in 0..UInt8Max
      /\ outcomes \in Seq(Outcome) /\ slept \in Seq(Nat) /\ Len(slept) = made
      /\ attempt <= policy.max_attempts
  BY DEF IInv, TypeOK, Counted, RetryDisciplined, Operated
<1>2. policy.max_attempts \in Nat /\ UInt8Max \in Nat /\ policy.max_attempts <= UInt8Max
  BY <1>1, AttemptsFit
<1>3. outcomes' = Append(outcomes, o)
  BY <1>1, <1>2 DEF Operated, Recorded
<1>4. /\ outcomes' \in Seq(Outcome) /\ Len(outcomes') = made + 1
      /\ outcomes'[made + 1] = o
      /\ \A i \in 1..made : outcomes'[i] = outcomes[i]
  BY <1>1, <1>3
<1>5. ASSUME NEW x PROVE ShouldRetry(x)' <=> ShouldRetry(x)
  BY <1>1 DEF ShouldRetry, ShouldRetryResponse, ShouldRetryError
<1>6. \A i \in 1..made : ShouldRetry(outcomes[i])
  BY <1>1 DEF IInv, Counted
<1>7. CASE GoesOn(o)
  <2>1. PICK d \in RetryDelays(attempt) : delay' = d /\ slept' = Recorded(slept, d)
    BY <1>7 DEF Operated
  <2>2. phase' = "sleep" /\ returned' = returned
    BY <1>7 DEF Operated
  <2>3. slept' = Append(slept, d) /\ d \in Nat
    <3>1. attempt \in 1..UInt8Max
      BY <1>1, <1>2
    <3>2. QED
      BY <1>1, <1>2, <2>1, <3>1, DelaysInBand DEF Recorded
  <2>4. /\ slept' \in Seq(Nat) /\ Len(slept') = made + 1
        /\ slept'[made + 1] = d
        /\ \A i \in 1..made : slept'[i] = slept[i]
    BY <1>1, <2>3
  <2>5. ShouldRetry(o) /\ attempt < policy.max_attempts
    BY <1>7 DEF GoesOn
  <2>6. (\A i \in 1..Len(outcomes) : ShouldRetry(outcomes[i]))'
    BY <1>1, <1>4, <1>5, <1>6, <2>5, SMTT(30)
  <2>7. TypeOK' /\ Counted'
    BY <1>1, <1>2, <1>4, <2>1, <2>2, <2>3, <2>4, <2>5, <2>6 DEF IInv, TypeOK, Counted
  <2>8. Drawn'
    <3>1. \A n \in 1..made : n <= UInt8Max /\ slept[n] \in RetryDelays(n)
      BY <1>1 DEF IInv, Drawn
    <3>2. \A n \in 1..(made + 1) : n <= UInt8Max /\ slept'[n] \in RetryDelays(n)
      <4>1. made + 1 <= UInt8Max /\ slept'[made + 1] \in RetryDelays(made + 1)
        BY <1>1, <1>2, <2>1, <2>4
      <4>2. \A n \in 1..(made + 1) : n \in 1..made \/ n = made + 1
        BY <1>1
      <4>3. QED
        BY <2>4, <3>1, <4>1, <4>2
    <3>3. \A n \in 1..(made + 1) : RetryDelays(n)' = RetryDelays(n)
      BY <1>1, DelaysKept
    <3>4. QED
      BY <2>4, <3>2, <3>3 DEF Drawn
  <2>9. RetryDisciplined'
    BY <1>1, <1>2, <1>4, <2>2, <2>4, <2>5, <2>6 DEF RetryDisciplined
  <2>10. QED
    BY <2>7, <2>8, <2>9 DEF IInv
<1>8. CASE ~GoesOn(o)
  <2>1. phase' = "idle" /\ returned' = o /\ slept' = slept /\ delay' = delay
    BY <1>8 DEF Operated
  <2>2. ShouldRetry(o) => attempt = policy.max_attempts
    BY <1>1, <1>2, <1>8 DEF GoesOn
  <2>3. TypeOK' /\ Counted' /\ Drawn'
    <3>1. TypeOK' /\ Counted'
      BY <1>1, <1>2, <1>4, <2>1 DEF IInv, TypeOK, Counted
    <3>2. QED
      BY <1>1, <2>1, <3>1, DelaysKept DEF IInv, Drawn
  <2>4. RetryDisciplined'
    BY <1>1, <1>2, <1>4, <1>5, <1>6, <2>1, <2>2, SMTT(30) DEF RetryDisciplined
  <2>5. QED
    BY <2>3, <2>4 DEF IInv
<1>9. QED
  BY <1>7, <1>8

\* After a sleep there is always an attempt left, so the counter neither wraps
\* nor falls through the loop.
LEMMA AwakeIInv ==
  ASSUME IInv, Awake
  PROVE  IInv'
<1> DEFINE made == Len(outcomes)
<1>1. /\ policy \in Policies /\ policy' = policy /\ phase = "sleep"
      /\ outcomes' = outcomes /\ slept' = slept
      /\ outcomes \in Seq(Outcome) /\ slept \in Seq(Nat)
      /\ attempt = made /\ made \in Nat /\ Len(slept) = made
      /\ attempt < policy.max_attempts
  BY DEF IInv, TypeOK, Counted, RetryDisciplined, Awake
<1>2. policy.max_attempts \in Nat /\ UInt8Max \in Nat /\ policy.max_attempts <= UInt8Max
  BY <1>1, AttemptsFit
<1>3. (attempt + 1) % (UInt8Max + 1) = attempt + 1
  BY <1>1, <1>2, NoWrap
<1>4. /\ attempt' = attempt + 1 /\ phase' = "operation"
      /\ delay' = 0 /\ returned' = returned
  BY <1>1, <1>2, <1>3 DEF Awake, LoopHead
<1>5. ASSUME NEW x PROVE ShouldRetry(x)' <=> ShouldRetry(x)
  BY <1>1 DEF ShouldRetry, ShouldRetryResponse, ShouldRetryError
<1>6. \A i \in 1..made : ShouldRetry(outcomes[i])
  BY <1>1 DEF IInv, Counted
<1>7. TypeOK' /\ Counted' /\ Drawn'
  <2>1. TypeOK' /\ Counted'
    BY <1>1, <1>2, <1>4, <1>5, <1>6 DEF IInv, TypeOK, Counted
  <2>2. QED
    BY <1>1, <2>1, DelaysKept DEF IInv, Drawn
<1>8. RetryDisciplined'
  BY <1>1, <1>2, <1>4, <1>5, <1>6 DEF RetryDisciplined
<1>9. QED
  BY <1>7, <1>8 DEF IInv

LEMMA SetPolicyIInv ==
  ASSUME IInv, SetPolicy
  PROVE  IInv'
<1>1. policy' \in Policies /\ outcomes' = << >> /\ slept' = << >> /\ phase' = "idle"
      /\ attempt' = 0 /\ returned' = Error("none") /\ delay' = delay /\ delay \in Nat
  BY DEF SetPolicy, IInv, TypeOK
<1>2. policy'.max_attempts \in Nat
  BY <1>1, AttemptsFit
<1>3. QED
  BY <1>1, <1>2, RetryAssumption DEF IInv, TypeOK, Counted, Drawn, RetryDisciplined

LEMMA NextIInv == IInv /\ [Next]_vars => IInv'
<1> SUFFICES ASSUME IInv, [Next]_vars PROVE IInv'
  OBVIOUS
<1>1. CASE Call
  BY <1>1, CallIInv
<1>2. ASSUME NEW o \in Outcome, Operated(o) PROVE IInv'
  BY <1>2, OperatedIInv
<1>3. CASE Awake
  BY <1>3, AwakeIInv
<1>4. CASE SetPolicy
  BY <1>4, SetPolicyIInv
<1>5. CASE UNCHANGED vars
  <2>1. TypeOK' /\ Counted' /\ RetryDisciplined'
    BY <1>5 DEF vars, IInv, TypeOK, Counted, RetryDisciplined, ShouldRetry,
                ShouldRetryResponse, ShouldRetryError
  <2>2. Drawn'
    BY <1>5, DelaysKept DEF vars, IInv, Drawn
  <2>3. QED
    BY <2>1, <2>2 DEF IInv
<1>6. QED
  BY <1>1, <1>2, <1>3, <1>4, <1>5 DEF Next

LEMMA Invariance == Spec => []IInv
BY InitIInv, NextIInv, PTL DEF Spec

\* Types: in particular every delay is a natural number, so no sleep is
\* negative and no attempt beyond the counter's width.
THEOREM RetryTyped == Spec => []TypeOK
<1>1. IInv => TypeOK
  BY DEF IInv
<1>2. QED
  BY <1>1, Invariance, PTL

\* Every call keeps to the discipline of retries, for every policy, counter
\* width and operation: never more attempts than allowed, never a retry of what
\* the policy does not retry, never a sleep after the last attempt.
THEOREM RetriesAreDisciplined == Spec => []RetryDisciplined
<1>1. IInv => RetryDisciplined
  BY DEF IInv
<1>2. QED
  BY <1>1, Invariance, PTL

\* Every sleep is within the jitter's band around the capped exponential, for
\* every policy, counter width and draw (calculate_retry_delay).
THEOREM DelaysKeepTheBand == Spec => []BackoffInBand
<1>1. IInv => BackoffInBand
  <2> SUFFICES ASSUME IInv, NEW n \in 1..Len(slept)
               PROVE  /\ 0 <= slept[n]
                      /\ slept[n] <= MaximumDelay
                      /\ slept[n] >= Lesser((Nominal(n - 1) * (100 - Spread)) \div Hundred[n],
                                            MaximumDelay)
                      /\ slept[n] <= (Nominal(n - 1) * (100 + Spread)) \div Hundred[n]
    BY DEF BackoffInBand
  <2>1. policy \in Policies /\ n <= UInt8Max /\ UInt8Max \in Nat /\ slept[n] \in RetryDelays(n)
    BY RetryAssumption DEF IInv, TypeOK, Drawn
  <2>2. n \in 1..UInt8Max
    BY <2>1
  <2>3. QED
    BY <2>1, <2>2, DelaysInBand
<1>2. QED
  BY <1>1, Invariance, PTL
=============================================================================
