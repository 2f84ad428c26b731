--------------------------- MODULE DateRangeProofs ---------------------------
(* What split_date_range promises, for every calendar, every range of dates   *)
(* and every size of chunk.                                                   *)
(*                                                                            *)
(* None of Partition and StaysInCalendar is inductive: the loop must be known *)
(* to stand, between two turns, on a day of the range right after the chunks  *)
(* that it has made (Underway).  For Coarsest it must also be known how far   *)
(* from the start that is: one full chunk for each turn (FullSoFar).          *)
EXTENDS DateRange, TLAPS

\* The chunks made so far, whatever is left of the range.
ChunksOK ==
  \A k \in 1..Len(ranges) :
     /\ ranges[k][1] <= ranges[k][2]
     /\ ranges[k][2] - ranges[k][1] <= max_days
     /\ k = 1 => ranges[k][1] = start
     /\ k > 1 => ranges[k][1] = ranges[k - 1][2] + 1

Underway ==
  status = "splitting" =>
    /\ ChunksOK
    /\ chunk_start >= start /\ chunk_start <= end
    /\ chunk_start = IF ranges = << >> THEN start ELSE ranges[Len(ranges)][2] + 1

Finished ==
  status = "done" =>
    ChunksOK /\ ranges # << >> /\ ranges[Len(ranges)][2] = end

SplitInv == TypeOK /\ StaysInCalendar /\ Underway /\ Finished

\* A chunk that begins where the others end makes a longer chain with them.
LEMMA OneMoreChunk ==
  ASSUME NEW s \in Seq(Days \X Days), NEW a \in Days, NEW b \in Days,
         NEW first \in Days, NEW size \in Nat,
         a <= b, b - a <= size,
         a = IF s = << >> THEN first ELSE s[Len(s)][2] + 1,
         \A k \in 1..Len(s) : /\ s[k][1] <= s[k][2]
                              /\ s[k][2] - s[k][1] <= size
                              /\ k = 1 => s[k][1] = first
                              /\ k > 1 => s[k][1] = s[k - 1][2] + 1
  PROVE  LET t == Append(s, <<a, b>>)
         IN  /\ t \in Seq(Days \X Days)
             /\ t # << >>
             /\ t[Len(t)][2] = b
             /\ \A k \in 1..Len(t) : /\ t[k][1] <= t[k][2]
                                     /\ t[k][2] - t[k][1] <= size
                                     /\ k = 1 => t[k][1] = first
                                     /\ k > 1 => t[k][1] = t[k - 1][2] + 1
<1> DEFINE t == Append(s, <<a, b>>)
<1>1. <<a, b>> \in Days \X Days
  OBVIOUS
<1>2. /\ t \in Seq(Days \X Days)
      /\ Len(t) = Len(s) + 1
      /\ t[Len(s) + 1] = <<a, b>>
      /\ \A k \in 1..Len(s) : t[k] = s[k]
  BY <1>1
<1>3. Len(s) \in Nat /\ (s = << >> <=> Len(s) = 0)
  OBVIOUS
<1> HIDE DEF t
<1>4. t # << >> /\ t[Len(t)][2] = b
  BY <1>2, <1>3
<1>5. ASSUME NEW k \in 1..Len(t)
      PROVE  /\ t[k][1] <= t[k][2]
             /\ t[k][2] - t[k][1] <= size
             /\ k = 1 => t[k][1] = first
             /\ k > 1 => t[k][1] = t[k - 1][2] + 1
  <2>1. CASE k \in 1..Len(s)
    <3>1. t[k] = s[k]
      BY <1>2, <2>1
    <3>2. k > 1 => k - 1 \in 1..Len(s)
      BY <1>3, <2>1
    <3>3. k > 1 => t[k - 1] = s[k - 1]
      BY <1>2, <3>2
    <3> QED
      BY <2>1, <3>1, <3>3
  <2>2. CASE k = Len(s) + 1
    <3>1. t[k][1] = a /\ t[k][2] = b
      BY <1>2, <2>2
    <3>2. k = 1 => s = << >>
      BY <1>3, <2>2
    <3>3. k > 1 => s # << >> /\ k - 1 = Len(s) /\ t[k - 1] = s[Len(s)]
      BY <1>2, <1>3, <2>2
    <3> QED
      BY <3>1, <3>2, <3>3
  <2> QED
    BY <1>2, <1>3, <2>1, <2>2
<1> QED
  BY <1>2, <1>4, <1>5 DEF t

\* Where there is more than a chunk left, the day after the next one is in range.
LEMMA RoomForMore ==
  ASSUME NEW from \in Days, NEW to \in Days, NEW first \in Days, NEW size \in Nat,
         first <= from, to - from > size
  PROVE  /\ from + size \in Days /\ from + size + 1 \in Days
         /\ from <= from + size /\ (from + size) - from <= size
         /\ from + size + 1 >= first /\ from + size + 1 <= to
  BY CalendarAssumption DEF Days

LEMMA SplitInit == Init => SplitInv
  BY CalendarAssumption
  DEF Init, SplitInv, TypeOK, StaysInCalendar, Underway, Finished, Days

LEMMA SplitStep == SplitInv /\ [Next]_dateVars => SplitInv'
<1> SUFFICES ASSUME SplitInv, [Next]_dateVars PROVE SplitInv'
  OBVIOUS
<1> USE CalendarAssumption
<1>1. ASSUME NEW from \in Dates, NEW to \in Dates, NEW size \in ChunkSizes,
             Split(from, to, size)
      PROVE  SplitInv'
  <2>1. ranges' = << >> /\ << >> \in Seq(Days \X Days) /\ Len(<< >>) = 0
    BY <1>1 DEF Split
  <2>2. CASE Splittable(from, to, size)
    <3>1. from \in Days /\ to \in Days /\ size \in Nat /\ from <= to
      BY <2>2 DEF Splittable, days_between, Days
    <3>2. /\ status' = "splitting"
          /\ start' = from /\ end' = to /\ max_days' = size /\ chunk_start' = from
      BY <1>1, <2>2 DEF Split
    <3> QED
      BY <2>1, <3>1, <3>2
      DEF SplitInv, TypeOK, StaysInCalendar, Underway, Finished, ChunksOK, Days
  <2>3. CASE ~Splittable(from, to, size)
    BY <1>1, <2>1, <2>3
    DEF Split, SplitInv, TypeOK, StaysInCalendar, Underway, Finished
  <2> QED
    BY <2>2, <2>3
<1>2. CASE LastChunk
  <2>1. /\ status = "splitting" /\ status' = "done"
        /\ end - chunk_start <= max_days
        /\ ranges' = Append(ranges, <<chunk_start, end>>)
        /\ UNCHANGED <<start, end, max_days, chunk_start>>
    BY <1>2 DEF LastChunk, Remaining, days_between
  <2>2. /\ ranges \in Seq(Days \X Days) /\ chunk_start \in Days /\ end \in Days
        /\ start \in Days /\ max_days \in Nat /\ chunk_start <= end
        /\ chunk_start = IF ranges = << >> THEN start ELSE ranges[Len(ranges)][2] + 1
        /\ ChunksOK
    BY <2>1 DEF SplitInv, TypeOK, Underway
  <2>3. /\ ranges' \in Seq(Days \X Days)
        /\ ranges' # << >> /\ ranges'[Len(ranges')][2] = end
        /\ ChunksOK'
    BY <2>1, <2>2, OneMoreChunk DEF ChunksOK
  <2> QED
    BY <2>1, <2>2, <2>3
    DEF SplitInv, TypeOK, StaysInCalendar, Underway, Finished
<1>3. CASE MoreChunks
  <2>1. /\ status = "splitting"
        /\ end - chunk_start > max_days
        /\ UNCHANGED <<start, end, max_days>>
    BY <1>3 DEF MoreChunks, Remaining, days_between
  <2>2. /\ ranges \in Seq(Days \X Days) /\ chunk_start \in Days /\ end \in Days
        /\ start \in Days /\ max_days \in Nat
        /\ chunk_start >= start
        /\ chunk_start = IF ranges = << >> THEN start ELSE ranges[Len(ranges)][2] + 1
        /\ ChunksOK
    BY <2>1 DEF SplitInv, TypeOK, Underway
  <2> DEFINE last == chunk_start + max_days
  <2>3. /\ last \in Days /\ last + 1 \in Days
        /\ chunk_start <= last /\ last - chunk_start <= max_days
        /\ last + 1 >= start /\ last + 1 <= end
    <3>1. chunk_start >= start <=> start <= chunk_start
      BY <2>2 DEF Days
    <3> QED
      BY <2>1, <2>2, <3>1, RoomForMore
  <2>4. /\ ranges' = Append(ranges, <<chunk_start, last>>)
        /\ chunk_start' = last + 1
        /\ status' = "splitting"
    BY <1>3, <2>1, <2>3 DEF MoreChunks, ChunkEnd, NextStart
  <2> HIDE DEF last
  <2>5. /\ ranges' \in Seq(Days \X Days)
        /\ ranges' # << >> /\ ranges'[Len(ranges')][2] = last
        /\ ChunksOK'
    BY <2>1, <2>2, <2>3, <2>4, OneMoreChunk DEF ChunksOK
  <2> QED
    BY <2>1, <2>2, <2>3, <2>4, <2>5
    DEF SplitInv, TypeOK, StaysInCalendar, Underway, Finished
<1>4. CASE Taken
  BY <1>4 DEF Taken, SplitInv, TypeOK, StaysInCalendar, Underway, Finished
<1>5. CASE UNCHANGED dateVars
  BY <1>5 DEF dateVars, SplitInv, TypeOK, StaysInCalendar, Underway, Finished, ChunksOK
<1> QED
  BY <1>1, <1>2, <1>3, <1>4, <1>5 DEF Next, SplitOn

LEMMA SplitInvImplies == SplitInv => TypeOK /\ Partition /\ StaysInCalendar
<1> SUFFICES ASSUME SplitInv PROVE Partition
  BY DEF SplitInv
<1>1. SUFFICES ASSUME status = "done" PROVE Partition
  BY DEF Partition
<1>2. /\ ranges \in Seq(Days \X Days) /\ ranges # << >>
      /\ ranges[Len(ranges)][2] = end
      /\ ChunksOK
  BY <1>1 DEF SplitInv, TypeOK, Finished
<1>3. Len(ranges) >= 1
  BY <1>2
<1>4. ranges[1][1] = start
  BY <1>2, <1>3 DEF ChunksOK
<1> QED
  BY <1>2, <1>4 DEF Partition, ChunksOK, days_between

----------------------------------------------------------------------------
\* Every turn but the last takes a full chunk.
FullSoFar ==
  status = "splitting" => chunk_start = start + Len(ranges) * (max_days + 1)

CountInv == SplitInv /\ FullSoFar /\ Coarsest

\* What is less than c does not change how often c fits.
LEMMA Quotient ==
  ASSUME NEW q \in Nat, NEW c \in Nat, c > 0, NEW r \in 0..c - 1
  PROVE  (q * c + r) \div c = q
<1> DEFINE p == (q * c + r) \div c
<1>1. q * c + r \in Nat /\ p \in Int
  OBVIOUS
<1>2. c * p <= q * c + r /\ q * c + r < c * p + c
  OBVIOUS
<1>3. ASSUME p < q PROVE FALSE
  <2>1. c * (p + 1) <= c * q
    BY <1>1, <1>3
  <2> QED
    BY <1>1, <1>2, <2>1
<1>4. ASSUME p > q PROVE FALSE
  <2>1. c * (q + 1) <= c * p
    BY <1>1, <1>4
  <2> QED
    BY <1>1, <1>2, <2>1
<1> QED
  BY <1>1, <1>3, <1>4

\* After n full chunks, what is left fits into one more.
LEMMA LastOfThem ==
  ASSUME NEW from \in Int, NEW to \in Int, NEW n \in Nat, NEW size \in Nat,
         NEW last \in Int, last = from + n * (size + 1),
         last <= to, to - last <= size
  PROVE  n + 1 = (to - from + 1 + size) \div (size + 1)
<1>1. n * (size + 1) \in Nat /\ to - last \in 0..(size + 1) - 1
  OBVIOUS
<1>2. (n + 1) * (size + 1) = n * (size + 1) + size + 1
  OBVIOUS
<1>3. to - from + 1 + size = (n + 1) * (size + 1) + (to - last)
  BY <1>1, <1>2
<1> QED
  BY <1>1, <1>3, Quotient

LEMMA CountStep == CountInv /\ [Next]_dateVars => CountInv'
<1> SUFFICES ASSUME CountInv, [Next]_dateVars PROVE FullSoFar' /\ Coarsest'
  BY SplitStep DEF CountInv
<1> USE CalendarAssumption
<1>1. ASSUME NEW from \in Dates, NEW to \in Dates, NEW size \in ChunkSizes,
             Split(from, to, size)
      PROVE  FullSoFar' /\ Coarsest'
  <2>1. CASE Splittable(from, to, size)
    <3>1. from \in Days /\ size \in Nat
      BY <2>1 DEF Splittable
    <3>2. /\ status' = "splitting" /\ ranges' = << >>
          /\ start' = from /\ max_days' = size /\ chunk_start' = from
      BY <1>1, <2>1 DEF Split
    <3> QED
      BY <3>1, <3>2 DEF FullSoFar, Coarsest, Days
  <2>2. CASE ~Splittable(from, to, size)
    BY <1>1, <2>2 DEF Split, FullSoFar, Coarsest
  <2> QED
    BY <2>1, <2>2
<1>2. CASE LastChunk
  <2>1. /\ status = "splitting" /\ status' = "done"
        /\ end - chunk_start <= max_days
        /\ ranges' = Append(ranges, <<chunk_start, end>>)
        /\ UNCHANGED <<start, end, max_days>>
    BY <1>2 DEF LastChunk, Remaining, days_between
  <2>2. /\ start \in Int /\ end \in Int /\ max_days \in Nat /\ chunk_start \in Int
        /\ chunk_start <= end
        /\ chunk_start = start + Len(ranges) * (max_days + 1)
        /\ Len(ranges) \in Nat
        /\ Len(ranges') = Len(ranges) + 1
    BY <2>1 DEF CountInv, SplitInv, TypeOK, Underway, FullSoFar, Days
  <2>3. Len(ranges) + 1 = (end - start + 1 + max_days) \div (max_days + 1)
    BY <2>1, <2>2, LastOfThem
  <2> QED
    BY <2>1, <2>2, <2>3 DEF FullSoFar, Coarsest, days_between
<1>3. CASE MoreChunks
  <2>1. /\ status = "splitting" /\ UNCHANGED <<start, max_days>>
        /\ status' # "done"
    BY <1>3 DEF MoreChunks
  <2>2. CASE status' = "splitting"
    <3>1. /\ chunk_start' = chunk_start + max_days + 1
          /\ ranges' = Append(ranges, <<chunk_start, chunk_start + max_days>>)
      BY <1>3, <2>2 DEF MoreChunks, ChunkEnd, NextStart
    <3>2. /\ start \in Int /\ max_days \in Nat /\ chunk_start \in Int
          /\ chunk_start = start + Len(ranges) * (max_days + 1)
          /\ Len(ranges) \in Nat
          /\ Len(ranges') = Len(ranges) + 1
      BY <2>1, <3>1 DEF CountInv, SplitInv, TypeOK, FullSoFar, Days
    <3>3. (Len(ranges) + 1) * (max_days + 1) = Len(ranges) * (max_days + 1) + max_days + 1
      BY <3>2
    <3> QED
      BY <2>1, <2>2, <3>1, <3>2, <3>3 DEF FullSoFar, Coarsest
  <2> QED
    BY <2>1, <2>2 DEF FullSoFar, Coarsest
<1>4. CASE Taken
  BY <1>4 DEF Taken, FullSoFar, Coarsest
<1>5. CASE UNCHANGED dateVars
  BY <1>5 DEF dateVars, CountInv, FullSoFar, Coarsest
<1> QED
  BY <1>1, <1>2, <1>3, <1>4, <1>5 DEF Next, SplitOn
----------------------------------------------------------------------------
LEMMA AlwaysSplitInv == Spec => []SplitInv
  BY SplitInit, SplitStep, PTL DEF Spec

\* The variables of split_date_range keep their types.
THEOREM SplitTyped == Spec => []TypeOK
<1>1. SplitInv => TypeOK
  BY DEF SplitInv
<1> QED
  BY <1>1, AlwaysSplitInv, PTL

\* The chunks of split_date_range partition the range, in order and without a
\* gap, each within the limit.
THEOREM SplitIsAPartition == Spec => []Partition
  BY AlwaysSplitInv, SplitInvImplies, PTL

\* split_date_range never steps out of the calendar, 9999-12-31 included:
\* add_days does not throw there.
THEOREM SplitStaysInCalendar == Spec => []StaysInCalendar
<1>1. SplitInv => StaysInCalendar
  BY DEF SplitInv
<1> QED
  BY <1>1, AlwaysSplitInv, PTL

\* split_date_range makes as few chunks, and its callers so as few requests, as
\* the limit allows.
THEOREM SplitIsCoarsest == Spec => []Coarsest
<1>1. Init => CountInv
  BY SplitInit DEF CountInv, Init, FullSoFar, Coarsest
<1>2. CountInv => Coarsest
  BY DEF CountInv
<1> QED
  BY <1>1, <1>2, CountStep, PTL DEF Spec
=============================================================================
