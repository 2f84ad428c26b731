------------------------------ MODULE DateRange ------------------------------
(* ncei::split_date_range (src/core/date_range.cpp), its loop step by step.   *)
(*                                                                            *)
(* A date is the number of its day (std::chrono::sys_days), and a string that *)
(* parse_date rejects is Malformed; module DateStrings has the strings and    *)
(* implements this one.  FirstDay and LastDay are 0001-01-01 and 9999-12-31,  *)
(* outside of which add_days throws out_of_range.                             *)
(*                                                                            *)
(* An operator Name_Flaw is Name with the flaw that its suffix tells, for the *)
(* model checker to put in Name's place.                                      *)
EXTENDS IntegerBounds, Sequences

CONSTANTS
  FirstDay, LastDay,  \* the calendar
  Malformed,          \* a string that is no date
  Dates,              \* the strings that callers pass
  ChunkSizes          \* the max_days that callers pass

Days == FirstDay..LastDay

ASSUME CalendarAssumption ==
  /\ FirstDay \in Int /\ LastDay \in Int
  /\ FirstDay <= LastDay
  /\ Malformed \notin Int
  /\ Dates \subseteq Days \cup {Malformed}
  /\ ChunkSizes \subseteq Int

VARIABLES
  status,             \* "idle", "splitting", "done", or what it threw
  start, end, max_days,
  chunk_start,
  ranges              \* pairs <<first day, last day>>

dateVars == <<status, start, end, max_days, chunk_start, ranges>>

Init ==
  /\ status = "idle"
  /\ start = FirstDay /\ end = FirstDay
  /\ max_days = 0
  /\ chunk_start = FirstDay
  /\ ranges = << >>

days_between(from, to) == to - from

\* The argument checks; all of them throw the same exception.
Splittable(from, to, size) ==
  /\ size >= 0
  /\ from # Malformed
  /\ to # Malformed
  /\ days_between(from, to) >= 0

Split(from, to, size) ==
  /\ status = "idle"
  /\ ranges' = << >>
  /\ IF Splittable(from, to, size)
       THEN /\ status' = "splitting"
            /\ start' = from /\ end' = to
            /\ max_days' = size
            /\ chunk_start' = from
       ELSE /\ status' = "invalid_argument"
            /\ UNCHANGED <<start, end, max_days, chunk_start>>

Remaining_Inclusive == days_between(chunk_start, end) + 1
Remaining == days_between(chunk_start, end)

LastChunk ==
  /\ status = "splitting"
  /\ Remaining <= max_days
  /\ ranges' = Append(ranges, <<chunk_start, end>>)
  /\ status' = "done"
  /\ UNCHANGED <<start, end, max_days, chunk_start>>

ChunkEnd_OneShort == chunk_start + max_days - 1
ChunkEnd == chunk_start + max_days

NextStart_Overlaps(chunk_end) == chunk_end
NextStart(chunk_end) == chunk_end + 1

\* A chunk of one day is taken for an empty one, and the loop goes round again.
MoreChunks_SkipsOneDay ==
  /\ status = "splitting"
  /\ Remaining > max_days
  /\ IF ChunkEnd = chunk_start
       THEN UNCHANGED <<ranges, chunk_start>>
       ELSE /\ ranges' = Append(ranges, <<chunk_start, ChunkEnd>>)
            /\ chunk_start' = NextStart(ChunkEnd)
  /\ UNCHANGED <<status, start, end, max_days>>

MoreChunks ==
  /\ status = "splitting"
  /\ Remaining > max_days
  /\ IF ChunkEnd \in Days /\ NextStart(ChunkEnd) \in Days
       THEN /\ ranges' = Append(ranges, <<chunk_start, ChunkEnd>>)
            /\ chunk_start' = NextStart(ChunkEnd)
            /\ UNCHANGED status
       ELSE /\ status' = "out_of_range"    \* add_days throws
            /\ UNCHANGED <<ranges, chunk_start>>
  /\ UNCHANGED <<start, end, max_days>>

SplitOn == LastChunk \/ MoreChunks

\* The caller has taken the result, or the exception.
Taken ==
  /\ status \in {"done", "invalid_argument", "out_of_range"}
  /\ status' = "idle"
  /\ UNCHANGED <<start, end, max_days, chunk_start, ranges>>

Next ==
  \/ \E from, to \in Dates : \E size \in ChunkSizes : Split(from, to, size)
  \/ SplitOn
  \/ Taken

Spec == Init /\ [][Next]_dateVars

FairSpec == Spec /\ WF_dateVars(SplitOn)
----------------------------------------------------------------------------
TypeOK ==
  /\ status \in {"idle", "splitting", "done", "invalid_argument", "out_of_range"}
  /\ start \in Days /\ end \in Days
  /\ max_days \in Nat
  /\ chunk_start \in Days
  /\ ranges \in Seq(Days \X Days)

\* The chunks are a partition of start..end in order: they begin at start, end
\* at end, leave no day out, repeat none, and none spans more than max_days.
Partition ==
  status = "done" =>
    /\ ranges # << >>
    /\ ranges[1][1] = start
    /\ ranges[Len(ranges)][2] = end
    /\ \A k \in 1..Len(ranges) : ranges[k][1] <= ranges[k][2]
    /\ \A k \in 1..Len(ranges) : days_between(ranges[k][1], ranges[k][2]) <= max_days
    /\ \A k \in 1..Len(ranges) : k > 1 => ranges[k][1] = ranges[k - 1][2] + 1

\* The split is as coarse as the limit allows: every chunk but the last one is
\* as long as it may be, which makes their number (days + max_days) \div
\* (max_days + 1), and so the number of requests, as small as it can be.
Coarsest ==
  status = "done" =>
    Len(ranges) = (days_between(start, end) + 1 + max_days) \div (max_days + 1)

\* Dates inside the calendar are never split by stepping out of it, up to its
\* very last day: add_days is only called where a later day is known to exist.
StaysInCalendar == status # "out_of_range"

\* The loop ends, also with chunks of a single day (max_days = 0).
SplitEnds == (status = "splitting") ~> (status # "splitting")
=============================================================================
