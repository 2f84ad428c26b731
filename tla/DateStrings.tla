------------------------------ MODULE DateStrings ------------------------------
(* split_date_range again (src/core/date_range.cpp), now with the strings it  *)
(* works on: every turn of its loop reads two dates, computes, and writes two.*)
(* DateRange has the numbers of their days instead, and is implemented.       *)
EXTENDS Calendar

CONSTANTS
  Calls,        \* the arguments of callers, <<start, end, max_days>>
  Malformed     \* DateRange's day of a string that is no date

\* A string of any caller's, in the terms of module Calendar.
Field == Int \cup {Unreadable}
String == [shaped : BOOLEAN, year : Field, month : Field, day : Field]

ASSUME StringsAssumption ==
  /\ Unreadable \notin Int
  /\ Malformed \notin Int
  /\ Calls \subseteq String \X String \X Int

VARIABLES status, start, end, max_days, chunk_start, ranges   \* as in DateRange

dateVars == <<status, start, end, max_days, chunk_start, ranges>>

First == format_date(from_sys_days(FirstDay))

Init ==
  /\ status = "idle"
  /\ start = First /\ end = First
  /\ max_days = 0
  /\ chunk_start = First
  /\ ranges = << >>

Splittable(from, to, size) ==
  /\ size >= 0
  /\ IsDate(from) /\ IsDate(to)
  /\ days_between(from, to) >= 0

Split(from, to, size) ==
  /\ status = "idle"
  /\ ranges' = << >>
  /\ IF Splittable(from, to, size)
       THEN /\ status' = "splitting"
            /\ start' = from /\ end' = to
            /\ max_days' = size
            /\ chunk_start' = from
       ELSE /\ status' = "invalid_argument"
            /\ UNCHANGED <<start, end, max_days, chunk_start>>

LastChunk ==
  /\ status = "splitting"
  /\ days_between(chunk_start, end) <= max_days
  /\ ranges' = Append(ranges, <<chunk_start, end>>)
  /\ status' = "done"
  /\ UNCHANGED <<start, end, max_days, chunk_start>>

\* Both dates that a turn adds up exist, or one of the two calls throws.
MoreChunks ==
  LET ends  == Sums(chunk_start, max_days)
      nexts == UNION {Sums(chunk_end, 1) : chunk_end \in ends}
  IN  /\ status = "splitting"
      /\ days_between(chunk_start, end) > max_days
      /\ IF nexts = {}
           THEN /\ status' = "out_of_range"
                /\ UNCHANGED <<ranges, chunk_start>>
           ELSE \E chunk_end \in ends, next \in nexts :
                  /\ ranges' = Append(ranges, <<chunk_start, chunk_end>>)
                  /\ chunk_start' = next
                  /\ UNCHANGED status
      /\ UNCHANGED <<start, end, max_days>>

Taken ==
  /\ status \in {"done", "invalid_argument", "out_of_range"}
  /\ status' = "idle"
  /\ UNCHANGED <<start, end, max_days, chunk_start, ranges>>

Next ==
  \/ \E call \in Calls : Split(call[1], call[2], call[3])
  \/ LastChunk
  \/ MoreChunks
  \/ Taken

Spec == Init /\ [][Next]_dateVars
----------------------------------------------------------------------------
\* The day that a string stands for, if it is one of the years 1 to 9999.
Meaning(string) ==
  IF /\ string \in [shaped : {TRUE}, year : Years, month : 1..12, day : 1..31]
     /\ string.day <= DaysIn(string.year, string.month)
    THEN DayOf(string)
    ELSE Malformed

MeantRanges(pairs) == [k \in DOMAIN pairs |-> <<Meaning(pairs[k][1]), Meaning(pairs[k][2])>>]

MeantDays == UNION {{Meaning(call[1]), Meaning(call[2])} : call \in Calls}
MeantSizes == {call[3] : call \in Calls}

Days == INSTANCE DateRange WITH
  Dates       <- MeantDays,
  ChunkSizes  <- MeantSizes,
  start       <- Meaning(start),
  end         <- Meaning(end),
  chunk_start <- Meaning(chunk_start),
  ranges      <- MeantRanges(ranges)

\* Splitting strings is splitting days: parse_date takes exactly the dates of
\* the calendar, format_date loses nothing, and add_days goes from date to date
\* across the ends of months and years, leap days included, throwing at the
\* ends of the calendar and nowhere else.  So what holds of DateRange's chunks
\* holds of the strings that the code returns.
ImplementsDateRange == Days!Spec
=============================================================================
