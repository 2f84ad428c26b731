---------------------------- MODULE MCDateStrings ----------------------------
(* DateStrings for TLC: strings at both ends of the calendar, around months,  *)
(* years and leap days that are and are not, and strings that are no date;    *)
(* every pair of them, with chunks of a day to the whole calendar.            *)
EXTENDS DateStrings

Date(year, month, day) ==
  [shaped |-> TRUE, year |-> year, month |-> month, day |-> day]

MCDates ==
  { Date(1, 1, 1), Date(1900, 2, 28), Date(1900, 3, 1), Date(2000, 2, 28),
    Date(2000, 12, 31), Date(2024, 2, 29), Date(9999, 12, 30), Date(9999, 12, 31) }

MCNoDates ==
  { Date(0, 12, 31), Date(1900, 2, 29), Date(2023, 4, 31), Date(2023, 13, 1),
    Date(2023, 1, 0), Date(Unreadable, 1, 1), Date(2023, 1, Unreadable),
    [Date(2023, 1, 1) EXCEPT !.shaped = FALSE] }

\* Chunks of a day, a month, a year, a century, and around the whole calendar.
MCSizes == {0, 30, 365, 36524, LastDay - 1, LastDay}

MaxChunks == 6   \* no call is made whose range needs more

MCCalls ==
  { call \in MCDates \X MCDates \X MCSizes :
      days_between(call[1], call[2]) \in -1..MaxChunks * (call[3] + 1) - 1 }
  \cup (MCNoDates \X {First} \X {365})
  \cup ({First} \X MCNoDates \X {365})
  \cup {<<First, First, -1>>}
=============================================================================
