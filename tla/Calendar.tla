------------------------------- MODULE Calendar -------------------------------
(* Dates as strings: parse_date, format_date, days_between and add_days of    *)
(* src/core/date_range.cpp.  The calendar of std::chrono, and its days        *)
(* (counted from 0001-01-01), are external.                                   *)
(*                                                                            *)
(* A string is whether it has ten characters with dashes in their places, and *)
(* what std::from_chars reads in each of the three fields: a number, or       *)
(* nothing (Unreadable) if it does not take the whole field.                  *)
(*                                                                            *)
(* An operator Name_Flaw is Name with the flaw that its suffix tells, for the *)
(* model checker to put in Name's place.                                      *)
EXTENDS Integers, Sequences

CONSTANT Unreadable

LeapYear(year) == year % 4 = 0 /\ (year % 100 = 0 => year % 400 = 0)

LeapDay(year) == IF LeapYear(year) THEN 1 ELSE 0

DaysIn(year, month) ==
  <<31, 28, 31, 30, 31, 30, 31, 31, 30, 31, 30, 31>>[month]
    + (IF month = 2 THEN LeapDay(year) ELSE 0)

DaysBefore(year, month) ==
  LET past == year - 1
  IN  365 * past + past \div 4 - past \div 100 + past \div 400
        + <<0, 31, 59, 90, 120, 151, 181, 212, 243, 273, 304, 334>>[month]
        + (IF month > 2 THEN LeapDay(year) ELSE 0)

DayNumber(parts) == DaysBefore(parts.year, parts.month) + parts.day - 1
----------------------------------------------------------------------------
Years == {year \in Int : 1 <= year /\ year <= 9999}

\* What to_sys_days lets through.  The calendar itself goes on beyond both ends.
InCalendar_AnyYear(parts) ==
  /\ parts.month \in 1..12
  /\ parts.day \in 1..DaysIn(parts.year, parts.month)

InCalendar(parts) ==
  /\ parts.year \in Years
  /\ parts.month \in 1..12
  /\ parts.day \in 1..DaysIn(parts.year, parts.month)

from_sys_days(day) ==
  CHOOSE parts \in [year : day \div 366 .. day \div 365 + 1, month : 1..12, day : 1..31] :
    /\ parts.day \in 1..DaysIn(parts.year, parts.month)
    /\ DayNumber(parts) = day

\* The parts of a string, and whether parse_date returns them or throws.
PartsOf(string) == [year |-> string.year, month |-> string.month, day |-> string.day]

IsDate(string) ==
  /\ string.shaped
  /\ Unreadable \notin {string.year, string.month, string.day}
  /\ InCalendar(PartsOf(string))

\* Parts in the calendar fill their fields.
format_date(parts) ==
  [shaped |-> TRUE, year |-> parts.year, month |-> parts.month, day |-> parts.day]

DayOf(date) == DayNumber(PartsOf(date))

days_between(from, to) == DayOf(to) - DayOf(from)

FirstDay == DayOf([year |-> 1, month |-> 1, day |-> 1])
LastDay  == DayOf([year |-> 9999, month |-> 12, day |-> 31])

\* What add_days returns: a date, or none where it throws out_of_range.
Sums(date, days) ==
  {format_date(from_sys_days(day)) :
     day \in {DayOf(date) + days} \cap (FirstDay..LastDay)}
=============================================================================
