-------------------------- MODULE DateStringsProofs --------------------------
(* split_date_range on strings implements the splitting of day numbers, for   *)
(* every date of the years 1 to 9999 and for every string that is none.  The  *)
(* calendar comes first: a year is 365 days and its leap day, years and       *)
(* months follow each other without a gap, so every day has one date and      *)
(* every date one day.  Then parse_date, format_date and add_days are seen    *)
(* through the days that strings mean, and every step of the loop is a step   *)
(* of DateRange, whose theorems (module DateRangeProofs) carry over.          *)
EXTENDS DateStrings, TLAPS

----------------------------------------------------------------------------
(* The calendar: months within a year, and years one after the other.         *)

YearStart(year) == DaysBefore(year, 1)

\* A year has one leap day or none.
LEMMA LeapDayIsADay ==
  ASSUME NEW year \in Int
  PROVE  LeapDay(year) \in 0..1
BY DEF LeapDay

\* How long the months are, and what day of the year each begins on.
LEMMA MonthTable ==
  ASSUME NEW year \in Int
  PROVE  /\ DaysIn(year, 1) = 31 /\ DaysIn(year, 2) = 28 + LeapDay(year)
         /\ DaysIn(year, 3) = 31 /\ DaysIn(year, 4) = 30
         /\ DaysIn(year, 5) = 31 /\ DaysIn(year, 6) = 30
         /\ DaysIn(year, 7) = 31 /\ DaysIn(year, 8) = 31
         /\ DaysIn(year, 9) = 30 /\ DaysIn(year, 10) = 31
         /\ DaysIn(year, 11) = 30 /\ DaysIn(year, 12) = 31
BY LeapDayIsADay DEF DaysIn

\* The day on which a year begins: 365 for each year before, and leap days.
LEMMA YearFormula ==
  ASSUME NEW year \in Int
  PROVE  LET past == year - 1
         IN  /\ YearStart(year) = 365 * past + past \div 4 - past \div 100 + past \div 400
             /\ YearStart(year) \in Int
BY DEF DaysBefore, YearStart

\* The same for the year after, without taking one off again.
LEMMA NextYearFormula ==
  ASSUME NEW year \in Int
  PROVE  YearStart(year + 1) = 365 * year + year \div 4 - year \div 100 + year \div 400
<1>1. year + 1 \in Int /\ (year + 1) - 1 = year
  OBVIOUS
<1>2. QED
  BY <1>1, YearFormula

\* The day on which each month begins.
LEMMA YearTable ==
  ASSUME NEW year \in Int
  PROVE  LET begin == YearStart(year)
             leap == LeapDay(year)
         IN  /\ DaysBefore(year, 1) = begin
             /\ DaysBefore(year, 2) = begin + 31
             /\ DaysBefore(year, 3) = begin + 59 + leap
             /\ DaysBefore(year, 4) = begin + 90 + leap
             /\ DaysBefore(year, 5) = begin + 120 + leap
             /\ DaysBefore(year, 6) = begin + 151 + leap
             /\ DaysBefore(year, 7) = begin + 181 + leap
             /\ DaysBefore(year, 8) = begin + 212 + leap
             /\ DaysBefore(year, 9) = begin + 243 + leap
             /\ DaysBefore(year, 10) = begin + 273 + leap
             /\ DaysBefore(year, 11) = begin + 304 + leap
             /\ DaysBefore(year, 12) = begin + 334 + leap
BY YearFormula, LeapDayIsADay DEF DaysBefore, YearStart

\* A year has 365 days, or 366.
LEMMA YearLength ==
  ASSUME NEW year \in Int
  PROVE  YearStart(year + 1) = YearStart(year) + 365 + LeapDay(year)
<1> DEFINE Multiple(n) == IF year % n = 0 THEN 1 ELSE 0
           past == year - 1
<1>1. /\ year \div 4 = past \div 4 + Multiple(4)
      /\ year \div 100 = past \div 100 + Multiple(100)
      /\ year \div 400 = past \div 400 + Multiple(400)
  OBVIOUS
<1>2. LeapDay(year) = Multiple(4) - Multiple(100) + Multiple(400)
  <2>1. /\ year % 400 = 0 => year % 100 = 0
        /\ year % 100 = 0 => year % 4 = 0
    OBVIOUS
  <2>2. QED
    BY <2>1 DEF LeapDay, LeapYear
<1>3. /\ YearStart(year) = 365 * past + past \div 4 - past \div 100 + past \div 400
      /\ YearStart(year + 1) = 365 * year + year \div 4 - year \div 100 + year \div 400
  BY YearFormula, NextYearFormula
<1>4. QED
  BY <1>1, <1>2, <1>3

\* Years follow each other: a later one begins no earlier than this one ends.
LEMMA YearsInOrder ==
  ASSUME NEW year \in Int, NEW later \in Int, year < later
  PROVE  YearStart(year + 1) <= YearStart(later)
<1> DEFINE Leaps(n) == n \div 4 - n \div 100 + n \div 400
           past == later - 1
<1>1. /\ YearStart(later) = 365 * past + Leaps(past)
      /\ YearStart(year + 1) = 365 * year + Leaps(year)
  BY YearFormula, NextYearFormula
<1>2. Leaps(past) >= Leaps(year) - 3
  OBVIOUS
<1>3. CASE past = year
  BY <1>1, <1>3
<1>4. CASE past > year
  BY <1>1, <1>2, <1>4
<1>5. QED
  BY <1>3, <1>4

\* In the first years of the calendar, and so in all of them, leap days are
\* fewer than years.
LEMMA YearStartIsNear ==
  ASSUME NEW year \in Nat
  PROVE  365 * year <= YearStart(year + 1) /\ YearStart(year + 1) <= 366 * year
<1>1. YearStart(year + 1) = 365 * year + year \div 4 - year \div 100 + year \div 400
  BY YearFormula, NextYearFormula
<1>2. year \div 4 - year \div 100 >= 0 /\ year \div 400 >= 0
  OBVIOUS
<1>3. year \div 4 <= year /\ year \div 100 >= year \div 400
  OBVIOUS
<1>4. QED
  BY <1>1, <1>2, <1>3

\* Months follow each other within their year.
LEMMA MonthsInOrder ==
  ASSUME NEW year \in Int, NEW month \in 1..12
  PROVE  /\ DaysIn(year, month) \in 28..31
         /\ DaysBefore(year, month) \in Int
         /\ DaysBefore(year, month) >= YearStart(year)
         /\ DaysBefore(year, month) + DaysIn(year, month) <= YearStart(year + 1)
         /\ \A later \in 1..12 :
              month < later =>
                DaysBefore(year, month) + DaysIn(year, month) <= DaysBefore(year, later)
<1>1. \A m \in 1..12 : \/ m = 1 \/ m = 2 \/ m = 3 \/ m = 4 \/ m = 5 \/ m = 6
                       \/ m = 7 \/ m = 8 \/ m = 9 \/ m = 10 \/ m = 11 \/ m = 12
  OBVIOUS
<1>2. /\ YearStart(year) \in Int /\ LeapDay(year) \in 0..1
      /\ YearStart(year + 1) = YearStart(year) + 365 + LeapDay(year)
  BY YearFormula, YearLength, LeapDayIsADay
<1>3. /\ DaysIn(year, month) \in 28..31
      /\ DaysBefore(year, month) \in Int
      /\ DaysBefore(year, month) >= YearStart(year)
      /\ DaysBefore(year, month) + DaysIn(year, month) <= YearStart(year + 1)
  BY <1>1, <1>2, MonthTable, YearTable
<1>4. ASSUME NEW later \in 1..12, month < later
      PROVE  DaysBefore(year, month) + DaysIn(year, month) <= DaysBefore(year, later)
  BY <1>1, <1>2, <1>4, MonthTable, YearTable
<1>5. QED
  BY <1>3, <1>4

----------------------------------------------------------------------------
(* Parts of a date and the number of its day determine each other.            *)

Parts == [year : Int, month : 1..12, day : 1..31]

\* Dates of the calendar that goes on beyond both ends of the years that
\* to_sys_days takes.
IsParts(parts) == parts \in Parts /\ parts.day <= DaysIn(parts.year, parts.month)

\* A date lies in its month and in its year.
LEMMA DayNumberBounds ==
  ASSUME NEW parts, IsParts(parts)
  PROVE  /\ DayNumber(parts) \in Int
         /\ DayNumber(parts) >= DaysBefore(parts.year, parts.month)
         /\ DayNumber(parts) < DaysBefore(parts.year, parts.month)
                                 + DaysIn(parts.year, parts.month)
         /\ YearStart(parts.year) <= DayNumber(parts)
         /\ DayNumber(parts) < YearStart(parts.year + 1)
         /\ DayNumber(parts) + 1 - DaysBefore(parts.year, parts.month) = parts.day
<1>1. parts.year \in Int /\ parts.month \in 1..12 /\ parts.day \in 1..31
      /\ parts.day <= DaysIn(parts.year, parts.month)
  BY DEF IsParts, Parts
<1>2. /\ DaysBefore(parts.year, parts.month) \in Int
      /\ DaysBefore(parts.year, parts.month) >= YearStart(parts.year)
      /\ DaysBefore(parts.year, parts.month) + DaysIn(parts.year, parts.month)
           <= YearStart(parts.year + 1)
      /\ DaysIn(parts.year, parts.month) \in 28..31
  BY <1>1, MonthsInOrder
<1>3. YearStart(parts.year) \in Int /\ YearStart(parts.year + 1) \in Int
  BY <1>1, YearFormula
<1>4. QED
  BY <1>1, <1>2, <1>3 DEF DayNumber

\* No day has two dates.
LEMMA DatesAreUnique ==
  ASSUME NEW one, IsParts(one), NEW other, IsParts(other),
         DayNumber(one) = DayNumber(other)
  PROVE  one = other
<1>1. /\ one.year \in Int /\ one.month \in 1..12 /\ one.day \in 1..31
      /\ other.year \in Int /\ other.month \in 1..12 /\ other.day \in 1..31
  BY DEF IsParts, Parts
<1>2. one.year = other.year
  <2>1. ~(one.year < other.year)
    <3>1. one.year < other.year => YearStart(one.year + 1) <= YearStart(other.year)
      BY <1>1, YearsInOrder
    <3>2. QED
      BY <1>1, <3>1, DayNumberBounds, YearFormula
  <2>2. ~(other.year < one.year)
    <3>1. other.year < one.year => YearStart(other.year + 1) <= YearStart(one.year)
      BY <1>1, YearsInOrder
    <3>2. QED
      BY <1>1, <3>1, DayNumberBounds, YearFormula
  <2>3. QED
    BY <1>1, <2>1, <2>2
<1>3. /\ DaysBefore(one.year, one.month) \in Int /\ DaysIn(one.year, one.month) \in Int
      /\ DaysBefore(other.year, other.month) \in Int /\ DaysIn(other.year, other.month) \in Int
      /\ DayNumber(one) \in Int
      /\ DayNumber(one) >= DaysBefore(one.year, one.month)
      /\ DayNumber(one) < DaysBefore(one.year, one.month) + DaysIn(one.year, one.month)
      /\ DayNumber(one) >= DaysBefore(other.year, other.month)
      /\ DayNumber(one) < DaysBefore(other.year, other.month) + DaysIn(other.year, other.month)
  <2>1. \A n : n \in 28..31 => n \in Int
    OBVIOUS
  <2>2. QED
    BY <1>1, <2>1, DayNumberBounds, MonthsInOrder
<1>4. one.month = other.month
  <2>1. ~(one.month < other.month)
    <3>1. one.month < other.month =>
            DaysBefore(one.year, one.month) + DaysIn(one.year, one.month)
              <= DaysBefore(other.year, other.month)
      BY <1>1, <1>2, MonthsInOrder
    <3>2. QED
      BY <1>3, <3>1
  <2>2. ~(other.month < one.month)
    <3>1. other.month < one.month =>
            DaysBefore(other.year, other.month) + DaysIn(other.year, other.month)
              <= DaysBefore(one.year, one.month)
      BY <1>1, <1>2, MonthsInOrder
    <3>2. QED
      BY <1>3, <3>1
  <2>3. QED
    BY <1>1, <2>1, <2>2
<1>5. one.day = other.day
  BY <1>2, <1>4, DayNumberBounds
<1>6. QED
  BY <1>2, <1>4, <1>5 DEF IsParts, Parts

\* Every day lies in a year, which is one of three that come after a quotient,
\* as 400 years have 146097 days; and in a month of its year.
LEMMA EveryDayHasAYear ==
  ASSUME NEW day \in Int
  PROVE  \E year \in Int : YearStart(year) <= day /\ day < YearStart(year + 1)
<1> DEFINE c == (400 * day) \div 146097
           Leaps(n) == n \div 4 - n \div 100 + n \div 400
<1>1. c \in Int /\ 146097 * c <= 400 * day /\ 400 * day < 146097 * (c + 1)
  OBVIOUS
<1>2. ASSUME NEW n \in Int
      PROVE  /\ 400 * Leaps(n) <= 97 * n + 400
             /\ 400 * Leaps(n) > 97 * n - 800
             /\ Leaps(n) \in Int
  OBVIOUS
<1> HIDE DEF c
<1>3. YearStart(c) = 365 * (c - 1) + Leaps(c - 1)
  BY <1>1, YearFormula
<1>4. YearStart(c + 3) = 365 * (c + 2) + Leaps(c + 2)
  <2>1. c + 2 \in Int /\ (c + 2) + 1 = c + 3
    BY <1>1
  <2>2. YearStart((c + 2) + 1) = 365 * (c + 2) + Leaps(c + 2)
    BY <2>1, NextYearFormula
  <2>3. QED
    BY <2>1, <2>2
<1> HIDE DEF Leaps
<1>5. YearStart(c) <= day
  BY <1>1, <1>2, <1>3
<1>6. day < YearStart(c + 3)
  BY <1>1, <1>2, <1>4
<1>7. /\ c + 1 \in Int /\ c + 2 \in Int
      /\ (c + 1) + 1 = c + 2 /\ (c + 2) + 1 = c + 3
      /\ YearStart(c + 1) \in Int /\ YearStart(c + 2) \in Int
  BY <1>1, YearFormula
<1>8. QED
  BY <1>1, <1>5, <1>6, <1>7

\* A day of a year lies in one of its months.
LEMMA EveryDayHasAMonth ==
  ASSUME NEW year \in Int, NEW day \in Int,
         YearStart(year) <= day, day < YearStart(year + 1)
  PROVE  \E month \in 1..12 :
            /\ DaysBefore(year, month) <= day
            /\ day < DaysBefore(year, month) + DaysIn(year, month)
<1>1. /\ YearStart(year) \in Int /\ LeapDay(year) \in 0..1
      /\ YearStart(year + 1) = YearStart(year) + 365 + LeapDay(year)
  BY YearFormula, YearLength, LeapDayIsADay
<1>2. QED
  BY <1>1, YearTable, MonthTable

\* The ends of the calendar in terms of years.
LEMMA EndsOfCalendar ==
  /\ FirstDay = 0 /\ FirstDay = YearStart(1)
  /\ LastDay \in Nat /\ LastDay + 1 = YearStart(10000)
<1>1. FirstDay = DaysBefore(1, 1)
  BY YearFormula DEF FirstDay, DayOf, PartsOf, DayNumber, YearStart
<1>2. LastDay = DaysBefore(9999, 12) + 30
  BY DEF LastDay, DayOf, PartsOf, DayNumber, DaysBefore
<1>3. DaysBefore(1, 1) = YearStart(1) /\ YearStart(1) = 0
  BY YearFormula DEF YearStart
<1>4. DaysBefore(9999, 12) = YearStart(9999) + 334 + LeapDay(9999)
  BY YearTable
<1>5. YearStart(10000) = YearStart(9999) + 365 + LeapDay(9999)
  BY YearLength
<1>6. YearStart(9999) \in Nat /\ LeapDay(9999) \in 0..1
  <2>1. YearStart(9998 + 1) >= 365 * 9998 /\ YearStart(9999) \in Int
    BY YearStartIsNear, YearFormula
  <2>2. QED
    BY <2>1, LeapDayIsADay
<1>7. QED
  BY <1>1, <1>2, <1>3, <1>4, <1>5, <1>6

LEMMA YearsAreBounded == \A y : y \in Years <=> y \in Int /\ 1 <= y /\ y <= 9999
BY DEF Years

\* A date is of the years 1 to 9999 if and only if its day is in the calendar.
LEMMA CalendarIsYears ==
  ASSUME NEW parts, IsParts(parts)
  PROVE  /\ parts.year \in Years => DayNumber(parts) \in FirstDay..LastDay
         /\ DayNumber(parts) \in FirstDay..LastDay => parts.year \in Years
<1>1. parts.year \in Int
  BY DEF IsParts, Parts
<1>2. /\ YearStart(1) \in Int /\ YearStart(10000) \in Int
      /\ YearStart(parts.year) \in Int /\ YearStart(parts.year + 1) \in Int
  BY <1>1, YearFormula
<1>3. /\ parts.year < 1 => YearStart(parts.year + 1) <= YearStart(1)
      /\ parts.year >= 1 => YearStart(1) <= YearStart(parts.year)
      /\ parts.year < 10000 => YearStart(parts.year + 1) <= YearStart(10000)
      /\ parts.year >= 10000 => YearStart(10000) <= YearStart(parts.year)
  <2>1. ASSUME NEW y \in Int, NEW z \in Int, y <= z PROVE YearStart(y) <= YearStart(z)
    <3>1. CASE y = z
      BY <3>1, YearFormula
    <3>2. CASE y < z
      BY <3>2, YearsInOrder, YearLength, LeapDayIsADay, YearFormula
    <3>3. QED
      BY <2>1, <3>1, <3>2
  <2>2. QED
    BY <1>1, <2>1, YearsInOrder
<1>4. /\ DayNumber(parts) \in Int
      /\ YearStart(parts.year) <= DayNumber(parts)
      /\ DayNumber(parts) < YearStart(parts.year + 1)
  BY DayNumberBounds
<1> DEFINE y == parts.year
           n == DayNumber(parts)
<1>5. y \in Int /\ n \in Int /\ YearStart(y) \in Int /\ YearStart(y + 1) \in Int
  BY <1>1, <1>2, <1>4
<1>6. /\ YearStart(y) <= n /\ n < YearStart(y + 1)
      /\ y < 1 => YearStart(y + 1) <= YearStart(1)
      /\ y >= 1 => YearStart(1) <= YearStart(y)
      /\ y < 10000 => YearStart(y + 1) <= YearStart(10000)
      /\ y >= 10000 => YearStart(10000) <= YearStart(y)
  BY <1>3, <1>4
<1> HIDE DEF y, n
<1>7. y \in Years => YearStart(1) <= n /\ n < YearStart(10000)
  BY <1>2, <1>5, <1>6, YearsAreBounded
<1>8. YearStart(1) <= n /\ n < YearStart(10000) => y \in Years
  BY <1>2, <1>5, <1>6, YearsAreBounded
<1>9. YearStart(1) <= n /\ n < YearStart(10000) => n \in FirstDay..LastDay
  BY <1>2, <1>5, EndsOfCalendar
<1>10. n \in FirstDay..LastDay => YearStart(1) <= n /\ n < YearStart(10000)
  BY <1>2, <1>5, EndsOfCalendar
<1>11. y \in Years => n \in FirstDay..LastDay
  BY <1>7, <1>9
<1>12. n \in FirstDay..LastDay => y \in Years
  BY <1>8, <1>10
<1>13. QED
  BY <1>11, <1>12 DEF y, n

\* Every day of the calendar has the parts that std::chrono makes of it.
LEMMA PartsOfADay ==
  ASSUME NEW day \in FirstDay..LastDay
  PROVE  /\ IsParts(from_sys_days(day))
         /\ from_sys_days(day).year \in Years
         /\ DayNumber(from_sys_days(day)) = day
<1> DEFINE Near == [year : day \div 366 .. day \div 365 + 1, month : 1..12, day : 1..31]
           IsIt(parts) == /\ parts.day \in 1..DaysIn(parts.year, parts.month)
                          /\ DayNumber(parts) = day
<1>1. day \in Nat
  BY EndsOfCalendar
<1>2. PICK year \in Int : YearStart(year) <= day /\ day < YearStart(year + 1)
  BY <1>1, EveryDayHasAYear
<1>3. PICK month \in 1..12 : /\ DaysBefore(year, month) <= day
                             /\ day < DaysBefore(year, month) + DaysIn(year, month)
  BY <1>1, <1>2, EveryDayHasAMonth
<1> DEFINE it == [year |-> year, month |-> month, day |-> day - DaysBefore(year, month) + 1]
<1>4. it.day \in 1..DaysIn(year, month) /\ it.day \in 1..31 /\ DayNumber(it) = day
  <2>1. DaysBefore(year, month) \in Int /\ DaysIn(year, month) \in 28..31
    BY MonthsInOrder
  <2>2. it.day \in 1..DaysIn(year, month) /\ it.day \in 1..31
    BY <1>1, <1>3, <2>1
  <2>3. DayNumber(it) = day
    BY <1>1, <2>1 DEF DayNumber
  <2>4. QED
    BY <2>2, <2>3
<1>5. year \in Years
  <2>1. IsParts(it)
    BY <1>4 DEF IsParts, Parts
  <2>2. it.year = year
    OBVIOUS
  <2> HIDE DEF it
  <2>3. it.year \in Years
    BY <1>4, <2>1, CalendarIsYears
  <2>4. QED
    BY <2>2, <2>3
<1>6. year \in day \div 366 .. day \div 365 + 1
  <2>1. 365 * (year - 1) <= YearStart((year - 1) + 1) /\ YearStart(year + 1) <= 366 * year
    <3>1. year \in Nat /\ year - 1 \in Nat
      BY <1>5, YearsAreBounded
    <3>2. QED
      BY <3>1, YearStartIsNear
  <2>2. 365 * (year - 1) <= day /\ day < 366 * year
    BY <1>1, <1>2, <1>5, <2>1, YearFormula
  <2>3. QED
    BY <1>1, <1>5, <2>2
<1>7. it \in Near /\ IsIt(it)
  BY <1>4, <1>6
<1>8. from_sys_days(day) = CHOOSE parts \in Near : IsIt(parts)
  BY DEF from_sys_days
<1> HIDE DEF it
<1>9. from_sys_days(day) \in Near /\ IsIt(from_sys_days(day))
  BY <1>7, <1>8
<1>10. IsParts(from_sys_days(day)) /\ DayNumber(from_sys_days(day)) = day
  BY <1>1, <1>9, MonthsInOrder DEF IsParts, Parts
<1>11. QED
  BY <1>10, CalendarIsYears

----------------------------------------------------------------------------
(* Strings: which of them are dates, and what is read and written.            *)

Dates == {string \in String : IsDate(string)}

\* The days of a month, with and without the length of the month.
LEMMA DaysOfAMonth ==
  ASSUME NEW year \in Int, NEW month \in 1..12, NEW day
  PROVE  /\ day \in 1..DaysIn(year, month) => day \in 1..31 /\ day <= DaysIn(year, month)
         /\ day \in 1..31 /\ day <= DaysIn(year, month) => day \in 1..DaysIn(year, month)
<1>1. DaysIn(year, month) \in 28..31
  BY MonthsInOrder
<1>2. \A n \in 28..31 : /\ day \in 1..n => day \in 1..31 /\ day <= n
                        /\ day \in 1..31 /\ day <= n => day \in 1..n
  OBVIOUS
<1>3. QED
  BY <1>1, <1>2

\* A string is made of its fields.
Written(shaped, year, month, day) ==
  [shaped |-> shaped, year |-> year, month |-> month, day |-> day]

LEMMA MadeOfFields ==
  ASSUME NEW string \in String
  PROVE  \E shaped \in BOOLEAN, year \in Field, month \in Field, day \in Field :
            string = Written(shaped, year, month, day)
<1>1. /\ string.shaped \in BOOLEAN /\ string.year \in Field
      /\ string.month \in Field /\ string.day \in Field
      /\ string = Written(string.shaped, string.year, string.month, string.day)
  BY DEF String, Written
<1>2. QED
  BY <1>1, Zenon

\* What parse_date takes, field by field.
Right(shaped, year, month, day) ==
  /\ shaped = TRUE
  /\ year \in Years /\ month \in 1..12
  /\ day \in 1..31 /\ day <= DaysIn(year, month)

LEMMA IsDateByFields ==
  ASSUME NEW shaped \in BOOLEAN, NEW year \in Field, NEW month \in Field, NEW day \in Field
  PROVE  LET string == Written(shaped, year, month, day)
         IN  /\ IsDate(string) => Right(shaped, year, month, day)
             /\ Right(shaped, year, month, day) => IsDate(string)
<1> DEFINE string == Written(shaped, year, month, day)
<1>1. PartsOf(string) = [year |-> year, month |-> month, day |-> day]
  BY DEF PartsOf, Written
<1>2. ASSUME IsDate(string) PROVE Right(shaped, year, month, day)
  <2>1. shaped = TRUE /\ year \in Years /\ month \in 1..12 /\ day \in 1..DaysIn(year, month)
    BY <1>1, <1>2 DEF IsDate, InCalendar, Written
  <2>2. year \in Int
    BY <2>1
  <2>3. QED
    BY <2>1, <2>2, DaysOfAMonth DEF Right
<1>3. ASSUME Right(shaped, year, month, day) PROVE IsDate(string)
  <2>1. year \in Int /\ month \in Int /\ day \in Int
    BY <1>3 DEF Right
  <2>2. Unreadable \notin {year, month, day}
    BY <2>1, StringsAssumption
  <2>3. day \in 1..DaysIn(year, month)
    BY <1>3, <2>1, DaysOfAMonth DEF Right
  <2>4. InCalendar(PartsOf(string))
    BY <1>1, <1>3, <2>3 DEF InCalendar, Right
  <2>5. string.year = year /\ string.month = month /\ string.day = day
    BY DEF Written
  <2>6. string.shaped
    BY <1>3 DEF Written, Right
  <2> HIDE DEF string
  <2>7. QED
    BY <2>2, <2>4, <2>5, <2>6 DEF IsDate
<1> HIDE DEF string
<1>4. QED
  BY <1>2, <1>3 DEF string

\* And what it means.
LEMMA MeaningByFields ==
  ASSUME NEW shaped \in BOOLEAN, NEW year \in Field, NEW month \in Field, NEW day \in Field
  PROVE  LET string == Written(shaped, year, month, day)
         IN  /\ Right(shaped, year, month, day)
                  => /\ IsParts(PartsOf(string))
                     /\ DayOf(string) \in FirstDay..LastDay
                     /\ Meaning(string) = DayOf(string)
             /\ ~Right(shaped, year, month, day) => Meaning(string) = Malformed
<1> DEFINE string == Written(shaped, year, month, day)
           Shapes == [shaped : {TRUE}, year : Years, month : 1..12, day : 1..31]
<1>1. PartsOf(string) = [year |-> year, month |-> month, day |-> day]
  BY DEF PartsOf, Written
<1>2. ASSUME Right(shaped, year, month, day)
      PROVE  /\ IsParts(PartsOf(string))
             /\ DayOf(string) \in FirstDay..LastDay
             /\ Meaning(string) = DayOf(string)
  <2>1. IsParts(PartsOf(string))
    BY <1>1, <1>2 DEF IsParts, Parts, Right
  <2>2. PartsOf(string).year \in Years
    BY <1>1, <1>2 DEF Right
  <2>3. string \in Shapes /\ string.day <= DaysIn(string.year, string.month)
    BY <1>2 DEF Written, Right
  <2>4. Meaning(string) = DayOf(string)
    BY <2>3 DEF Meaning
  <2> HIDE DEF string, Shapes
  <2>5. DayNumber(PartsOf(string)) \in FirstDay..LastDay
    BY <2>1, <2>2, CalendarIsYears
  <2>6. DayOf(string) \in FirstDay..LastDay
    BY <2>5 DEF DayOf
  <2>7. QED
    BY <2>1, <2>4, <2>6
<1>3. ASSUME ~Right(shaped, year, month, day) PROVE Meaning(string) = Malformed
  <2>1. ASSUME string \in Shapes, string.day <= DaysIn(string.year, string.month)
        PROVE  Right(shaped, year, month, day)
    BY <2>1 DEF Written, Right
  <2> HIDE DEF string, Shapes
  <2>2. ~(string \in Shapes /\ string.day <= DaysIn(string.year, string.month))
    BY <1>3, <2>1
  <2>3. QED
    BY <2>2 DEF Meaning, Shapes
<1> HIDE DEF string
<1>4. QED
  BY <1>2, <1>3 DEF string

\* What parse_date takes is a date of the calendar, and has its meaning; what
\* it refuses has none.
LEMMA DatesHaveMeaning ==
  ASSUME NEW string \in Dates
  PROVE  /\ IsParts(PartsOf(string))
         /\ DayOf(string) \in FirstDay..LastDay
         /\ Meaning(string) = DayOf(string)
<1>1. PICK shaped \in BOOLEAN, year \in Field, month \in Field, day \in Field :
        string = Written(shaped, year, month, day)
  BY MadeOfFields DEF Dates
<1>2. Right(shaped, year, month, day)
  BY <1>1, IsDateByFields DEF Dates
<1>3. QED
  BY <1>1, <1>2, MeaningByFields

LEMMA OthersHaveNone ==
  ASSUME NEW string \in String, string \notin Dates
  PROVE  Meaning(string) = Malformed
<1>1. PICK shaped \in BOOLEAN, year \in Field, month \in Field, day \in Field :
        string = Written(shaped, year, month, day)
  BY MadeOfFields
<1>2. ~Right(shaped, year, month, day)
  BY <1>1, IsDateByFields DEF Dates
<1>3. QED
  BY <1>1, <1>2, MeaningByFields

\* What format_date writes is a date, of the day it was written for.
LEMMA WrittenAndRead ==
  ASSUME NEW number \in FirstDay..LastDay
  PROVE  /\ format_date(from_sys_days(number)) \in Dates
         /\ DayOf(format_date(from_sys_days(number))) = number
<1> DEFINE parts == from_sys_days(number)
           string == format_date(parts)
<1>1. IsParts(parts) /\ parts.year \in Years /\ DayNumber(parts) = number
  BY PartsOfADay
<1> HIDE DEF parts
<1>2. PICK year \in Int, month \in 1..12, day \in 1..31 :
        parts = [year |-> year, month |-> month, day |-> day] /\ day <= DaysIn(year, month)
  BY <1>1 DEF IsParts, Parts
<1>3. string = Written(TRUE, year, month, day)
  BY <1>2 DEF format_date, Written
<1>4. PartsOf(string) = parts
  BY <1>2, <1>3 DEF PartsOf, Written
<1>5. year \in Field /\ month \in Field /\ day \in Field /\ TRUE \in BOOLEAN
  BY DEF Field
<1>6. Right(TRUE, year, month, day)
  BY <1>1, <1>2 DEF Right
<1> HIDE DEF string
<1>7. string \in String
  BY <1>3, <1>5 DEF Written, String
<1>8. IsDate(string)
  BY <1>3, <1>5, <1>6, IsDateByFields
<1>9. QED
  BY <1>1, <1>4, <1>7, <1>8 DEF DayOf, Dates, parts, string

\* add_days goes by days, and throws outside of the calendar.
LEMMA SumsAreDays ==
  ASSUME NEW date \in Dates, NEW days \in Int
  PROVE  \/ /\ Meaning(date) + days \in FirstDay..LastDay
            /\ \E sum \in Dates : /\ Sums(date, days) = {sum}
                                  /\ Meaning(sum) = Meaning(date) + days
         \/ /\ Meaning(date) + days \notin FirstDay..LastDay
            /\ Sums(date, days) = {}
<1>1. Meaning(date) = DayOf(date)
  BY DatesHaveMeaning
<1> DEFINE day == DayOf(date) + days
           sum == format_date(from_sys_days(day))
<1>2. CASE day \in FirstDay..LastDay
  <2>1. sum \in Dates /\ DayOf(sum) = day
    BY <1>2, WrittenAndRead
  <2>2. Meaning(sum) = day
    BY <2>1, DatesHaveMeaning
  <2>3. Sums(date, days) = {sum}
    BY <1>2 DEF Sums
  <2>4. QED
    BY <1>1, <1>2, <2>1, <2>2, <2>3
<1>3. CASE day \notin FirstDay..LastDay
  BY <1>1, <1>3 DEF Sums
<1>4. QED
  BY <1>2, <1>3

----------------------------------------------------------------------------
(* The splitting, step by step.                                               *)

\* Between two steps the dates are dates, and so are those of the chunks.
StringsInv ==
  /\ start \in Dates /\ end \in Dates /\ chunk_start \in Dates
  /\ max_days \in Int
  /\ ranges \in Seq(Dates \X Dates)

\* What a date means is the number of its day.
LEMMA DayOfADate ==
  ASSUME NEW string \in Dates
  PROVE  Meaning(string) \in Int /\ DayOf(string) = Meaning(string)
BY DatesHaveMeaning, EndsOfCalendar

\* Chunks are appended in both.
LEMMA AppendedDays ==
  ASSUME NEW pairs \in Seq(Dates \X Dates), NEW from \in Dates, NEW to \in Dates
  PROVE  /\ Append(pairs, <<from, to>>) \in Seq(Dates \X Dates)
         /\ MeantRanges(Append(pairs, <<from, to>>))
              = Append(MeantRanges(pairs), <<Meaning(from), Meaning(to)>>)
<1> DEFINE more == Append(pairs, <<from, to>>)
           meant == MeantRanges(pairs)
<1>1. /\ more \in Seq(Dates \X Dates) /\ Len(more) = Len(pairs) + 1 /\ Len(pairs) \in Nat
      /\ more[Len(pairs) + 1] = <<from, to>>
      /\ \A k \in 1..Len(pairs) : more[k] = pairs[k]
      /\ DOMAIN more = 1..Len(pairs) + 1 /\ DOMAIN pairs = 1..Len(pairs)
  OBVIOUS
<1>2. meant = [k \in 1..Len(pairs) |-> <<Meaning(pairs[k][1]), Meaning(pairs[k][2])>>]
  BY <1>1 DEF MeantRanges
<1>3. meant \in Seq({<<Meaning(a), Meaning(b)>> : a, b \in Dates}) /\ Len(meant) = Len(pairs)
  BY <1>1, <1>2
<1>4. QED
  BY <1>1, <1>2, <1>3 DEF MeantRanges

\* Both begin with the first day of the calendar and no chunk.
LEMMA InitRefines == Init => StringsInv /\ Days!Init
<1> SUFFICES ASSUME Init PROVE StringsInv /\ Days!Init
  OBVIOUS
<1>1. First \in Dates /\ DayOf(First) = FirstDay
  BY WrittenAndRead, EndsOfCalendar DEF First
<1>2. Meaning(First) = FirstDay
  BY <1>1, DayOfADate
<1>3. ranges = << >> /\ MeantRanges(ranges) = << >>
  BY DEF Init, MeantRanges
<1>4. QED
  BY <1>1, <1>2, <1>3 DEF Init, StringsInv, Days!Init

\* A call that is refused in one is refused in the other.
LEMMA SplitRefines ==
  ASSUME StringsInv, NEW call \in Calls, Split(call[1], call[2], call[3])
  PROVE  StringsInv' /\ Days!Split(Meaning(call[1]), Meaning(call[2]), call[3])
<1> DEFINE from == call[1]
           to == call[2]
           size == call[3]
<1>1. from \in String /\ to \in String /\ size \in Int
  BY StringsAssumption
<1> HIDE DEF from, to, size
<1>2. ranges' = << >> /\ MeantRanges(ranges') = << >>
  BY DEF Split, MeantRanges
<1>3. CASE Splittable(from, to, size)
  <2>1. from \in Dates /\ to \in Dates /\ size >= 0 /\ days_between(from, to) >= 0
    BY <1>1, <1>3 DEF Splittable, Dates
  <2>2. Days!Splittable(Meaning(from), Meaning(to), size)
    BY <1>1, <2>1, DayOfADate, StringsAssumption
    DEF Days!Splittable, Days!days_between, days_between
  <2>3. /\ status = "idle" /\ status' = "splitting"
        /\ start' = from /\ end' = to /\ max_days' = size /\ chunk_start' = from
    BY <1>3 DEF Split, from, to, size
  <2>4. StringsInv'
    BY <1>1, <1>2, <2>1, <2>3 DEF StringsInv
  <2>5. Days!Split(Meaning(from), Meaning(to), size)
    BY <1>2, <2>2, <2>3 DEF Days!Split
  <2>6. QED
    BY <2>4, <2>5 DEF from, to, size
<1>4. CASE ~Splittable(from, to, size)
  <2>1. \/ size < 0 \/ from \notin Dates \/ to \notin Dates
        \/ from \in Dates /\ to \in Dates /\ days_between(from, to) < 0
    BY <1>1, <1>4, DayOfADate DEF Splittable, Dates, days_between
  <2>2. ~Days!Splittable(Meaning(from), Meaning(to), size)
    BY <1>1, <2>1, DayOfADate, OthersHaveNone
    DEF Days!Splittable, Days!days_between, days_between
  <2>3. /\ status = "idle" /\ status' = "invalid_argument"
        /\ UNCHANGED <<start, end, max_days, chunk_start>>
    BY <1>4 DEF Split, from, to, size
  <2>4. StringsInv'
    BY <1>2, <2>3 DEF StringsInv
  <2>5. Days!Split(Meaning(from), Meaning(to), size)
    BY <1>2, <2>2, <2>3 DEF Days!Split
  <2>6. QED
    BY <2>4, <2>5 DEF from, to, size
<1>5. QED
  BY <1>3, <1>4

\* The last turn of the loop.
LEMMA LastChunkRefines ==
  ASSUME StringsInv, LastChunk
  PROVE  StringsInv' /\ Days!LastChunk
<1>1. /\ start \in Dates /\ end \in Dates /\ chunk_start \in Dates
      /\ max_days \in Int /\ ranges \in Seq(Dates \X Dates)
  BY DEF StringsInv
<1>2. /\ ranges' \in Seq(Dates \X Dates)
      /\ MeantRanges(ranges') = Append(MeantRanges(ranges), <<Meaning(chunk_start), Meaning(end)>>)
  BY <1>1, AppendedDays DEF LastChunk
<1>3. StringsInv'
  BY <1>1, <1>2 DEF StringsInv, LastChunk
<1>4. Days!Remaining <= max_days
  BY <1>1, DayOfADate DEF Days!Remaining, Days!days_between, LastChunk, days_between
<1>5. QED
  BY <1>2, <1>3, <1>4 DEF LastChunk, Days!LastChunk

\* A turn of the loop reads and writes two dates, or one of the two sums throws.
LEMMA MoreChunksRefines ==
  ASSUME StringsInv, MoreChunks
  PROVE  StringsInv' /\ Days!MoreChunks
<1> DEFINE ends  == Sums(chunk_start, max_days)
           nexts == UNION {Sums(chunk_end, 1) : chunk_end \in ends}
<1>1. /\ start \in Dates /\ end \in Dates /\ chunk_start \in Dates
      /\ max_days \in Int /\ ranges \in Seq(Dates \X Dates)
  BY DEF StringsInv
<1>2. Days!Remaining > max_days
  BY <1>1, DayOfADate DEF Days!Remaining, Days!days_between, MoreChunks, days_between
<1>3. /\ status = "splitting" /\ UNCHANGED <<start, end, max_days>>
      /\ IF nexts = {}
           THEN status' = "out_of_range" /\ UNCHANGED <<ranges, chunk_start>>
           ELSE \E chunk_end \in ends, next \in nexts :
                  /\ ranges' = Append(ranges, <<chunk_start, chunk_end>>)
                  /\ chunk_start' = next
                  /\ UNCHANGED status
  BY DEF MoreChunks
<1> DEFINE ended == Days!ChunkEnd
<1>4. ended = Meaning(chunk_start) + max_days /\ Days!NextStart(ended) = ended + 1 /\ ended \in Int
  BY <1>1, DayOfADate DEF Days!ChunkEnd, Days!NextStart
<1>5. CASE ended \in FirstDay..LastDay /\ ended + 1 \in FirstDay..LastDay
  <2>1. PICK chunk_end \in Dates : ends = {chunk_end} /\ Meaning(chunk_end) = ended
    BY <1>1, <1>4, <1>5, SumsAreDays
  <2>2. PICK next \in Dates : Sums(chunk_end, 1) = {next} /\ Meaning(next) = ended + 1
    BY <1>5, <2>1, SumsAreDays
  <2> HIDE DEF ends
  <2>3. nexts = {next}
    BY <2>1, <2>2
  <2> HIDE DEF nexts, ended
  <2>4. /\ ranges' = Append(ranges, <<chunk_start, chunk_end>>)
        /\ chunk_start' = next
        /\ UNCHANGED status
    BY <1>3, <2>1, <2>3
  <2>5. /\ ranges' \in Seq(Dates \X Dates)
        /\ MeantRanges(ranges') = Append(MeantRanges(ranges), <<Meaning(chunk_start), ended>>)
    BY <1>1, <2>1, <2>4, AppendedDays
  <2>6. StringsInv'
    BY <1>1, <1>3, <2>2, <2>4, <2>5 DEF StringsInv
  <2>7. Days!MoreChunks
    BY <1>2, <1>3, <1>4, <1>5, <2>2, <2>4, <2>5 DEF Days!MoreChunks, Days!Days, ended
  <2>8. QED
    BY <2>6, <2>7
<1>6. CASE ~(ended \in FirstDay..LastDay /\ ended + 1 \in FirstDay..LastDay)
  <2>1. nexts = {}
    <3>1. CASE ended \notin FirstDay..LastDay
      <4>1. ends = {}
        BY <1>1, <1>4, <3>1, SumsAreDays
      <4>2. QED
        BY <4>1
    <3>2. CASE ended \in FirstDay..LastDay /\ ended + 1 \notin FirstDay..LastDay
      <4>1. PICK chunk_end \in Dates : ends = {chunk_end} /\ Meaning(chunk_end) = ended
        BY <1>1, <1>4, <3>2, SumsAreDays
      <4>2. Sums(chunk_end, 1) = {}
        BY <3>2, <4>1, SumsAreDays
      <4> HIDE DEF ends
      <4>3. QED
        BY <4>1, <4>2
    <3>3. QED
      BY <1>6, <3>1, <3>2
  <2> HIDE DEF nexts, ended
  <2>2. status' = "out_of_range" /\ UNCHANGED <<ranges, chunk_start>>
    BY <1>3, <2>1
  <2>3. StringsInv'
    BY <1>1, <1>3, <2>2 DEF StringsInv
  <2>4. Days!MoreChunks
    BY <1>2, <1>3, <1>4, <1>6, <2>2 DEF Days!MoreChunks, Days!Days, ended
  <2>5. QED
    BY <2>3, <2>4
<1>7. QED
  BY <1>5, <1>6

\* Every step of the one is a step of the other or none.
LEMMA StepRefines ==
  ASSUME StringsInv, [Next]_dateVars
  PROVE  StringsInv' /\ [Days!Next]_(Days!dateVars)
<1>1. ASSUME NEW call \in Calls, Split(call[1], call[2], call[3])
      PROVE  StringsInv' /\ Days!Next
  <2>1. /\ Meaning(call[1]) \in MeantDays /\ Meaning(call[2]) \in MeantDays
        /\ call[3] \in MeantSizes
    BY DEF MeantDays, MeantSizes
  <2>2. QED
    BY <1>1, <2>1, SplitRefines DEF Days!Next
<1>2. CASE LastChunk
  BY <1>2, LastChunkRefines DEF Days!Next, Days!SplitOn
<1>3. CASE MoreChunks
  BY <1>3, MoreChunksRefines DEF Days!Next, Days!SplitOn
<1>4. CASE Taken
  BY <1>4 DEF Taken, StringsInv, Days!Next, Days!Taken
<1>5. CASE UNCHANGED dateVars
  BY <1>5 DEF dateVars, StringsInv, Days!dateVars
<1>6. QED
  BY <1>1, <1>2, <1>3, <1>4, <1>5 DEF Next

\* Splitting strings is splitting days, for all strings and sizes that callers
\* may pass and so for every date of the years 1 to 9999: parse_date takes the
\* dates of the calendar and nothing else, format_date loses nothing, and
\* add_days steps from each date to the next but for the last one.
THEOREM SplittingStringsIsSplittingDays == Spec => ImplementsDateRange
<1>1. Spec => Days!Init /\ [][Days!Next]_(Days!dateVars)
  BY InitRefines, StepRefines, PTL DEF Spec
<1>2. QED
  BY <1>1 DEF ImplementsDateRange, Days!Spec

----------------------------------------------------------------------------
(* What module DateRangeProofs proves of days, said of strings.               *)
Splitting == INSTANCE DateRangeProofs WITH
  Dates       <- MeantDays,
  ChunkSizes  <- MeantSizes,
  start       <- Meaning(start),
  end         <- Meaning(end),
  chunk_start <- Meaning(chunk_start),
  ranges      <- MeantRanges(ranges)

\* What strings mean satisfies the assumptions of DateRange.
LEMMA SplittingAssumption == Splitting!CalendarAssumption
<1>1. FirstDay \in Int /\ LastDay \in Int /\ FirstDay <= LastDay
  BY EndsOfCalendar
<1>2. \A string \in String : Meaning(string) \in (FirstDay..LastDay) \cup {Malformed}
  BY DatesHaveMeaning, OthersHaveNone
<1>3. MeantDays \subseteq (FirstDay..LastDay) \cup {Malformed} /\ MeantSizes \subseteq Int
  BY <1>2, StringsAssumption DEF MeantDays, MeantSizes
<1>4. QED
  BY <1>1, <1>3, StringsAssumption DEF Splitting!CalendarAssumption, Splitting!Days

\* The two instances of DateRange are the same.
LEMMA SameSplitting == Days!Spec => Splitting!Spec
<1>1. Days!Init => Splitting!Init
  BY DEF Days!Init, Splitting!Init
<1>2. Days!Remaining = Splitting!Remaining /\ Days!ChunkEnd = Splitting!ChunkEnd
      /\ Days!Days = Splitting!Days
  BY DEF Days!Remaining, Splitting!Remaining, Days!days_between, Splitting!days_between,
         Days!ChunkEnd, Splitting!ChunkEnd, Days!Days, Splitting!Days
<1>3. \A d : Days!NextStart(d) = Splitting!NextStart(d)
  BY DEF Days!NextStart, Splitting!NextStart
<1>4. Days!LastChunk => Splitting!LastChunk
  BY <1>2 DEF Days!LastChunk, Splitting!LastChunk
<1>5. Days!MoreChunks => Splitting!MoreChunks
  BY <1>2, <1>3 DEF Days!MoreChunks, Splitting!MoreChunks
<1>6. Days!Taken => Splitting!Taken
  BY DEF Days!Taken, Splitting!Taken
<1>7. \A from, to, size : Days!Split(from, to, size) => Splitting!Split(from, to, size)
  BY DEF Days!Split, Splitting!Split, Days!Splittable, Splitting!Splittable,
         Days!days_between, Splitting!days_between
<1>8. [Days!Next]_(Days!dateVars) => [Splitting!Next]_(Splitting!dateVars)
  BY <1>4, <1>5, <1>6, <1>7 DEF Days!Next, Splitting!Next, Days!SplitOn, Splitting!SplitOn,
         Days!dateVars, Splitting!dateVars
<1>9. QED
  BY <1>1, <1>8, PTL DEF Days!Spec, Splitting!Spec

\* The strings that split_date_range returns partition the range that its
\* strings ask for, as coarsely as the limit allows; and it never throws
\* out_of_range, whatever two dates and limit it is given.
THEOREM StringsArePartitioned ==
  Spec => [](Days!Partition /\ Days!Coarsest /\ Days!StaysInCalendar)
<1>1. Spec => Splitting!Spec
  BY SplittingStringsIsSplittingDays, SameSplitting DEF ImplementsDateRange
<1>2. Splitting!Spec => []Splitting!Partition
  BY SplittingAssumption, Splitting!SplitIsAPartition
<1>3. Splitting!Spec => []Splitting!Coarsest
  BY SplittingAssumption, Splitting!SplitIsCoarsest
<1>4. Splitting!Spec => []Splitting!StaysInCalendar
  BY SplittingAssumption, Splitting!SplitStaysInCalendar
<1>5. /\ Splitting!Partition => Days!Partition
      /\ Splitting!Coarsest => Days!Coarsest
      /\ Splitting!StaysInCalendar => Days!StaysInCalendar
  BY DEF Splitting!Partition, Days!Partition, Splitting!Coarsest, Days!Coarsest,
         Splitting!StaysInCalendar, Days!StaysInCalendar,
         Splitting!days_between, Days!days_between
<1>6. QED
  BY <1>1, <1>2, <1>3, <1>4, <1>5, PTL
=============================================================================
