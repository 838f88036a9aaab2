----------------------------- MODULE CivilDates -----------------------------
(***************************************************************************)
(* The calendar arithmetic of pico_runtime.c: dates as the number of days  *)
(* since 1970-01-01 and back, and what the hardware clock is given.        *)
(* Years begin in March, so that the leap day is the last of its year, and *)
(* are counted in eras of 400.  A day has DaySeconds seconds.              *)
(***************************************************************************)
EXTENDS Integers

CONSTANTS
  Years,       \* the years TLC checks the arithmetic in
  DaySeconds   \* 86400

Date(y, m, d) == [year |-> y, month |-> m, day |-> d]

(* Division of signed numbers in C: toward zero.                           *)
Quot(a, b) == IF a >= 0 THEN a \div b ELSE -((-a) \div b)
Remainder(a, b) == a - b * Quot(a, b)

Leap(y) == (y % 4 = 0 /\ y % 100 # 0) \/ y % 400 = 0
DaysInMonth(y, m) ==
  IF m = 2 THEN IF Leap(y) THEN 29 ELSE 28
  ELSE IF m \in {4, 6, 9, 11} THEN 30 ELSE 31
Valid(x) ==
  /\ x.year \in 1 .. 9999 /\ x.month \in 1 .. 12
  /\ x.day \in 1 .. DaysInMonth(x.year, x.month)

-----------------------------------------------------------------------------
(* bmx_pico_calendar_days_from_civil and .._civil_from_days.               *)
MarchYear(x) == IF x.month <= 2 THEN x.year - 1 ELSE x.year
MarchMonth(x) == IF x.month > 2 THEN x.month - 3 ELSE x.month + 9
DaysFromCivil(x) ==
  LET y == MarchYear(x)
      era == Quot(IF y >= 0 THEN y ELSE y - 399, 400)
      yearOfEra == y - era * 400
      dayOfYear == (153 * MarchMonth(x) + 2) \div 5 + x.day - 1
      dayOfEra == yearOfEra * 365 + yearOfEra \div 4 - yearOfEra \div 100 + dayOfYear
  IN era * 146097 + dayOfEra - 719468

DateInYear(era, yearOfEra, dayOfYear) ==
  LET mp == (5 * dayOfYear + 2) \div 153
      m == IF mp < 10 THEN mp + 3 ELSE mp - 9
  IN Date(yearOfEra + era * 400 + (IF m <= 2 THEN 1 ELSE 0), m,
          dayOfYear - (153 * mp + 2) \div 5 + 1)
YearOfEra(dayOfEra) ==
  (dayOfEra - dayOfEra \div 1460 + dayOfEra \div 36524 - dayOfEra \div 146096) \div 365
DateInEra(era, dayOfEra) ==
  LET y == YearOfEra(dayOfEra)
  IN DateInYear(era, y, dayOfEra - (365 * y + y \div 4 - y \div 100))
CivilFromDays(n) ==
  LET days == n + 719468
      era == Quot(IF days >= 0 THEN days ELSE days - 146096, 146097)
  IN DateInEra(era, days - era * 146097)

(* bmx_pico_datetime_to_epoch of a local time, with the minutes it is      *)
(* ahead of UTC; and back, to a date and the seconds within its day.       *)
ToEpoch(x, second, offset) == DaysFromCivil(x) * DaySeconds + second - offset * 60
FromEpoch(seconds) ==
  LET within == Remainder(seconds, DaySeconds)
      day == Quot(seconds, DaySeconds)
  IN IF within < 0 THEN [date |-> CivilFromDays(day - 1), second |-> within + DaySeconds]
     ELSE [date |-> CivilFromDays(day), second |-> within]

(* bmx_pico_calendar_to_hardware: the day of the week and of the year.     *)
WeekDay(seconds) == (Quot(seconds, DaySeconds) + 4) % 7
YearDay(x) == DaysFromCivil(x) - DaysFromCivil(Date(x.year, 1, 1))

-----------------------------------------------------------------------------
(* The reference: the day after a date.                                    *)
NextDay(x) ==
  IF x.day < DaysInMonth(x.year, x.month) THEN [x EXCEPT !.day = @ + 1]
  ELSE IF x.month < 12 THEN Date(x.year, x.month + 1, 1) ELSE Date(x.year + 1, 1, 1)
Dates == UNION {{Date(y, m, d) : d \in 1 .. DaysInMonth(y, m)} : y \in Years, m \in 1 .. 12}

(* Days are numbered one after the other from 1970-01-01 on, and a number  *)
(* leads back to its date.                                                 *)
ASSUME DaysAreCounted ==
  /\ DaysFromCivil(Date(1970, 1, 1)) = 0
  /\ \A x \in Dates : DaysFromCivil(NextDay(x)) = DaysFromCivil(x) + 1
ASSUME DaysLeadBack == \A x \in Dates : CivilFromDays(DaysFromCivil(x)) = x

(* A time is the same time in UTC, also before 1970, and 1970-01-01 was a  *)
(* Thursday.                                                               *)
ASSUME EpochLeadsBack ==
  \A y \in {1903, 1969, 1970, 2000, 2036}, m \in {1, 2, 3, 12}, offset \in {-720, 0, 840},
     second \in {0, 1, DaySeconds - 1} :
    LET x == Date(y, m, DaysInMonth(y, m))
        t == ToEpoch(x, second, offset)
        utc == FromEpoch(t)
    IN /\ utc.second \in 0 .. DaySeconds - 1
       /\ ToEpoch(utc.date, utc.second, 0) = t
       /\ offset = 0 => utc = [date |-> x, second |-> second]
       /\ t >= 0 => WeekDay(t) = (4 + DaysFromCivil(utc.date)) % 7
       /\ YearDay(x) + 1 = DaysFromCivil(NextDay(x)) - DaysFromCivil(Date(y, 1, 1))
=============================================================================
