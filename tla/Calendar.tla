------------------------------ MODULE Calendar ------------------------------
(***************************************************************************)
(* The Gregorian calendar as datetime.date has it, and the periods of the  *)
(* statistics (stats_service._period_range); the week is the list's, too   *)
(* (_apply_high_level_filter).                                             *)
(***************************************************************************)
EXTENDS Integers

\* Mutant: every fourth year.
IsLeapEveryFourth(y) == y % 4 = 0

IsLeap(y) == y % 4 = 0 /\ (y % 100 # 0 \/ y % 400 = 0)

\* calendar.monthrange(year, month)[1]
DaysInMonth(y, m) ==
  IF m = 2 THEN IF IsLeap(y) THEN 29 ELSE 28
           ELSE IF m \in {4, 6, 9, 11} THEN 30 ELSE 31

Date(y, m, d) == [year |-> y, month |-> m, day |-> d]

IsDate(x) ==
  /\ x \in [year : Nat, month : 1..12, day : 1..31]
  /\ x.day <= DaysInMonth(x.year, x.month)

Least(a, b) == IF a < b THEN a ELSE b

\* date + timedelta(days = n), n at most the length of the shortest month.
PlusDays(x, n) ==
  IF x.day + n <= DaysInMonth(x.year, x.month)
    THEN Date(x.year, x.month, x.day + n)
    ELSE Date(x.year + (x.month \div 12), (x.month % 12) + 1,
              x.day + n - DaysInMonth(x.year, x.month))

(***************************************************************************)
(* The reference: a date is a number of days (date.toordinal), and a       *)
(* weekday is that number modulo 7, Monday 0 (date.weekday).               *)
(***************************************************************************)
DaysBefore == <<0, 31, 59, 90, 120, 151, 181, 212, 243, 273, 304, 334>>

Ordinal(x) ==
  LET y == x.year - 1 IN
  365 * y + (y \div 4) - (y \div 100) + (y \div 400)
  + DaysBefore[x.month] + (IF x.month > 2 /\ IsLeap(x.year) THEN 1 ELSE 0) + x.day

Weekday(x) == (Ordinal(x) + 6) % 7

\* Mutant: December's period ends in its own year.
MonthWithinYear(x) ==
  <<Ordinal(Date(x.year, x.month, 1)),
    Ordinal(Date(x.year, (x.month % 12) + 1, 1)) - 1>>

\* First and last day of the month.
MonthOf(x) ==
  <<Ordinal(Date(x.year, x.month, 1)),
    Ordinal(Date(x.year + (x.month \div 12), (x.month % 12) + 1, 1)) - 1>>

\* _period_range, first and last day; the week is also the list's.
PeriodRange(period, x) ==
  CASE period = "daily"   -> <<Ordinal(x), Ordinal(x)>>
    [] period = "weekly"  -> LET start == Ordinal(x) - Weekday(x) IN <<start, start + 6>>
    [] period = "monthly" -> MonthOf(x)
=============================================================================
