----------------------------- MODULE Recurrence -----------------------------
(***************************************************************************)
(* The due dates of a recurring task (task_service.next_due_date), and the *)
(* periods the statistics count it in.                                     *)
(***************************************************************************)
EXTENDS Calendar

CONSTANTS
  MaxYear,              \* bound: series end before the end of this year
  FirstDates            \* the dates a series may begin on

VARIABLES
  repeat,               \* repeat_type of the series
  due,                  \* due_date of its last occurrence
  day,                  \* history: the day of the month it began on
  shortest              \* history: days of the shortest month it has been in

vars == <<repeat, due, day, shortest>>

-----------------------------------------------------------------------------
ASSUME RecurrenceConstants ==
  MaxYear \in Nat /\ \A x \in FirstDates : IsDate(x)

\* Mutant: February is given its day of an ordinary year.
AddOneMonthNoLeap(x) ==
  LET y == x.year + (x.month \div 12)
      m == (x.month % 12) + 1
  IN Date(y, m, Least(x.day, DaysInMonth(1, m)))

\* _add_one_month
AddOneMonth(x) ==
  LET y == x.year + (x.month \div 12)
      m == (x.month % 12) + 1
  IN Date(y, m, Least(x.day, DaysInMonth(y, m)))

NextDueDate(x, r) ==
  CASE r = "daily" -> PlusDays(x, 1) [] r = "weekly" -> PlusDays(x, 7) [] r = "monthly" -> AddOneMonth(x)

-----------------------------------------------------------------------------
Init ==
  /\ repeat \in {"daily", "weekly", "monthly"}
  /\ due \in FirstDates
  /\ day = due.day
  /\ shortest = DaysInMonth(due.year, due.month)

\* build_next_occurrence, whoever ends the occurrence.
Advance ==
  /\ due.year < MaxYear
  /\ due' = NextDueDate(due, repeat)
  /\ shortest' = Least(shortest, DaysInMonth(due'.year, due'.month))
  /\ UNCHANGED <<repeat, day>>

Next == Advance

Spec == Init /\ [][Next]_vars

DueTypeOK ==
  /\ repeat \in {"daily", "weekly", "monthly"}
  /\ IsDate(due)
  /\ day \in 1..31 /\ shortest \in 28..31

-----------------------------------------------------------------------------
(***************************************************************************)
(* An occurrence is one day, one week or 28 to 31 days after the last, and *)
(* a weekly one keeps its weekday, over leap years and the ends of months  *)
(* and years (test_monthly_recurrence_wraps_year).                         *)
(***************************************************************************)
StepsByInterval ==
  [][LET days == Ordinal(due') - Ordinal(due) IN
     CASE repeat = "daily" -> days = 1
       [] repeat = "weekly" -> days = 7 /\ Weekday(due') = Weekday(due)
       [] repeat = "monthly" -> days \in 28..31]_vars

(***************************************************************************)
(* A series has one occurrence in each of the periods it is counted by:    *)
(* the next one falls in the period that begins the day after the last     *)
(* one's period ends, so the monthly statistics miss none and count none   *)
(* twice.                                                                  *)
(***************************************************************************)
OncePerPeriod ==
  [][PeriodRange(repeat, due')[1] = PeriodRange(repeat, due)[2] + 1]_vars

(***************************************************************************)
(* A monthly series keeps its day as far as the months it has been through *)
(* allow: clamped once (test_monthly_recurrence_clamps_to_shorter_month),  *)
(* it stays clamped, but never by more than that.                          *)
(***************************************************************************)
DayOnlyClamped ==
  repeat = "monthly" => due.day = Least(day, shortest)

=============================================================================
