-------------------------- MODULE RecurrenceProofs --------------------------
(***************************************************************************)
(* Proofs about Recurrence, for every date and every year, and about the   *)
(* pages of Overview, for any tasks, days and answers.                     *)
(***************************************************************************)
EXTENDS CalendarPages, TLAPS, FiniteSetTheorems, SequenceTheorems,
        WellFoundedInduction

LEMMA MonthLength ==
  ASSUME NEW y, NEW m
  PROVE  DaysInMonth(y, m) \in 28..31
BY SMT DEF DaysInMonth

LEMMA LeastInt ==
  ASSUME NEW a \in Int, NEW b \in Int
  PROVE  Least(a, b) \in {a, b} /\ Least(a, b) <= a /\ Least(a, b) <= b
BY SMT DEF Least

LEMMA MonthAfter ==
  ASSUME NEW x, IsDate(x)
  PROVE  /\ x.year + (x.month \div 12) \in Nat
         /\ (x.month % 12) + 1 \in 1..12
BY SMTT(30) DEF IsDate

(***************************************************************************)
(* Whatever the date, PlusDays by one or seven and AddOneMonth give a date *)
(* of the calendar (next_due_date never raises before the last year).      *)
(***************************************************************************)
LEMMA PlusDaysIsDate ==
  ASSUME NEW x, IsDate(x), NEW n \in 1..28
  PROVE  IsDate(PlusDays(x, n))
<1>1. x.day \in 1..31 /\ x.day <= DaysInMonth(x.year, x.month) /\ x.year \in Nat /\ x.month \in 1..12
  BY DEF IsDate
<1>2. DaysInMonth(x.year, x.month) \in 28..31
  BY MonthLength
<1>3. CASE x.day + n <= DaysInMonth(x.year, x.month)
  BY <1>1, <1>2, <1>3, SMT DEF PlusDays, Date, IsDate
<1>4. CASE ~(x.day + n <= DaysInMonth(x.year, x.month))
  <2>. DEFINE y == x.year + (x.month \div 12)
              m == (x.month % 12) + 1
              d == x.day + n - DaysInMonth(x.year, x.month)
  <2>1. y \in Nat /\ m \in 1..12
    BY MonthAfter
  <2>2. d \in 1..28
    BY <1>1, <1>2, <1>4, SMT
  <2>3. DaysInMonth(y, m) \in 28..31
    BY MonthLength
  <2>4. PlusDays(x, n) = Date(y, m, d)
    BY <1>4 DEF PlusDays
  <2>. HIDE DEF y, m, d
  <2>5. IsDate(Date(y, m, d))
    BY <2>1, <2>2, <2>3, SMT DEF IsDate, Date
  <2>. QED BY <2>4, <2>5
<1>. QED BY <1>3, <1>4

LEMMA AddOneMonthIsDate ==
  ASSUME NEW x, IsDate(x)
  PROVE  IsDate(AddOneMonth(x))
<1>. DEFINE y == x.year + (x.month \div 12)
            m == (x.month % 12) + 1
            d == Least(x.day, DaysInMonth(y, m))
<1>1. y \in Nat /\ m \in 1..12
  BY MonthAfter
<1>2. DaysInMonth(y, m) \in 28..31
  BY MonthLength
<1>3. x.day \in 1..31
  BY DEF IsDate
<1>4. d \in 1..31 /\ d <= DaysInMonth(y, m)
  BY <1>2, <1>3, SMT DEF Least
<1>5. AddOneMonth(x) = Date(y, m, d)
  BY DEF AddOneMonth
<1>. HIDE DEF y, m, d
<1>6. IsDate(Date(y, m, d))
  BY <1>1, <1>4, SMT DEF IsDate, Date
<1>. QED BY <1>5, <1>6

LEMMA NextIsDate ==
  ASSUME NEW x, IsDate(x), NEW r \in {"daily", "weekly", "monthly"}
  PROVE  IsDate(NextDueDate(x, r))
<1>1. CASE r = "daily"
  BY <1>1, PlusDaysIsDate, 1 \in 1..28 DEF NextDueDate
<1>2. CASE r = "weekly"
  BY <1>2, PlusDaysIsDate, 7 \in 1..28 DEF NextDueDate
<1>3. CASE r = "monthly"
  BY <1>3, AddOneMonthIsDate DEF NextDueDate
<1>. QED BY <1>1, <1>2, <1>3

(***************************************************************************)
(* Every due date of every series is a date of the calendar.               *)
(***************************************************************************)
THEOREM DueDatesAreDates == Spec => []DueTypeOK
<1>1. Init => DueTypeOK
  <2>. SUFFICES ASSUME Init PROVE DueTypeOK
    OBVIOUS
  <2>1. IsDate(due)
    BY RecurrenceConstants DEF Init
  <2>2. due.day \in 1..31
    BY <2>1 DEF IsDate
  <2>. QED BY <2>1, <2>2, MonthLength DEF Init, DueTypeOK
<1>2. DueTypeOK /\ [Next]_vars => DueTypeOK'
  <2>. SUFFICES ASSUME DueTypeOK, [Next]_vars PROVE DueTypeOK'
    OBVIOUS
  <2>1. CASE Advance
    <3>1. IsDate(due')
      BY <2>1, NextIsDate DEF Advance, DueTypeOK
    <3>2. DaysInMonth(due'.year, due'.month) \in 28..31
      BY MonthLength
    <3>3. shortest' \in 28..31
      BY <2>1, <3>2, SMT DEF Advance, DueTypeOK, Least
    <3>. QED BY <2>1, <3>1, <3>3 DEF Advance, DueTypeOK
  <2>2. CASE UNCHANGED vars
    BY <2>2 DEF vars, DueTypeOK, IsDate
  <2>. QED BY <2>1, <2>2 DEF Next
<1>. QED BY <1>1, <1>2, PTL DEF Spec

(***************************************************************************)
(* A monthly series is never clamped by more than the shortest month it    *)
(* has been through.                                                       *)
(***************************************************************************)
THEOREM MonthlyDayOnlyClamped == Spec => []DayOnlyClamped
<1>1. Init => DayOnlyClamped
  <2>. SUFFICES ASSUME Init PROVE DayOnlyClamped
    OBVIOUS
  <2>1. IsDate(due)
    BY RecurrenceConstants DEF Init
  <2>2. due.day \in 1..31 /\ due.day <= DaysInMonth(due.year, due.month)
    BY <2>1 DEF IsDate
  <2>3. DaysInMonth(due.year, due.month) \in 28..31
    BY MonthLength
  <2>. QED BY <2>2, <2>3, SMT DEF Init, DayOnlyClamped, Least
<1>2. DueTypeOK /\ DayOnlyClamped /\ [Next]_vars => DayOnlyClamped'
  <2>. SUFFICES ASSUME DueTypeOK, DayOnlyClamped, [Next]_vars PROVE DayOnlyClamped'
    OBVIOUS
  <2>1. CASE Advance /\ repeat = "monthly"
    <3>. DEFINE y == due.year + (due.month \div 12)
                m == (due.month % 12) + 1
                length == DaysInMonth(y, m)
    <3>1. due' = Date(y, m, Least(due.day, length))
      BY <2>1 DEF Advance, NextDueDate, AddOneMonth
    <3>2. due'.year = y /\ due'.month = m /\ due'.day = Least(due.day, length)
      BY <3>1 DEF Date
    <3>3. shortest' = Least(shortest, length)
      BY <2>1, <3>2 DEF Advance
    <3>4. length \in 28..31
      BY MonthLength
    <3>5. due.day = Least(day, shortest) /\ day' = day
      BY <2>1 DEF DayOnlyClamped, Advance
    <3>. HIDE DEF y, m, length
    <3>6. day \in 1..31 /\ shortest \in 28..31
      BY DEF DueTypeOK
    <3>7. Least(Least(day, shortest), length) = Least(day, Least(shortest, length))
      BY <3>4, <3>6, SMT DEF Least
    <3>. QED BY <3>2, <3>3, <3>5, <3>7 DEF DayOnlyClamped
  <2>2. CASE Advance /\ repeat # "monthly"
    BY <2>2 DEF Advance, DayOnlyClamped
  <2>3. CASE UNCHANGED vars
    BY <2>3 DEF vars, DayOnlyClamped
  <2>. QED BY <2>1, <2>2, <2>3 DEF Next
<1>. QED BY <1>1, <1>2, DueDatesAreDates, PTL DEF Spec

-----------------------------------------------------------------------------
LEMMA DivSteps ==
  ASSUME NEW y \in Nat
  PROVE  /\ (y \div 4) - ((y - 1) \div 4) = IF y % 4 = 0 THEN 1 ELSE 0
         /\ (y \div 100) - ((y - 1) \div 100) = IF y % 100 = 0 THEN 1 ELSE 0
         /\ (y \div 400) - ((y - 1) \div 400) = IF y % 400 = 0 THEN 1 ELSE 0
         /\ y % 400 = 0 => y % 100 = 0
         /\ y % 100 = 0 => y % 4 = 0
<1>1. (y \div 4) - ((y - 1) \div 4) = IF y % 4 = 0 THEN 1 ELSE 0
  BY SMTT(60)
<1>2. (y \div 100) - ((y - 1) \div 100) = IF y % 100 = 0 THEN 1 ELSE 0
  BY SMTT(60)
<1>3. (y \div 400) - ((y - 1) \div 400) = IF y % 400 = 0 THEN 1 ELSE 0
  BY SMTT(60)
<1>4. y % 400 = 0 => y % 100 = 0
  BY SMTT(60)
<1>5. y % 100 = 0 => y % 4 = 0
  BY SMTT(60)
<1>. QED BY <1>1, <1>2, <1>3, <1>4, <1>5

LEMMA DaysBeforeMonth ==
  /\ DaysBefore[1] = 0    /\ DaysBefore[2] = 31   /\ DaysBefore[3] = 59
  /\ DaysBefore[4] = 90   /\ DaysBefore[5] = 120  /\ DaysBefore[6] = 151
  /\ DaysBefore[7] = 181  /\ DaysBefore[8] = 212  /\ DaysBefore[9] = 243
  /\ DaysBefore[10] = 273 /\ DaysBefore[11] = 304 /\ DaysBefore[12] = 334
BY DEF DaysBefore

LEMMA DateFields ==
  ASSUME NEW y, NEW m, NEW d
  PROVE  Date(y, m, d).year = y /\ Date(y, m, d).month = m /\ Date(y, m, d).day = d
BY DEF Date

Days(y) == 365 * (y - 1) + ((y - 1) \div 4) - ((y - 1) \div 100) + ((y - 1) \div 400)
LeapDay(y, m) == IF m > 2 /\ IsLeap(y) THEN 1 ELSE 0

LEMMA OrdinalOfDate ==
  ASSUME NEW x
  PROVE  Ordinal(x) = Days(x.year) + DaysBefore[x.month] + LeapDay(x.year, x.month) + x.day
BY DEF Ordinal, Days, LeapDay

LEMMA YearStep ==
  ASSUME NEW y \in Nat
  PROVE  Days(y) \in Int /\ Days(y + 1) = Days(y) + 365 + (IF IsLeap(y) THEN 1 ELSE 0)
<1>1. (y + 1) - 1 = y
  OBVIOUS
<1>. QED BY <1>1, DivSteps, SMT DEF Days, IsLeap

LEMMA MonthStep ==
  ASSUME NEW y \in Nat, NEW m \in 1..12, NEW d \in Int
  PROVE  Ordinal(Date(y + (m \div 12), (m % 12) + 1, d))
         = Ordinal(Date(y, m, 1)) + DaysInMonth(y, m) + d - 1
<1>1. CASE m = 12
  <2>1. y + (m \div 12) = y + 1 /\ (m % 12) + 1 = 1
    BY <1>1, SMT
  <2>2. Ordinal(Date(y + 1, 1, d)) = Days(y + 1) + 0 + 0 + d
    BY OrdinalOfDate, DateFields, DaysBeforeMonth DEF LeapDay
  <2>3. Ordinal(Date(y, 12, 1)) = Days(y) + 334 + (IF IsLeap(y) THEN 1 ELSE 0) + 1
    BY OrdinalOfDate, DateFields, DaysBeforeMonth DEF LeapDay
  <2>4. DaysInMonth(y, 12) = 31
    BY DEF DaysInMonth
  <2>5. Days(y) \in Int /\ Days(y + 1) = Days(y) + 365 + (IF IsLeap(y) THEN 1 ELSE 0)
    BY YearStep
  <2>. QED BY <1>1, <2>1, <2>2, <2>3, <2>4, <2>5, SMT
<1>2. CASE m # 12
  <2>1. y + (m \div 12) = y /\ (m % 12) + 1 = m + 1 /\ m \in 1..11
    BY <1>2, SMT
  <2>2. Ordinal(Date(y, m + 1, d)) = Days(y) + DaysBefore[m + 1] + LeapDay(y, m + 1) + d
    BY OrdinalOfDate, DateFields
  <2>3. Ordinal(Date(y, m, 1)) = Days(y) + DaysBefore[m] + LeapDay(y, m) + 1
    BY OrdinalOfDate, DateFields
  <2>4. /\ DaysBefore[m] \in Int
        /\ DaysBefore[m + 1] + LeapDay(y, m + 1) = DaysBefore[m] + LeapDay(y, m) + DaysInMonth(y, m)
    BY <2>1, DaysBeforeMonth, SMTT(30) DEF DaysInMonth, LeapDay
  <2>5. Days(y) \in Int
    BY YearStep
  <2>6. LeapDay(y, m) \in Int /\ LeapDay(y, m + 1) \in Int /\ DaysInMonth(y, m) \in 28..31
        /\ DaysBefore[m + 1] \in Int
    BY <2>1, MonthLength, DaysBeforeMonth, SMT DEF LeapDay
  <2>. QED BY <2>1, <2>2, <2>3, <2>4, <2>5, <2>6, SMT
<1>. QED BY <1>1, <1>2

(***************************************************************************)
(* PlusDays and AddOneMonth against the reference, the number of a day.    *)
(***************************************************************************)
LEMMA OrdinalWithinMonth ==
  ASSUME NEW x, IsDate(x)
  PROVE  /\ Ordinal(x) \in Int /\ Ordinal(Date(x.year, x.month, 1)) \in Int
         /\ Ordinal(x) = Ordinal(Date(x.year, x.month, 1)) + x.day - 1
<1>1. x.year \in Nat /\ x.month \in 1..12 /\ x.day \in 1..31
  BY DEF IsDate
<1>2. Ordinal(x) = Days(x.year) + DaysBefore[x.month] + LeapDay(x.year, x.month) + x.day
  BY OrdinalOfDate
<1>3. Ordinal(Date(x.year, x.month, 1)) = Days(x.year) + DaysBefore[x.month] + LeapDay(x.year, x.month) + 1
  BY OrdinalOfDate, DateFields
<1>4. Days(x.year) \in Int
  BY <1>1, YearStep
<1>5. DaysBefore[x.month] \in Int /\ LeapDay(x.year, x.month) \in Int
  BY <1>1, DaysBeforeMonth, SMT DEF LeapDay
<1>. QED BY <1>1, <1>2, <1>3, <1>4, <1>5, SMT

LEMMA PlusDaysOrdinal ==
  ASSUME NEW x, IsDate(x), NEW n \in 1..28
  PROVE  Ordinal(PlusDays(x, n)) = Ordinal(x) + n
<1>1. x.year \in Nat /\ x.month \in 1..12 /\ x.day \in 1..31
  BY DEF IsDate
<1>2. DaysInMonth(x.year, x.month) \in 28..31
  BY MonthLength
<1>3. CASE x.day + n <= DaysInMonth(x.year, x.month)
  <2>1. PlusDays(x, n) = Date(x.year, x.month, x.day + n)
    BY <1>3 DEF PlusDays
  <2>2. Ordinal(Date(x.year, x.month, x.day + n)) = Ordinal(Date(x.year, x.month, 1)) + (x.day + n) - 1
    <3>1. IsDate(Date(x.year, x.month, x.day + n))
      BY <1>1, <1>2, <1>3, SMT DEF Date, IsDate
    <3>. QED BY <3>1, OrdinalWithinMonth, DateFields
  <2>. QED BY <1>1, <2>1, <2>2, OrdinalWithinMonth, SMT
<1>4. CASE ~(x.day + n <= DaysInMonth(x.year, x.month))
  <2>. DEFINE d == x.day + n - DaysInMonth(x.year, x.month)
  <2>1. d \in Int
    BY <1>1, <1>2, SMT
  <2>2. PlusDays(x, n) = Date(x.year + (x.month \div 12), (x.month % 12) + 1, d)
    BY <1>4 DEF PlusDays
  <2>3. Ordinal(PlusDays(x, n)) = Ordinal(Date(x.year, x.month, 1)) + DaysInMonth(x.year, x.month) + d - 1
    BY <1>1, <2>1, <2>2, MonthStep
  <2>. QED BY <1>1, <1>2, <2>3, OrdinalWithinMonth, SMT
<1>. QED BY <1>3, <1>4

LEMMA AddOneMonthOrdinal ==
  ASSUME NEW x, IsDate(x)
  PROVE  Ordinal(AddOneMonth(x)) - Ordinal(x) \in 28..31
<1>. DEFINE y == x.year + (x.month \div 12)
            m == (x.month % 12) + 1
            length == DaysInMonth(y, m)
            d == Least(x.day, length)
<1>1. x.year \in Nat /\ x.month \in 1..12 /\ x.day \in 1..31 /\ x.day <= DaysInMonth(x.year, x.month)
  BY DEF IsDate
<1>2. DaysInMonth(x.year, x.month) \in 28..31 /\ length \in 28..31
  BY MonthLength
<1>3. d \in Int
  BY <1>1, <1>2, SMT DEF Least
<1>4. AddOneMonth(x) = Date(y, m, d)
  BY DEF AddOneMonth
<1>5. Ordinal(AddOneMonth(x)) = Ordinal(Date(x.year, x.month, 1)) + DaysInMonth(x.year, x.month) + d - 1
  BY <1>1, <1>3, <1>4, MonthStep
<1>6. d = IF x.day < length THEN x.day ELSE length
  BY DEF Least
<1>. HIDE DEF y, m, length, d
<1>. QED BY <1>1, <1>2, <1>3, <1>5, <1>6, OrdinalWithinMonth, SMT

LEMMA WeekdayKept ==
  ASSUME NEW o \in Int
  PROVE  ((o + 7) + 6) % 7 = (o + 6) % 7
BY SMTT(30)

(***************************************************************************)
(* From any date of the calendar, for ever: one day, one week, or 28 to 31 *)
(* days, with leap years as in the reference.                              *)
(***************************************************************************)
THEOREM SeriesStepsByInterval == Spec => StepsByInterval
<1>. DEFINE days == Ordinal(due') - Ordinal(due)
            Step == CASE repeat = "daily" -> days = 1
                      [] repeat = "weekly" -> days = 7 /\ Weekday(due') = Weekday(due)
                      [] repeat = "monthly" -> days \in 28..31
<1>1. DueTypeOK /\ [Next]_vars => [Step]_vars
  <2>. SUFFICES ASSUME DueTypeOK, Advance PROVE Step
    BY DEF Next
  <2>0. Ordinal(due) \in Int
    BY OrdinalWithinMonth DEF DueTypeOK
  <2>1. CASE repeat = "daily"
    <3>1. Ordinal(due') = Ordinal(due) + 1
      BY <2>1, PlusDaysOrdinal, 1 \in 1..28 DEF Advance, NextDueDate, DueTypeOK
    <3>. QED BY <2>0, <2>1, <3>1, SMT
  <2>2. CASE repeat = "weekly"
    <3>1. Ordinal(due') = Ordinal(due) + 7
      BY <2>2, PlusDaysOrdinal, 7 \in 1..28 DEF Advance, NextDueDate, DueTypeOK
    <3>2. Weekday(due') = Weekday(due)
      BY <2>0, <3>1, WeekdayKept DEF Weekday
    <3>3. days = 7
      BY <2>0, <3>1, SMT
    <3>. QED BY <2>2, <3>2, <3>3
  <2>3. CASE repeat = "monthly"
    BY <2>3, AddOneMonthOrdinal DEF Advance, NextDueDate, DueTypeOK
  <2>. QED BY <2>1, <2>2, <2>3 DEF DueTypeOK
<1>. QED BY <1>1, DueDatesAreDates, PTL DEF Spec, StepsByInterval

(***************************************************************************)
(* One occurrence in each period the statistics count, for ever.           *)
(***************************************************************************)
THEOREM SeriesOncePerPeriod == Spec => OncePerPeriod
<1>. DEFINE Step == PeriodRange(repeat, due')[1] = PeriodRange(repeat, due)[2] + 1
<1>1. DueTypeOK /\ [Next]_vars => [Step]_vars
  <2>. SUFFICES ASSUME DueTypeOK, Advance PROVE Step
    BY DEF Next
  <2>0. Ordinal(due) \in Int
    BY OrdinalWithinMonth DEF DueTypeOK
  <2>1. CASE repeat = "daily"
    <3>1. Ordinal(due') = Ordinal(due) + 1
      BY <2>1, PlusDaysOrdinal, 1 \in 1..28 DEF Advance, NextDueDate, DueTypeOK
    <3>. QED BY <2>1, <3>1 DEF PeriodRange
  <2>2. CASE repeat = "weekly"
    <3>1. Ordinal(due') = Ordinal(due) + 7
      BY <2>2, PlusDaysOrdinal, 7 \in 1..28 DEF Advance, NextDueDate, DueTypeOK
    <3>2. Weekday(due') = Weekday(due) /\ Weekday(due) \in Int
      BY <2>0, <3>1, WeekdayKept, SMT DEF Weekday
    <3>3. /\ PeriodRange(repeat, due')[1] = Ordinal(due') - Weekday(due')
          /\ PeriodRange(repeat, due)[2] = Ordinal(due) - Weekday(due) + 6
      BY <2>2 DEF PeriodRange
    <3>. QED BY <2>0, <3>1, <3>2, <3>3, SMT
  <2>3. CASE repeat = "monthly"
    <3>. DEFINE y == due.year + (due.month \div 12)
                m == (due.month % 12) + 1
    <3>1. due'.year = y /\ due'.month = m
      BY <2>3, DateFields DEF Advance, NextDueDate, AddOneMonth
    <3>2. /\ PeriodRange(repeat, due')[1] = Ordinal(Date(y, m, 1))
          /\ PeriodRange(repeat, due)[2] = Ordinal(Date(y, m, 1)) - 1
      BY <2>3, <3>1 DEF PeriodRange, MonthOf
    <3>3. Ordinal(Date(y, m, 1)) \in Int
      <4>1. y \in Nat /\ m \in 1..12
        BY MonthAfter DEF DueTypeOK
      <4>2. DaysInMonth(y, m) \in 28..31
        BY MonthLength
      <4>. HIDE DEF y, m
      <4>3. IsDate(Date(y, m, 1))
        BY <4>1, <4>2, SMT DEF IsDate, Date
      <4>. QED BY <4>3, OrdinalWithinMonth
    <3>. HIDE DEF y, m
    <3>. QED BY <3>2, <3>3, SMT
  <2>. QED BY <2>1, <2>2, <2>3 DEF DueTypeOK
<1>. QED BY <1>1, DueDatesAreDates, PTL DEF Spec, OncePerPeriod

-----------------------------------------------------------------------------
(***************************************************************************)
(* Overview.                                                               *)
(***************************************************************************)

\* A row that complete_task has dated: in the past, and always where completed.
RowGood(r) ==
  \/ r = NULL
  \/ /\ r \in Row
     /\ r.doneOn = NULL \/ r.doneOn \in 1..Today
     /\ r.status = "completed" => r.doneOn # NULL

\* The answer WeeklyPage holds is of the week of the day it was given on.
WeekAnswered ==
  cached["this_week"] # NULL =>
    LET a == cached["this_week"] IN
    /\ a.on \in Nat
    /\ \A t \in DOMAIN a.answer :
         a.answer[t].due \in StartOfWeek(a.on)..(StartOfWeek(a.on) + 6)

DaysInv ==
  /\ IsDate(today) /\ today.year > 0 /\ passed \in BOOLEAN
  /\ earlier \subseteq 0..Today /\ IsFiniteSet(earlier)
  /\ mounted \in Nat /\ mounted <= Today

RowsInv == row \in [Tasks -> Row \cup {NULL}] /\ \A t \in Tasks : RowGood(row[t])

QueriesInv ==
  /\ page \in {"daily", "week", "stats"}
  /\ DOMAIN cached = Queries /\ fetching \subseteq Queries
  /\ WeekAnswered

OverviewInv == DaysInv /\ RowsInv /\ QueriesInv

LEMMA OrdinalPositive ==
  ASSUME NEW x, IsDate(x), x.year > 0
  PROVE  Ordinal(x) \in Nat /\ Ordinal(x) >= 1
<1>1. x.year \in Nat /\ x.month \in 1..12 /\ x.day \in 1..31
  BY DEF IsDate
<1>2. DaysBefore[x.month] \in Nat /\ LeapDay(x.year, x.month) \in {0, 1}
  BY <1>1, DaysBeforeMonth, SMT DEF LeapDay
<1>3. Days(x.year) \in Nat
  <2>. DEFINE y == x.year - 1
  <2>1. y \in Nat
    BY <1>1, SMT
  <2>. HIDE DEF y
  <2>2. y \div 4 \in Nat /\ y \div 100 \in Nat /\ y \div 400 \in Nat /\ y \div 100 <= y \div 4
    BY <2>1, SMTT(30)
  <2>3. Days(x.year) = 365 * y + (y \div 4) - (y \div 100) + (y \div 400)
    BY DEF Days, y
  <2>. QED BY <2>1, <2>2, <2>3, SMT
<1>. QED BY <1>1, <1>2, <1>3, OrdinalOfDate, SMT

LEMMA NextDay ==
  ASSUME NEW x, IsDate(x), x.year > 0
  PROVE  /\ IsDate(PlusDays(x, 1)) /\ PlusDays(x, 1).year > 0
         /\ Ordinal(PlusDays(x, 1)) = Ordinal(x) + 1
<1>1. x.year \in Nat /\ x.month \in 1..12
  BY DEF IsDate
<1>2. PlusDays(x, 1).year \in {x.year, x.year + (x.month \div 12)}
  BY DateFields DEF PlusDays
<1>3. x.month \div 12 \in Nat
  BY <1>1, SMT
<1>4. PlusDays(x, 1).year > 0
  BY <1>1, <1>2, <1>3, SMT
<1>. QED BY <1>4, PlusDaysIsDate, PlusDaysOrdinal, 1 \in 1..28

\* date-fns and datetime agree on the Monday of a week.
LEMMA WeeksAgree ==
  ASSUME NEW n \in Nat
  PROVE  /\ StartOfWeek(n) = n - ((n + 6) % 7)
         /\ StartOfWeek(n) \in Int
<1>1. n % 7 \in 0..6 /\ (n + 6) % 7 = IF n % 7 < 1 THEN 6 ELSE (n % 7) - 1
  BY SMTT(30)
<1>. QED BY <1>1, SMT DEF StartOfWeek, GetDay

LEMMA ThisWeek ==
  ASSUME DaysInv
  PROVE  /\ Today \in Nat /\ Today >= 1
         /\ PeriodRange("weekly", today)[1] = StartOfWeek(Today)
         /\ PeriodRange("weekly", today)[2] = StartOfWeek(Today) + 6
<1>1. Today \in Nat /\ Today >= 1
  BY OrdinalPositive DEF DaysInv, Today
<1>2. StartOfWeek(Today) = Ordinal(today) - Weekday(today)
  BY <1>1, WeeksAgree DEF Today, Weekday
<1>. QED BY <1>1, <1>2 DEF PeriodRange

\* What the task service makes of a row; a day is given to it on that day alone.
LEMMA ChangesGood ==
  ASSUME DaysInv, RowsInv, NEW t \in Tasks, NEW r \in ChangesOf(t)
  PROVE  /\ RowGood(r) /\ r \in Row \cup {NULL}
         /\ r # NULL => \/ r.doneOn \in {NULL, Today}
                        \/ row[t] # NULL /\ r.doneOn = row[t].doneOn
<1>1. Today \in Nat /\ Today >= 1
  BY ThisWeek
<1>2. CASE row[t] = NULL
  <2>1. PICK n \in {Today, Today + 1} : r = NewRow(n)
    BY <1>2 DEF ChangesOf
  <2>2. r \in Row /\ r.doneOn = NULL /\ r.status = "pending"
    BY <1>1, <2>1 DEF NewRow, Row
  <2>. QED BY <2>2 DEF RowGood
<1>3. CASE row[t] # NULL
  <2>. DEFINE o == row[t]
  <2>1. /\ o \in Row
        /\ o.doneOn = NULL \/ o.doneOn \in 1..Today
        /\ o.status = "completed" => o.doneOn # NULL
    BY <1>3 DEF RowsInv, RowGood
  <2>2. \/ r = Completed(o) \/ r = [o EXCEPT !.status = "pending", !.doneOn = NULL]
        \/ r = [o EXCEPT !.status = "snoozed"] \/ r = NULL
        \/ r = [o EXCEPT !.status = "pending"]
        \/ \E n \in {Today, Today + 1} : r = [o EXCEPT !.due = n]
    BY <1>3 DEF ChangesOf
  <2>. HIDE DEF o
  <2>3. CASE r = Completed(o)
    <3>1. r = [o EXCEPT !.status = "completed", !.doneOn = Today]
      BY <2>3 DEF Completed
    <3>2. r \in Row /\ r.doneOn = Today
      BY <1>1, <2>1, <3>1 DEF Row
    <3>. QED BY <1>1, <3>2, OverviewConstants DEF RowGood
  <2>4. CASE r = [o EXCEPT !.status = "pending", !.doneOn = NULL]
    <3>1. r \in Row /\ r.doneOn = NULL /\ r.status = "pending"
      BY <2>1, <2>4 DEF Row
    <3>. QED BY <3>1 DEF RowGood
  <2>5. CASE r = [o EXCEPT !.status = "snoozed"] \/ r = [o EXCEPT !.status = "pending"]
    <3>1. r \in Row /\ r.doneOn = o.doneOn /\ r.status # "completed"
      BY <2>1, <2>5 DEF Row
    <3>. QED BY <1>3, <2>1, <3>1 DEF RowGood, o
  <2>6. CASE r = NULL
    BY <2>6 DEF RowGood
  <2>7. ASSUME NEW n \in {Today, Today + 1}, r = [o EXCEPT !.due = n]
        PROVE  /\ RowGood(r) /\ r \in Row /\ r.doneOn = o.doneOn
    <3>1. r \in Row /\ r.doneOn = o.doneOn /\ r.status = o.status
      BY <1>1, <2>1, <2>7 DEF Row
    <3>. QED BY <2>1, <3>1 DEF RowGood
  <2>. QED BY <1>3, <2>2, <2>3, <2>4, <2>5, <2>6, <2>7 DEF o
<1>. QED BY <1>2, <1>3

\* What the server lists as this week's is due on a day of the week.
LEMMA ListedThisWeek ==
  ASSUME DaysInv, RowsInv
  PROVE  \A t \in DOMAIN Listing("this_week") :
           Listing("this_week")[t].due \in StartOfWeek(Today)..(StartOfWeek(Today) + 6)
<1>. SUFFICES ASSUME NEW t \in DOMAIN Listing("this_week")
              PROVE  Listing("this_week")[t].due \in StartOfWeek(Today)..(StartOfWeek(Today) + 6)
  OBVIOUS
<1>1. t \in Stored /\ InFilter("this_week", row[t]) /\ Listing("this_week")[t] = row[t]
  BY DEF Listing
<1>2. row[t].due \in PeriodRange("weekly", today)[1]..PeriodRange("weekly", today)[2]
  BY <1>1 DEF InFilter
<1>. QED BY <1>1, <1>2, ThisWeek

\* A step that leaves the day alone, or a new day.
LEMMA DayKept ==
  ASSUME DaysInv, UNCHANGED <<today, earlier>>, passed' \in BOOLEAN,
         mounted' \in {mounted, Today}
  PROVE  DaysInv' /\ Today' = Today
<1>1. Today' = Today /\ Today \in Nat
  BY ThisWeek DEF Today
<1>. QED BY <1>1 DEF DaysInv, IsDate

LEMMA RowsKept ==
  ASSUME RowsInv, UNCHANGED row, Today' = Today
  PROVE  RowsInv'
BY DEF RowsInv, RowGood

LEMMA MidnightInv ==
  ASSUME OverviewInv, Midnight
  PROVE  OverviewInv'
<1>. USE DEF OverviewInv
<1>1. /\ today' = PlusDays(today, 1) /\ passed' = FALSE
      /\ UNCHANGED <<row, earlier, page, mounted, cached, fetching>>
  BY DEF Midnight
<1>2. /\ IsDate(today') /\ today'.year > 0 /\ Today' = Today + 1
  BY <1>1, NextDay DEF DaysInv, Today
<1>3. Today \in Nat /\ Today >= 1
  BY ThisWeek
<1>4. DaysInv'
  <2>1. earlier' \subseteq 0..Today'
    BY <1>1, <1>2, <1>3, SMT DEF DaysInv
  <2>2. mounted' \in Nat /\ mounted' <= Today'
    BY <1>1, <1>2, <1>3, SMT DEF DaysInv
  <2>. QED BY <1>1, <1>2, <2>1, <2>2 DEF DaysInv
<1>5. RowsInv'
  <2>1. \A n \in 1..Today : n \in 1..Today'
    BY <1>2, <1>3, SMT
  <2>2. \A t \in Tasks : RowGood(row[t])'
    BY <1>1, <2>1 DEF RowsInv, RowGood
  <2>. QED BY <1>1, <2>2 DEF RowsInv
<1>6. QueriesInv'
  BY <1>1 DEF QueriesInv, WeekAnswered
<1>. QED BY <1>4, <1>5, <1>6

LEMMA OverviewStep ==
  ASSUME OverviewInv, [OverviewNext]_overviewVars
  PROVE  OverviewInv'
<1>. USE DEF OverviewInv
<1>1. ASSUME NEW p \in {"daily", "week", "stats"}, Visit(p) PROVE OverviewInv'
  <2>1. /\ page' = p /\ mounted' \in {mounted, Today} /\ fetching' = fetching \cup ActiveQueries(p)
        /\ UNCHANGED <<today, passed, row, earlier, cached>>
    BY <1>1 DEF Visit
  <2>2. DaysInv' /\ Today' = Today
    BY <2>1, DayKept DEF DaysInv
  <2>3. QueriesInv'
    BY <2>1 DEF QueriesInv, WeekAnswered, ActiveQueries, Queries
  <2>. QED BY <2>1, <2>2, <2>3, RowsKept
<1>2. ASSUME NEW q \in Queries, Receive(q) PROVE OverviewInv'
  <2>. DEFINE answer == IF q = "activity" THEN Activity ELSE Listing(q)
  <2>1. /\ fetching' = fetching \ {q}
        /\ cached' = [cached EXCEPT ![q] = [on |-> Today, answer |-> answer]]
        /\ UNCHANGED <<today, passed, row, earlier, page, mounted>>
    BY <1>2 DEF Receive
  <2>2. DaysInv' /\ Today' = Today
    BY <2>1, DayKept DEF DaysInv
  <2>3. WeekAnswered'
    <3>. HIDE DEF answer
    <3>1. CASE q = "this_week"
      <4>1. answer = Listing("this_week")
        BY <3>1 DEF answer
      <4>2. cached'["this_week"].on = Today /\ cached'["this_week"].answer = Listing("this_week")
        BY <2>1, <3>1, <4>1 DEF QueriesInv, Queries
      <4>. QED BY <4>2, ThisWeek, ListedThisWeek DEF WeekAnswered
    <3>2. CASE q # "this_week"
      <4>1. cached'["this_week"] = cached["this_week"]
        BY <2>1, <3>2 DEF QueriesInv, Queries
      <4>. QED BY <4>1 DEF WeekAnswered, QueriesInv
    <3>. QED BY <3>1, <3>2
  <2>4. DOMAIN cached' = Queries /\ page' = page /\ fetching' \subseteq Queries
    BY <2>1 DEF QueriesInv
  <2>5. QueriesInv'
    BY <2>3, <2>4 DEF QueriesInv
  <2>. QED BY <2>1, <2>2, <2>5, RowsKept
<1>3. ASSUME NEW t \in Tasks, Change(t) PROVE OverviewInv'
  <2>1. PICK r \in ChangesOf(t) : row' = [row EXCEPT ![t] = r]
    BY <1>3 DEF Change
  <2>2. /\ fetching' \in {fetching, fetching \cup (ActiveQueries(page) \ {"activity"})}
        /\ UNCHANGED <<today, passed, earlier, page, mounted, cached>>
    BY <1>3 DEF Change
  <2>3. DaysInv' /\ Today' = Today
    BY <2>2, DayKept DEF DaysInv
  <2>4. RowsInv'
    <3>1. RowGood(r) /\ r \in Row \cup {NULL}
      BY ChangesGood
    <3>2. row' \in [Tasks -> Row \cup {NULL}]
      BY <2>1, <3>1 DEF RowsInv
    <3>3. \A u \in Tasks : RowGood(row'[u])
      BY <2>1, <3>1 DEF RowsInv
    <3>. QED BY <2>3, <3>2, <3>3 DEF RowsInv, RowGood
  <2>5. QueriesInv'
    BY <2>2 DEF QueriesInv, WeekAnswered, ActiveQueries, Queries
  <2>. QED BY <2>3, <2>4, <2>5
<1>4. CASE DueTimePasses
  <2>1. passed' = TRUE /\ UNCHANGED <<today, row, earlier, page, mounted, cached, fetching>>
    BY <1>4 DEF DueTimePasses
  <2>2. DaysInv' /\ Today' = Today
    BY <2>1, DayKept
  <2>. QED BY <2>1, <2>2, RowsKept DEF QueriesInv, WeekAnswered
<1>5. CASE Midnight
  BY <1>5, MidnightInv
<1>6. CASE UNCHANGED overviewVars
  <2>1. UNCHANGED <<today, passed, row, earlier, page, mounted, cached, fetching>>
    BY <1>6 DEF overviewVars
  <2>2. DaysInv' /\ Today' = Today
    BY <2>1, DayKept DEF DaysInv
  <2>. QED BY <2>1, <2>2, RowsKept DEF QueriesInv, WeekAnswered
<1>. QED BY <1>1, <1>2, <1>3, <1>4, <1>5, <1>6 DEF OverviewNext

LEMMA OverviewInitially == OverviewInit => OverviewInv
<1>. SUFFICES ASSUME OverviewInit PROVE OverviewInv
  OBVIOUS
<1>1. /\ IsDate(today) /\ today.year > 0 /\ today \in StartDays
      /\ \A g \in Gaps : g \in Nat /\ g <= Today
  BY OverviewConstants DEF OverviewInit, Today
<1>2. Today \in Nat /\ Today >= 1
  BY <1>1, OrdinalPositive DEF Today
<1>3. PICK gaps \in SUBSET Gaps : earlier = {Today - g : g \in gaps}
  BY DEF OverviewInit
<1>4. earlier \subseteq 0..Today
  <2>. SUFFICES ASSUME NEW n \in earlier PROVE n \in 0..Today
    OBVIOUS
  <2>1. PICK g \in gaps : n = Today - g
    BY <1>3
  <2>2. g \in Nat /\ g <= Today
    BY <1>1
  <2>. QED BY <1>2, <2>1, <2>2, SMT
<1>5. IsFiniteSet(earlier)
  <2>1. IsFiniteSet(0..Today)
    BY <1>2, FS_Interval
  <2>. QED BY <1>4, <2>1, FS_Subset
<1>6. DaysInv
  <2>1. mounted = Today /\ passed = FALSE
    BY DEF OverviewInit
  <2>2. mounted \in Nat /\ mounted <= Today
    BY <1>2, <2>1, SMT
  <2>. QED BY <1>1, <1>4, <1>5, <2>1, <2>2 DEF DaysInv
<1>7. RowsInv
  <2>1. \A n \in {Today, Today + 1} :
          NewRow(n) \in Row /\ NewRow(n).doneOn = NULL /\ NewRow(n).status = "pending"
    BY <1>2 DEF NewRow, Row
  <2>2. row \in [Tasks -> {NULL} \cup {NewRow(n) : n \in {Today, Today + 1}}]
    BY DEF OverviewInit
  <2>. QED BY <2>1, <2>2 DEF RowsInv, RowGood
<1>8. QueriesInv
  BY DEF OverviewInit, QueriesInv, WeekAnswered, ActiveQueries, Queries
<1>. QED BY <1>6, <1>7, <1>8 DEF OverviewInv

(***************************************************************************)
(* Rows, lists and days keep their types, and a completed row is dated in  *)
(* the past (complete_task), from any date on and for ever.                *)
(***************************************************************************)
THEOREM OverviewInvariance == OverviewSpec => [](OverviewInv /\ OverviewTypeOK)
<1>1. OverviewInv => OverviewTypeOK
  <2>. SUFFICES ASSUME OverviewInv PROVE OverviewTypeOK
    OBVIOUS
  <2>1. \A n \in earlier : n \in Nat
    BY ThisWeek DEF OverviewInv, DaysInv
  <2>2. ASSUME NEW t \in Tasks, row[t] # NULL, row[t].status = "completed"
        PROVE  row[t].doneOn \in 1..Today
    BY <2>2 DEF OverviewInv, RowsInv, RowGood
  <2>. QED BY <2>1, <2>2 DEF OverviewInv, DaysInv, RowsInv, QueriesInv, OverviewTypeOK
<1>. QED BY <1>1, OverviewInitially, OverviewStep, PTL DEF OverviewSpec

(***************************************************************************)
(* Whatever the interval, the first date, the rows and the order in which  *)
(* pages and midnights come: every due date is a date of the calendar, and *)
(* rows, answers and days are of their types (next_due_date,               *)
(* complete_task).                                                         *)
(***************************************************************************)
THEOREM CalendarTyped == Spec /\ OverviewSpec => []CalendarTypeOK
<1>1. DueTypeOK /\ OverviewTypeOK => CalendarTypeOK
  BY DEF CalendarTypeOK
<1>. QED BY <1>1, DueDatesAreDates, OverviewInvariance, PTL

(***************************************************************************)
(* Whatever was answered and changed before: while both lists of DailyPage *)
(* are the server's, its tables hold every task of today and every one     *)
(* overdue, once, and the badge says so (getDisplayStatus beside           *)
(* _apply_high_level_filter).                                              *)
(***************************************************************************)
THEOREM TablesAgree == OverviewSpec => []SectionsAgree
<1>1. OverviewInv => SectionsAgree
  <2>. SUFFICES ASSUME OverviewInv,
                       OverdueTasks = Listing("overdue"), TodayTasks = Listing("today")
                PROVE  /\ Listed = {t \in Stored : row[t].due = Today
                                       \/ (row[t].due < Today /\ row[t].status = "pending")}
                       /\ \A t \in Listed :
                            DisplayStatus(row[t]) = "overdue" <=> t \in DOMAIN OverdueTasks
    BY DEF SectionsAgree
  <2>1. /\ DOMAIN OverdueTasks = {t \in Stored : InFilter("overdue", row[t])}
        /\ DOMAIN TodayTasks = {t \in Stored : InFilter("today", row[t])}
    BY DEF Listing
  <2>2. ASSUME NEW t \in Stored
        PROVE  /\ row[t].due \in Nat /\ row[t].status \in {"pending", "completed", "snoozed"}
               /\ InFilter("today", row[t]) <=> row[t].due = Today
               /\ InFilter("overdue", row[t]) <=>
                    /\ row[t].status = "pending"
                    /\ row[t].due < Today \/ (row[t].due = Today /\ passed)
               /\ DisplayStatus(row[t]) = "overdue" <=> InFilter("overdue", row[t])
    <3>1. row[t] \in Row
      BY DEF Stored, OverviewInv, RowsInv
    <3>2. row[t].due \in Nat /\ row[t].status \in {"pending", "completed", "snoozed"}
      BY <3>1 DEF Row
    <3>3. InFilter("today", row[t]) <=> row[t].due = Today
      BY DEF InFilter
    <3>4. InFilter("overdue", row[t]) <=>
            row[t].status = "pending" /\ (row[t].due < Today \/ (row[t].due = Today /\ passed))
      BY DEF InFilter
    <3>5. DisplayStatus(row[t]) = "overdue" <=>
            row[t].status = "pending" /\ (row[t].due < Today \/ (row[t].due = Today /\ passed))
      BY <3>2 DEF DisplayStatus
    <3>. QED BY <3>2, <3>3, <3>4, <3>5
  <2>3. \A t \in Listed : t \in Stored
    BY <2>1 DEF Listed, TodayOnly
  <2>. QED BY <2>1, <2>2, <2>3 DEF Listed, TodayOnly
<1>. QED BY <1>1, OverviewInvariance, PTL

(***************************************************************************)
(* Every task WeeklyPage was answered has a column while the week it was   *)
(* mounted in lasts, on every date of the calendar: startOfWeek of         *)
(* date-fns and _period_range agree.                                       *)
(***************************************************************************)
THEOREM WeekHasItsColumns == OverviewSpec => []WeekAllShown
<1>1. OverviewInv => WeekAllShown
  <2>. SUFFICES ASSUME OverviewInv, cached["this_week"] # NULL,
                       StartOfWeek(cached["this_week"].on) = StartOfWeek(mounted),
                       NEW t \in DOMAIN Answer("this_week")
                PROVE  Answer("this_week")[t].due \in WeekColumns
    BY DEF WeekAllShown
  <2>1. Answer("this_week") = cached["this_week"].answer
    BY DEF Answer
  <2>2. Answer("this_week")[t].due \in StartOfWeek(mounted)..(StartOfWeek(mounted) + 6)
    BY <2>1 DEF OverviewInv, QueriesInv, WeekAnswered
  <2>3. StartOfWeek(mounted) \in Int
    BY WeeksAgree DEF OverviewInv, DaysInv
  <2>. DEFINE m == StartOfWeek(mounted)
              dueOn == Answer("this_week")[t].due
  <2>4. dueOn - m \in 0..6 /\ dueOn = m + (dueOn - m)
    <3>. HIDE DEF m, dueOn
    <3>1. m \in Int /\ dueOn \in m..(m + 6)
      BY <2>2, <2>3 DEF m, dueOn
    <3>. QED BY <3>1, SMT
  <2>. QED BY <2>4 DEF WeekColumns
<1>. QED BY <1>1, OverviewInvariance, PTL

-----------------------------------------------------------------------------
(***************************************************************************)
(* The streaks of get_streak.                                              *)
(***************************************************************************)

\* k is the length of the run of days in A that ends with n.
RunIs(A, n, k) == n - k \notin A /\ n - k + 1 .. n \subseteq A

RunLength(A, n) == CHOOSE k \in 0..Cardinality(A) : RunIs(A, n, k)

\* By well-founded induction over the order of the naturals.
LEMMA LeastNat ==
  ASSUME NEW T, T \subseteq Nat, T # {}
  PROVE  \E x \in T : \A y \in T : x <= y
<1>. DEFINE R == {ss \in Nat \X Nat : ss[1] < ss[2]}
<1>1. R = OpToRel(<, Nat)
  BY DEF OpToRel
<1>2. IsWellFoundedOn(R, Nat)
  BY <1>1, NatLessThanWellFounded
<1>3. PICK x \in T : \A y \in T : ~(<<y, x>> \in R)
  <2>. HIDE DEF R
  <2>. QED BY <1>2, WFMin
<1>4. ASSUME NEW y \in T PROVE x <= y
  <2>1. x \in Nat /\ y \in Nat /\ <<y, x>> \in Nat \X Nat
    OBVIOUS
  <2>2. ~(y < x)
    BY <1>3, <2>1
  <2>. QED BY <2>1, <2>2
<1>. QED BY <1>3, <1>4

\* A set of naturals with a bound has the maximum FiniteSetsExt chooses.
LEMMA MaxOfBounded ==
  ASSUME NEW S, NEW b \in Nat, S \subseteq 0..b, S # {}
  PROVE  Max(S) \in S /\ \A y \in S : y <= Max(S)
<1>. DEFINE T == {b - y : y \in S}
<1>1. T \subseteq Nat /\ T # {}
  <2>1. \A y \in S : b - y \in Nat
    BY SMT
  <2>. QED BY <2>1
<1>2. PICK z \in T : \A y \in T : z <= y
  <2>. HIDE DEF T
  <2>. QED BY <1>1, LeastNat
<1>3. PICK x \in S : z = b - x
  OBVIOUS
<1>4. ASSUME NEW y \in S PROVE x >= y
  <2>1. z <= b - y
    BY <1>2
  <2>2. x \in 0..b /\ y \in 0..b
    OBVIOUS
  <2>. QED BY <1>3, <2>1, <2>2, SMT
<1>5. Max(S) \in S /\ \A y \in S : Max(S) >= y
  <2>1. \E m \in S : \A y \in S : m >= y
    BY <1>4
  <2>2. Max(S) = CHOOSE m \in S : \A y \in S : m >= y
    BY DEF Max
  <2>. QED BY <2>1, <2>2, Zenon
<1>6. ASSUME NEW y \in S PROVE y \in Int
  <2>1. y \in 0..b
    OBVIOUS
  <2>. QED BY <2>1, SMT
<1>7. ASSUME NEW y \in S, NEW w \in S, w >= y PROVE y <= w
  BY <1>6, <1>7, SMT
<1>. QED BY <1>5, <1>7

LEMMA RunUnique ==
  ASSUME NEW A, NEW n \in Int, NEW k \in Nat, NEW l \in Nat, RunIs(A, n, k), RunIs(A, n, l)
  PROVE  k = l
<1>1. ASSUME NEW i \in Nat, NEW j \in Nat, i < j, RunIs(A, n, i), RunIs(A, n, j) PROVE FALSE
  <2>1. n - i \in n - j + 1 .. n
    BY <1>1, SMT
  <2>. QED BY <1>1, <2>1 DEF RunIs
<1>2. ~(k < l) /\ ~(l < k)
  BY <1>1
<1>. QED BY <1>2, SMT

\* A run has an end, and get_streak finds it.
LEMMA RunFound ==
  ASSUME NEW A, A \subseteq Nat, IsFiniteSet(A), NEW n \in Int, n >= -1
  PROVE  RunLength(A, n) \in 0..Cardinality(A) /\ RunIs(A, n, RunLength(A, n))
<1>. DEFINE Out == {k \in Nat : n - k \notin A}
<1>1. n + 1 \in Out
  <2>1. n + 1 \in Nat /\ n - (n + 1) \notin Nat
    BY SMT
  <2>. QED BY <2>1
<1>2. PICK k \in Out : \A j \in Out : k <= j
  <2>1. Out \subseteq Nat /\ Out # {}
    BY <1>1
  <2>. HIDE DEF Out
  <2>. QED BY <2>1, LeastNat
<1>3. n - k + 1 .. n \subseteq A
  <2>. SUFFICES ASSUME NEW d \in n - k + 1 .. n PROVE d \in A
    OBVIOUS
  <2>1. n - d \in Nat /\ n - d < k /\ n - (n - d) = d
    BY SMT
  <2>2. n - d \notin Out
    <3>. HIDE DEF Out
    <3>1. k \in Nat
      BY DEF Out
    <3>. QED BY <1>2, <2>1, <3>1, SMT
  <2>. QED BY <2>1, <2>2
<1>4. k <= Cardinality(A) /\ Cardinality(A) \in Nat
  <2>1. k \in Nat /\ n - k + 1 \in Int
    OBVIOUS
  <2>2. Cardinality(n - k + 1 .. n) = IF n - k + 1 > n THEN 0 ELSE n - (n - k + 1) + 1
    BY <2>1, FS_Interval
  <2>3. Cardinality(n - k + 1 .. n) = k
    BY <2>1, <2>2, SMT
  <2>. QED BY <1>3, <2>3, FS_Subset, FS_CardinalityType
<1>5. k \in 0..Cardinality(A) /\ RunIs(A, n, k)
  BY <1>2, <1>3, <1>4 DEF RunIs
<1>. QED
  <2>. DEFINE N == Cardinality(A)
  <2>1. \E j \in 0..N : RunIs(A, n, j)
    BY <1>5
  <2>2. RunLength(A, n) = CHOOSE j \in 0..N : RunIs(A, n, j)
    BY DEF RunLength
  <2>. HIDE DEF N
  <2>3. RunLength(A, n) \in 0..N /\ RunIs(A, n, RunLength(A, n))
    BY <2>1, <2>2, Zenon
  <2>. QED BY <2>3 DEF N

\* A longer past makes no run shorter.
LEMMA RunMonotone ==
  ASSUME NEW A, NEW B, A \subseteq B, NEW n \in Int, NEW k \in Nat, NEW l \in Nat,
         RunIs(A, n, k), RunIs(B, n, l)
  PROVE  k <= l
<1>1. ASSUME l < k PROVE FALSE
  <2>1. n - l \in n - k + 1 .. n
    BY <1>1, SMT
  <2>. QED BY <2>1 DEF RunIs
<1>. QED BY <1>1, SMT

\* The day on which a run ends adds one to the run of the day before.
LEMMA RunGrows ==
  ASSUME NEW A, NEW n \in Int, NEW k \in Nat, RunIs(A, n - 1, k)
  PROVE  RunIs(A \cup {n}, n, k + 1)
<1>1. n - (k + 1) = n - 1 - k /\ n - (k + 1) # n
  BY SMT
<1>2. ASSUME NEW d \in n - (k + 1) + 1 .. n, d # n PROVE d \in A
  <2>1. d \in n - 1 - k + 1 .. n - 1
    BY <1>2, SMT
  <2>. QED BY <2>1 DEF RunIs
<1>. QED BY <1>1, <1>2 DEF RunIs

\* The days with a completion are of the past, and stand but for a change of a row.
LEMMA ActiveDays ==
  ASSUME OverviewInv
  PROVE  /\ Active \subseteq 0..Today /\ IsFiniteSet(Active) /\ Active \subseteq Nat
         /\ Today \in Nat
<1>1. Today \in Nat
  BY ThisWeek DEF OverviewInv
<1>2. ASSUME NEW t \in Stored, row[t].doneOn # NULL PROVE row[t].doneOn \in 0..Today
  <2>1. t \in Tasks /\ row[t] # NULL
    BY DEF Stored
  <2>2. row[t].doneOn \in 1..Today
    BY <1>2, <2>1 DEF OverviewInv, RowsInv, RowGood
  <2>. QED BY <1>1, <2>2, SMT
<1>3. Active \subseteq 0..Today
  BY <1>2 DEF Active, OverviewInv, DaysInv
<1>4. IsFiniteSet(Active)
  <2>1. IsFiniteSet(0..Today)
    BY <1>1, FS_Interval
  <2>. QED BY <1>3, <2>1, FS_Subset
<1>. QED BY <1>1, <1>3, <1>4

LEMMA RunToIs ==
  ASSUME OverviewInv, NEW n \in Int, n >= -1
  PROVE  /\ RunTo(n) = RunLength(Active, n)
         /\ RunTo(n) \in 0..Cardinality(Active) /\ RunTo(n) \in Nat
         /\ RunIs(Active, n, RunTo(n))
<1>1. RunTo(n) = RunLength(Active, n)
  BY DEF RunTo, RunLength, RunIs
<1>2. Cardinality(Active) \in Nat
  BY ActiveDays, FS_CardinalityType
<1>. QED BY <1>1, <1>2, ActiveDays, RunFound

\* The longest streak is one of a day, and none is longer.
LEMMA LongestIs ==
  ASSUME OverviewInv
  PROVE  /\ Longest \in {RunTo(n) : n \in Active} \cup {0}
         /\ \A n \in Active : RunTo(n) <= Longest
         /\ 0 <= Longest
<1>. DEFINE S == {RunTo(n) : n \in Active} \cup {0}
            b == Cardinality(Active)
<1>1. b \in Nat
  BY ActiveDays, FS_CardinalityType
<1>2. ASSUME NEW n \in Active PROVE RunTo(n) \in 0..b
  <2>1. n \in Nat
    BY ActiveDays
  <2>2. n \in Int /\ n >= -1
    BY <2>1, SMT
  <2>. QED BY <2>2, RunToIs
<1>3. S \subseteq 0..b /\ S # {}
  <2>. HIDE DEF b
  <2>. QED BY <1>1, <1>2, SMT
<1>4. Longest = Max(S)
  BY DEF Longest
<1>5. Max(S) \in S /\ \A y \in S : y <= Max(S)
  <2>. HIDE DEF S, b
  <2>. QED BY <1>1, <1>3, MaxOfBounded
<1>. QED BY <1>4, <1>5

\* A step that withdraws no completion adds one of its own day at most.
LEMMA ActiveGrows ==
  ASSUME OverviewInv, [OverviewNext]_overviewVars, Active \subseteq Active'
  PROVE  \/ today' = today /\ Today' = Today /\ Active' \subseteq Active \cup {Today}
         \/ today' # today /\ Today' = Today + 1 /\ Active' = Active
<1>1. CASE Midnight
  <2>1. today' = PlusDays(today, 1) /\ UNCHANGED <<row, earlier>>
    BY <1>1 DEF Midnight
  <2>2. Today' = Today + 1 /\ Today' # Today
    <3>1. Today' = Today + 1 /\ Today \in Nat
      BY <2>1, NextDay, ThisWeek DEF OverviewInv, DaysInv, Today
    <3>. QED BY <3>1, SMT
  <2>3. today' # today
    BY <2>2 DEF Today
  <2>4. Active' = Active
    BY <2>1 DEF Active, Stored
  <2>. QED BY <2>2, <2>3, <2>4
<1>2. ASSUME NEW t \in Tasks, Change(t) PROVE today' = today /\ Active' \subseteq Active \cup {Today}
  <2>1. PICK r \in ChangesOf(t) : row' = [row EXCEPT ![t] = r]
    BY <1>2 DEF Change
  <2>2. UNCHANGED <<today, earlier>>
    BY <1>2 DEF Change
  <2>3. r # NULL => \/ r.doneOn \in {NULL, Today}
                    \/ row[t] # NULL /\ r.doneOn = row[t].doneOn
    BY ChangesGood DEF OverviewInv
  <2>4. ASSUME NEW u \in Stored', row'[u].doneOn # NULL
        PROVE  row'[u].doneOn \in Active \cup {Today}
    <3>1. u \in Tasks /\ row'[u] # NULL
      BY DEF Stored
    <3>2. CASE u = t
      <4>1. row'[u] = r
        BY <2>1, <3>2 DEF OverviewInv, RowsInv
      <4>. QED BY <2>3, <2>4, <3>1, <3>2, <4>1 DEF Active, Stored
    <3>3. CASE u # t
      <4>1. row'[u] = row[u]
        BY <2>1, <3>1, <3>3 DEF OverviewInv, RowsInv
      <4>. QED BY <2>4, <3>1, <4>1 DEF Active, Stored
    <3>. QED BY <3>2, <3>3
  <2>. QED BY <2>2, <2>4 DEF Active
<1>3. CASE UNCHANGED <<today, row, earlier>>
  BY <1>3 DEF Active, Stored, Today
<1>4. \/ Midnight \/ (\E t \in Tasks : Change(t)) \/ UNCHANGED <<today, row, earlier>>
  BY DEF OverviewNext, Visit, Receive, DueTimePasses, overviewVars
<1>. QED BY <1>1, <1>2, <1>3, <1>4 DEF Today

\* What get_streak answers: runs, of which the current one ends today, or
\* yesterday until then, and none is longer than the longest.
StreaksAreRuns ==
  /\ Today \in Nat /\ Current \in Nat /\ Active \subseteq 0..Today
  /\ Today \in Active => RunIs(Active, Today, Current) /\ Current = RunTo(Today)
  /\ Today \notin Active => RunIs(Active, Today - 1, Current)
  /\ Longest \in Nat
  /\ Longest = 0 \/ \E n \in Active : Longest = RunTo(n)
  /\ \A n \in Active : RunTo(n) \in Nat /\ RunIs(Active, n, RunTo(n)) /\ RunTo(n) <= Longest

LEMMA StreakRuns == OverviewInv => StreaksAreRuns
<1>. SUFFICES ASSUME OverviewInv PROVE StreaksAreRuns
  OBVIOUS
<1>1. /\ Today \in Nat /\ Today \in Int /\ Today >= -1 /\ Today - 1 \in Int /\ Today - 1 >= -1
  <2>1. Today \in Nat
    BY ActiveDays
  <2>. QED BY <2>1, SMT
<1>2. /\ Current \in Nat
      /\ Today \in Active => RunIs(Active, Today, Current) /\ Current = RunTo(Today)
      /\ Today \notin Active => RunIs(Active, Today - 1, Current)
  BY <1>1, RunToIs DEF Current
<1>3. ASSUME NEW n \in Active PROVE RunTo(n) \in Nat /\ RunIs(Active, n, RunTo(n))
  <2>1. n \in Nat
    BY ActiveDays
  <2>2. n \in Int /\ n >= -1
    BY <2>1, SMT
  <2>. QED BY <2>2, RunToIs
<1>4. /\ Longest = 0 \/ \E n \in Active : Longest = RunTo(n)
      /\ \A n \in Active : RunTo(n) <= Longest
  BY LongestIs
<1>5. Longest \in Nat
  BY <1>3, <1>4
<1>. QED BY <1>1, <1>2, <1>3, <1>4, <1>5, ActiveDays DEF StreaksAreRuns

(***************************************************************************)
(* From any past and for any number of tasks: a streak is broken by a day  *)
(* without a completion and by nothing else, a day adds one to it at most, *)
(* and the longest one never shrinks while no completion is withdrawn      *)
(* (get_streak).                                                           *)
(***************************************************************************)
THEOREM StreakCountsDays == OverviewSpec => StreakKeepsDays
<1>. DEFINE Step == Active \subseteq Active' =>
                      /\ Longest' >= Longest /\ Longest' >= Current'
                      /\ IF today' = today THEN Current' \in {Current, Current + 1}
                         ELSE Current' = IF Today \in Active THEN Current ELSE 0
<1>1. ASSUME OverviewInv, [OverviewNext]_overviewVars, StreaksAreRuns, StreaksAreRuns' PROVE Step
  <2>. SUFFICES ASSUME Active \subseteq Active'
                PROVE  /\ Longest' >= Longest /\ Longest' >= Current'
                       /\ IF today' = today THEN Current' \in {Current, Current + 1}
                          ELSE Current' = IF Today \in Active THEN Current ELSE 0
    OBVIOUS
  <2>1. \/ today' = today /\ Today' = Today /\ Active' \subseteq Active \cup {Today}
        \/ today' # today /\ Today' = Today + 1 /\ Active' = Active
    BY <1>1, ActiveGrows
  <2>2. Longest' >= Longest
    <3>1. CASE Longest = 0
      BY <1>1, <3>1, SMT DEF StreaksAreRuns
    <3>2. ASSUME NEW n \in Active, Longest = RunTo(n) PROVE Longest' >= Longest
      <4>1. n \in Int /\ RunTo(n) \in Nat /\ RunIs(Active, n, RunTo(n))
        BY <1>1 DEF StreaksAreRuns
      <4>2. RunTo(n)' \in Nat /\ RunIs(Active', n, RunTo(n)') /\ RunTo(n)' <= Longest'
        BY <1>1 DEF StreaksAreRuns, RunIs
      <4>3. RunTo(n) <= RunTo(n)'
        BY <4>1, <4>2, RunMonotone
      <4>4. Longest' \in Nat
        BY <1>1 DEF StreaksAreRuns
      <4>. QED BY <3>2, <4>1, <4>2, <4>3, <4>4, SMT
    <3>. QED BY <1>1, <3>1, <3>2 DEF StreaksAreRuns
  <2>3. Longest' >= Current'
    <3>1. Longest' \in Nat /\ Current' \in Nat /\ Today' \in Nat
      BY <1>1 DEF StreaksAreRuns
    <3>2. CASE Today' \in Active'
      <4>1. Current' = RunTo(Today)' /\ (\A n \in Active' : RunTo(n)' <= Longest')
        BY <1>1, <3>2 DEF StreaksAreRuns
      <4>. QED BY <3>1, <3>2, <4>1, SMT
    <3>3. CASE Today' \notin Active' /\ Current' # 0
      <4>1. RunIs(Active', Today' - 1, Current')
        BY <1>1, <3>3 DEF StreaksAreRuns, RunIs
      <4>2. Today' - 1 \in Today' - 1 - Current' + 1 .. Today' - 1
        <5>1. \A n \in Nat, k \in Nat \ {0} : n - 1 \in n - 1 - k + 1 .. n - 1
          BY SMT
        <5>2. Today' \in Nat /\ Current' \in Nat \ {0}
          BY <3>1, <3>3
        <5>. QED BY <5>1, <5>2
      <4>3. PICK n \in Active' : n = Today' - 1
        BY <4>1, <4>2 DEF RunIs
      <4>4. RunTo(n)' \in Nat /\ RunIs(Active', n, RunTo(n)') /\ RunTo(n)' <= Longest'
        BY <1>1, <4>3 DEF StreaksAreRuns, RunIs
      <4>5. n \in Int
        BY <3>1, <4>3, SMT
      <4>6. Current' = RunTo(n)'
        BY <3>1, <4>1, <4>3, <4>4, <4>5, RunUnique
      <4>7. Longest' >= RunTo(n)'
        BY <3>1, <4>4, SMT
      <4>. QED BY <4>6, <4>7
    <3>4. CASE Current' = 0
      BY <3>1, <3>4, SMT
    <3>. QED BY <3>2, <3>3, <3>4
  <2>4. ASSUME today' = today, Today' = Today, Active' \subseteq Active \cup {Today}
        PROVE  Current' \in {Current, Current + 1}
    <3>1. /\ Today \in Int /\ Today - 1 \in Int
          /\ Current \in Nat /\ Current + 1 \in Nat /\ Current' \in Nat
      <4>1. Today \in Nat /\ Current \in Nat /\ Current' \in Nat
        BY <1>1 DEF StreaksAreRuns
      <4>. QED BY <4>1, SMT
    <3>2. CASE Active' = Active /\ Today \in Active
      <4>1. RunIs(Active, Today, Current) /\ RunIs(Active, Today, Current')
        BY <1>1, <2>4, <3>2 DEF StreaksAreRuns, RunIs
      <4>. QED BY <3>1, <4>1, RunUnique
    <3>3. CASE Active' = Active /\ Today \notin Active
      <4>1. RunIs(Active, Today - 1, Current) /\ RunIs(Active, Today - 1, Current')
        BY <1>1, <2>4, <3>3 DEF StreaksAreRuns, RunIs
      <4>. QED BY <3>1, <4>1, RunUnique
    <3>4. CASE Active' # Active
      <4>1. Today \notin Active /\ Active' = Active \cup {Today}
        BY <2>4, <3>4
      <4>2. RunIs(Active', Today, Current')
        BY <1>1, <2>4, <4>1 DEF StreaksAreRuns, RunIs
      <4>3. RunIs(Active, Today - 1, Current)
        BY <1>1, <4>1 DEF StreaksAreRuns
      <4>4. RunIs(Active', Today, Current + 1)
        BY <3>1, <4>1, <4>3, RunGrows
      <4>. QED BY <3>1, <4>2, <4>4, RunUnique
    <3>. QED BY <3>2, <3>3, <3>4
  <2>5. ASSUME today' # today, Today' = Today + 1, Active' = Active
        PROVE  Current' = IF Today \in Active THEN Current ELSE 0
    <3>1. Today \in Nat /\ Current \in Nat /\ Current' \in Nat /\ Today \in Int
      BY <1>1 DEF StreaksAreRuns
    <3>2. Today' \notin Active' /\ Today' - 1 = Today
      <4>1. Today + 1 \notin 0..Today /\ Today + 1 - 1 = Today
        BY <3>1, SMT
      <4>. QED BY <1>1, <2>5, <4>1 DEF StreaksAreRuns
    <3>3. RunIs(Active, Today, Current')
      BY <1>1, <2>5, <3>2 DEF StreaksAreRuns, RunIs
    <3>4. CASE Today \in Active
      <4>1. RunIs(Active, Today, Current)
        BY <1>1, <3>4 DEF StreaksAreRuns
      <4>2. Current' = Current
        BY <3>1, <3>3, <4>1, RunUnique
      <4>. QED BY <3>4, <4>2
    <3>5. CASE Today \notin Active
      <4>1. RunIs(Active, Today, 0)
        BY <3>1, <3>5, SMT DEF RunIs
      <4>2. Current' = 0
        BY <3>1, <3>3, <4>1, RunUnique
      <4>. QED BY <3>5, <4>2
    <3>. QED BY <3>4, <3>5
  <2>. QED BY <2>1, <2>2, <2>3, <2>4, <2>5
<1>2. StreakKeepsDays <=> [][Step]_overviewVars
  BY PTL DEF StreakKeepsDays
<1>3. OverviewSpec => []OverviewInv
  BY OverviewInvariance, PTL
<1>. HIDE DEF Step
<1>. QED BY <1>1, <1>2, <1>3, StreakRuns, PTL DEF OverviewSpec

-----------------------------------------------------------------------------
(***************************************************************************)
(* The sums of the statistics, by the fold of FiniteSetsExt: that there is *)
(* one, and in any order.                                                  *)
(***************************************************************************)
First(s) == CHOOSE x \in s : TRUE

Sum(a, S) == MapThenSumSet(LAMBDA i : a[i].completed, S)

\* it takes the elements of S one after the other.
Adds(it, a, S) ==
  it = [s \in SUBSET S |->
          IF s = {} THEN 0 ELSE a[First(s)].completed + it[s \ {First(s)}]]

LEMMA FirstOf ==
  ASSUME NEW s, s # {}
  PROVE  First(s) \in s
BY DEF First

LEMMA Smaller ==
  ASSUME NEW s, IsFiniteSet(s), NEW x \in s
  PROVE  /\ IsFiniteSet(s \ {x}) /\ Cardinality(s) \in Nat \ {0}
         /\ Cardinality(s \ {x}) = Cardinality(s) - 1
<1>1. Cardinality(s) \in Nat /\ Cardinality(s) # 0
  BY FS_CardinalityType, FS_EmptySet
<1>. QED BY <1>1, FS_RemoveElement

\* By the number of elements, up to that of S.
LEMMA AddsExist ==
  ASSUME NEW a, NEW S, IsFiniteSet(S)
  PROVE  \E it : Adds(it, a, S)
<1>. DEFINE Level(k) == {s \in SUBSET S : Cardinality(s) <= k}
            Up(g, k) == g = [s \in Level(k) |->
                               IF s = {} THEN 0 ELSE a[First(s)].completed + g[s \ {First(s)}]]
            Bad == {k \in Nat : ~\E g : Up(g, k)}
<1>1. ASSUME NEW s \in SUBSET S
      PROVE  IsFiniteSet(s) /\ Cardinality(s) \in Nat /\ Cardinality(s) <= Cardinality(S)
  BY FS_Subset, FS_CardinalityType
<1>2. \E g : Up(g, 0)
  <2>1. \A s \in Level(0) : s = {}
    BY <1>1, FS_EmptySet
  <2>. DEFINE g == [s \in Level(0) |-> 0]
  <2>2. Up(g, 0)
    BY <2>1
  <2>. HIDE DEF Up, g
  <2>. QED BY <2>2
<1>3. ASSUME NEW k \in Nat, NEW g, Up(g, k) PROVE \E h : Up(h, k + 1)
  <2>. DEFINE h == [s \in Level(k + 1) |->
                      IF s = {} THEN 0 ELSE a[First(s)].completed + g[s \ {First(s)}]]
  <2>1. \A t \in Level(k) : t \in Level(k + 1)
    BY <1>1
  <2>2. \A t \in Level(k) : h[t] = g[t]
    BY <1>3, <2>1
  <2>3. ASSUME NEW s \in Level(k + 1), s # {} PROVE s \ {First(s)} \in Level(k)
    <3>1. First(s) \in s /\ IsFiniteSet(s) /\ Cardinality(s) <= k + 1
      BY <1>1, <2>3, FirstOf
    <3>2. Cardinality(s \ {First(s)}) = Cardinality(s) - 1 /\ Cardinality(s) \in Nat
      BY <3>1, Smaller
    <3>. QED BY <3>1, <3>2
  <2>4. Up(h, k + 1)
    <3>1. \A s \in Level(k + 1) : s # {} => h[s \ {First(s)}] = g[s \ {First(s)}]
      BY <2>2, <2>3
    <3>. QED BY <3>1
  <2>. HIDE DEF Up, h
  <2>. QED BY <2>4
<1>4. Bad = {}
  <2>. HIDE DEF Up
  <2>. SUFFICES ASSUME Bad # {} PROVE FALSE
    OBVIOUS
  <2>1. PICK m \in Bad : \A k \in Bad : m <= k
    <3>. QED BY LeastNat
  <2>2. m \in Nat /\ m # 0
    BY <1>2
  <2>3. m - 1 \in Nat /\ m - 1 \notin Bad
    BY <2>1, <2>2
  <2>4. \E g : Up(g, m - 1)
    BY <2>3
  <2>5. \E g : Up(g, (m - 1) + 1)
    BY <1>3, <2>3, <2>4
  <2>. QED BY <2>2, <2>5
<1>5. Cardinality(S) \in Nat /\ Level(Cardinality(S)) = SUBSET S
  BY <1>1, FS_CardinalityType
<1>6. PICK g : Up(g, Cardinality(S))
  <2>. HIDE DEF Up
  <2>. QED BY <1>4, <1>5
<1>7. Adds(g, a, S)
  BY <1>5, <1>6 DEF Adds
<1>. QED BY <1>7

LEMMA AddsUnique ==
  ASSUME NEW a, NEW S, IsFiniteSet(S), NEW T \in SUBSET S, NEW f, NEW g, Adds(f, a, S), Adds(g, a, T)
  PROVE  \A s \in SUBSET T : f[s] = g[s]
<1>. DEFINE Bad == {n \in Nat : \E s \in SUBSET T : Cardinality(s) = n /\ f[s] # g[s]}
<1>1. \A s \in SUBSET T : IsFiniteSet(s) /\ Cardinality(s) \in Nat
  BY FS_Subset, FS_CardinalityType
<1>2. ASSUME NEW s \in SUBSET T, s # {}
      PROVE  /\ f[s] = a[First(s)].completed + f[s \ {First(s)}]
             /\ g[s] = a[First(s)].completed + g[s \ {First(s)}]
  BY <1>2 DEF Adds
<1>3. f[{}] = g[{}]
  BY DEF Adds
<1>4. Bad = {}
  <2>. SUFFICES ASSUME Bad # {} PROVE FALSE
    OBVIOUS
  <2>1. PICK m \in Bad : \A k \in Bad : m <= k
    <3>. QED BY LeastNat
  <2>2. PICK s \in SUBSET T : Cardinality(s) = m /\ f[s] # g[s]
    OBVIOUS
  <2>3. s # {}
    BY <1>3, <2>2
  <2>4. First(s) \in s
    BY <2>3, FirstOf
  <2>5. Cardinality(s \ {First(s)}) = m - 1 /\ m \in Nat \ {0}
    BY <1>1, <2>2, <2>4, Smaller
  <2>6. f[s \ {First(s)}] = g[s \ {First(s)}]
    BY <2>1, <2>5
  <2>. QED BY <1>2, <2>2, <2>3, <2>6
<1>. QED BY <1>1, <1>4

LEMMA SumAdds ==
  ASSUME NEW a, NEW S, IsFiniteSet(S)
  PROVE  \E it : Adds(it, a, S) /\ Sum(a, S) = it[S]
<1>1. Sum(a, S) = (CHOOSE it : Adds(it, a, S))[S]
  BY SMT DEF Sum, Adds, First, MapThenSumSet, MapThenFoldSet
<1>2. PICK it : Adds(it, a, S)
  BY AddsExist
<1>3. Adds(CHOOSE f : Adds(f, a, S), a, S)
  BY <1>2, Zenon
<1>. QED BY <1>1, <1>3

LEMMA SumFirst ==
  ASSUME NEW a, NEW S, IsFiniteSet(S)
  PROVE  /\ S = {} => Sum(a, S) = 0
         /\ S # {} => Sum(a, S) = a[First(S)].completed + Sum(a, S \ {First(S)})
<1>1. PICK f : Adds(f, a, S) /\ Sum(a, S) = f[S]
  BY SumAdds
<1>2. IsFiniteSet(S \ {First(S)})
  BY FS_Subset
<1>3. PICK g : Adds(g, a, S \ {First(S)}) /\ Sum(a, S \ {First(S)}) = g[S \ {First(S)}]
  BY <1>2, SumAdds
<1>4. f[S \ {First(S)}] = g[S \ {First(S)}]
  BY <1>1, <1>3, AddsUnique
<1>5. S \in SUBSET S /\ {} \in SUBSET S
  OBVIOUS
<1>6. f[S] = IF S = {} THEN 0 ELSE a[First(S)].completed + f[S \ {First(S)}]
  BY <1>1, <1>5 DEF Adds
<1>. QED BY <1>1, <1>3, <1>4, <1>6

\* Any element may be the first.
LEMMA SumTakes ==
  ASSUME NEW a, NEW S, IsFiniteSet(S), \A i \in S : a[i].completed \in Int
  PROVE  /\ Sum(a, S) \in Int
         /\ \A x \in S : Sum(a, S) = a[x].completed + Sum(a, S \ {x})
<1>. DEFINE Good(s) == /\ Sum(a, s) \in Int
                       /\ \A x \in s : Sum(a, s) = a[x].completed + Sum(a, s \ {x})
            Bad == {n \in Nat : \E s \in SUBSET S : Cardinality(s) = n /\ ~Good(s)}
<1>1. \A s \in SUBSET S : IsFiniteSet(s) /\ Cardinality(s) \in Nat
  BY FS_Subset, FS_CardinalityType
<1>2. Bad = {}
  <2>. SUFFICES ASSUME Bad # {} PROVE FALSE
    OBVIOUS
  <2>1. PICK m \in Bad : \A k \in Bad : m <= k
    <3>. HIDE DEF Good
    <3>. QED BY LeastNat
  <2>2. PICK s \in SUBSET S : Cardinality(s) = m /\ ~Good(s)
    <3>. HIDE DEF Good
    <3>. QED OBVIOUS
  <2>3. ASSUME NEW x \in s PROVE Good(s \ {x})
    <3>. HIDE DEF Good
    <3>1. Cardinality(s \ {x}) = m - 1 /\ m \in Nat \ {0} /\ s \ {x} \in SUBSET S
      BY <1>1, <2>2, Smaller
    <3>. QED BY <2>1, <3>1
  <2>4. Good(s)
    <3>1. CASE s = {}
      <4>1. Sum(a, s) = 0
        BY <1>1, <3>1, SumFirst
      <4>. QED BY <3>1, <4>1
    <3>2. CASE s # {}
      <4>. DEFINE p == First(s)
      <4>1. p \in s /\ Sum(a, s) = a[p].completed + Sum(a, s \ {p})
        BY <1>1, <3>2, FirstOf, SumFirst
      <4>2. a[p].completed \in Int /\ Sum(a, s \ {p}) \in Int
        BY <2>3, <4>1
      <4>3. ASSUME NEW x \in s, x # p PROVE Sum(a, s) = a[x].completed + Sum(a, s \ {x})
        <5>1. /\ Sum(a, s \ {p}) = a[x].completed + Sum(a, (s \ {p}) \ {x})
              /\ Sum(a, s \ {x}) = a[p].completed + Sum(a, (s \ {x}) \ {p})
              /\ Sum(a, (s \ {x}) \ {p}) \in Int
          <6>1. Good(s \ {p}) /\ Good(s \ {x}) /\ x \in s \ {p} /\ p \in s \ {x}
            BY <2>3, <4>1, <4>3
          <6>2. Sum(a, s \ {x}) = a[p].completed + Sum(a, (s \ {x}) \ {p})
            BY <6>1
          <6>3. Sum(a, (s \ {x}) \ {p}) \in Int
            <7>1. /\ IsFiniteSet(s \ {x}) /\ Cardinality(s \ {x}) = m - 1 /\ m \in Nat \ {0}
                  /\ IsFiniteSet((s \ {x}) \ {p}) /\ Cardinality((s \ {x}) \ {p}) = (m - 1) - 1
                  /\ Cardinality(s \ {x}) \in Nat \ {0}
              <8>. HIDE DEF Good, Bad
              <8>1. IsFiniteSet(s) /\ Cardinality(s) = m
                BY <1>1, <2>2
              <8>2. IsFiniteSet(s \ {x}) /\ Cardinality(s \ {x}) = m - 1 /\ m \in Nat \ {0}
                BY <8>1, Smaller
              <8>. QED BY <6>1, <8>2, Smaller
            <7>2. Cardinality((s \ {x}) \ {p}) \in Nat /\ ~(m <= Cardinality((s \ {x}) \ {p}))
                  /\ (s \ {x}) \ {p} \in SUBSET S
              BY <7>1
            <7>3. Good((s \ {x}) \ {p})
              <8>. HIDE DEF Good
              <8>. QED BY <2>1, <7>2
            <7>. QED BY <7>3
          <6>. QED BY <6>1, <6>2, <6>3
        <5>2. (s \ {p}) \ {x} = (s \ {x}) \ {p}
          OBVIOUS
        <5>3. a[x].completed \in Int
          OBVIOUS
        <5>4. a[p].completed \in Int
          BY <4>2
        <5>5. PICK r \in Int : r = Sum(a, (s \ {x}) \ {p})
          BY <5>1
        <5>6. Sum(a, s \ {p}) = a[x].completed + r /\ Sum(a, s \ {x}) = a[p].completed + r
          BY <5>1, <5>2, <5>5
        <5>7. Sum(a, s) = a[p].completed + (a[x].completed + r)
          BY <4>1, <5>6
        <5>. HIDE DEF Good, Bad, p
        <5>8. a[p].completed + (a[x].completed + r) = a[x].completed + (a[p].completed + r)
          BY <5>3, <5>4, <5>5
        <5>. QED BY <5>6, <5>7, <5>8
      <4>4. Sum(a, s) \in Int
        BY <4>1, <4>2
      <4>5. \A x \in s : Sum(a, s) = a[x].completed + Sum(a, s \ {x})
        BY <4>1, <4>3
      <4>. QED BY <4>4, <4>5
    <3>. QED BY <3>1, <3>2
  <2>. QED BY <2>2, <2>4
<1>3. Good(S)
  <2>. HIDE DEF Good
  <2>. QED BY <1>1, <1>2
<1>. QED BY <1>3

\* A sum over places moved by d, with zeros left out.
Moved(a, S, b, T, d) ==
  /\ \A j \in T : j + d \in S /\ b[j].completed = a[j + d].completed
  /\ \A i \in S : i - d \in T \/ a[i].completed = 0

LEMMA SumMoved ==
  ASSUME NEW a, NEW S, IsFiniteSet(S), NEW b, NEW T, IsFiniteSet(T), S \subseteq Int, T \subseteq Int,
         NEW d \in Int, \A i \in S : a[i].completed \in Int,
         Moved(a, S, b, T, d)
  PROVE  Sum(a, S) = Sum(b, T)
<1>. DEFINE Bad == {n \in Nat : \E s \in SUBSET S, t \in SUBSET T :
                      Cardinality(s) = n /\ Moved(a, s, b, t, d) /\ Sum(a, s) # Sum(b, t)}
<1>1. /\ \A s \in SUBSET S : IsFiniteSet(s) /\ Cardinality(s) \in Nat
      /\ \A t \in SUBSET T : IsFiniteSet(t)
  BY FS_Subset, FS_CardinalityType
<1>2. \A j \in T : b[j].completed \in Int
  BY DEF Moved
<1>3. Bad = {}
  <2>. SUFFICES ASSUME Bad # {} PROVE FALSE
    OBVIOUS
  <2>1. PICK m \in Bad : \A k \in Bad : m <= k
    <3>. QED BY LeastNat
  <2>2. PICK s \in SUBSET S, t \in SUBSET T :
          Cardinality(s) = m /\ Moved(a, s, b, t, d) /\ Sum(a, s) # Sum(b, t)
    OBVIOUS
  <2>3. CASE s = {}
    <3>1. t = {}
      BY <2>2, <2>3 DEF Moved
    <3>. QED BY <1>1, <2>2, <2>3, <3>1, SumFirst
  <2>4. CASE s # {}
    <3>1. PICK i \in s : TRUE
      BY <2>4
    <3>2. /\ Cardinality(s \ {i}) = m - 1 /\ m \in Nat \ {0}
          /\ s \ {i} \in SUBSET S
      BY <1>1, <2>2, Smaller
    <3>3. /\ Sum(a, s) = a[i].completed + Sum(a, s \ {i})
          /\ a[i].completed \in Int /\ Sum(a, s \ {i}) \in Int
      <4>1. IsFiniteSet(s) /\ \A x \in s : a[x].completed \in Int
        BY <1>1
      <4>2. IsFiniteSet(s \ {i})
        BY <1>1, <3>2
      <4>3. Sum(a, s \ {i}) \in Int
        BY <4>1, <4>2, SumTakes
      <4>4. Sum(a, s) = a[i].completed + Sum(a, s \ {i})
        <5>. HIDE DEF Bad
        <5>. QED BY <4>1, SumTakes
      <4>. QED BY <4>1, <4>3, <4>4
    <3>4. ASSUME NEW u \in SUBSET T, Moved(a, s \ {i}, b, u, d) PROVE Sum(a, s \ {i}) = Sum(b, u)
      BY <2>1, <3>2, <3>4
    <3>5. CASE i - d \in t
      <4>. DEFINE j == i - d
      <4>1. j + d = i /\ b[j].completed = a[i].completed
        BY <2>2, <3>5 DEF Moved
      <4>2. Moved(a, s \ {i}, b, t \ {j}, d)
        BY <2>2, <4>1 DEF Moved
      <4>3. Sum(b, t) = b[j].completed + Sum(b, t \ {j})
        <5>1. j \in t /\ IsFiniteSet(t) /\ \A k \in t : b[k].completed \in Int
          BY <1>1, <1>2, <3>5
        <5>. HIDE DEF Bad, j
        <5>. QED BY <5>1, SumTakes
      <4>4. t \ {j} \in SUBSET T
        OBVIOUS
      <4>5. Sum(a, s \ {i}) = Sum(b, t \ {j})
        BY <3>4, <4>2, <4>4
      <4>. QED BY <2>2, <3>3, <4>1, <4>3, <4>5
    <3>6. CASE i - d \notin t
      <4>1. a[i].completed = 0
        BY <2>2, <3>6 DEF Moved
      <4>2. Moved(a, s \ {i}, b, t, d)
        BY <2>2, <3>6 DEF Moved
      <4>3. Sum(a, s \ {i}) = Sum(b, t)
        BY <3>4, <4>2
      <4>. QED BY <2>2, <3>3, <4>1, <4>3
    <3>. QED BY <3>5, <3>6
  <2>. QED BY <2>3, <2>4
<1>. QED BY <1>1, <1>3

-----------------------------------------------------------------------------
(***************************************************************************)
(* The best weekday.                                                       *)
(***************************************************************************)
\* What get_activity answers: a day of each of the last ones.
Day == [date : Int, completed : Nat]

OnDay(a, w) == {i \in DOMAIN a : a[i].completed > 0 /\ (a[i].date + 6) % 7 = w}

RowOf(sq, k) == {i \in DOMAIN sq : (i - 1) % 7 = k /\ sq[i] # NULL}

BestDays(a) ==
  {w \in 0..6 : OnDay(a, w) # {} /\ \A v \in 0..6 : Sum(a, OnDay(a, v)) <= Sum(a, OnDay(a, w))}

LEMMA BestIs ==
  ASSUME NEW a
  PROVE  BestWeekday(a) =
           IF BestDays(a) = {} THEN NULL
           ELSE CHOOSE w \in BestDays(a) : \A v \in BestDays(a) : Min(OnDay(a, w)) <= Min(OnDay(a, v))
BY DEF BestWeekday, BestDays, OnDay, Sum, MapThenSumSet, MapThenFoldSet

LEMMA FillIs ==
  ASSUME page = "stats" /\ cached["activity"] # NULL =>
           LET a == cached["activity"].answer
               sq == Squares(a)
               best == BestWeekday(a)
               named == (GetDay(NamedDay(best)) + 6) % 7
           IN /\ Len(sq) % 7 = 0
              /\ best # NULL => \A k \in 0..6 : Sum(sq, RowOf(sq, k)) <= Sum(sq, RowOf(sq, named))
  PROVE  BestRowNamed
BY DEF BestRowNamed, RowOf, Sum, MapThenSumSet, MapThenFoldSet

LEMMA SquaresAre ==
  ASSUME NEW a \in Seq(Day), NEW L \in 0..6, L = WeekdayRow(a[1].date)
  PROVE  /\ Len(Squares(a)) \in Nat /\ Len(Squares(a)) % 7 = 0 /\ L + Len(a) <= Len(Squares(a))
         /\ DOMAIN Squares(a) = 1..Len(Squares(a))
         /\ \A i \in 1..Len(Squares(a)) :
              Squares(a)[i] = IF i \in L + 1 .. L + Len(a) THEN a[i - L] ELSE NULL
<1>. DEFINE lead == [i \in 1..L |-> NULL]
            led == lead \o a
            rest == (7 - (Len(led) % 7)) % 7
            tail == [i \in 1..rest |-> NULL]
            D == Day \cup {NULL}
<1>0. ASSUME NEW s \in Seq(D), NEW t \in Seq(D)
      PROVE  /\ s \o t \in Seq(D)
             /\ Len(s \o t) = Len(s) + Len(t)
             /\ \A i \in 1 .. Len(s) + Len(t) :
                  (s \o t)[i] = IF i <= Len(s) THEN s[i] ELSE t[i - Len(s)]
  <2>. HIDE DEF D
  <2>. QED BY ConcatProperties
<1>1. Len(a) \in Nat /\ a \in Seq(D) /\ lead \in Seq(D) /\ Len(lead) = L
  OBVIOUS
<1>2. /\ led \in Seq(D) /\ Len(led) = L + Len(a)
      /\ \A i \in 1..Len(led) : led[i] = IF i <= L THEN NULL ELSE a[i - L]
  <2>1. \A i \in 1..L : lead[i] = NULL
    OBVIOUS
  <2>. HIDE DEF lead, D
  <2>. QED BY <1>1, <2>1, ConcatProperties
<1>3. rest \in 0..6 /\ (L + Len(a) + rest) % 7 = 0
  <2>. HIDE DEF led
  <2>. QED BY <1>1, <1>2, SMTT(30)
<1>4. tail \in Seq(D) /\ Len(tail) = rest /\ \A i \in 1..rest : tail[i] = NULL
  <2>. HIDE DEF rest
  <2>. QED BY <1>3
<1>5. Squares(a) = led \o tail
  BY DEF Squares
<1>. HIDE DEF lead, led, tail, rest, D
<1>6. /\ Len(led \o tail) = L + Len(a) + rest /\ led \o tail \in Seq(D)
      /\ \A i \in 1..Len(led \o tail) :
           (led \o tail)[i] = IF i <= L + Len(a) THEN led[i] ELSE tail[i - (L + Len(a))]
  <2>1. led \in Seq(D) /\ tail \in Seq(D) /\ Len(led) = L + Len(a) /\ Len(tail) = rest
    BY <1>2, <1>4
  <2>2. /\ led \o tail \in Seq(D)
        /\ Len(led \o tail) = Len(led) + Len(tail)
        /\ \A i \in 1 .. Len(led) + Len(tail) :
             (led \o tail)[i] = IF i <= Len(led) THEN led[i] ELSE tail[i - Len(led)]
    BY <2>1, <1>0
  <2>. QED BY <2>1, <2>2
<1>7. L + Len(a) \in Nat /\ rest \in Nat /\ L \in Nat
  BY <1>1, <1>3
<1>8. Len(Squares(a)) = L + Len(a) + rest
  BY <1>5, <1>6
<1>9. ASSUME NEW i \in 1..Len(Squares(a))
      PROVE  Squares(a)[i] = IF i \in L + 1 .. L + Len(a) THEN a[i - L] ELSE NULL
  <2>1. Squares(a)[i] = IF i <= L + Len(a) THEN led[i] ELSE tail[i - (L + Len(a))]
    BY <1>5, <1>6
  <2>2. CASE i <= L + Len(a)
    BY <1>2, <1>7, <2>1, <2>2
  <2>3. CASE ~(i <= L + Len(a))
    BY <1>4, <1>7, <1>8, <2>1, <2>3
  <2>. QED BY <2>2, <2>3
<1>10. DOMAIN Squares(a) = 1..Len(Squares(a))
  BY <1>5, <1>6
<1>. QED BY <1>3, <1>7, <1>8, <1>9, <1>10

\* The best weekday is one, and has the greatest total.
LEMMA BestIsGreatest ==
  ASSUME NEW a \in Seq(Day), BestWeekday(a) # NULL
  PROVE  BestWeekday(a) \in BestDays(a)
<1>. DEFINE Mins == {Min(OnDay(a, w)) : w \in BestDays(a)}
<1>1. BestDays(a) # {}
  BY BestIs
<1>2. ASSUME NEW w \in BestDays(a) PROVE Min(OnDay(a, w)) \in Nat
  <2>1. OnDay(a, w) # {} /\ OnDay(a, w) \subseteq Nat
    BY DEF BestDays, OnDay
  <2>2. PICK l \in OnDay(a, w) : \A y \in OnDay(a, w) : l <= y
    BY <2>1, LeastNat
  <2>3. Min(OnDay(a, w)) = CHOOSE x \in OnDay(a, w) : \A y \in OnDay(a, w) : x <= y
    BY DEF Min
  <2>4. Min(OnDay(a, w)) \in OnDay(a, w)
    BY <2>2, <2>3, Zenon
  <2>. QED BY <2>1, <2>4
<1>3. \E w \in BestDays(a) : \A v \in BestDays(a) : Min(OnDay(a, w)) <= Min(OnDay(a, v))
  <2>1. Mins \subseteq Nat /\ Mins # {}
    BY <1>1, <1>2
  <2>2. PICK m \in Mins : \A n \in Mins : m <= n
    <3>. HIDE DEF Mins
    <3>. QED BY <2>1, LeastNat
  <2>. QED BY <2>2
<1>4. BestWeekday(a) =
        CHOOSE w \in BestDays(a) : \A v \in BestDays(a) : Min(OnDay(a, w)) <= Min(OnDay(a, v))
  BY <1>1, BestIs
<1>. QED BY <1>3, <1>4, Zenon

\* Rows of the heatmap are weekdays of the statistics.
LEMMA RowsAreWeekdays ==
  ASSUME NEW a \in Seq(Day), a # <<>>, NEW d \in Int, \A i \in 1..Len(a) : a[i].date = d + i,
         NEW k \in 0..6
  PROVE  Sum(Squares(a), RowOf(Squares(a), k)) = Sum(a, OnDay(a, k))
<1>. DEFINE L == d % 7
            sq == Squares(a)
<1>1. Len(a) \in Nat /\ Len(a) >= 1 /\ DOMAIN a = 1..Len(a)
  BY EmptySeq
<1>2. L \in 0..6 /\ L = WeekdayRow(a[1].date)
  <2>1. a[1].date = d + 1
    BY <1>1
  <2>2. d % 7 \in 0..6 /\ (((d + 1) % 7) + 6) % 7 = d % 7
    BY SMTT(30)
  <2>. QED BY <2>1, <2>2 DEF WeekdayRow, GetDay
<1>3. /\ Len(sq) \in Nat /\ L + Len(a) <= Len(sq) /\ DOMAIN sq = 1..Len(sq)
      /\ \A i \in 1..Len(sq) : sq[i] = IF i \in L + 1 .. L + Len(a) THEN a[i - L] ELSE NULL
  <2>. HIDE DEF L
  <2>. QED BY <1>2, SquaresAre
<1>. HIDE DEF sq
<1>4. ASSUME NEW j \in 1..Len(a)
      PROVE  /\ j + L \in 1..Len(sq) /\ sq[j + L] = a[j] /\ a[j] \in Day /\ a[j] # NULL
             /\ a[j].completed \in Nat
             /\ ((j + L) - 1) % 7 = (a[j].date + 6) % 7
  <2>1. j + L \in 1..Len(sq) /\ j + L \in L + 1 .. L + Len(a) /\ (j + L) - L = j
    <3>. HIDE DEF L
    <3>. QED BY <1>1, <1>2, <1>3
  <2>2. sq[j + L] = a[j]
    BY <1>3, <2>1
  <2>3. a[j] \in Day
    BY <1>1
  <2>4. a[j] # NULL
    BY <2>3, OverviewConstants DEF Day
  <2>5. ((j + (d % 7)) - 1) % 7 = ((d + j) + 6) % 7
    BY <1>1, SMTT(30)
  <2>. QED BY <2>1, <2>2, <2>3, <2>4, <2>5 DEF Day
<1>. HIDE DEF L
<1>5. ASSUME NEW i \in RowOf(sq, k)
      PROVE  i - L \in 1..Len(a) /\ sq[i] = a[i - L] /\ i \in 1..Len(sq) /\ (i - L) + L = i
             /\ (i - 1) % 7 = k
  <2>1. i \in 1..Len(sq) /\ sq[i] # NULL /\ (i - 1) % 7 = k
    BY <1>3, <1>5 DEF RowOf
  <2>2. i \in L + 1 .. L + Len(a) /\ sq[i] = a[i - L]
    BY <1>3, <2>1
  <2>3. L \in Int /\ Len(a) \in Int /\ i \in Int
    BY <1>1, <1>2, <1>3, <2>1
  <2>. QED BY <2>1, <2>2, <2>3
<1>6. Moved(sq, RowOf(sq, k), a, OnDay(a, k), L)
  <2>1. ASSUME NEW j \in OnDay(a, k)
        PROVE  j + L \in RowOf(sq, k) /\ a[j].completed = sq[j + L].completed
    <3>1. j \in 1..Len(a) /\ (a[j].date + 6) % 7 = k
      BY <1>1 DEF OnDay
    <3>. QED BY <1>3, <1>4, <3>1 DEF RowOf
  <2>2. ASSUME NEW i \in RowOf(sq, k), sq[i].completed # 0
        PROVE  i - L \in OnDay(a, k)
    <3>1. /\ i - L \in 1..Len(a) /\ sq[i] = a[i - L] /\ (i - 1) % 7 = k /\ (i - L) + L = i
      BY <1>5
    <3>2. a[i - L].completed \in Nat /\ (((i - L) + L) - 1) % 7 = (a[i - L].date + 6) % 7
      BY <1>4, <3>1
    <3>. QED BY <1>1, <2>2, <3>1, <3>2 DEF OnDay
  <2>. QED BY <2>1, <2>2 DEF Moved
<1>7. /\ RowOf(sq, k) \subseteq 1..Len(sq) /\ OnDay(a, k) \subseteq 1..Len(a)
      /\ \A i \in RowOf(sq, k) : sq[i].completed \in Int
  BY <1>1, <1>3, <1>4, <1>5 DEF RowOf, OnDay
<1>8. IsFiniteSet(RowOf(sq, k)) /\ IsFiniteSet(OnDay(a, k))
  <2>1. IsFiniteSet(1..Len(sq)) /\ IsFiniteSet(1..Len(a))
    <3>1. 1 \in Int /\ Len(sq) \in Int /\ Len(a) \in Int
      BY <1>1, <1>3
    <3>. QED BY <3>1, FS_Interval
  <2>. QED BY <1>7, <2>1, FS_Subset
<1>9. RowOf(sq, k) \subseteq Int /\ OnDay(a, k) \subseteq Int /\ L \in Int
  BY <1>1, <1>2, <1>3, <1>7
<1>. QED BY <1>6, <1>7, <1>8, <1>9, SumMoved DEF sq

\* The answer StatsPage holds has a day after the other.
ActivityInv ==
  cached["activity"] # NULL =>
    LET a == cached["activity"].answer IN
    /\ a \in Seq(Day) /\ a # <<>>
    /\ \E d \in Int : \A i \in 1..Len(a) : a[i].date = d + i

LEMMA BestRow ==
  ASSUME ActivityInv, Today \in Int
  PROVE  BestRowNamed
<1>. SUFFICES ASSUME cached["activity"] # NULL
              PROVE  LET a == cached["activity"].answer
                         sq == Squares(a)
                         best == BestWeekday(a)
                         named == (GetDay(NamedDay(best)) + 6) % 7
                     IN /\ Len(sq) % 7 = 0
                        /\ best # NULL =>
                             \A k \in 0..6 : Sum(sq, RowOf(sq, k)) <= Sum(sq, RowOf(sq, named))
  BY FillIs
<1>. DEFINE a == cached["activity"].answer
            best == BestWeekday(a)
<1>1. a \in Seq(Day) /\ a # <<>>
  BY DEF ActivityInv
<1>2. PICK d \in Int : \A i \in 1..Len(a) : a[i].date = d + i
  BY DEF ActivityInv
<1>. HIDE DEF a
<1>3. Len(Squares(a)) % 7 = 0
  <2>1. Len(a) \in Nat /\ Len(a) >= 1
    BY <1>1, EmptySeq
  <2>2. a[1].date = d + 1
    BY <1>2, <2>1
  <2>3. WeekdayRow(a[1].date) \in 0..6
    BY <2>2, SMTT(30) DEF WeekdayRow, GetDay
  <2>. QED BY <1>1, <2>3, SquaresAre
<1>4. ASSUME best # NULL
      PROVE  \A k \in 0..6 : Sum(Squares(a), RowOf(Squares(a), k))
                                <= Sum(Squares(a), RowOf(Squares(a), (GetDay(NamedDay(best)) + 6) % 7))
  <2>1. best \in BestDays(a)
    BY <1>1, <1>4, BestIsGreatest
  <2>2. best \in 0..6 /\ \A k \in 0..6 : Sum(a, OnDay(a, k)) <= Sum(a, OnDay(a, best))
    BY <2>1 DEF BestDays
  <2>. HIDE DEF best
  <2>3. (GetDay(NamedDay(best)) + 6) % 7 = best
    BY <2>2, SMTT(30) DEF NamedDay, GetDay
  <2>4. \A k \in 0..6 : Sum(Squares(a), RowOf(Squares(a), k)) = Sum(a, OnDay(a, k))
    BY <1>1, <1>2, RowsAreWeekdays
  <2>. QED BY <2>2, <2>3, <2>4
<1>. QED BY <1>3, <1>4 DEF a

LEMMA ActivityGood ==
  ASSUME Today \in Nat
  PROVE  /\ Activity \in Seq(Day) /\ Activity # <<>>
         /\ \E d \in Int : \A i \in 1..Len(Activity) : Activity[i].date = d + i
<1>. DEFINE start == Today - ActivityDays
<1>1. start \in Int /\ ActivityDays \in Nat \ {0}
  BY OverviewConstants
<1>2. ASSUME NEW n \in Int PROVE CompletedOn(n) \in Nat
  <2>1. IsFiniteSet({t \in Stored : row[t].doneOn = n})
    BY OverviewConstants, FS_Subset DEF Stored
  <2>. QED BY <2>1, FS_CardinalityType DEF CompletedOn
<1>3. Activity = [i \in 1..ActivityDays |->
                    [date |-> start + i, completed |-> CompletedOn(start + i)]]
  BY DEF Activity
<1>. HIDE DEF start
<1>4. ASSUME NEW i \in 1..ActivityDays
      PROVE  [date |-> start + i, completed |-> CompletedOn(start + i)] \in Day
  BY <1>1, <1>2 DEF Day
<1>5. Activity \in Seq(Day) /\ Len(Activity) = ActivityDays
  <2>1. \A n \in Nat : \A f \in [1..n -> Day] : f \in Seq(Day) /\ Len(f) = n
    OBVIOUS
  <2>2. Activity \in [1..ActivityDays -> Day]
    BY <1>3, <1>4
  <2>. QED BY <1>1, <2>1, <2>2
<1>6. \A i \in 1..Len(Activity) : Activity[i].date = start + i
  BY <1>3, <1>5
<1>. QED BY <1>1, <1>5, <1>6, EmptySeq

LEMMA ActivityStep ==
  ASSUME OverviewInv, ActivityInv, [OverviewNext]_overviewVars
  PROVE  ActivityInv'
<1>1. CASE UNCHANGED cached
  BY <1>1 DEF ActivityInv
<1>2. ASSUME NEW q \in Queries, Receive(q) PROVE ActivityInv'
  <2>1. /\ DOMAIN cached = Queries /\ Today \in Nat
        /\ cached' = [cached EXCEPT ![q] =
                        [on |-> Today, answer |-> IF q = "activity" THEN Activity ELSE Listing(q)]]
    BY <1>2, ThisWeek DEF Receive, OverviewInv, QueriesInv
  <2>2. CASE q = "activity"
    <3>1. cached'["activity"].answer = Activity
      BY <2>1, <2>2
    <3>. QED BY <2>1, <3>1, ActivityGood DEF ActivityInv
  <2>3. CASE q # "activity"
    <3>1. cached'["activity"] = cached["activity"]
      BY <2>1, <2>3
    <3>. QED BY <3>1 DEF ActivityInv
  <2>. QED BY <2>2, <2>3
<1>. QED BY <1>1, <1>2 DEF OverviewNext, Visit, Change, DueTimePasses, Midnight, overviewVars

(***************************************************************************)
(* The weekday StatsPage names is the fullest row of the heatmap beside    *)
(* it, whatever the activity and whatever day it is shown on: the numbers  *)
(* of get_activity, date-fns and the rows of ActivityHeatmap are the same  *)
(* weekday.                                                                *)
(***************************************************************************)
THEOREM BestRowIsFullest == OverviewSpec => []BestRowNamed
<1>1. OverviewInit => ActivityInv
  BY DEF OverviewInit, ActivityInv, Queries
<1>2. OverviewInv /\ ActivityInv /\ [OverviewNext]_overviewVars => ActivityInv'
  BY ActivityStep
<1>3. OverviewInv /\ ActivityInv => BestRowNamed
  BY ThisWeek, BestRow DEF OverviewInv
<1>. QED BY <1>1, <1>2, <1>3, OverviewInitially, OverviewStep, PTL DEF OverviewSpec

=============================================================================
