SPECIFICATION MCSpec
CONSTANTS
  MaxYear = 2101
  FirstDates <- FirstDates1999
  Tasks = {t1}
  StartDays <- WeekEnds
  Gaps = {1, 2, 4}
  ActivityDays = 16
  Bounds <- PageBounds
  NULL = NULL
INVARIANTS
  CalendarTypeOK
  DayOnlyClamped
  SectionsAgree
  WeekAllShown
  BestRowNamed
PROPERTIES
  StepsByInterval
  OncePerPeriod
  StreakKeepsDays
CHECK_DEADLOCK FALSE
