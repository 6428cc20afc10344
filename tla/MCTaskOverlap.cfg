SPECIFICATION ServiceSpec
CONSTANTS
  TaskIds = {t1, t2}
  NULL = NULL
  Sessions = {s1, s2}
  Templates = {"original", "edited"}
  RepeatTypes = {"none", "daily"}
  MaxDay = 1
  SlotsPerDay = 1
  MaxNow = 1
  NextDueDate <- MCNextDueDate
  NewTasks <- DailyTask
  Patches <- ToToday
SYMMETRY IdSymmetry
INVARIANT ServiceInv
PROPERTY CompletedHistoryStands
CHECK_DEADLOCK FALSE
