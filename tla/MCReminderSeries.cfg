SPECIFICATION Spec
CONSTANTS
  TaskIds = {t1, t2}
  NULL = NULL
  Sessions = {s1}
  Templates = {"original"}
  RepeatTypes = {"none", "daily"}
  MaxDay = 1
  SlotsPerDay = 1
  MaxNow = 0
  NextDueDate <- MCNextDueDate
  NewTasks <- DailyTask
  Patches <- StopSeries
  QuietHours <- NoQuietHours
  Linkable = {"telegram"}
  MaxFaults = 1
  RetentionSlots = 1
SYMMETRY IdSymmetry
INVARIANT Inv
PROPERTY ImplementsSeries
CHECK_DEADLOCK FALSE
