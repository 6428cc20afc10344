SPECIFICATION Spec
CONSTANTS
  TaskIds = {t1, t2, t3}
  NULL = NULL
  Sessions = {s1}
  Templates = {"original"}
  RepeatTypes = {"none", "daily"}
  MaxDay = 1
  SlotsPerDay = 1
  MaxNow = 0
  NextDueDate <- MCNextDueDate
  NewTasks <- DailyTask
  Patches <- NoEdits
  QuietHours <- NoQuietHours
  Linkable = {"telegram"}
  MaxFaults = 0
  RetentionSlots = 0
PROPERTY AdvancesOnlyPending
CHECK_DEADLOCK FALSE
