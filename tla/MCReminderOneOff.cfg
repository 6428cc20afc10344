SPECIFICATION FairSpec
CONSTANTS
  TaskIds = {t1}
  NULL = NULL
  Sessions = {s1}
  Templates = {"original"}
  RepeatTypes = {"none"}
  MaxDay = 0
  SlotsPerDay = 2
  MaxNow = 2
  NextDueDate <- MCNextDueDate
  NewTasks <- OneOffTask
  Patches <- NoEdits
  QuietHours <- EveningHours
  Linkable = {"web_push"}
  MaxFaults = 1
  RetentionSlots = 1
INVARIANTS
  AtMostOncePerDay
  SnoozedHasEnd
PROPERTIES
  JobsSpareActive
  SnoozeExpires
  DueTaskReminded
CHECK_DEADLOCK FALSE
