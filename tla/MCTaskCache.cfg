SPECIFICATION Spec
CONSTANTS
  Tasks = {t1, t2}
  Slots = {s1, s2}
  NULL = NULL
  Acts = {"complete", "reopen", "snooze", "skip", "bulk", "delete", "bulk delete", "undo"}
  MaxStarts = 2
  MaxDeletes = 1
  MaxFaults = 1
SYMMETRY CacheSymmetry
INVARIANT CacheInv
PROPERTY UndoneStays
CHECK_DEADLOCK FALSE
