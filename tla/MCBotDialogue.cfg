SPECIFICATION Spec
CONSTANTS
  Handlers = {h1, h2}
  Tasks = {t1, t2}
  Recordings = {r1, r2}
  Titles = {a1, a2}
  AnyOther = other
  Answers <- OnlyTitlesDiffer
  NULL = NULL
  MaxSummaries = 2
  MaxFaults = 1
SYMMETRY BotSymmetry
INVARIANTS
  BotInv
  CreatedAsShown
  OneTaskPerRecording
PROPERTY AnsweredOnce
CHECK_DEADLOCK FALSE
