\* Two shards over the files of an earlier run; a second is a unit of time.
CONSTANTS
  None = None
  Shards = {0, 1}
  OldFiles = {1, 2}
  RotateAfter = 2
  RotateMax = 2
  MaxTotal = 2
  MaxTime = 2
  MaxFlushes = 6
  MaxFailures = 1
SPECIFICATION Spec
INVARIANTS TypeOK BudgetKept
CHECK_DEADLOCK FALSE
