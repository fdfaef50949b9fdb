\* A run of one session with events, or of two with next to none.
CONSTANTS
  None = None
  Sessions = {0, 1}
  ResyncTicks = 2
  MaxLoops = 1
  Budget <- MCBudget
  Scenarios <- MCScenarios
SPECIFICATION FairSpec
INVARIANTS
  TypeOK
  ReportAddsUp
  EventsAddUp
  PeakWasReached
  JoinedBeforeRecorded
  OneTickAtMost
  BehindAtMostOneResync
  StopNeverStrands
PROPERTIES
  RunEnds
CHECK_DEADLOCK FALSE
