\* What a server left, compiled, amplified, placed, replayed and removed.
CONSTANTS
  None = None
  Wandered = Wandered
  MinDuration = 1
  MaxDuration = 1
  DropChat = TRUE
  Buckets = 2
  BucketOf <- ByParity
  StartJitter = 1
  EventJitter = 1
  SpaceSpread = 2
  VaryPercent = 50
  MaxCompiles = 2
  MaxRuns = 2
  Captures <- MCCaptures
  OldDir <- Schema1
  Imports <- RealPlayers
  PlayerMaps <- Exports
  Draws <- Fleets
  Counts = {1, 3}
SPECIFICATION Spec
INVARIANTS
  TypeOK
  ListedFilesAreWhole
  OneTracePerVisit
  SpawnsWhereItsTraceBegins
  GearGoesToItsOwner
  RemovedMeansWorldSpawn
PROPERTIES
  AmplifiedSchedule
CHECK_DEADLOCK FALSE
