\* A player leaves and comes back; two writer shards; shutdown.
CONSTANTS
  p1 = p1
  p2 = p2
  NoSession = NoSession
  Players = {p1}
  MaxSessions = 2
  MaxEvents = 1
  MaxFailed = 1
  Shards = 2
  PacketCap = 1
  MainCap = 2
SPECIFICATION FairSpec
INVARIANTS
  TypeOK
  RetiringLosesNothing
  NoDropCountedTwice
  WrittenOnce
  FinalFlushTakesAll
PROPERTIES
  SessionEndReachesWriter
CHECK_DEADLOCK FALSE
