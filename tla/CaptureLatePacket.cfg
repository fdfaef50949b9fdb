\* A packet in flight when its player quits.
CONSTANTS
  p1 = p1
  p2 = p2
  NoSession = NoSession
  Players = {p1}
  MaxSessions = 1
  MaxEvents = 1
  MaxFailed = 1
  Shards = 1
  PacketCap = 1
  MainCap = 2
SPECIFICATION Spec
INVARIANTS
  DrainedForGood
CHECK_DEADLOCK FALSE
