\* Players join, move, leave and come back around a mob.
CONSTANTS
  p1 = p1
  p2 = p2
  None = None
  Players = {p1, p2}
  Positions <- InARow
  CellSize = 4
  Radius = 3
  MaxEntries = 3
  MaxMoves = 1
  MaxMobs = 1
SPECIFICATION Spec
INVARIANTS
  TypeOK
  NoStaleEntry
  AttributedOnline
  NearestFound
CHECK_DEADLOCK FALSE
