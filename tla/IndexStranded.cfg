\* One player leaves a cell as another enters it.
CONSTANTS
  p1 = p1
  p2 = p2
  None = None
  Players = {p1, p2}
  Positions <- TwoCells
  CellSize = 4
  Radius = 3
  MaxEntries = 2
  MaxMoves = 2
  MaxMobs = 0
SPECIFICATION Spec
INVARIANTS
  EveryPlayerInACell
CHECK_DEADLOCK FALSE
