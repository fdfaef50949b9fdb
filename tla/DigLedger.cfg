\* Two blocks, a looped trace, a world that others change too; or one event, looped,
\* and a portal.
CONSTANTS
  b1 = b1
  b2 = b2
  None = None
  Unknown = Unknown
  Positions = {b1, b2}
  Dims = {"overworld", "nether"}
  Sections <- VanillaSections
  Origin <- VanillaOrigin
  Traces <- LoopedTraces
  Loops = 2
  MaxOther = 1
  MaxViews = 2
  MaxToServer = 2
  MaxToClient = 1
SPECIFICATION Spec
INVARIANTS
  TypeOK
  FinishIsPaired
  NoFalseSuccess
  ConfirmedOnce
  LedgerFollowsWorld
CONSTRAINTS
  Portals
  Formats
SYMMETRY Symmetry
CHECK_DEADLOCK FALSE
