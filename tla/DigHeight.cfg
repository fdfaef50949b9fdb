\* From the overworld through a portal.
CONSTANTS
  b1 = b1
  b2 = b2
  None = None
  Unknown = Unknown
  Positions = {b1}
  Dims = {"overworld", "nether"}
  Sections <- VanillaSections
  Origin <- VanillaOrigin
  Traces <- OneEvent
  Loops = 1
  MaxOther = 0
  MaxViews = 2
  MaxToServer = 2
  MaxToClient = 1
SPECIFICATION Spec
PROPERTY NotReadAtWrongHeight
CHECK_DEADLOCK FALSE
