SPECIFICATION Spec
CONSTANTS
  ArgvMax = 4
  MaxLen = 6
  MaxBlocks = 4
  Codes <- ThreeCodes
  Faults = TRUE
  Kills = TRUE
INVARIANTS TypeOK SplitRight Accounted NothingLeft
CHECK_DEADLOCK FALSE
