SPECIFICATION Spec
CONSTANTS
  Length = 5
  Tolerance = 1
INVARIANT FlagDiscardsConfig
CHECK_DEADLOCK FALSE
