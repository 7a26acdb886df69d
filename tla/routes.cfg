SPECIFICATION Spec
CONSTANTS
  Length = 5
  Tolerance = 1
INVARIANTS RoutesTypeOK  RefusedForAReason OmittedRangesAreWhole
CHECK_DEADLOCK FALSE
