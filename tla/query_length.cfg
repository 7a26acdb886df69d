SPECIFICATION Spec
CONSTANTS
  MaxArgc = 21
  MaxOdd = 2
  SpeedLimits <- FewLimits
INVARIANT NoLaneNoLength
CHECK_DEADLOCK FALSE
