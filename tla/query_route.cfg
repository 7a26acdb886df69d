SPECIFICATION Spec
CONSTANTS
  MaxArgc = 21
  MaxOdd = 2
  SpeedLimits <- FewLimits
INVARIANT RouteAsUsage
CHECK_DEADLOCK FALSE
