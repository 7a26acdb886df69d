SPECIFICATION Spec
CONSTANTS
  MaxArgc = 21
  MaxOdd = 2
  SpeedLimits <- FewLimits
INVARIANTS QueryTypeOK ArgvAsUsage  UndefinedHasReason RightIsAnswered 
CHECK_DEADLOCK FALSE
