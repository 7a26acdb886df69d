SPECIFICATION AppSpec
CONSTANTS
  Rings = {"main", "side", "lamp"}
  NextPhases <- MixedNextPhases
  PhaseDuration = 2
  NoPhase = NoPhase
  TicksPerMs = 2
  ClockSteps <- UnsteadySteps
  MaxNow = 15
  MaxUpsets = 1
  SleepMs = 1
  TimeoutMs = 4
  Bulbless <- SideOffBulbless
  RuleStates <- TwoRules
  Gaps <- MissingStates
INVARIANTS AppTypeOK LoopBudget PrintsInTandem DiesForAReason
PROPERTIES EveryPhaseIsShown OverdueLoopPasses OverduePhasesChange Ends
CHECK_DEADLOCK FALSE
