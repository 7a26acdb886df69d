SPECIFICATION Spec
CONSTANTS
  Rings = {"main", "side", "lamp"}
  NextPhases <- EndingNextPhases
  PhaseDuration = 2
  NoPhase = NoPhase
  TicksPerMs = 2
  ClockSteps <- UnsteadySteps
  MaxNow = 17
  MaxUpsets = 1
INVARIANTS TypeOK RingsOnPath Tandem PassRate PhasesLast OverdueUpdatePasses 
PROPERTIES ImplementsPhaseWalk
CHECK_DEADLOCK FALSE
