SPECIFICATION MeasureSpec
CONSTANTS
  Backends = {"dragway", "multilane", "malidrive", "osm", "rviz"}
  Names = {"rel", "abs"}
  AbsoluteNames = {"abs"}
  NoName = NoName
  FileFlags = {"yaml_file", "xodr_file_path", "osm_file", "rule_registry_file"}
  ValueFlags = {"linear_tolerance", "angular_tolerance", "origin"}
  MaxFileChanges = 1
  Iterations = {0, 2}
  ClockSteps <- SetBack
  MaxMoves = 1
INVARIANTS LoadTypeOK ConfigIsRequest ResourcesFirst LoadsWhatIsThere MeanOfWholeLoads
PROPERTY ImplementsRequest
CHECK_DEADLOCK FALSE
