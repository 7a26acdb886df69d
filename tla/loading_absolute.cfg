SPECIFICATION Spec
CONSTANTS
  Backends = {"multilane"}
  Names = {"rel", "abs"}
  AbsoluteNames = {"abs"}
  NoName = NoName
  FileFlags = {"yaml_file"}
  ValueFlags = {}
  MaxFileChanges = 0
INVARIANT AbsolutePathsLoad
CHECK_DEADLOCK FALSE
