SPECIFICATION Spec
CONSTANTS
  Parameters = {"opendrive_file", "linear_tolerance", "scale_length"}
  Given = {{}, {"opendrive_file"}, {"opendrive_file", "scale_length"}}
INVARIANTS StringTypeOK  
CHECK_DEADLOCK FALSE
