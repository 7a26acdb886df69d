SPECIFICATION Spec
CONSTANTS
  Exporters = {e1, e2, e3}
  NoOne = NoOne
  Old = Old
  MaxRemovals = 1
  MaxKills = 1
INVARIANTS ObjTypeOK FailsForAReason ExportIsThere PairsMatch
SYMMETRY Alike
CHECK_DEADLOCK FALSE
