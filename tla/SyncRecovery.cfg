SPECIFICATION Spec
CONSTANTS
  Procs = {p1, p2}
  Bounds <- SafetyBounds
SYMMETRY Perms
CHECK_DEADLOCK FALSE
INVARIANTS OneOutcome
PROPERTIES ActivatesAtWatermark HistoryIsExact
