SPECIFICATION Spec
CONSTANTS
  p1 = p1  p2 = p2
  NEnv = 2
  Pass = {p1, p2}
  Skew = 1
  Bounds <- SafetyBounds
SYMMETRY Symmetry
CHECK_DEADLOCK FALSE
INVARIANTS NothingStagedIsRefused
PROPERTIES ImplementsSharedLog
