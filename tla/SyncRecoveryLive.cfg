SPECIFICATION LiveSpec
CONSTANTS
  Procs = {p1}
  Bounds <- LiveBounds
PROPERTIES Attaches
CHECK_DEADLOCK FALSE
