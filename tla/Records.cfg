SPECIFICATION StoresSpec
CONSTANTS
  Envs <- TwoEnvs
  Limits <- SmallLimits
  Bounds <- RecordBounds
  Openers <- TwoOpeners
  Starts <- SomeStarts
CHECK_DEADLOCK FALSE
INVARIANTS SnapshotFolds ContextIsClosed RefusesOnlyTheUnsound MigrationKeeps
PROPERTIES DispositionStands
