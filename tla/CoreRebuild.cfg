SPECIFICATION WorkspaceSpec
CONSTANTS
  Parts = {"core"}
  Plans <- IssuePlans
  TrackerPlans <- SomeTrackerPlans
  CorePlans <- SomeCorePlans
  ArtifactPlans <- SomeArtifactPlans
INVARIANT RebuildCannotFail
CHECK_DEADLOCK FALSE
