SPECIFICATION WorkspaceSpec
CONSTANTS
  Parts = {"issues", "tracker", "core", "artifacts"}
  Plans <- IssuePlans
  TrackerPlans <- SomeTrackerPlans
  CorePlans <- SomeCorePlans
  ArtifactPlans <- SomeArtifactPlans
CHECK_DEADLOCK FALSE
INVARIANTS IssuesConsistent OneIssuePerKey TablesFollowFacts
PROPERTIES AbsorbedOnce
