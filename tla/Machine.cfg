SPECIFICATION MachineSpec
CONSTANTS
  Parts = {"install", "hooks", "home", "repairs", "pad", "trees", "tasks"}
  InstallPlans <- HPs
  HookPlans <- KPs
  HomePlans <- Homes
  RepairPlans <- RepairCases
  PadPlans <- Pads
  TreePlans <- TreeCases
  TaskPlans <- TaskCases
INVARIANTS InterruptedInstallsResume HooksFollowTheUser EntriesAreKept RepairsLoseNothing AuthorsAreListed StartedTreesExist
PROPERTIES OwnWorkIsKept ReconcileNeverDowngrades ForeignHooksStay RollbackUndoes RefreshesAreTrue
CHECK_DEADLOCK FALSE
