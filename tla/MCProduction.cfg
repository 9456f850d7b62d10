CONSTANTS
  Stages    <- MCStages
  Workflows <- MCWorkflows
  MaxFaults = 3
SPECIFICATION ProductionSpec
INVARIANTS
  ExclusiveEmulator
  ShutdownReached
  SuccessLeavesNothingRunning
  DialogNamesTheCause
  PlanAccepted
