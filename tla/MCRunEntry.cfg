CONSTANTS
  Stages    <- MCStages
  Workflows <- MCWorkflows
SPECIFICATION EntrySpec
INVARIANTS
  VerdictIsHonest
  ExecutionIsJustified
  CleanupFailureIsKept
  CancelIsHonoured
  OneWorkflow
  ExitCodeIsHonest
  ExitCodeNamesTheCause
PROPERTIES
  VerdictOnlyWorsens
  ImplementsContract
