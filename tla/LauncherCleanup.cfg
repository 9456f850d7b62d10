CONSTANTS
  Procs     = {"worker", "manager"}
  Survivors = {"manager"}
SPECIFICATION Spec
INVARIANT FailedLaunchLeavesNothing
CHECK_DEADLOCK FALSE
