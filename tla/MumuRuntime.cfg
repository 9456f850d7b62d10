CONSTANTS
  MaxFlakes    = 2
  SocketErrors = TRUE
SPECIFICATION FairSpec
INVARIANTS
  UnchangedMeansUntouched
  BoundedRecovery
PROPERTIES
  StopIsConfirmed
  WaitEnds
CHECK_DEADLOCK FALSE
