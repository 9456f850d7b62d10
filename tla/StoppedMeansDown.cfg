CONSTANTS
  MaxFlakes    = 1
  SocketErrors = FALSE
SPECIFICATION Spec
INVARIANT StoppedMeansDown
CHECK_DEADLOCK FALSE
