CONSTANTS
  Paths     = {"dated", "timed"}
  MaxLines  = 3
  MaxRead   = 2
  MaxFlakes = 1
SPECIFICATION FairSpec
INVARIANTS
  CompletionIsFresh
PROPERTY
  SuccessIsNoticed
CHECK_DEADLOCK FALSE
