CONSTANTS
  MaxEvents = 3
  MaxFaults = 2
SPECIFICATION Spec
INVARIANTS
  SuccessIsProven
  NothingIsLost
  CleanedMeansGone
