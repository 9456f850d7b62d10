CONSTANTS
  Contents  = {"v1", "v2"}
  NoFile    = "missing"
  MaxSaves  = 1
  MaxFaults = 2
SPECIFICATION FairSpec
INVARIANTS
  OriginalSurvives
PROPERTIES
  CommitsAtomically
  RerunRepairs
CHECK_DEADLOCK FALSE
