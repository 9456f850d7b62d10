CONSTANTS
  Procs     = {"worker", "manager"}
  Survivors = {"manager"}
SPECIFICATION Spec
INVARIANTS
  NothingRunsUnboxed
  ReleasedTreesDie
  RegistryOwnsHandles
  CleanedMeansCondemned
PROPERTY
  SurvivorsOutliveRelease
CHECK_DEADLOCK FALSE
