CONSTANT
  MaxFlakes = 2
SPECIFICATION FairProbeSpec
PROPERTIES
  AnswersAtomically
  EnsureReconnects
CHECK_DEADLOCK FALSE
