CONSTANTS
  Files       = {"infrast", "tasks"}
  Versions    = {"old", "new"}
  NoFile      = "missing"
  Names       = {"core", "resource"}
  MaxSize     = 1
  MaxAttempts = 7
  MaxStalled  = 2
  Interval    = 2
  MaxWrites   = 1
  MaxFaults   = 1
SPECIFICATION Spec
INVARIANTS
  LoadsMerged
  RetriesAreEarned
