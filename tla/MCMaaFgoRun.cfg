CONSTANTS
  Login     = "login"
  MaxEdits  = 1
  MaxFaults = 1
  Profiles <- MCProfiles
SPECIFICATION Spec
INVARIANTS
  SuccessIsEarned
  DriftIsCaught
  RefusalIsJustified
  ResultsAreConstructible
  VerifiedStopIsDown
