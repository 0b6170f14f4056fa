SPECIFICATION FairSpec
CONSTANTS
  Samples = {s1, s2}
  NumWorkers = 2
  TargetAccepted = 2
  MaxAttempts = 2
  RerunInfra = TRUE
  MaxRuns = 2
  MaxFaults = 1
  MaxSignals = 0
  StopModes = {"graceful"}
  None = None
  Poison = Poison
  Torn = Torn
CHECK_DEADLOCK FALSE
INVARIANTS DecidedOnce FinalViewCurrent
PROPERTIES RunTerminates ImplementsAttemptsTable
