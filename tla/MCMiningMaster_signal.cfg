SPECIFICATION Spec
CONSTANTS
  Samples = {s1, s2}
  NumWorkers = 2
  TargetAccepted = 2
  MaxAttempts = 3
  RerunInfra = FALSE
  MaxRuns = 1
  MaxFaults = 0
  MaxSignals = 1
  StopModes = {}
  None = None
  Poison = Poison
  Torn = Torn
CHECK_DEADLOCK FALSE
INVARIANT DefaultStopIsGraceful
