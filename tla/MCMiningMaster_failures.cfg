SPECIFICATION FairSpec
CONSTANTS
  Samples = {s1, s2}
  NumWorkers = 2
  TargetAccepted = 1
  MaxAttempts = 2
  RerunInfra = FALSE
  MaxRuns = 1
  MaxFaults = 1
  MaxSignals = 0
  StopModes = {}
  None = None
  Poison = Poison
  Torn = Torn
CHECK_DEADLOCK FALSE
PROPERTY FailuresReachMaster
