SPECIFICATION Spec
CONSTANTS
  Samples = {s1, s2, s3, s4}
  NumWorkers = 2
  TargetAccepted = 2
  MaxAttempts = 3
  RerunInfra = FALSE
  MaxRuns = 1
  MaxFaults = 1
  MaxSignals = 2
  StopModes = {"graceful", "hard"}
  None = None
  Poison = Poison
  Torn = Torn
CHECK_DEADLOCK FALSE
SYMMETRY SampleSymmetry
INVARIANTS TypeOK CountersMatchIndex AttemptInOnePlace NothingLostBelowTarget RecordedArtifactsKept
