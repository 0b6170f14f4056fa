CONSTANTS
  None = None
  Requests <- CommandLines
  Statuses = {"succeeded", "failed_infra"}
  MaxFaults = 2
CHECK_DEADLOCK FALSE
SPECIFICATION FairSpec
INVARIANTS EvaluationTypeOK EachSampleOnce
PROPERTIES EvaluationEnds
