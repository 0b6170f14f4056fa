CONSTANTS
  p1 = p1
  p2 = p2
  Modes = {"sequential"}
  Samples = {s1, s2}
  Lead = s1
  Procs = {p1, p2}
  Driver = p1
  JobIds = {j1, j2, j3}
  MaxFaults = 1
  None = None
CHECK_DEADLOCK FALSE
SPECIFICATION Spec
PROPERTY SequentialNeverRefused
