CONSTANTS
  h1 = h1
  h2 = h2
  once = once
  again = again
  None = None
  Jobs = {h2}
  Judged = {h2}
  Calls <- Repeated
  First = once
  Mode <- Manual
  FaultKinds = {}
  Inline = TRUE
  MaxFaults = 0
SPECIFICATION Spec
CHECK_DEADLOCK FALSE
INVARIANTS PartialNeverExecuted
