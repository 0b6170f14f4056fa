CONSTANTS
  h1 = h1
  h2 = h2
  once = once
  again = again
  None = None
  Jobs = {h1, h2}
  Judged = {h2}
  Calls <- Repeated
  First = once
  Mode <- Manual
  FaultKinds = {"ssh", "daemon", "crash"}
  Inline = TRUE
  MaxFaults = 1
SPECIFICATION Spec
CHECK_DEADLOCK FALSE
INVARIANTS ResultComplete
PROPERTIES ImplementsJobService
