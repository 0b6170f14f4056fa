CONSTANTS
  h1 = h1
  h2 = h2
  once = once
  again = again
  None = None
  Jobs = {h1, h2}
  Judged = {h2}
  Calls <- CalledOnce
  First = once
  Mode <- SyncAndManual
  FaultKinds = {}
  Inline = FALSE
  MaxFaults = 0
SPECIFICATION Spec
CHECK_DEADLOCK FALSE
PROPERTIES VerdictDelivered
