CONSTANTS
  h1 = h1
  h2 = h2
  once = once
  again = again
  None = None
  Jobs = {h1, h2}
  Judged = {h2}
  Calls <- CalledOnce
  First = once
  Mode <- SyncAndManual
  FaultKinds = {"daemon"}
  Inline = FALSE
  MaxFaults = 1
SPECIFICATION Spec
CHECK_DEADLOCK FALSE
INVARIANT DaemonFailureIsInfra
