CONSTANTS
  h1 = h1
  h2 = h2
  once = once
  again = again
  None = None
  Jobs = {h1, h2}
  Judged = {h2}
  Calls <- CalledOnce
  First = once
  Mode <- Pipeline
  FaultKinds = {"damage"}
  Inline = TRUE
  MaxFaults = 1
SPECIFICATION FairSpec
CHECK_DEADLOCK FALSE
PROPERTIES EveryJobClassified
