CONSTANTS
  h1 = h1
  h2 = h2
  once = once
  again = again
  None = None
  Jobs = {h1, h2}
  Judged = {h2}
  Calls <- CalledOnce
  First = once
  Mode <- SyncAndManual
  FaultKinds = {"rsync", "ssh", "damage", "image", "daemon", "crash"}
  Inline = TRUE
  MaxFaults = 2
SPECIFICATION FairSpec
CHECK_DEADLOCK FALSE
INVARIANTS TypeOK PartialNeverExecuted InfraIsNoVerdict ReceiptHonest
PROPERTIES QueuedAnswered EveryJobClassified
