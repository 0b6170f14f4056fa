SPECIFICATION Spec
CONSTANTS
  start = start
  integrate = integrate
  sync = sync
  build = build
  Procs = {integrate, sync, build}
  Resources <- MCResources
  Wanted <- MCWanted
  Host <- OneHost
  MaxRunning = 3
  MaxCrashes = 1
  NoOne = NoOne
CHECK_DEADLOCK FALSE
INVARIANTS MutualExclusion NothingLeaked NotEveryoneRefused
