SPECIFICATION Spec
CONSTANTS
  start = start
  integrate = integrate
  sync = sync
  build = build
  Procs = {integrate, sync, build}
  Resources <- OneResource
  Wanted <- CanonicalOnly
  Host <- OneHost
  MaxRunning = 3
  MaxCrashes = 0
  NoOne = NoOne
CHECK_DEADLOCK FALSE
PROPERTY OnlyStaleRemoved
