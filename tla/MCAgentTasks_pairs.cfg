SPECIFICATION MCSpec
CONSTANTS
  start = start
  again = again
  integrate = integrate
  sync = sync
  build = build
  dead = dead
  Procs <- MCProcs
  Resources <- MCResources
  Wanted <- MCWanted
  Kind <- MCKind
  Host <- OneHost
  MaxRunning = 3
  MaxCrashes = 1
  MaxTasks = 2
  NoOne = NoOne
CHECK_DEADLOCK FALSE
INVARIANTS TasksTypeOK MutualExclusion NothingLeaked NotEveryoneRefused Undisturbed IntegratedIsLive
PROPERTIES MasterKeepsHistory EveryoneEnds
