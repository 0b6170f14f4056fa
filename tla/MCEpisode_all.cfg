CONSTANTS
  solution = solution
  tests = tests
  stub = stub
  edited = edited
  None = None
  Files = {solution, tests}
  Contents = {stub, edited}
  Stub <- StubFiles
  Backends = {"local", "remote"}
  MaxFaults = 1
  Kinds = {"mining", "evaluation"}
  Verifiers = {"local", "remote"}
  Inline = TRUE
  JudgeEnabled = TRUE
  Indexed = TRUE
  HiddenTests = {tests}
  MaxTurns = 2
  MaxParseFailures = 1
  MaxCalls = 1
CHECK_DEADLOCK FALSE
SPECIFICATION FairSpec
INVARIANTS EpisodeTypeOK DecisionEarned WorkspaceAsTold SandboxReleased EpisodeComplete
PROPERTY EpisodeEnds
