SPECIFICATION ConsoleSpec
CONSTANTS
  a1 = a1
  core = core
  None = None
  AssumptionIds = {a1}
  ProbeIds = {}
  Runs = {r1}
  Providers = {"deterministic-demo"}
  DemoProvider = "deterministic-demo"
  Buildable = {"deterministic-demo"}
  StoreReliable = FALSE
  InitialPlans <- MCInitialPlans
  ProbeLists <- MCProbeLists
  RevisedPlans = {}
  Patches <- MCPatches
  Paths <- MCPaths
  Allowlisted <- MCPaths
  DeniedPart = {}
  Inside <- MCPaths
  MaxPolls = 2
  MaxWorkers = 1
  MaxCrashes = 1
CHECK_DEADLOCK FALSE
INVARIANTS
  RunningIsWatched
