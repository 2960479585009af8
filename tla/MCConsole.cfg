SPECIFICATION FairConsoleSpec
CONSTANTS
  a1 = a1
  core = core
  None = None
  AssumptionIds = {a1}
  ProbeIds = {}
  Runs = {r1, r2}
  Providers = {"deterministic-demo"}
  DemoProvider = "deterministic-demo"
  Buildable = {"deterministic-demo"}
  StoreReliable = TRUE
  InitialPlans <- MCInitialPlans
  ProbeLists <- MCProbeLists
  RevisedPlans = {}
  Patches <- MCPatches
  Paths <- MCPaths
  Allowlisted <- MCPaths
  DeniedPart = {}
  Inside <- MCPaths
  MaxPolls = 2
  MaxWorkers = 1
  MaxCrashes = 1
CHECK_DEADLOCK FALSE
INVARIANTS
  ConsoleTypeOK
  SuccessIsEarned
  HeadlineAgreesWithPanels
  WatchEndsForAReason
PROPERTIES
  ButtonComesBack
