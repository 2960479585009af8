SPECIFICATION FairServiceSpec
CONSTANTS
  core = core
  None = None
  AssumptionIds = {}
  ProbeIds = {}
  Runs = {r1, r2, r3}
  Providers = {"deterministic-demo"}
  DemoProvider = "deterministic-demo"
  Buildable = {"deterministic-demo"}
  StoreReliable = TRUE
  InitialPlans <- MCInitialPlans
  ProbeLists <- MCProbeLists
  RevisedPlans = {}
  Patches <- MCPatches
  Paths <- MCPaths
  Allowlisted <- MCPaths
  DeniedPart = {}
  Inside <- MCPaths
  MaxWorkers = 1
  MaxCrashes = 1
CHECK_DEADLOCK FALSE
INVARIANTS
  EachRunIsInOnePlace
PROPERTIES
  OrphanIsNeverResumed
  AcceptedRunSettlesOrIsOrphaned
