SPECIFICATION DemoSpec
CONSTANTS
  None = None
  AssumptionIds = {"A-UTC", "A-REGION", "A-IDEMPOTENCY", "A-ORDER"}
  ProbeIds = {"PR-UTC", "PR-REGION", "PR-IDEMPOTENCY", "PR-ORDER"}
  Runs = {r1}
  Providers = {"deterministic-demo"}
  DemoProvider = "deterministic-demo"
  Buildable = {"deterministic-demo"}
  StoreReliable = FALSE
  InitialPlans <- MCInitialPlans
  ProbeLists <- MCProbeLists
  RevisedPlans = {}
  Patches <- MCPatches
  Paths <- MCPaths
  Allowlisted <- MCPaths
  DeniedPart = {}
  Inside <- MCPaths
  Requests <- MCRequests
CHECK_DEADLOCK FALSE
INVARIANTS
  DemoIsAsShown
  PremisesSurvivePatch
  LedgerMatchesReceipts
  PaidRegionsAreOpen
  PatchKeepsContract
