SPECIFICATION FairSpec
CONSTANTS
  a1 = a1
  a2 = a2
  p1 = p1
  p2 = p2
  core = core
  rules = rules
  tests = tests
  other = other
  None = None
  AssumptionIds = {a1, a2}
  ProbeIds = {p1, p2}
  Runs = {r1}
  Providers = {"deterministic-demo", "ollama", "anthropic"}
  DemoProvider = "deterministic-demo"
  Buildable = {"deterministic-demo", "ollama"}
  StoreReliable = TRUE
  InitialPlans <- MCInitialPlans
  ProbeLists <- MCProbeLists
  RevisedPlans <- MCRevisedPlans
  Patches <- MCPatches
  Paths <- MCPaths
  Allowlisted <- MCAllowlisted
  DeniedPart <- MCDeniedPart
  Inside <- MCInside
CHECK_DEADLOCK FALSE
PROPERTIES
  AcceptedRunSettles
