SPECIFICATION Spec
CONSTANTS
  a1 = a1
  a2 = a2
  p1 = p1
  p2 = p2
  None = None
  AssumptionIds = {a1, a2}
  ProbeIds = {p1, p2}
  InitialPlans <- MCInitialPlans
  ProbeLists <- MCProbeLists
  MaxInvocations = 2
CHECK_DEADLOCK FALSE
INVARIANTS
  TypeOK
  ZeroMeansVerified
  ChannelsAgree
