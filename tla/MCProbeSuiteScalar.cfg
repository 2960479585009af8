SPECIFICATION Spec
CONSTANTS
  p1 = p1
  a1 = a1
  AssumptionIds = {a1}
  ProbeIds = {p1}
  ProbeId = p1
  PremiseId = a1
  Names <- MCNames
  Values = {"UTC", "KST", "Asia/Seoul", "Asia/Tokyo", "America/Los_Angeles"}
  Lab <- MCLab
CHECK_DEADLOCK FALSE
INVARIANTS
  ScalarMeansScalar
