SPECIFICATION FairSpec
CONSTANTS
  None = None
  pk = pk
  Ids = {i1, i2}
  Clients = {c1, c2}
  StageNames = {"planning", "complete"}
  Packets = {pk}
  Events <- MCEvents
  Changes <- MCChanges
  MaxCalls = 2
  Limit = 2
CHECK_DEADLOCK FALSE
INVARIANTS
  TypeOK
  ReadsArePastStates
  ListIsSound
PROPERTIES
  ImplementsAtomicStore
  CallsReturn
