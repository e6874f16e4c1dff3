SPECIFICATION FairSpec
CONSTANTS
  Kind = {"version", "wakeup"}
  Scheme = {"S0", "none"}
  Node = {1, 2}
  NumEvents = 32
  NumReqs = 2
  NumRequests = 3
  Target <- ThreeTargets
  MaxReports = 1
  MaxResets = 1
INVARIANTS
  TypeOK
  PoolConsistent
  Attended
  ToldOnce
PROPERTIES
  Ends
CHECK_DEADLOCK FALSE
