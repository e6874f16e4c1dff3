SPECIFICATION Spec
CONSTANTS
  Kind = {"version", "wakeup"}
  Scheme = {"S0", "none"}
  Node = {1, 2}
  NumEvents = 32
  NumReqs = 2
  NumRequests = 2
  Target <- TwoTargets
  MaxReports = 0
  MaxResets = 0
PROPERTIES
  AbortsAll
CHECK_DEADLOCK FALSE
