SPECIFICATION Spec
CONSTANTS
  NumSessions = 2
  NumTx = 2
  NumEvents = 2
  Node = {1, 2}
  NumRequests = 2
  Job <- MixedJobs
  MaxNonceReports = 1
  MaxLate = 1
  MaxAborts = 1
  MaxResets = 1
  LearnFlips = TRUE
  NonceTableFull = TRUE
INVARIANTS
  IInv
PROPERTIES
  ImplementsService
CHECK_DEADLOCK FALSE
