SPECIFICATION FairSpec
CONSTANTS
  NumSessions = 4
  NumTx = 2
  NumEvents = 32
  Node = {1, 2}
  NumRequests = 1
  Job <- OneSec0
  MaxNonceReports = 0
  MaxLate = 0
  MaxAborts = 0
  MaxResets = 0
  LearnFlips = TRUE
  NonceTableFull = FALSE
PROPERTIES
  Completes
CHECK_DEADLOCK FALSE
