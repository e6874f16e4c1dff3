SPECIFICATION FairSpec
CONSTANTS
  NumSessions = 4
  NumTx = 2
  NumEvents = 32
  Node = {1, 2}
  NumRequests = 2
  Job <- Sec0Jobs
  MaxNonceReports = 0
  MaxLate = 0
  MaxAborts = 1
  MaxResets = 0
  LearnFlips = FALSE
  NonceTableFull = TRUE
PROPERTIES
  OkMeansSent
  Completes
CHECK_DEADLOCK FALSE
