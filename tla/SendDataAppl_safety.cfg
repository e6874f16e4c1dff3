SPECIFICATION Spec
CONSTANTS
  NumSessions = 3
  NumTx = 2
  NumEvents = 32
  Node = {1, 2}
  NumRequests = 2
  Job <- MixedJobs
  MaxNonceReports = 1
  MaxLate = 0
  MaxAborts = 1
  MaxResets = 0
  LearnFlips = FALSE
  NonceTableFull = TRUE
INVARIANTS
  TypeOK
  PoolConsistent
  Sec0SingleSession
  ChipHasHead
  NoLostWakeup
  CalledOnce
  IdleExact
CHECK_DEADLOCK FALSE
