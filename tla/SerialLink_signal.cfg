SPECIFICATION Spec
CONSTANTS
  Cmds <- MCCmds
  Answered <- MCAnswered
  Attempts = 2
  ReopenPeriod = 2
  ResponseTries = 2
  MAX_RXQUEUE_LEN = 1
  Signals = TRUE
  MaxCalls = 2
  MaxRequests = 0
  MaxFaults = 0
  MaxResends = 1
INVARIANTS
  SentUnlessGaveUp
