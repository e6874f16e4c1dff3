SPECIFICATION FairSpec
CONSTANTS
  Cmds <- MCCmds
  Answered <- MCAnswered
  Attempts = 2
  ReopenPeriod = 2
  ResponseTries = 2
  MAX_RXQUEUE_LEN = 2
  Signals = FALSE
  MaxCalls = 2
  MaxRequests = 3
  MaxFaults = 2
  MaxResends = 1
INVARIANTS
  TypeOK
  SentUnlessGaveUp
  AnswerIsOwn
  RequestsKept
  RequestsInOrder
PROPERTIES
  CallsReturn
