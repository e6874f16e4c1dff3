SPECIFICATION Spec
CONSTANTS
  Frame <- MCFrame
  Dest <- MCDest
  Mode <- MCMode
  Wunmi <- MCWunmi
  Crc <- MCCrc
  MAX_NUM_QUEUED_PACKETS = 2
  MailboxOn = TRUE
  Other <- Activity
  MaxOther = 2
INVARIANTS
  AbortedIsResumed
CHECK_DEADLOCK FALSE
