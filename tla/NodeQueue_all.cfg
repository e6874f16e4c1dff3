SPECIFICATION FairSpec
CONSTANTS
  Frame <- MCFrameSleep
  Dest <- MCDestSleep
  Mode <- MCModeSleep
  Wunmi <- MCWunmiSleep
  Crc <- MCCrcSleep
  MAX_NUM_QUEUED_PACKETS = 2
  MailboxOn = TRUE
  Other <- Activity
  MaxOther = 2
INVARIANTS
  TypeOK
  HeadIsSent
  FramesKept
  RequeueFlag
  KickedUnlessQuiet
PROPERTIES
  Drained
CHECK_DEADLOCK FALSE
