SPECIFICATION Spec
CONSTANTS
  Frame <- MCFrame
  Dest <- MCDest
  Mode <- MCMode
  Wunmi <- MCWunmi
  Crc <- MCCrc
  MAX_NUM_QUEUED_PACKETS = 2
  MailboxOn = TRUE
  Other <- MCOtherKick
  MaxOther = 2
INVARIANTS
  Kicked
CHECK_DEADLOCK FALSE
