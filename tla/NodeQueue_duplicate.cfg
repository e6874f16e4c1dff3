SPECIFICATION Spec
CONSTANTS
  Frame <- MCFrameEqual
  Dest <- MCDestEqual
  Mode <- MCModeEqual
  Wunmi <- MCWunmi
  Crc <- MCCrcEqual
  MAX_NUM_QUEUED_PACKETS = 2
  MailboxOn = TRUE
  Other <- Activity
  MaxOther = 2
PROPERTIES
  DuplicatesDropped
CHECK_DEADLOCK FALSE
