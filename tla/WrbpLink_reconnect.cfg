SPECIFICATION FairSpec
CONSTANTS
  NbSectors = 1
  MaxStamp = 2
  MaxSectors = 1
  LongestRequest = 1
  StrayRequests = FALSE
  StrictFlush = FALSE
  ReadOnly = FALSE
  Keepalive = TRUE
  FlushMayFail = FALSE
  MaxSessions = 2
  RecvTimeouts = 0
  Backlog = 1
  SendTimeouts = 1
PROPERTIES CleanReconnect
CHECK_DEADLOCK FALSE
