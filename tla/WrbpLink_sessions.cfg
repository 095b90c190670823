SPECIFICATION ServerFairSpec
CONSTANTS
  NbSectors = 3
  MaxStamp = 1
  MaxSectors = 2
  LongestRequest = 3
  StrayRequests = TRUE
  StrictFlush = TRUE
  ReadOnly = FALSE
  Keepalive = TRUE
  FlushMayFail = TRUE
  MaxSessions = 2
  RecvTimeouts = 1
  Backlog = 0
  SendTimeouts = 1
INVARIANTS InSync ReadsImage AckedInImage Durable
PROPERTIES SessionsEnd
CHECK_DEADLOCK FALSE
