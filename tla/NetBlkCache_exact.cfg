SPECIFICATION FairSpec
CONSTANTS
  NbSectors = 3
  MaxStamp = 2
  CacheWindows = 2
  CacheSectors = 2
  BufferSectors = 2
  TableSectors = 2
  ProtocolMax = 3
  HelloMax = 0
  PrefetchWanted = 1
  Writable = TRUE
  WritebackEnabled = TRUE
  LinkMayFail = TRUE
INVARIANTS ReadsLatest NothingLost FlushCommits
PROPERTIES RefinesBlockDisk CallsReturn CommitsInOrder
