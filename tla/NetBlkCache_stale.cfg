SPECIFICATION Spec
CONSTANTS
  NbSectors = 3
  MaxStamp = 2
  CacheWindows = 2
  CacheSectors = 2
  BufferSectors = 2
  TableSectors = 2
  ProtocolMax = 2
  HelloMax = 0
  PrefetchWanted = 2
  Writable = TRUE
  WritebackEnabled = TRUE
  LinkMayFail = FALSE
INVARIANT ReadsLatest
