SPECIFICATION Spec
CONSTANTS
  NbSectors = 3
  MaxStamp = 2
  CacheWindows = 2
  CacheSectors = 2
  IoMayFail = TRUE
PROPERTIES RefinesBlockDisk
