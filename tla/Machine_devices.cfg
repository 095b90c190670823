SPECIFICATION Spec
CONSTANTS
  Wrap = 24
  FreqNum = 6
  FreqDen = 5
  Byte = 2
  PitModes = {0, 2, 3}
  PitAccesses = {3}
  MaxGap = 2
  MaxAge = 28
  SpkBuf = 7
  SpkRate = 3
  SpkFreq = 8
  SpkMinCount = 2
  QueueSize = 6
  Reserve = 4
  MaxDelta = 1
  DmaByte = 2
  Ring = 4
  OutCap = 2
  InCap = 4
  OutRate = 2
  Freqs = {2}
  DefaultFreq = 2
  Frees = {8}
  BlockLens = {2}
  RtcWrap = 21
  RtcPeriods = {0, 2, 4}
  RtcGap = 3
  FdSectors = 1
  FdCounts = {1, 2}
  MaxTyped = 2
  NicStart = 1
  NicStop = 6
  NicMaxPages = 2
  NicIds = 5
  VramWords = 8
  Words = {0, 1}
  LcdRows = 4
  BandRows = 2
  Heights = {2, 4}
  TextCols = 2
  TextRows = 2
  QuietPolls = 1
  FastPlanar = TRUE
  ForceEvery = 2
  PollReads = 2
  HoldFrames = 1
  BarSize = 4
  VgaMem = 3
  LfbAlias = 8
  PciDevices = {"vga", "ide"}
  MmuPages = 2
  KernelPages = {0}
  MmuFrames = {0, 1}
  TlbSlots = 1
  FastSlots = 1
  ArmFast = TRUE
  StackTop = 32
  MaxNested = 3
  StrPages = 2
  PageCells = 4
  RepSlice = 2
  StrCount = {0, 5}
INVARIANTS
  TicksExact DataAnnounced StreamsWhole TransferAccounted CardInStep
  RtcPrompt FloppyInPlace RingIntact ScreenShows BarAgrees AccessExact
  TransfersReturn RingsKept StringExact
CHECK_DEADLOCK FALSE
