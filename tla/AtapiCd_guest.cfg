SPECIFICATION Spec
CONSTANTS
  DiscSectors = 3
  SectorBytes = 4
  RawBytes = 6
  PacketBytes = 2
  ByteLimit = 16
  IntLimit = 32
  Limits = {2, 3, 6, 16}
  ReplySizes = {2, 4}
  Counts = {1, 2, 3, 8}
  IoMayFail = TRUE
  MaxCommands = 3
INVARIANTS AsAnnounced BytesInPlace ReadsComplete ChangeIsReported
