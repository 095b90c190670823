SPECIFICATION DriverSpec
CONSTANTS
  NbSectors = 4
  Words = 1
  CountMod = 4
  ByteMod = 3
  HeadMod = 2
  Heads = 2
  Sectors = 2
  MaxMult = 2
  MaxCommands = 3
  IoMayFail = TRUE
INVARIANTS TransferInStep WritesLand WaitingIsInterrupted
PROPERTIES WritesStayInRange
