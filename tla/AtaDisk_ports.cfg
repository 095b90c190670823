SPECIFICATION Spec
CONSTANTS
  NbSectors = 2
  Words = 1
  CountMod = 5
  ByteMod = 1
  HeadMod = 1
  Heads = 1
  Sectors = 1
  MaxMult = 2
  MaxCommands = 3
  IoMayFail = TRUE
INVARIANTS InBuffer
