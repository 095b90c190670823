SPECIFICATION FairSpec
CONSTANTS
  Lines <- EoiLines
  Commands <- EoiCommands
INVARIANTS NeverSpurious
PROPERTIES HaltWakes
