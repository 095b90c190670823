SPECIFICATION Spec
CONSTANTS
  Lines <- ModeLines
  Commands <- ModeCommands
INVARIANTS RaisedWhenActive SlaveForwarded
PROPERTIES DeliveredOnce
