SPECIFICATION Spec
CONSTANTS
  Kinds <- Reads
  Lengths <- TenAndThirteen
  HeaderUnits = 2
  PayloadUnits = 2
  DataUnits = 2
  TxCapacity = 4
  Icrnl = TRUE
  CR = 13
  NL = 10
  MaxCommands = 1
  MaxFaults = 0
  NoCommand = NoCommand
CHECK_DEADLOCK FALSE
INVARIANT SectorAsSent
