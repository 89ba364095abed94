SPECIFICATION FairSpec
CONSTANTS
  Kinds <- AllKinds
  Lengths <- NoneOrThree
  HeaderUnits = 2
  PayloadUnits = 2
  DataUnits = 2
  TxCapacity = 4
  Icrnl = FALSE
  CR = 13
  NL = 10
  MaxCommands = 2
  MaxFaults = 1
  NoCommand = NoCommand
CHECK_DEADLOCK FALSE
INVARIANTS
  TypeOK
  HostInStep
  FramingHolds
PROPERTIES
  EveryAnswerArrives
  StopsUnlessMidRead
