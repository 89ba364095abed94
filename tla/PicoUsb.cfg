SPECIFICATION FairSpec
CONSTANTS
  Kinds <- AllKinds
  Lengths <- NoneOrThree
  PayloadUnits = 2
  DataUnits = 2
  TxCapacity = 5
  MaxCommands = 2
  MaxAttach = 3
  NoCommand = NoCommand
CHECK_DEADLOCK FALSE
INVARIANTS
  TypeOK
  HostInStep
  FramingHolds
  NandReachableWhileMounted
PROPERTY EveryAnswerArrives
