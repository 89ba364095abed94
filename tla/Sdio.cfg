SPECIFICATION FairSpec
CONSTANTS
  CardBlocks = 2
  Values = {v1, v2}
  ExtCsd = ext
  Lbas <- ZeroAndOne
  Counts <- OneToThree
  MaxWriteBlocks = 2
  BlockWords = 2
  TxDepth = 4
  MaxFaults = 1
  NoCall = NoCall
CHECK_DEADLOCK FALSE
INVARIANTS
  TypeOK
  OopsOnlyAfterFailure
PROPERTIES
  ReadDeliversBlocks
  AcknowledgedWriteIsStored
  SuccessLeavesNothingArmed
  BufferIsCallers
  EveryCallReturns
