SPECIFICATION FairSpec
CONSTANTS
  Byte <- Bytes
  FifoDepth = 2
  Pages = 4
  BlockPages = 2
  PageLbas <- WrappingPages
  BlockLbas <- WrappingBlocks
  Data <- TwoPages
  Mixed = 0
  NoCall = NoCall
  NoOffset = NoOffset
  Unknown = Unknown
CHECK_DEADLOCK FALSE
INVARIANTS
  TypeOK
  TransferIsFaithful
  ProgramsIntact
  PanicOnlyAfterLeak
  ChipHoldsWhatWasAcknowledged
PROPERTIES
  ImplementsExchange
  ReadReturnsBlock
  EveryCallReturns
