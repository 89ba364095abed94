SPECIFICATION FairSpec
CONSTANTS
  DataBits = {1}
  PageWords = 2
  NSectors = 4
  SmallBlock = 1
  LargeBlock = 2
  HugeBlock = 4
  Timeout = 1
  Lbas <- AliasLbas
  Payloads <- TwoPages
  Configs <- OnlyLarge
  Probed <- AnyCache
  NoJob = NoJob
  NoRequest = NoRequest
  Unknown = Unknown
INVARIANTS
  TypeOK
  WaitsCoverJobs
  JobIsTheRequest
  ReadReturnsSector
PROPERTY
  OnlyTheAddressedBlock
  EveryRequestAnswered
