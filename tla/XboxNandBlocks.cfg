SPECIFICATION Spec
CONSTANTS
  DataBits = {1}
  PageWords = 2
  NSectors = 4
  SmallBlock = 2
  LargeBlock = 4
  HugeBlock = 8
  Timeout = 1
  Lbas <- WrappingLbas
  Payloads <- OnePage
  Configs <- BothConfigs
  Probed <- Unprobed
  NoJob = NoJob
  NoRequest = NoRequest
  Unknown = Unknown
INVARIANTS
  AcknowledgedImageIsStored
  ProgramsOntoBlank
PROPERTY
  ImplementsFlashStore
