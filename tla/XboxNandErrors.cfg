SPECIFICATION Spec
CONSTANTS
  DataBits = {1}
  PageWords = 2
  NSectors = 4
  SmallBlock = 2
  LargeBlock = 4
  HugeBlock = 8
  Timeout = 1
  Lbas <- OneBlock
  Payloads <- OnePage
  Configs <- OnlySmall
  Probed <- Unprobed
  NoJob = NoJob
  NoRequest = NoRequest
  Unknown = Unknown
INVARIANT ZeroMeansNoError
