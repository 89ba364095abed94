SPECIFICATION Spec
CONSTANTS
  Regs <- StatusAndData
  Values <- TwoWords
  Floats <- LowOrHigh
  NoCall = NoCall
PROPERTY
  
  ImplementsRegisterFile
