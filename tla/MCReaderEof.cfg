CONSTANTS
  HDR = 2
  BR = 1
  MinAlloc = 3
  Uninit = Uninit
  Garbled = Garbled
  Byte <- MCByte
  Shape <- MCShape
  MaxCuts = 0
  Faults = FALSE
  MaxRecords = 1
  MaxCutRecords = 0
  SockCap = 8
SPECIFICATION FairSpec
PROPERTY EndsAtEof
