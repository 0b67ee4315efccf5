CONSTANTS
  HDR = 2
  BR = 1
  MinAlloc = 3
  Uninit = Uninit
  Garbled = Garbled
  Byte <- MCByte
  Shape <- MCShapeSplit
  MaxCuts = 2
  Faults = FALSE
  MaxRecords = 1
  MaxCutRecords = 1
  SockCap = 5
SPECIFICATION Spec
INVARIANT WholeBeforeDispatch
