CONSTANTS
  HDR = 2
  BR = 1
  MinAlloc = 3
  Uninit = Uninit
  Garbled = Garbled
  Byte <- MCByte
  Shape <- MCShape
  MaxCuts = 2
  Faults = TRUE
  MaxRecords = 3
  MaxCutRecords = 2
  SockCap = 6
SPECIFICATION FairSpec
INVARIANTS TypeOK  StreamInStep
PROPERTIES NeverWaitsWithRecord StreamSpec EveryRecordDelivered EveryByteTaken
