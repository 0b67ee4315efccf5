CONSTANTS
  b1 = b1
  b2 = b2
  Uninit = Uninit
  MinAlloc = 2
  Cap = 4
  Byte <- MCByte
  Data <- MCData
SPECIFICATION Spec
INVARIANTS TypeOK Layout RoomAfterReserve Bounded
PROPERTY QueueSpec
