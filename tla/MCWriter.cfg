CONSTANTS
  Lens <- MCLens
  SndCap = 3
  Faults = TRUE
SPECIFICATION FairSpec
INVARIANTS TypeOK BytesInPlace
PROPERTIES HandlerReturns
