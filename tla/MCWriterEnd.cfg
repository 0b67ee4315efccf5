CONSTANTS
  Lens <- MCLens
  SndCap = 3
  Faults = FALSE
SPECIFICATION Spec
INVARIANT EndRequestSent
