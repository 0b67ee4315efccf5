CONSTANTS
  c1 = c1
  c2 = c2
  null = null
  Conn = {c1, c2}
  Id = {1}
  Flags <- MCFlags
  SharedIds = TRUE
  MaxBegin = 2
  MaxExtra = 1
  NetCap = 2
SPECIFICATION FairSpec
INVARIANT AssertionsHold
CHECK_DEADLOCK FALSE
