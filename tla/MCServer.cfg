CONSTANTS
  c1 = c1
  c2 = c2
  p1 = p1
  p2 = p2
  p3 = p3
  null = null
  Conn = {c1, c2}
  Id = {1, 2}
  Flags <- MCFlags
  SharedIds = FALSE
  MaxBegin = 1
  MaxExtra = 1
  NetCap = 2
  Argv <- MCArgv
  MaxFailures = 2
SPECIFICATION FairServerSpec
INVARIANTS TypeOK AssertionsHold Linked NotForgotten Listening StartsAgain
PROPERTY Served
CHECK_DEADLOCK FALSE
