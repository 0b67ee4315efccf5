CONSTANTS
  c1 = c1
  c2 = c2
  k1 = k1
  k2 = k2
  Conn = {c1, c2}
  Id = {1}
  Key = {k1}
  Keep = {TRUE, FALSE}
  Mpx = FALSE
  Reuse = TRUE
  Roles = {TRUE, FALSE}
  Abort = {"params"}
  Faults = TRUE
  MaxBegin = 1
  MaxExtra = 0
  InCap = 1
  OutCap = 1
  W = 8
SPECIFICATION FairSpec
INVARIANTS CountExact ClosedWhenAnswered
PROPERTIES ConnectionCloses ServiceSpec Answered
