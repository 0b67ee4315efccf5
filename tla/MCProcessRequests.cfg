CONSTANTS
  c1 = c1
  c2 = c2
  k1 = k1
  k2 = k2
  Conn = {c1}
  Id = {1, 2}
  Key = {k1}
  Keep = {TRUE}
  Mpx = TRUE
  Reuse = TRUE
  Roles = {TRUE, FALSE}
  Abort = {"params"}
  Faults = FALSE
  MaxBegin = 3
  MaxExtra = 1
  InCap = 1
  OutCap = 3
  W = 8
SPECIFICATION FairSpec
INVARIANTS TypeOK OutputInOrder ParamsCurrent
PROPERTIES ServiceSpec Answered
