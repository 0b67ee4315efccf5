CONSTANTS
  c1 = c1
  c2 = c2
  k1 = k1
  k2 = k2
  Conn = {c1}
  Id = {1}
  Key = {k1, k2}
  Keep = {TRUE}
  Mpx = FALSE
  Reuse = TRUE
  Roles = {TRUE}
  Abort = {"params"}
  Faults = FALSE
  MaxBegin = 3
  MaxExtra = 1
  InCap = 2
  OutCap = 3
  W = 8
SPECIFICATION Spec
INVARIANT ParamsFresh
