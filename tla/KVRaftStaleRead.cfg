CONSTANTS
  c1 = c1
  c2 = c2
  k = k
  NoId = NoId
  Clerk = {c1, c2}
  NServer = 3
  Key = {k}
  Value = {"x", "y", ""}
  Script <- WriteAndRead
  MaxElect = 1
  MaxFail = 1
SPECIFICATION Spec
INVARIANTS ReadsFresh
CHECK_DEADLOCK FALSE
