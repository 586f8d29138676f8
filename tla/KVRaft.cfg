CONSTANTS
  c1 = c1
  c2 = c2
  k = k
  NoId = NoId
  Clerk = {c1, c2}
  NServer = 2
  Key = {k}
  Value = {"x", "y", ""}
  Script <- WriteAndRead
  MaxElect = 1
  MaxFail = 1
SPECIFICATION MCSpec
INVARIANTS TypeOK ExecutedOnceInOrder AckedIsChosen
PROPERTIES CallsReturn
CHECK_DEADLOCK FALSE
