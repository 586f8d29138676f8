CONSTANTS
  N0 = N0
  N1 = N1
  N2 = N2
  N3 = N3
  r1 = r1
  r2 = r2
  Node = {N0, N1, N2, N3}
  Primary = N0
  Closed = {N3}
  Request = {r1, r2}
  MaxDown = 2
SPECIFICATION MCSpec
INVARIANTS TypeOK CommitBackedByPrepares StoredBackedByCommits StoredInOrder
SYMMETRY Backups
CHECK_DEADLOCK FALSE
