CONSTANTS
  r0 = r0
  r1 = r1
  r2 = r2
  r3 = r3
  Replica = {r0, r1, r2, r3}
  Primary = r0
  Live = {r0, r1, r2}
  Period = 1
  Factor = 2
  MaxRequest = 1
SPECIFICATION Spec
INVARIANTS TypeOK LogsTellTruth CommitBackedByPrepares ExecutedBackedByCommits NeverClears
SYMMETRY Backups
CHECK_DEADLOCK FALSE
