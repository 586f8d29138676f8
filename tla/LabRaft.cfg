CONSTANTS
  s1 = s1
  s2 = s2
  s3 = s3
  cmd = cmd
  Server = {s1, s2, s3}
  Command = {cmd}
  NULL = NULL
  Timeouts <- AnyTimeout
  MaxTerm = 2
  MaxLog = 2
  MaxAppend = 2
  MaxCrash = 1
  MaxSnap = 2
SPECIFICATION MCSpec
INVARIANTS TypeOK ElectionSafety LogMatching NextIndexInBounds MatchIndexSoundOnceCompacted LeaderCompleteness RaftInv
PROPERTIES VoteOnce AppliedGrows ImplementsLog
CHECK_DEADLOCK FALSE
