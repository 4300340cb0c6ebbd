SPECIFICATION ExecFairSpec
CONSTANTS
  StdoutLimit = 2
  StderrLimit = 1
  ChunkSize = 2
  PipeSize = 2
  Grandchild = TRUE
  MaxOutput = 4
  MaxErrors = 1
INVARIANT PrefixIsHonest
PROPERTY DeadlineKills
PROPERTY AlwaysReturns
CHECK_DEADLOCK FALSE
