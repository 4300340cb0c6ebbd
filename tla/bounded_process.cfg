SPECIFICATION FairSpec
CONSTANTS
  StdoutLimit = 2
  StderrLimit = 1
  ChunkSize = 2
  PipeSize = 2
  Grandchild = TRUE
  MaxOutput = 4
  MaxErrors = 1
INVARIANT CaptureIsComplete
PROPERTY OverIsKilled
PROPERTY AlwaysReturns
CHECK_DEADLOCK FALSE
