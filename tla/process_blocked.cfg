SPECIFICATION FairSpec
CONSTANTS
  StdoutLimit = 2
  StderrLimit = 1
  ChunkSize = 2
  PipeSize = 2
  Grandchild = TRUE
  MaxOutput = 4
  MaxErrors = 0
PROPERTY KilledReturns
