SPECIFICATION Spec
CONSTANTS
  w1 = w1
  w2 = w2
  w3 = w3
  Writers <- MCWriters
  Old = old
  Absent = absent
  Pids = {1, 2}
  Pid <- MCPid
  Shared = FALSE
  Size <- MCSize
  ByteLimit = 1
  ForReports = TRUE
  MaxErrors = 1
CHECK_DEADLOCK FALSE
INVARIANT SuccessIsInstalled
PROPERTY ReplacesAtomically
