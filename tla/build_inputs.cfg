SPECIFICATION Spec
CONSTANTS
  Runs = {r1, r2}
  Paths <- MCPaths
  Dirs <- MCDirs
  Above <- MCAbove
  Bodies = {"x", "y"}
  Size <- MCSize
  Sources <- MCSources
  Limits <- MCLimits
  Nothing = Nothing
  NoRecord = NoRecord
  MaxEdits = 1
SYMMETRY MCSymmetry
INVARIANT SuccessIsPublished
INVARIANT SealedIsSelected
INVARIANT DerivedIsRecorded
INVARIANT TreesAreWithinLimits
PROPERTY NothingIsReplaced
CHECK_DEADLOCK FALSE
