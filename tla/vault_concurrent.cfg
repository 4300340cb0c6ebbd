SPECIFICATION Spec
CONSTANTS
  Exporters = {e1, e2}
  Requests <- RacingRequests
  InitialTargets <- FromMissingOrOld
  MaxEdits = 1
  MaxAborts = 1
  Paths <- MCPaths
  Contents <- MCContents
  UserContents <- MCUserContents
  Owners <- MCOwners
  Indexes <- MCIndexes
  Absent = Absent
  NoFile = NoFile
  NoManifest = NoManifest
  c1 = c1
  c2 = c2
  u1 = u1
  o1 = o1
  o2 = o2
  i1 = i1
  i2 = i2
SYMMETRY ExporterSymmetry
INVARIANT CleanupIsSafe
INVARIANT EarlyEditsSurvive
PROPERTY NeverLost
PROPERTY AtomicNamespace
