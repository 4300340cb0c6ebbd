SPECIFICATION FairSpec
CONSTANTS
  m1 = m1
  m2 = m2
  Migrators = {m1, m2}
  Teams <- MCTeams
  Legacy <- MCLegacy
  Wanted <- MCWanted
  InitialTargets <- FromBundle
  MaxEdits = 2
  MaxAborts = 2
  Paths <- MCPaths
  Contents <- MCContents
  UserContents <- MCUserContents
  Owners <- MCOwners
  Indexes <- MCIndexes
  Absent = Absent
  NoFile = NoFile
  NoManifest = NoManifest
  c1 = c1
  c2 = c2
  u1 = u1
  o1 = o1
  o2 = o2
  i1 = i1
  i2 = i2
INVARIANT Migrated
INVARIANT EarlyEditsSurvive
PROPERTY AtomicMigration
PROPERTY Converges
