SPECIFICATION Spec
CONSTANTS
  t1 = t1
  t2 = t2
  d1 = d1
  d2 = d2
  Tasks <- TwoTasks
  Disputes <- TwoDisputes
  Releases <- SomeReleases
  SqliteVersions <- SomeSqliteVersions
  MaxSeeds = 2
  MaxIndex = 4
  MaxStops = 2
INVARIANT DatabaseSurvives
PROPERTY NoKeyTwice
