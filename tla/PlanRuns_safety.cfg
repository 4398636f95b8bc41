CONSTANTS
  p = p
  q = q
  s1 = s1
  s2 = s2
  s3 = s3
  PlanIds = {p}
  BadId = BadId
  SliceIds = {s1, s2, s3}
  NoCap = NoCap
  Texts <- MCTexts
  FixtureSlice = s1
  Models = {TRUE}
  Caps = {NoCap}
  OwnNames = TRUE
  Absent = Absent
  Torn = Torn
  Planners = {k1, k2}
  Runners = {t1}
  MaxCommits = 2
  MaxOrphans = 1
SPECIFICATION Spec
INVARIANTS
  TypeOK
  ListedNextIsRunnable
  DependenciesLanded
  CommitsHoldOneSlice
  PlanFilesWhole
SYMMETRY Interchangeable
