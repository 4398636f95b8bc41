CONSTANTS
  p = p
  q = q
  s1 = s1
  s2 = s2
  s3 = s3
  PlanIds = {p, q}
  BadId = BadId
  SliceIds = {s1, s2}
  NoCap = NoCap
  Texts <- MCPlainTexts
  FixtureSlice = s1
  Models = {TRUE, FALSE}
  Caps = {NoCap}
  OwnNames = FALSE
  Absent = Absent
  Torn = Torn
  Planners = {k1}
  Runners = {t1}
  MaxCommits = 1
  MaxOrphans = 0
SPECIFICATION Spec
INVARIANT
  ListedNextIsRunnable
