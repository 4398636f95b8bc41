CONSTANTS
  p = p
  q = q
  s1 = s1
  s2 = s2
  s3 = s3
  PlanIds = {p}
  BadId = BadId
  SliceIds = {s1, s2}
  NoCap = NoCap
  Texts <- MCDraftTexts
  FixtureSlice = s1
  Models = {TRUE, FALSE}
  Caps = {NoCap}
  OwnNames = TRUE
  Absent = Absent
  Torn = Torn
  Planners = {k1}
  Runners = {t1}
  MaxCommits = 0
  MaxOrphans = 0
SPECIFICATION Spec
PROPERTY
  SavedPlansLoad
