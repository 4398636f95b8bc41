CONSTANTS
  Runs = {r1, r2}
  Ids = {i1, i2}
  Clerks = {c1, c2}
  Notes = Notes
  Absent = Absent
  Torn = Torn
  SameSecond = FALSE
  MaxCrashes = 0
SPECIFICATION Spec
INVARIANTS
  ArchivedIsRecorded
CHECK_DEADLOCK FALSE
