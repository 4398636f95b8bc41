CONSTANTS
  Runs = {r1}
  Ids = {i1}
  Clerks = {c1}
  Notes = Notes
  Absent = Absent
  Torn = Torn
  SameSecond = FALSE
  MaxCrashes = 0
  Budget = 1
SPECIFICATION ChatSpec
INVARIANT
  CursorEditsReported
CHECK_DEADLOCK FALSE
