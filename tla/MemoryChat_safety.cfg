CONSTANTS
  Runs = {r1, r2}
  Ids = {i1, i2}
  Clerks = {c1}
  Notes = Notes
  Absent = Absent
  Torn = Torn
  SameSecond = TRUE
  MaxCrashes = 1
  Budget = 1
SPECIFICATION ChatSpec
INVARIANTS
  ChatTypeOK
  SuggestionsSurvive
  ContextStaysTrue
PROPERTIES
  HintsKeepEarlierWork
  ImplementsLog
CHECK_DEADLOCK FALSE
