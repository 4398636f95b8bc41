CONSTANTS
  Workers = {"stub"}
  LoopChoices = {0, 10}
  ReviewerModels = {TRUE}
  UserKinds = {}
  WorkerKinds = {}
  RootsInGit = {TRUE}
  LimitFloor = 25
  LimitPerLoop = 8
  MaxCrashes = 1
SPECIFICATION FairSpec
INVARIANTS
  FreshRunNeverExhausted
  DoneIsEvidenced
PROPERTIES
  StartedRunsConclude
  ImplementsGate
