CONSTANTS
  Workers = {"aider"}
  LoopChoices = {1}
  ReviewerModels = {FALSE}
  UserKinds = {}
  WorkerKinds = {}
  RootsInGit = {TRUE}
  LimitFloor = 25
  LimitPerLoop = 8
  MaxCrashes = 1
SPECIFICATION Spec
INVARIANT
  NoApplyNoWorker
