CONSTANTS
  Workers = {"aider"}
  LoopChoices = {1}
  ReviewerModels = {FALSE}
  UserKinds = {}
  WorkerKinds = {}
  RootsInGit = {FALSE}
  LimitFloor = 25
  LimitPerLoop = 8
  MaxCrashes = 0
SPECIFICATION Spec
INVARIANT
  NoProofNoPass
