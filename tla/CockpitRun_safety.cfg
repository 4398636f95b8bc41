CONSTANTS
  Workers = {"aider"}
  LoopChoices = {2}
  ReviewerModels = {FALSE}
  UserKinds = {"hidden", "exempt"}
  WorkerKinds = {"tracked"}
  RootsInGit = {TRUE}
  LimitFloor = 25
  LimitPerLoop = 8
  MaxCrashes = 1
SPECIFICATION Spec
INVARIANTS
  TypeOK
  AttemptsBounded
  EvidenceDescribesTree
  FreshWorkerAuthorised
  DoneHasDiffOrFailure
PROPERTIES
  VerdictSticks
  ImplementsGate
