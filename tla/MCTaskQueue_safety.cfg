CONSTANTS
  Tasks = {1, 2, 3}
  Workers = {w1, w2}
  Handlers = {h1}
  Pairs = {p1, p2}
  p1 = p1
  p2 = p2
  ModelCaps <- MCCapsOne
  MaxParallel = 2
  Resolve <- MCResolveTwo
  FirstQueued = {2}
  LegacyLeases = {1}
  OperatorTasks = {3}
  PhaseTasks = {1}
  UnknownKinds = {1}
  InitPrio <- MCPrio
  Tiers = {"run_next"}
  MaxAttempts = 2
  MaxTimeouts = 1
  MaxExpiries = 1
  MaxRequests = 2
  Gone = Gone
  Foreign = Foreign
  NoOwner = NoOwner
  NoTask = NoTask
  NoPair = NoPair
SPECIFICATION Spec
SYMMETRY WorkerSymmetry
CONSTRAINT FewDisturbances
INVARIANTS InfraBudget ExclusiveUntilDisturbed LeaseCap
PROPERTIES RevivedOnlyByInfraRetry FollowsLifecycle
CHECK_DEADLOCK FALSE
