CONSTANTS
  Tasks = {1, 2}
  Workers = {w1, w2}
  Handlers = {h1}
  Pairs = {p1}
  p1 = p1
  ModelCaps <- MCCapOne
  MaxParallel = 2
  Resolve <- MCResolve
  FirstQueued = {1}
  LegacyLeases = {}
  OperatorTasks = {2}
  PhaseTasks = {}
  UnknownKinds = {}
  InitPrio <- MCPrio
  Tiers = {"run_next"}
  MaxAttempts = 2
  MaxTimeouts = 1
  MaxExpiries = 0
  MaxRequests = 1
  MaxInfra = 2
  MaxIterations = 3
  MaxProgress = 2
  EarlyStops = TRUE
  MaxFaults = 1
  Gone = Gone
  Foreign = Foreign
  NoOwner = NoOwner
  NoTask = NoTask
  NoPair = NoPair
SPECIFICATION FairLoopSpec
INVARIANTS GiveUpExplained ChargesBacked
PROPERTIES LoopsEnd
CHECK_DEADLOCK FALSE
