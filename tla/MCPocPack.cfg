CONSTANTS
  Workers = {w1, w2}
  Handlers = {h1}
  Nobody = Nobody
  RequestKinds = {"steer", "stop", "save", "iterate"}
  OneShot = TRUE
  Host <- GvisorHost
  Runner = "sandbox"
  MaxCycles = 2
  Waiting = {"iterate"}
  MaxRequests = 1
  MaxFaults = 1
SPECIFICATION FairSpec
INVARIANTS SteersKept StopWithinOneCycle OneShotUndisturbed
PROPERTIES SessionEnds
CHECK_DEADLOCK FALSE
