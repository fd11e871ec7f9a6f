CONSTANTS
  Ralphs = {r1, r2, r3}
  Handlers = {h1, h2}
  Nobody = Nobody
  RequestKinds = {"start", "pause", "resume", "stop", "status"}
  MaxWorkers = 2
  MaxRequests = 2
  MaxSpawnFailures = 1
SPECIFICATION FairSpec
INVARIANTS LostOnlyIfDisturbed OneCampaign ReclaimAfterKill
PROPERTIES PauseDrains
CHECK_DEADLOCK FALSE
