CONSTANTS
  Workers = {w1, w2}
  surface = surface
  authz = authz
  xss = xss
  sqli = sqli
  rce = rce
  Classes = {xss, sqli, rce}
  Agents = {surface, authz}
  Operator = Operator
  NoWorker = NoWorker
  Configs <- AllConfigs
  Focus <- TheFocus
  MaxTasks = 2
  MaxAreas = 2
SPECIFICATION FairSpec
INVARIANTS MapKeeps HuntsPlannedOnce HuntsFollow PlanSpreads
PROPERTIES BatchEnds
CHECK_DEADLOCK FALSE
