CONSTANTS
  Workers = {w1, w2}
  Classes = {xss, sqli}
  Root = xss
  Configs <- AllConfigs
  MaxChain = 2
  MaxSpawns = 1
  SplitBudget = 1
  MaxParts = 2
SPECIFICATION FairSpec
INVARIANTS TypeOK WithinSplitBudget OneContinuation CandidateKept
PROPERTIES HuntsDrain
CHECK_DEADLOCK FALSE
