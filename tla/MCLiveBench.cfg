CONSTANTS
  h1 = h1
  h2 = h2
  page = page
  tab = tab
  Hunts = {h1, h2}
  Suite = Suite
  Drive = Drive
  Requests = {page, tab}
  Configs <- AllConfigs
  MaxTasks = 1
SPECIFICATION FairSpec
INVARIANTS HuntRan VerdictBacked OneRalph
PROPERTIES EndHeeded LiveCloses
CHECK_DEADLOCK FALSE
