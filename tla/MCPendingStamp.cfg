CONSTANTS
  Findings = {f1}
  Workers = {w1}
  Handlers = {h1}
  Flags = {TRUE, FALSE}
  ReviewActions = {"confirm", "reject", "reopen"}
  RequestKinds = {"review", "rearm", "merge"}
  MaxCrashes = 1
  MaxFailures = 1
  MaxHunts = 1
  MaxEvidence = 1
  MaxRequests = 2
SPECIFICATION StampSpec
PROPERTIES PendingSettles
CHECK_DEADLOCK FALSE
