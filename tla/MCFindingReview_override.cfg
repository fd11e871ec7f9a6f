CONSTANTS
  Findings = {f1}
  Workers = {w1, w2}
  Handlers = {h1}
  Flags = {TRUE}
  ReviewActions = {"reject"}
  RequestKinds = {"review"}
  MaxCrashes = 0
  MaxFailures = 0
  MaxHunts = 1
  MaxEvidence = 0
  MaxRequests = 1
SPECIFICATION Spec
PROPERTIES HumanDecisionStands
CHECK_DEADLOCK FALSE
