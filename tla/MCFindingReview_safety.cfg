CONSTANTS
  Findings = {f1, f2}
  Workers = {w1}
  Handlers = {h1}
  Flags = {TRUE, FALSE}
  ReviewActions = {"confirm", "reopen"}
  RequestKinds = {"review", "rearm", "sync", "merge"}
  MaxCrashes = 1
  MaxFailures = 1
  MaxHunts = 2
  MaxEvidence = 1
  MaxRequests = 2
SPECIFICATION Spec
CONSTRAINT FewDisturbances
INVARIANTS ConfirmedWasAccepted
PROPERTIES OverriddenOnlyUnseen
CHECK_DEADLOCK FALSE
