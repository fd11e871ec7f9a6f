-------------------------- MODULE MCFindingReview --------------------------
(* Small instances of FindingReview for TLC.                               *)
EXTENDS FindingReview, TLC

(* A crash or a failing host meets one finding, no sandbox run and one     *)
(* request; without them there is room for all the others.                 *)
FewDisturbances ==
  used.crashes + used.failures > 0 =>
    used.crashes + used.failures = 1 /\ used.hunts <= 1 /\ used.evidence = 0 /\ used.requests <= 1
=============================================================================
