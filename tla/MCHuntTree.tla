----------------------------- MODULE MCHuntTree -----------------------------
(* A small instance of HuntTree for TLC.                                   *)
EXTENDS HuntTree, TLC

Agent    == [threads |-> TRUE, workers |-> 2, slots |-> 1, generations |-> 1,
             depth |-> 1, continue |-> TRUE, force |-> TRUE, deep |-> FALSE,
             faults |-> 0, grows |-> FALSE]
Retried  == [Agent EXCEPT !.depth = 0, !.continue = FALSE, !.deep = TRUE, !.faults = 1]
Scripted == [Agent EXCEPT !.threads = FALSE, !.generations = 0, !.continue = FALSE,
                          !.force = FALSE]
Panels   == [Agent EXCEPT !.workers = 1, !.slots = 2, !.continue = FALSE,
                          !.force = FALSE]

Busy     == [Agent EXCEPT !.workers = 1, !.depth = 0, !.force = FALSE, !.deep = TRUE,
                          !.faults = 2, !.grows = TRUE]

Long     == [Agent EXCEPT !.workers = 1, !.depth = 2, !.generations = 0,
                          !.continue = FALSE, !.force = FALSE, !.grows = TRUE]

AllConfigs == {Agent, Retried, Scripted, Panels, Busy, Long}
=============================================================================
