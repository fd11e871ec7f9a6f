---------------------------- MODULE MCReconBatch ----------------------------
(* A small instance of ReconBatch for TLC.                                 *)
EXTENDS ReconBatch, TLC

CONSTANTS surface, authz, xss, sqli, rce

(* authz names two hunts of one area first; the operator none; rce is not  *)
(* a class of the run.                                                     *)
TheFocus == (surface :> <<Hunt(surface, rce), Hunt(surface, xss)>>) @@
            (authz :> <<Hunt(authz, xss), Hunt(authz, sqli)>>) @@
            (Operator :> <<>>)

Fanned  == [agents |-> <<authz, surface>>, fanout |-> TRUE, workers |-> 2,
            allowed |-> <<xss, sqli>>, accepted |-> {xss, sqli}, llm |-> FALSE,
            long |-> FALSE, earlier |-> FALSE, retries |-> 1, continues |-> 0,
            edits |-> 0, faults |-> 0]
Asked   == [Fanned EXCEPT !.fanout = FALSE, !.earlier = TRUE, !.retries = 0, !.edits = 1]
Faulted == [Fanned EXCEPT !.retries = 0, !.faults = 1, !.llm = TRUE]
Single  == [Fanned EXCEPT !.workers = 1, !.continues = 1, !.faults = 1, !.llm = TRUE]
Distant == [Faulted EXCEPT !.long = TRUE, !.accepted = Classes, !.llm = FALSE]
Alone   == [Single EXCEPT !.agents = <<surface>>, !.fanout = FALSE, !.edits = 1]
Lasting == [Alone EXCEPT !.long = TRUE, !.llm = FALSE, !.edits = 0]
Barred  == [Alone EXCEPT !.allowed = <<>>, !.accepted = {}, !.edits = 0]

AllConfigs == {Fanned, Faulted, Asked, Single, Distant, Alone, Lasting, Barred}
=============================================================================
