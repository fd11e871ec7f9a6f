---------------------------- MODULE MCTaskQueue ----------------------------
(* Small instances of TaskQueue for TLC.                                   *)
EXTENDS TaskQueue, TLC

CONSTANTS p1, p2

(* task 1 runs on p1, the others on either pair after a settings edit      *)
MCResolveTwo  == [t \in Tasks |-> IF t = 1 THEN {p1} ELSE {p1, p2}]
MCCapsOne     == [p \in {p1} |-> 1]
MCPrio        == [t \in Tasks |-> 50]
WorkerSymmetry == Permutations(Workers)

(* one request beside a kill and an overdue lease, two without, or a task  *)
(* an operator enqueues                                                    *)
Late == OperatorTasks \ InState({"absent"})
FewDisturbances ==
  /\ requests = 2 => timeouts + expiries = 0
  /\ Late # {} => timeouts + expiries + requests = 1
=============================================================================
