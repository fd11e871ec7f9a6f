----------------------------- MODULE MCRalphLoop ----------------------------
(* Small instances of RalphLoop for TLC.                                   *)
EXTENDS RalphLoop

CONSTANTS p1

MCResolve == [t \in Tasks |-> {p1}]
MCCapOne  == [p \in {p1} |-> 1]
MCPrio    == [t \in Tasks |-> 50]
=============================================================================
