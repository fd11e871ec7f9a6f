----------------------------- MODULE MCPocPack -----------------------------
(* A small instance of PocPack for TLC.                                    *)
EXTENDS PocPack, TLC

GvisorHost == [docker |-> TRUE, runtimes |-> {"runsc"}, kvm |-> FALSE,
               patched |-> FALSE, image |-> FALSE]
=============================================================================
