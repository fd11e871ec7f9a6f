--------------------------- MODULE MCPendingStamp ---------------------------
(* Small instance of PendingStamp for TLC.                                 *)
EXTENDS PendingStamp
=============================================================================
