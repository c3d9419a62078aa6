--------------------------- MODULE MCPendingAuth ---------------------------
(* Small instances of PendingAuth. *)
EXTENDS PendingAuth, TLC
=============================================================================
