--------------------------- MODULE MCBridgeStatus ---------------------------
(* Small instances of BridgeStatus. *)
EXTENDS BridgeStatus, TLC

Symmetry == Permutations(Conns) \cup Permutations(Devices) \cup Permutations(Bridges)
=============================================================================
