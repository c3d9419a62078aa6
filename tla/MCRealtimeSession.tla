-------------------------- MODULE MCRealtimeSession --------------------------
(* Small instances of RealtimeSession. *)
EXTENDS RealtimeSession, TLC

CONSTANT u1

OneUser == [s \in Sockets |-> u1]
Symmetry == Permutations(Sockets)
=============================================================================
