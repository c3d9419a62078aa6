---------------------------- MODULE MCEmailSends ----------------------------
(* Small instances of EmailSends. *)
EXTENDS EmailSends, TLC

Symmetry == Permutations(Senders) \cup Permutations(Deliveries)
=============================================================================
