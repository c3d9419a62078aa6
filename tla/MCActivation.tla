----------------------------- MODULE MCActivation -----------------------------
(* Small instances of Activation. *)
EXTENDS Activation, TLC

Symmetry == Permutations(Callers) \cup Permutations(Sweeps)
=============================================================================
