--------------------------- MODULE MCAccountData ---------------------------
(* Small instances of AccountData. *)
EXTENDS AccountData, TLC

ThreeBridges == 1 .. 3
TwoOfThem == {1, 2, Shared}
Symmetry == Permutations(Reqs)
=============================================================================
