-------------------------- MODULE MCAnalyticsExport --------------------------
(* Small instances of AnalyticsExport. *)
EXTENDS AnalyticsExport, TLC

TwoUsers == {1, 2}
Symmetry == Permutations(Runs) \cup Permutations(Operations)
=============================================================================
