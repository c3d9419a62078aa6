-------------------------- MODULE MCAnalyticsEvents --------------------------
(* Small instances of AnalyticsEvents. *)
EXTENDS AnalyticsEvents, TLC

OneUser == {1}
Symmetry == Permutations(Recordings) \cup Permutations(Requests)
=============================================================================
