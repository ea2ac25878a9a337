-------------------------- MODULE MCIntelRetention --------------------------
(* IntelRetention for TLC.                                                  *)
EXTENDS IntelRetention, TLC

Symmetric == Permutations(Docs) \cup Permutations(Runs)
=============================================================================
