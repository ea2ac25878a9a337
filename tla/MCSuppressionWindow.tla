-------------------------- MODULE MCSuppressionWindow --------------------------
(* SuppressionWindow for TLC: firings of one severity are interchangeable. *)
EXTENDS SuppressionWindow, TLC

Interchangeable == Permutations(Critical) \cup Permutations(Firings \ Critical)
=============================================================================
