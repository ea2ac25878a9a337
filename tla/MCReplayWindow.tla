---------------------------- MODULE MCReplayWindow ----------------------------
(* ReplayWindow for TLC.                                                   *)
EXTENDS ReplayWindow, TLC

Interchangeable == Permutations(Copies)
=============================================================================
