---------------------------- MODULE MCApprovalQueue ----------------------------
(* ApprovalQueue for TLC: alerts are interchangeable.                      *)
EXTENDS ApprovalQueue, TLC

Interchangeable == Permutations(Ids)
=============================================================================
