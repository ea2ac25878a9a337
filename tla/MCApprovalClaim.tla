--------------------------- MODULE MCApprovalClaim ---------------------------
(* ApprovalClaim for TLC: requests and recoveries are interchangeable.     *)
EXTENDS ApprovalClaim, TLC

Symmetric == Permutations(Requests) \cup Permutations(Recoveries)
=============================================================================
