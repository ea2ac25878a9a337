--------------------------- MODULE MCBrokerApproval ---------------------------
(* Small instances of BrokerApproval for TLC. *)
EXTENDS BrokerApproval, TLC

\* Requests are alike and so are actions: for larger instances without liveness.
Alike == Permutations(Handlers) \cup Permutations(Actions)
=============================================================================
