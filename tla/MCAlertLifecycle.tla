--------------------------- MODULE MCAlertLifecycle ---------------------------
(* AlertLifecycle for TLC.                                                 *)
EXTENDS AlertLifecycle, TLC

LifecycleSymmetric == Permutations(Requests) \cup Permutations(Deliveries)
=============================================================================
