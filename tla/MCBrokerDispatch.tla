-------------------------- MODULE MCBrokerDispatch --------------------------
(* BrokerDispatch for TLC: the tenant's routers are interchangeable.       *)
EXTENDS BrokerDispatch, TLC

Interchangeable == Permutations(Routers)
=============================================================================
