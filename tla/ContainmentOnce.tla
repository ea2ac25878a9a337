--------------------------- MODULE ContainmentOnce ---------------------------
(***************************************************************************)
(* What containment promises for one drafted alert, without saying how:    *)
(* over all the requests ever made for it at most one block lands on the   *)
(* routers, a request told "executed" is the one whose block landed, and a *)
(* request told that nothing was dispatched can rely on it for ever.  A    *)
(* request told "unsure" (the outcome-unknown answer) may still land.      *)
(*                                                                         *)
(* The approval path implements it for the POST /approve requests of an    *)
(* alert (ApprovalClaim), the dispatch through the broker implements it    *)
(* for the one call that an approval makes, a misled follow-up excepted    *)
(* (BrokerDispatch).                                                       *)
(***************************************************************************)
CONSTANT Requests     \* the requests made for the alert

VARIABLES landed,     \* requests whose block took effect on a router
          told        \* what each request has been answered

vars == <<landed, told>>

Words == {"nothing", "executed", "failed", "unsure"}

Init == /\ landed = {}
        /\ told = [h \in Requests |-> "nothing"]

\* The block of request h takes effect: only the first one ever, and never
\* for a request that was told its block did not happen.
Land(h) == /\ landed = {}
           /\ told[h] \in {"nothing", "unsure"}
           /\ landed' = {h}
           /\ UNCHANGED told

\* Request h is answered.
Tell(h, word) == /\ told[h] = "nothing"
                 /\ word = "executed" => h \in landed
                 /\ word = "failed" => h \notin landed
                 /\ told' = [told EXCEPT ![h] = word]
                 /\ UNCHANGED landed

Next == \E h \in Requests : \/ Land(h)
                            \/ \E word \in Words \ {"nothing"} : Tell(h, word)

Spec == Init /\ [][Next]_vars
=============================================================================
