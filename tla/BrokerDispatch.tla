---------------------------- MODULE BrokerDispatch ----------------------------
(***************************************************************************)
(* One containment call from the agent to the hive-mind broker: the agent  *)
(* posts a signed /webhook/dispatch and waits (dispatch_block_via_broker), *)
(* the broker starts one SSH session per router of the tenant, all at once *)
(* (dispatch_block_to_all), each session runs the nft command and, when    *)
(* its outcome is ambiguous, one bounded follow-up check                   *)
(* (block_ip_on_router, _reconcile_unknown), and the agent turns the       *)
(* answer into "ok", "failed" or "unknown".  Time is in seconds, since the *)
(* agent's patience has to outlast everything the broker may do.           *)
(*                                                                         *)
(* An operator named Definition_Change is Definition with one mistake; it  *)
(* is used nowhere and stands there to show that a property notices it.    *)
(***************************************************************************)
EXTENDS Integers

CONSTANTS
    Routers,    \* the inventory entries of the alert's tenant
    Faults      \* what may fail: a subset of FaultKinds

FaultKinds == {"net",      \* the network may fail, for the rest of the call
               "disk"}     \* the broker cannot append its queue row

ASSUME FaultsAssumption == Faults \subseteq FaultKinds

VARIABLES
    call,       \* where the agent's call is
    patience,   \* seconds until its HTTP timeout
    result      \* what the call concluded
VARIABLES
    net,        \* "up", or "down": messages are lost or late, connections break
    request,    \* the signed request
    reply       \* the broker's response
VARIABLES
    session,    \* where block_ip_on_router is, for each router
    left,       \* seconds until that phase times out
    status,     \* what it returned
    process,    \* the nft command on the router
    effect,     \* routers whose set this call's command has added the IP to
    before,     \* routers whose set held the IP already
    misled      \* routers whose follow-up answered "absent" after, or before,
                \* the command took effect (history)

agent == <<call, patience, result>>
wire == <<net, request, reply>>
ssh == <<session, left, status>>
router == <<process, effect, before, misled>>
vars == <<agent, wire, ssh, router>>

Phases == {"connect", "command", "verify_connect", "verify_command"}
Replies == {"none", "unbound", "refused", "error", "counted"}

TypeOK ==
    /\ call \in {"idle", "wait", "done"}
    /\ patience \in 0..25
    /\ result \in {"none", "ok", "failed", "unknown"}
    /\ net \in {"up", "down"}
    /\ request \in {"none", "inflight", "served", "lost"}
    /\ reply \in Replies
    /\ session \in [Routers -> Phases \cup {"idle", "done"}]
    /\ left \in [Routers -> 0..5]
    /\ status \in [Routers -> {"none", "success", "failed", "unknown"}]
    /\ process \in [Routers -> {"none", "running", "exit_0", "exit_1", "signaled"}]
    /\ effect \subseteq Routers /\ before \subseteq Routers /\ misled \subseteq Routers

AgentTimeout == 25

\* SSH_CONNECT_TIMEOUT and its relatives; the first attempt's used to be 10.
Limit_TenSeconds(phase) == IF phase \in {"connect", "command"} THEN 10 ELSE 3
Limit(phase) == IF phase \in {"connect", "command"} THEN 5 ELSE 3

Init ==
    /\ call = "idle" /\ patience = AgentTimeout /\ result = "none"
    /\ net = "up" /\ request = "none" /\ reply = "none"
    /\ session = [r \in Routers |-> "idle"]
    /\ left = [r \in Routers |-> 0]
    /\ status = [r \in Routers |-> "none"]
    /\ process = [r \in Routers |-> "none"]
    /\ effect = {} /\ before \in SUBSET Routers /\ misled = {}

-----------------------------------------------------------------------------
(* The agent: dispatch_block_via_broker.                                   *)

Post == /\ call = "idle"
        /\ call' = "wait"
        /\ request' = "inflight"
        /\ UNCHANGED <<patience, result, net, reply, ssh, router>>

Conclude(what) == /\ call = "wait"
                  /\ call' = "done"
                  /\ result' = what
                  /\ UNCHANGED <<patience, wire, ssh, router>>

\* requests.post raises: the timeout, or a connection that breaks.
GiveUp == /\ patience = 0 \/ net = "down"
          /\ Conclude("unknown")

Succeeded == {r \in Routers : status[r] = "success"}
Unconfirmed == {r \in Routers : status[r] = "unknown"}

\* What the answer proves.  A 500 may follow a dispatch that happened; a
\* signed error that does not echo the request id is bound to no call.
Meaning(answer) ==
    [ error   |-> "unknown",
      unbound |-> "unknown",
      refused |-> "failed",
      counted |-> IF Succeeded # {} THEN "ok"
                  ELSE IF Unconfirmed # {} THEN "unknown" ELSE "failed" ][answer]

Classify == reply # "none" /\ Conclude(Meaning(reply))

-----------------------------------------------------------------------------
(* The broker: dispatch_block.                                             *)

Enter(phase) == /\ session' = phase
                /\ left' = [r \in Routers |-> IF phase[r] = "connect" THEN Limit("connect")
                                                                      ELSE 0]

\* _verify may reject the request, unbound to the call; a bad address (400), an
\* excluded one or a tenant without routers is refused by name.  Otherwise
\* every router gets its session at once, a malformed entry none.
Receive ==
    /\ request = "inflight"
    /\ request' = "served"
    /\ \/ /\ \E answer \in {"unbound", "refused"} : reply' = answer
          /\ UNCHANGED ssh
       \/ /\ Routers # {}
          /\ \E malformed \in SUBSET Routers :
                /\ Enter([r \in Routers |-> IF r \in malformed THEN "done" ELSE "connect"])
                /\ status' = [r \in Routers |-> IF r \in malformed THEN "failed" ELSE "none"]
          /\ UNCHANGED reply
    /\ UNCHANGED <<agent, net, router>>

\* When every session is over the broker appends its "executed" row and
\* answers with the counts.
AnswerCounts ==
    /\ request = "served" /\ reply = "none"
    /\ \A r \in Routers : session[r] = "done"
    /\ \/ reply' = "counted"
       \/ "disk" \in Faults /\ reply' = "error"
    /\ UNCHANGED <<agent, net, request, ssh, router>>

NetworkFails == /\ "net" \in Faults
                /\ net = "up" /\ net' = "down"
                /\ UNCHANGED <<agent, request, reply, ssh, router>>

NetworkLoses == /\ net = "down"
                /\ request = "inflight"
                /\ request' = "lost"
                /\ UNCHANGED <<agent, net, reply, ssh, router>>

-----------------------------------------------------------------------------
(* One router: block_ip_on_router, _verify_block_applied.                  *)

Phase(r, from, to) == /\ session[r] = from
                      /\ session' = [session EXCEPT ![r] = to]
                      /\ left' = [left EXCEPT ![r] = IF to \in Phases THEN Limit(to) ELSE 0]
                      /\ UNCHANGED <<agent, wire>>

Return(r, from, what) == /\ Phase(r, from, "done")
                         /\ status' = [status EXCEPT ![r] = what]

Connect(r) ==
    \/ /\ Phase(r, "connect", "command")                    \* the command is sent
       /\ process' = [process EXCEPT ![r] = "running"]
       /\ UNCHANGED <<status, effect, before, misled>>
    \/ /\ Return(r, "connect", "failed")
       /\ UNCHANGED router

\* The command ends on the router.  A signal may strike before or after its
\* effect; what follows the effect on the way to exit 0 is atomic here.
Ends(r, how, applied) == /\ process[r] = "running"
                         /\ process' = [process EXCEPT ![r] = how]
                         /\ effect' = IF applied THEN effect \cup {r} ELSE effect
                         /\ UNCHANGED <<before, misled>>

RunCommand(r) == /\ \/ Ends(r, "exit_0", TRUE)
                    \/ Ends(r, "exit_1", FALSE)
                    \/ \E applied \in BOOLEAN : Ends(r, "signaled", applied)
                 /\ UNCHANGED <<agent, wire, ssh>>

\* The exit status reaches the broker.
Finish_SignalIsFailure(r) ==
    /\ \/ process[r] = "exit_0" /\ Return(r, "command", "success")
       \/ process[r] \in {"exit_1", "signaled"} /\ Return(r, "command", "failed")
    /\ UNCHANGED router

Finish(r) ==
    /\ \/ process[r] = "exit_0" /\ Return(r, "command", "success")
       \/ process[r] = "exit_1" /\ Return(r, "command", "failed")
       \/ /\ process[r] = "signaled"
          /\ Phase(r, "command", "verify_connect")
          /\ UNCHANGED status
    /\ UNCHANGED router

\* The session breaks, or its command times out.  A command still running is
\* killed some time later, or runs on to its end.
Break(r) == /\ Phase(r, "command", "verify_connect")
            /\ UNCHANGED <<status, router>>

\* The follow-up: an unreachable router stays unknown.
VerifyConnect(r) ==
    /\ \/ Phase(r, "verify_connect", "verify_command") /\ UNCHANGED status
       \/ Return(r, "verify_connect", "unknown")
    /\ UNCHANGED router

\* nft get element: "absent" is taken for a confirmed failure, "present" does
\* not prove success, and a signal or any other exit status is inconclusive.
Verdict_PresentIsSuccess(present) == IF present THEN "success" ELSE "failed"
Verdict(present) == IF present THEN "unknown" ELSE "failed"

\* Exit status 1, nft's generic failure, is read as "absent" even if the address
\* is there; and the command of the broken session may still add it.
VerifyCommand(r) ==
    /\ \/ /\ r \in before \cup effect
          /\ Return(r, "verify_command", Verdict(TRUE)) /\ UNCHANGED misled
       \/ /\ Return(r, "verify_command", Verdict(FALSE))
          /\ misled' = IF r \in effect \/ process[r] = "running" THEN misled \cup {r}
                                                               ELSE misled
       \/ Return(r, "verify_command", "unknown") /\ UNCHANGED misled
    /\ UNCHANGED <<process, effect, before>>

-----------------------------------------------------------------------------

\* A second passes.  No phase outlives its limit; while the network is up the
\* messages and the agent's reading of them take no time.
Tick ==
    /\ call = "wait" \/ \E r \in Routers : session[r] \in Phases
    /\ \A r \in Routers : session[r] \in Phases => left[r] > 0
    /\ call = "wait" => patience > 0
    /\ net = "up" => /\ request # "inflight"
                     /\ ~(call = "wait" /\ reply # "none")
                     /\ \E r \in Routers : session[r] # "done"
    /\ patience' = IF call = "wait" THEN patience - 1 ELSE patience
    /\ left' = [r \in Routers |-> IF session[r] \in Phases THEN left[r] - 1 ELSE 0]
    /\ UNCHANGED <<call, result, wire, session, status, router>>

RouterStep(r) == \/ Connect(r) \/ RunCommand(r) \/ Finish(r) \/ Break(r)
                 \/ VerifyConnect(r) \/ VerifyCommand(r)

Next == \/ Post \/ GiveUp \/ Classify
        \/ Receive \/ AnswerCounts \/ NetworkFails \/ NetworkLoses
        \/ \E r \in Routers : RouterStep(r)
        \/ Tick

Spec == Init /\ [][Next]_vars

-----------------------------------------------------------------------------
(* Properties.                                                             *)

\* The call keeps the promise that the approval path builds on: "ok" means
\* that the block took effect on a router, "failed" that it did not and never
\* will, so that the claim may be released for a retry.  A "failed" for which a
\* follow-up was misled promises no more than "unknown" does.
Word(what) == [ none    |-> "nothing",
                ok      |-> "executed",
                failed  |-> IF misled = {} THEN "failed" ELSE "unsure",
                unknown |-> "unsure" ][what]
Contract == INSTANCE ContainmentOnce
              WITH Requests <- {"call"},
                   landed <- IF effect = {} THEN {} ELSE {"call"},
                   told <- [c \in {"call"} |-> Word(result)]
ImplementsContract == Contract!Spec

\* "failed" (command confirmed NOT applied ...): no router has run the command
\* of a failed call, or still may.  The code does not keep this word.
FailedMeansUntouched ==
    result = "failed" => effect = {} /\ \A r \in Routers : process[r] # "running"

\* What it keeps: a router that did run the command of a failed call, or still
\* may, had a follow-up that answered "absent" all the same.  No signal, broken
\* session, timeout or lost reply alone turns into "failed".
FailedUnlessMisled ==
    result = "failed" =>
        \A r \in Routers : r \in effect \/ process[r] = "running" => r \in misled

\* A claim is only left stuck for a reason: on a working network the agent
\* concludes "unknown" because the broker said so, and never because it lost
\* patience while the broker was still within its own time limits ("a completed
\* reconciliation is never thrown away by the client").
UnknownHasReason ==
    result = "unknown" /\ net = "up" => \/ reply \in {"error", "unbound"}
                                        \/ reply = "counted" /\ Succeeded = {} /\ Unconfirmed # {}

\* The counts account for every command: a router counted as a success has the
\* block from this very call, present or not before, and a router that has it is
\* among the failures only if its follow-up was misled.
CountsAreHonest ==
    reply = "counted" => /\ Succeeded \subseteq effect
                         /\ \A r \in effect : status[r] = "failed" => r \in misled
=============================================================================
