---------------------------- MODULE ApprovalClaim ----------------------------
(***************************************************************************)
(* The approval path of the SOC agent for one drafted alert: every         *)
(* POST /approve runs Agent.execute_approved against two Elasticsearch     *)
(* documents of the alert (the phase checkpoint and the ".claim"           *)
(* document), dispatches the block through the broker, records the outcome *)
(* and finally moves the claim on.  The operator's recovery tool           *)
(* (manage_stuck_claims.py), the retention job                             *)
(* (compact_agent_checkpoints.py), agent crashes, failing or unacknowledged*)
(* Elasticsearch writes and late or lost broker exchanges run alongside.   *)
(*                                                                         *)
(* Documents of different alerts share nothing, so one alert is the        *)
(* general case.  A request is one run of execute_approved and is never    *)
(* reused: a retry is another element of Requests.                         *)
(*                                                                         *)
(* An operator named Definition_Change is Definition with one mistake; it  *)
(* is used nowhere and stands there to show that a property notices it.    *)
(***************************************************************************)
EXTENDS Naturals

CONSTANTS
    Requests,     \* the POST /approve requests for the alert
    Recoveries,   \* the runs of "manage_stuck_claims.py resolve --yes" for it
    Faults,       \* which faults may happen: a subset of FaultKinds
    MayForce         \* whether a recovery may pass --force

FaultKinds == {"es",       \* an Elasticsearch call fails, applied or not
               "net",      \* the broker exchange is lost or outlives its timeout
               "disk",     \* the approval-queue row cannot be written
               "crash"}    \* the agent process dies with all its requests

ASSUME FaultsAssumption == Faults \subseteq FaultKinds
ASSUME MayForceAssumption == MayForce \in BOOLEAN

VARIABLES
    ckpt,        \* phase of the checkpoint document, "none" when absent
    claim,       \* phase of the claim document, "none" when absent
    seq,         \* _seq_no of the last operation on the claim document
    row,         \* status of the alert's latest approval-queue row
    pc,          \* where each request is in execute_approved
    seen,        \* the _seq_no a request read from a RELEASED claim
    outcome,     \* what a request learnt of its own dispatch
    answer,      \* what a request was answered
    wire,        \* each request's /webhook/dispatch, from send to effect
    tool,        \* where each recovery is in cmd_resolve
    toolSeq,     \* the _seq_no a recovery read
    toolPhase    \* the transition its operator decided on

store == <<ckpt, claim, seq, row>>
local == <<pc, seen, outcome, answer>>
tools == <<tool, toolSeq, toolPhase>>
vars == <<store, local, wire, tools>>

Steps == {"idle", "create", "get", "reclaim",            \* before the claim is won
          "won", "context", "execute", "await",          \* holding it, outcome open
          "record", "log", "settle",                     \* holding it, outcome decided
          "done", "crashed"}
Undispatched == {"won", "context", "execute"}
Holding == Undispatched \cup {"await", "record", "log", "settle"}
Answers == {"none", "conflict", "unavailable", "no_context",
            "executed", "retryable", "isolation_failed", "isolation_unknown"}

TypeOK ==
    /\ ckpt \in {"none", "PENDING_APPROVAL", "EXECUTED"}
    /\ claim \in {"none", "CLAIMED", "RELEASED", "RESOLVED"}
    /\ seq \in Nat
    /\ row \in {"pending", "claimed", "approved", "isolation_failed", "isolation_unknown"}
    /\ pc \in [Requests -> Steps]
    /\ seen \in [Requests -> Nat]
    /\ outcome \in [Requests -> {"none", "ok", "failed", "unknown"}]
    /\ answer \in [Requests -> Answers]
    /\ wire \in [Requests -> {"none", "inflight", "landed", "refused", "lost"}]
    /\ tool \in [Recoveries -> {"idle", "confirm", "done"}]
    /\ toolSeq \in [Recoveries -> Nat]
    /\ toolPhase \in [Recoveries -> {"none", "RELEASED", "RESOLVED"}]

\* run() has drafted the response: the checkpoint is PENDING_APPROVAL, the
\* queue holds its "pending" row and no claim document exists yet.
Init ==
    /\ ckpt = "PENDING_APPROVAL"
    /\ claim = "none"
    /\ seq = 0
    /\ row = "pending"
    /\ pc = [h \in Requests |-> "idle"]
    /\ seen = [h \in Requests |-> 0]
    /\ outcome = [h \in Requests |-> "none"]
    /\ answer = [h \in Requests |-> "none"]
    /\ wire = [h \in Requests |-> "none"]
    /\ tool = [r \in Recoveries |-> "idle"]
    /\ toolSeq = [r \in Recoveries |-> 0]
    /\ toolPhase = [r \in Recoveries |-> "none"]

-----------------------------------------------------------------------------
(* Helpers: control flow of a request and writes of the claim document.    *)

Goto(h, from, to) == /\ pc[h] = from
                     /\ pc' = [pc EXCEPT ![h] = to]

Reply(h, from, word) == /\ Goto(h, from, "done")
                        /\ answer' = [answer EXCEPT ![h] = word]

\* Every indexing or deletion of the document takes the next sequence number.
WriteClaim(phase) == /\ claim' = phase
                     /\ seq' = seq + 1

\* _transition_claim: a partial update; on a missing document (404) it
\* reports success and writes nothing.
TransitionClaim(phase) == IF claim = "none" THEN UNCHANGED <<claim, seq>>
                                            ELSE WriteClaim(phase)

-----------------------------------------------------------------------------
(* execute_approved, one action per store or network call.                 *)

\* is_awaiting_approval: only a PENDING_APPROVAL checkpoint goes on.
CheckPhase(h) ==
    /\ \/ ckpt = "PENDING_APPROVAL" /\ Goto(h, "idle", "create") /\ UNCHANGED answer
       \/ ckpt # "PENDING_APPROVAL" /\ Reply(h, "idle", "conflict")
       \/ "es" \in Faults /\ Reply(h, "idle", "unavailable")
    /\ UNCHANGED <<store, seen, outcome, wire, tools>>

\* claim_approval, first writer: PUT _create, which only succeeds on a
\* missing document.  An unacknowledged write may still have been applied.
CreateClaim(h) ==
    /\ \/ /\ claim = "none"
          /\ WriteClaim("CLAIMED")
          /\ \/ Goto(h, "create", "won") /\ UNCHANGED answer
             \/ "es" \in Faults /\ Reply(h, "create", "unavailable")
       \/ /\ claim # "none"
          /\ Goto(h, "create", "get")
          /\ UNCHANGED <<claim, seq, answer>>
       \/ /\ "es" \in Faults
          /\ Reply(h, "create", "unavailable")
          /\ UNCHANGED <<claim, seq>>
    /\ UNCHANGED <<ckpt, row, seen, outcome, wire, tools>>

\* claim_approval after the 409: only a RELEASED claim may be won again.  A
\* claim deleted since then answers 404, which raises.
GetClaim(h) ==
    /\ \/ /\ claim = "RELEASED"
          /\ seen' = [seen EXCEPT ![h] = seq]
          /\ Goto(h, "get", "reclaim")
          /\ UNCHANGED answer
       \/ /\ claim \in {"CLAIMED", "RESOLVED"}
          /\ Reply(h, "get", "conflict")
          /\ UNCHANGED seen
       \/ /\ claim = "none" \/ "es" \in Faults
          /\ Reply(h, "get", "unavailable")
          /\ UNCHANGED seen
    /\ UNCHANGED <<store, outcome, wire, tools>>

\* claim_approval, the conditional PUT keyed on if_seq_no.
ReclaimIf(h, current) ==
    /\ \/ /\ current
          /\ WriteClaim("CLAIMED")
          /\ \/ Goto(h, "reclaim", "won") /\ UNCHANGED answer
             \/ "es" \in Faults /\ Reply(h, "reclaim", "unavailable")
       \/ /\ ~current
          /\ Reply(h, "reclaim", "conflict")
          /\ UNCHANGED <<claim, seq>>
       \/ /\ "es" \in Faults
          /\ Reply(h, "reclaim", "unavailable")
          /\ UNCHANGED <<claim, seq>>
    /\ UNCHANGED <<ckpt, row, seen, outcome, wire, tools>>

ReclaimClaim_Unconditional(h) == ReclaimIf(h, claim # "none")
ReclaimClaim(h) == ReclaimIf(h, seen[h] = seq)

\* The "claimed" row of the audit mirror; a write failure is only logged.
AppendRow(status) == \/ row' = status
                     \/ "disk" \in Faults /\ UNCHANGED row

LogClaimed(h) ==
    /\ Goto(h, "won", "context")
    /\ AppendRow("claimed")
    /\ UNCHANGED <<ckpt, claim, seq, seen, outcome, answer, wire, tools>>

\* read_checkpoint again, now for the alert's context.  Whatever goes wrong
\* here leaves the claim CLAIMED.  perceive() and the tenant comparison that
\* follow only compute, from the payload they passed at intake: they refuse a
\* document only when something else has rewritten it.
ReadContext(h) ==
    /\ \/ ckpt # "none" /\ Goto(h, "context", "execute") /\ UNCHANGED answer
       \/ ckpt = "none" /\ Reply(h, "context", "no_context")
       \/ "es" \in Faults /\ Reply(h, "context", "unavailable")
    /\ UNCHANGED <<store, seen, outcome, wire, tools>>

\* _execute_isolation: refuse locally (protected asset, no usable address, no
\* secret), a confirmed non-dispatch, or send the signed request.
Execute(h) ==
    /\ \/ /\ Goto(h, "execute", "record")
          /\ outcome' = [outcome EXCEPT ![h] = "failed"]
          /\ UNCHANGED wire
       \/ /\ Goto(h, "execute", "await")
          /\ wire' = [wire EXCEPT ![h] = "inflight"]
          /\ UNCHANGED outcome
    /\ UNCHANGED <<store, seen, answer, tools>>

\* dispatch_block_via_broker: what the broker's answer, or its absence, says.
Learned(h, what) == /\ Goto(h, "await", "record")
                    /\ outcome' = [outcome EXCEPT ![h] = what]

AwaitBroker_TimeoutIsFailure(h) ==
    /\ \/ wire[h] = "landed" /\ Learned(h, "ok")
       \/ wire[h] = "refused" /\ Learned(h, "failed")
       \/ "net" \in Faults /\ Learned(h, "failed")
    /\ UNCHANGED <<store, seen, answer, wire, tools>>

AwaitBroker(h) ==
    /\ \/ wire[h] = "landed" /\ Learned(h, "ok")
       \/ wire[h] = "refused" /\ Learned(h, "failed")
       \/ "net" \in Faults /\ Learned(h, "unknown")
    /\ UNCHANGED <<store, seen, answer, wire, tools>>

\* check(): the outcome's phase replaces the checkpoint; an error is only
\* marked in the health index.
PhaseAfter_Autonomous(what) == IF what = "ok" THEN "EXECUTED" ELSE "ISOLATION_FAILED"
PhaseAfter(what) == IF what = "ok" THEN "EXECUTED" ELSE "PENDING_APPROVAL"

RecordPhase(h) ==
    /\ Goto(h, "record", "log")
    /\ \/ ckpt' = PhaseAfter(outcome[h])
       \/ "es" \in Faults /\ UNCHANGED ckpt
    /\ UNCHANGED <<claim, seq, row, seen, outcome, answer, wire, tools>>

RowAfter_FailedIsApproved(what) == IF what = "unknown" THEN "isolation_unknown"
                                                       ELSE "approved"
RowAfter(what) == CASE what = "ok" -> "approved"
                    [] what = "failed" -> "isolation_failed"
                    [] OTHER -> "isolation_unknown"

LogOutcome(h) ==
    /\ Goto(h, "log", "settle")
    /\ AppendRow(RowAfter(outcome[h]))
    /\ UNCHANGED <<ckpt, claim, seq, seen, outcome, answer, wire, tools>>

\* The claim transition, deliberately last and unconditional: resolve_claim
\* on success, release_claim on a confirmed non-dispatch, nothing when the
\* outcome is unknown.  Only an acknowledged release is answered retryable.
SettleAs(h, phase, acked, unacked) ==
    \/ TransitionClaim(phase) /\ Reply(h, "settle", acked)
    \/ "es" \in Faults /\ TransitionClaim(phase) /\ Reply(h, "settle", unacked)
    \/ "es" \in Faults /\ UNCHANGED <<claim, seq>> /\ Reply(h, "settle", unacked)

SettleClaim_UnknownReleases(h) ==
    /\ \/ outcome[h] = "ok" /\ SettleAs(h, "RESOLVED", "executed", "executed")
       \/ outcome[h] # "ok" /\ SettleAs(h, "RELEASED", "retryable", "isolation_failed")
    /\ UNCHANGED <<ckpt, row, seen, outcome, wire, tools>>

SettleClaim_NeverResolves(h) ==
    /\ \/ /\ outcome[h] = "failed"
          /\ SettleAs(h, "RELEASED", "retryable", "isolation_failed")
       \/ /\ outcome[h] # "failed"
          /\ Reply(h, "settle", IF outcome[h] = "ok" THEN "executed" ELSE "isolation_unknown")
          /\ UNCHANGED <<claim, seq>>
    /\ UNCHANGED <<ckpt, row, seen, outcome, wire, tools>>

SettleClaim(h) ==
    /\ \/ /\ outcome[h] = "ok"
          /\ SettleAs(h, "RESOLVED", "executed", "executed")
       \/ /\ outcome[h] = "failed"
          /\ SettleAs(h, "RELEASED", "retryable", "isolation_failed")
       \/ /\ outcome[h] = "unknown"
          /\ Reply(h, "settle", "isolation_unknown")
          /\ UNCHANGED <<claim, seq>>
    /\ UNCHANGED <<ckpt, row, seen, outcome, wire, tools>>

\* The agent runs in one process: a crash ends every request in progress.
\* What is on the wire or in the store stays as it is.
Crash ==
    /\ "crash" \in Faults
    /\ \E h \in Requests : pc[h] \notin {"idle", "done", "crashed"}
    /\ pc' = [h \in Requests |->
                 IF pc[h] \in {"idle", "done"} THEN pc[h] ELSE "crashed"]
    /\ UNCHANGED <<store, seen, outcome, answer, wire, tools>>

-----------------------------------------------------------------------------
(* The broker's side of one dispatch: it takes effect, is refused or fails  *)
(* on every router, or never arrives.  It may take effect after the agent   *)
(* has stopped waiting for it.                                             *)

WireStep(h, fate) == /\ wire[h] = "inflight"
                     /\ wire' = [wire EXCEPT ![h] = fate]
                     /\ UNCHANGED <<store, local, tools>>

BrokerApplies(h) == WireStep(h, "landed")
BrokerRefuses(h) == WireStep(h, "refused")
NetworkLoses(h) == "net" \in Faults /\ WireStep(h, "lost")

-----------------------------------------------------------------------------
(* manage_stuck_claims.py resolve: read, let the operator decide, write     *)
(* conditionally on the version read.                                      *)

\* What the operator can establish on the routers and in the logs.
BlockLanded == \E h \in Requests : wire[h] = "landed"
NoBlockComing == \A h \in Requests : /\ wire[h] \notin {"inflight", "landed"}
                                     /\ pc[h] \notin Undispatched

\* The staleness bar (30 minutes by default) is far above the sum of the
\* timeouts of one request, so a claim past it has no request left holding it.
Stale == \A h \in Requests : pc[h] \notin Holding

InspectClaim(r) ==
    /\ tool[r] = "idle"
    /\ \/ /\ claim = "CLAIMED"
          /\ Stale \/ MayForce
          /\ \E phase \in {"RELEASED", "RESOLVED"} :
                /\ phase = "RELEASED" => NoBlockComing
                /\ phase = "RESOLVED" => BlockLanded
                /\ toolPhase' = [toolPhase EXCEPT ![r] = phase]
          /\ tool' = [tool EXCEPT ![r] = "confirm"]
          /\ toolSeq' = [toolSeq EXCEPT ![r] = seq]
       \/ /\ claim # "CLAIMED" \/ ~Stale       \* "Refusing: ..."
          /\ tool' = [tool EXCEPT ![r] = "done"]
          /\ UNCHANGED <<toolSeq, toolPhase>>
    /\ UNCHANGED <<store, local, wire>>

ToolWrites(r, current) ==
    /\ tool[r] = "confirm"
    /\ tool' = [tool EXCEPT ![r] = "done"]
    /\ \/ current /\ WriteClaim(toolPhase[r])
       \/ /\ ~current \/ "es" \in Faults        \* 409, 404 or an error
          /\ UNCHANGED <<claim, seq>>
    /\ UNCHANGED <<ckpt, row, local, wire, toolSeq, toolPhase>>

TransitionStuckClaim_Unconditional(r) == ToolWrites(r, claim # "none")
TransitionStuckClaim(r) == ToolWrites(r, toolSeq[r] = seq)

-----------------------------------------------------------------------------
(* compact_agent_checkpoints.py: the delete-by-query removes a document only *)
(* at the version its scan matched, so scan and delete are one step.  A     *)
(* document past the retention (90 days) is stale in the sense above.       *)

DeletablePhases_Resolved == {"RELEASED", "RESOLVED"}
DeletablePhases == {"RELEASED"}

CompactClaim == /\ claim \in DeletablePhases /\ Stale
                /\ WriteClaim("none")
                /\ UNCHANGED <<ckpt, row, local, wire, tools>>

TerminalPhases_WithDrafts == {"PENDING_APPROVAL", "EXECUTED"}
TerminalPhases == {"NO_ACTION_PROTECTED_ASSET", "AUTO_ISOLATED", "EXECUTED",
                   "ISOLATION_FAILED"}
CompactCheckpoint == /\ ckpt \in TerminalPhases /\ Stale
                     /\ ckpt' = "none"
                     /\ UNCHANGED <<claim, seq, row, local, wire, tools>>

-----------------------------------------------------------------------------

RequestStep(h) == \/ CheckPhase(h) \/ CreateClaim(h) \/ GetClaim(h) \/ ReclaimClaim(h)
                  \/ LogClaimed(h) \/ ReadContext(h) \/ Execute(h) \/ AwaitBroker(h)
                  \/ RecordPhase(h) \/ LogOutcome(h) \/ SettleClaim(h)

BrokerStep(h) == BrokerApplies(h) \/ BrokerRefuses(h) \/ NetworkLoses(h)

RecoveryStep(r) == InspectClaim(r) \/ TransitionStuckClaim(r)

Next == \/ \E h \in Requests : RequestStep(h) \/ BrokerStep(h)
        \/ \E r \in Recoveries : RecoveryStep(r)
        \/ CompactClaim \/ CompactCheckpoint
        \/ Crash

Spec == Init /\ [][Next]_vars

-----------------------------------------------------------------------------
(* Properties.                                                             *)

\* Between winning the claim and moving it on, a request is alone: two
\* /approve runs never both believe the alert is theirs to execute
\* (claim_approval), and while one does the document reads CLAIMED.
SingleHolder ==
    \A g, h \in Requests : pc[g] \in Holding /\ pc[h] \in Holding
                            => g = h /\ claim = "CLAIMED"

\* At most one request's block is ever on its way or on the routers, across
\* retries, lost acknowledgements, crashes, operator recoveries and
\* retention: "at most one /approve execution wins".
Dispatched(h) == wire[h] \in {"inflight", "landed"}
AtMostOneDispatch ==
    \A g, h \in Requests : Dispatched(g) /\ Dispatched(h) => g = h

\* A claim open to be won (absent or RELEASED) means no block of an earlier
\* attempt is on the routers or can still reach them: release_claim is only
\* for confirmed non-dispatches.
OpenClaimIsClean ==
    claim \in {"none", "RELEASED"} =>
        \A h \in Requests : ~Dispatched(h) /\ pc[h] \notin Holding

\* What the checkpoint and the approval queue report as executed did land,
\* and the claim can no longer be won.
RecordsTellTruth ==
    ckpt = "EXECUTED" \/ row = "approved" =>
        BlockLanded /\ claim \in {"CLAIMED", "RESOLVED"}

\* A recorded success is never overwritten by the bookkeeping of a slower,
\* older attempt: the reason the claim transition is the last write.
SuccessIsFinal ==
    [][/\ ckpt = "EXECUTED" => ckpt' \in {"EXECUTED", "none"}
       /\ row = "approved" => row' = "approved"
       /\ claim = "RESOLVED" => claim' = "RESOLVED"]_vars

\* The approval path implements ContainmentOnce: its answers are those of a
\* service that applies at most one block per alert and never lies about it.
Word(a) == CASE a = "none" -> "nothing"
             [] a = "executed" -> "executed"
             [] a = "isolation_unknown" -> "unsure"
             [] OTHER -> "failed"
Abstract == INSTANCE ContainmentOnce
              WITH landed <- {h \in Requests : wire[h] = "landed"},
                   told <- [h \in Requests |-> Word(answer[h])]
ImplementsContainmentOnce == Abstract!Spec

\* As long as store and process stay up, a claim only stays CLAIMED for a
\* reason: whoever wins it releases or resolves it, so a failed isolation can
\* always be retried, or has answered that the outcome is unknown.
ClaimsSettle ==
    claim = "CLAIMED" ~> \/ claim # "CLAIMED"
                         \/ \E h \in Requests : answer[h] = "isolation_unknown"
=============================================================================
