---------------------------- MODULE AlertLifecycle ----------------------------
(***************************************************************************)
(* One alert of the SOC agent from its webhook deliveries to containment.  *)
(* Logstash may deliver the same alert several times; deliveries within    *)
(* one five-minute bucket share a dedup key and so one alert id, and the   *)
(* agent's thread pool runs them concurrently (Agent.run).  The approval   *)
(* requests, operator recoveries, retention and faults of ApprovalClaim    *)
(* run alongside, from the moment there is anything to approve.            *)
(*                                                                         *)
(* What the policy decides (excluded asset, autonomous isolation, draft)   *)
(* depends on the address, MAC and severity, which are part of the key:    *)
(* every delivery of the alert decides the same.                           *)
(***************************************************************************)
EXTENDS ApprovalClaim

CONSTANTS
    Deliveries,   \* the POST /alert deliveries that share the dedup key
    Policies      \* the policies considered, a subset of PolicyKinds

PolicyKinds == {"protected", "autonomous", "draft"}
ASSUME PoliciesAssumption == Policies \subseteq PolicyKinds

VARIABLES
    policy,      \* what act() decides for this alert
    dpc,         \* where each delivery is in Agent.run
    dphase,      \* the phase act() has returned to a delivery
    danswer,     \* what a delivery was answered
    dwire        \* an autonomous delivery's /webhook/dispatch

delivery == <<policy, dpc, dphase, danswer, dwire>>
lifecycleVars == <<vars, delivery>>

InProgress == {"perceive", "act", "await", "check"}
LifecyclePhases == {"none", "PERCEIVING", "PENDING_APPROVAL"} \cup TerminalPhases

\* The checkpoint takes all its phases here and the queue may hold no row yet;
\* the variables of the approval path keep their types.
LifecycleTypeOK ==
    /\ ckpt \in LifecyclePhases
    /\ claim \in {"none", "CLAIMED", "RELEASED", "RESOLVED"}
    /\ row \in {"none", "pending", "claimed", "approved",
                "isolation_failed", "isolation_unknown"}
    /\ policy \in Policies
    /\ dpc \in [Deliveries -> {"idle", "done", "crashed"} \cup InProgress]
    /\ dphase \in [Deliveries -> {"none", "PENDING_APPROVAL"} \cup TerminalPhases]
    /\ danswer \in [Deliveries -> {"none", "ignored", "error", "PENDING_APPROVAL"}
                                     \cup TerminalPhases]
    /\ dwire \in [Deliveries -> {"none", "inflight", "landed", "refused", "lost"}]

LifecycleInit ==
    /\ ckpt = "none" /\ claim = "none" /\ seq = 0 /\ row = "none"
    /\ pc = [h \in Requests |-> "idle"]
    /\ seen = [h \in Requests |-> 0]
    /\ outcome = [h \in Requests |-> "none"]
    /\ answer = [h \in Requests |-> "none"]
    /\ wire = [h \in Requests |-> "none"]
    /\ tool = [r \in Recoveries |-> "idle"]
    /\ toolSeq = [r \in Recoveries |-> 0]
    /\ toolPhase = [r \in Recoveries |-> "none"]
    /\ policy \in Policies
    /\ dpc = [d \in Deliveries |-> "idle"]
    /\ dphase = [d \in Deliveries |-> "none"]
    /\ danswer = [d \in Deliveries |-> "none"]
    /\ dwire = [d \in Deliveries |-> "none"]

-----------------------------------------------------------------------------
(* Agent.run, one action per store or network call.                        *)

Move(d, from, to) == /\ dpc[d] = from
                     /\ dpc' = [dpc EXCEPT ![d] = to]

Respond(d, from, word) == /\ Move(d, from, "done")
                          /\ danswer' = [danswer EXCEPT ![d] = word]

Decide(d, from, to, phase) == /\ Move(d, from, to)
                              /\ dphase' = [dphase EXCEPT ![d] = phase]

\* is_duplicate, failing open, and then the technique suppression, whose own
\* documents are another matter: it may ignore the delivery as well.
CheckDuplicate(d) ==
    /\ \/ /\ ckpt = "none" \/ "es" \in Faults
          /\ Move(d, "idle", "perceive")
          /\ UNCHANGED danswer
       \/ Respond(d, "idle", "ignored")             \* a duplicate, or suppressed
    /\ UNCHANGED <<vars, policy, dphase, dwire>>

\* write_checkpoint is a full, unconditional PUT; its failure is tolerated.
PutCheckpoint(phase) == \/ ckpt' = phase
                        \/ "es" \in Faults /\ UNCHANGED ckpt

WritePerceiving(d) ==
    /\ Move(d, "perceive", "act")
    /\ PutCheckpoint("PERCEIVING")
    /\ UNCHANGED <<claim, seq, row, local, wire, tools, policy, dphase, danswer, dwire>>

\* act() on an excluded asset: nothing is done about it.
ActProtected(d) ==
    /\ policy = "protected"
    /\ Decide(d, "act", "check", "NO_ACTION_PROTECTED_ASSET")
    /\ UNCHANGED <<vars, policy, danswer, dwire>>

\* act() on its own authority: _execute_isolation without any claim.
ActAutonomous(d) ==
    /\ policy = "autonomous"
    /\ \/ /\ Move(d, "act", "await")
          /\ dwire' = [dwire EXCEPT ![d] = "inflight"]
          /\ UNCHANGED dphase
       \/ /\ Decide(d, "act", "check", "ISOLATION_FAILED")
          /\ UNCHANGED dwire
    /\ UNCHANGED <<vars, policy, danswer>>

\* An unknown outcome is handled as a failed one.
AwaitAutonomous(d) ==
    /\ \/ dwire[d] = "landed" /\ Decide(d, "await", "check", "AUTO_ISOLATED")
       \/ /\ dwire[d] = "refused" \/ "net" \in Faults
          /\ Decide(d, "await", "check", "ISOLATION_FAILED")
    /\ UNCHANGED <<vars, policy, danswer, dwire>>

\* act() drafts: the "pending" row goes to the approval queue first.  A row
\* that cannot be written ends the delivery with a server error.
ActDraft_Tolerant(d) ==
    /\ policy = "draft"
    /\ AppendRow("pending")
    /\ Decide(d, "act", "check", "PENDING_APPROVAL")
    /\ UNCHANGED <<ckpt, claim, seq, local, wire, tools, policy, danswer, dwire>>

ActDraft(d) ==
    /\ policy = "draft"
    /\ \/ /\ row' = "pending"
          /\ Decide(d, "act", "check", "PENDING_APPROVAL")
          /\ UNCHANGED danswer
       \/ /\ "disk" \in Faults
          /\ Respond(d, "act", "error")
          /\ UNCHANGED <<row, dphase>>
    /\ UNCHANGED <<ckpt, claim, seq, local, wire, tools, policy, dwire>>

\* check() and the answer, which tells the phase whether or not it was stored.
Check_Skipped(d) ==
    /\ Respond(d, "check", dphase[d])
    /\ UNCHANGED <<vars, policy, dphase, dwire>>

Check_StoresAnswerWord(d) ==
    /\ Respond(d, "check", dphase[d])
    /\ PutCheckpoint(IF dphase[d] = "PENDING_APPROVAL" THEN "drafted" ELSE dphase[d])
    /\ UNCHANGED <<claim, seq, row, local, wire, tools, policy, dphase, dwire>>

Check(d) ==
    /\ Respond(d, "check", dphase[d])
    /\ PutCheckpoint(dphase[d])
    /\ UNCHANGED <<claim, seq, row, local, wire, tools, policy, dphase, dwire>>

-----------------------------------------------------------------------------
(* The broker's side of an autonomous dispatch.                            *)

AutonomousWire(d) == /\ dwire[d] = "inflight"
                     /\ \/ dwire' = [dwire EXCEPT ![d] = "landed"]
                        \/ dwire' = [dwire EXCEPT ![d] = "refused"]
                        \/ /\ "net" \in Faults
                           /\ dwire' = [dwire EXCEPT ![d] = "lost"]
                     /\ UNCHANGED <<vars, policy, dpc, dphase, danswer>>

\* The agent's process takes its deliveries with it.
AgentCrash ==
    /\ "crash" \in Faults
    /\ \/ \E h \in Requests : pc[h] \notin {"idle", "done", "crashed"}
       \/ \E d \in Deliveries : dpc[d] \in InProgress
    /\ pc' = [h \in Requests |-> IF pc[h] \in {"idle", "done"} THEN pc[h] ELSE "crashed"]
    /\ dpc' = [d \in Deliveries |-> IF dpc[d] \in InProgress THEN "crashed" ELSE dpc[d]]
    /\ UNCHANGED <<store, seen, outcome, answer, wire, tools,
                   policy, dphase, danswer, dwire>>

\* A retention of 90 days is far beyond the five minutes of the alert's key.
BucketOver == \A d \in Deliveries : dpc[d] \in {"done", "crashed"}

-----------------------------------------------------------------------------

DeliveryStep(d) == \/ CheckDuplicate(d) \/ WritePerceiving(d)
                   \/ ActProtected(d) \/ ActAutonomous(d) \/ AwaitAutonomous(d)
                   \/ ActDraft(d) \/ Check(d)

\* A step of the approval path proper, without the agent's crash.
ApprovalStep == \/ \E h \in Requests : RequestStep(h) \/ BrokerStep(h)
                \/ \E r \in Recoveries : RecoveryStep(r)
                \/ BucketOver /\ (CompactClaim \/ CompactCheckpoint)

LifecycleNext == \/ \E d \in Deliveries : DeliveryStep(d) \/ AutonomousWire(d)
                 \/ ApprovalStep /\ UNCHANGED delivery
                 \/ AgentCrash

LifecycleSpec == LifecycleInit /\ [][LifecycleNext]_lifecycleVars

\* The thread pool finishes every delivery and request it has begun, and the
\* broker serves what reaches it.  Nobody owes a delivery or an approval.
LifecycleFairSpec ==
    /\ LifecycleSpec
    /\ \A d \in Deliveries : /\ WF_lifecycleVars(DeliveryStep(d) /\ dpc[d] # "idle")
                             /\ WF_lifecycleVars(AutonomousWire(d))
    /\ \A h \in Requests :
          /\ WF_lifecycleVars(RequestStep(h) /\ pc[h] # "idle" /\ UNCHANGED delivery)
          /\ WF_lifecycleVars(BrokerStep(h) /\ UNCHANGED delivery)

-----------------------------------------------------------------------------
(* Properties.                                                             *)

\* However often an alert is delivered and approved, at most one block is
\* dispatched for it: "duplicate execution is independently blocked by
\* claim_approval()" (Agent.run).
AutoDispatched(d) == dwire[d] \in {"inflight", "landed"}
OneContainment ==
    /\ AtMostOneDispatch
    /\ \A c, d \in Deliveries : AutoDispatched(c) /\ AutoDispatched(d) => c = d
    /\ \A h \in Requests, d \in Deliveries : ~(Dispatched(h) /\ AutoDispatched(d))

\* What can be approved can be seen: an alert whose checkpoint awaits approval
\* has a row in the approval queue (act() appends before check() writes).
DraftIsQueued == ckpt = "PENDING_APPROVAL" => row # "none"

\* An alert reported "drafted" and not touched since can be approved: with no
\* claim and nobody at work its checkpoint awaits approval.  The caller was
\* told so and /pending lists it.
Untouched == /\ claim = "none"
             /\ \A h \in Requests : pc[h] = "idle"
             /\ \A d \in Deliveries : dpc[d] \notin InProgress
DraftCanBeApproved ==
    Untouched /\ (\E d \in Deliveries : danswer[d] = "PENDING_APPROVAL")
        => ckpt = "PENDING_APPROVAL"

\* Only an approved execution is final in the queue: its row is not turned
\* back into a pending one by a duplicate draft ("a duplicate draft is
\* harmless").
DuplicateDraftIsHarmless == [][row = "approved" => row' = "approved"]_lifecycleVars

\* Every alert that passed the duplicate check is seen through to a decision
\* that its checkpoint records.
AlertIsDecided == ckpt = "PERCEIVING" ~> ckpt \in LifecyclePhases \ {"none", "PERCEIVING"}
=============================================================================
