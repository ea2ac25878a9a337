------------------------ MODULE ApprovalClaim_proofs ------------------------
(***************************************************************************)
(* Proofs about the approval of an alert and what happens around it, for   *)
(* any sets of requests, recoveries and deliveries, any faults and any     *)
(* bounds.                                                                 *)
(*                                                                         *)
(* The first part is about ApprovalClaim alone: one block per alert, true  *)
(* records and answers, and the refinement of ContainmentOnce, as long as  *)
(* recoveries respect the staleness bar (no --force).                      *)
(*                                                                         *)
(* The second is about AlertLifecycle.  Deliveries only write the          *)
(* checkpoint and the queue, on which the safety of the claim does not     *)
(* rest (ClaimInv of the first part), so duplicates never lead to a second *)
(* block unless the policy lets the agent block on its own authority.      *)
(*                                                                         *)
(* The third is about ClaimWatch: what a sampling run learns of the claim  *)
(* in several unsynchronised queries, whatever the approval path, the      *)
(* retention and forced recoveries do between them.                        *)
(***************************************************************************)
EXTENDS AlertLifecycle, ClaimWatch, TLAPS

-----------------------------------------------------------------------------
(* The inductive invariant.                                                *)

\* A dispatch belongs to the request holding the claim, if there is a holder.
HolderOwnsDispatch ==
    \A g, h \in Requests : Dispatched(g) /\ pc[h] \in Holding => g = h

\* Before it executes a request has nothing on the wire, and until the broker
\* answers it has learnt nothing.
NothingSentEarly ==
    \A h \in Requests :
        pc[h] \in {"idle", "create", "get", "reclaim", "await"} \cup Undispatched =>
            /\ outcome[h] = "none"
            /\ pc[h] # "await" => wire[h] = "none"

\* A decided outcome is what happened to the request's dispatch.
OutcomeIsFact ==
    \A h \in Requests :
        /\ pc[h] \in {"record", "log", "settle"} => outcome[h] \in {"ok", "failed", "unknown"}
        /\ outcome[h] = "failed" => wire[h] \in {"none", "refused"}
        /\ outcome[h] = "ok" => wire[h] = "landed"

\* A version read earlier and still current identifies what was read.
VersionsAreFresh ==
    /\ \A h \in Requests :
          pc[h] = "reclaim" => /\ seen[h] <= seq
                               /\ seen[h] = seq => claim = "RELEASED"
    /\ \A r \in Recoveries :
          tool[r] = "confirm" =>
             /\ toolSeq[r] <= seq
             /\ toolPhase[r] \in {"RELEASED", "RESOLVED"}
             /\ toolSeq[r] = seq =>
                   /\ claim = "CLAIMED"
                   /\ Stale
                   /\ toolPhase[r] = "RELEASED" => NoBlockComing
                   /\ toolPhase[r] = "RESOLVED" => BlockLanded

\* A recorded success was learnt by the request whose block landed.
RecordedByWinner ==
    ckpt = "EXECUTED" \/ row = "approved" =>
        \E g \in Requests : wire[g] = "landed" /\ outcome[g] = "ok"

\* Answers match the fate of the dispatch.
AnswersAreFacts ==
    \A h \in Requests :
        /\ pc[h] # "done" => answer[h] = "none"
        /\ answer[h] = "executed" => wire[h] = "landed"
        /\ Word(answer[h]) = "failed" => /\ wire[h] \in {"none", "refused"}
                                         /\ pc[h] = "done"

\* Who holds the claim and what is on the wire.
ClaimSafety == /\ SingleHolder /\ AtMostOneDispatch /\ OpenClaimIsClean
               /\ HolderOwnsDispatch /\ NothingSentEarly

\* What was learnt, recorded and answered.
RecordSafety == OutcomeIsFact /\ RecordedByWinner /\ AnswersAreFacts

IInv == TypeOK /\ ClaimSafety /\ VersionsAreFresh /\ RecordSafety

\* The part of it that does not speak of the checkpoint and the queue, which
\* others write as well when the alert is still being delivered: it is
\* inductive by itself.
ClaimTypes ==
    /\ claim \in {"none", "CLAIMED", "RELEASED", "RESOLVED"}
    /\ seq \in Nat
    /\ pc \in [Requests -> Steps]
    /\ seen \in [Requests -> Nat]
    /\ outcome \in [Requests -> {"none", "ok", "failed", "unknown"}]
    /\ answer \in [Requests -> Answers]
    /\ wire \in [Requests -> {"none", "inflight", "landed", "refused", "lost"}]
    /\ tool \in [Recoveries -> {"idle", "confirm", "done"}]
    /\ toolSeq \in [Recoveries -> Nat]
    /\ toolPhase \in [Recoveries -> {"none", "RELEASED", "RESOLVED"}]

Facts == OutcomeIsFact /\ AnswersAreFacts

ClaimInv == ClaimTypes /\ ClaimSafety /\ VersionsAreFresh /\ Facts

-----------------------------------------------------------------------------
(* Every action preserves ClaimInv.                                        *)

\* is_awaiting_approval only reads.
LEMMA CheckPhaseKeeps ==
  ASSUME ClaimInv, NEW h \in Requests, CheckPhase(h)
  PROVE  ClaimInv'
<1>1. ClaimTypes'
  BY DEFS ClaimInv, ClaimTypes, CheckPhase, Goto, Reply, store, tools, Steps,
          Answers
<1>2. ClaimSafety'
  BY DEFS ClaimInv, ClaimTypes, CheckPhase, Goto, Reply, store, tools,
          ClaimSafety, SingleHolder, AtMostOneDispatch, OpenClaimIsClean,
          HolderOwnsDispatch, NothingSentEarly, Dispatched, Holding,
          Undispatched, Facts, OutcomeIsFact, AnswersAreFacts, Word, Steps
<1>3. VersionsAreFresh'
  BY DEFS ClaimInv, ClaimTypes, CheckPhase, Goto, Reply, store, tools,
          ClaimSafety, SingleHolder, AtMostOneDispatch, OpenClaimIsClean,
          HolderOwnsDispatch, NothingSentEarly, Dispatched, Holding,
          Undispatched, VersionsAreFresh, Stale, NoBlockComing, BlockLanded,
          Steps
<1>4. Facts'
  BY DEFS ClaimInv, ClaimTypes, CheckPhase, Goto, Reply, store, tools,
          ClaimSafety, SingleHolder, AtMostOneDispatch, OpenClaimIsClean,
          HolderOwnsDispatch, NothingSentEarly, Dispatched, Holding,
          Undispatched, Facts, OutcomeIsFact, AnswersAreFacts, Word, Steps,
          Answers
<1>5. QED  BY <1>1, <1>2, <1>3, <1>4 DEF ClaimInv

\* A winner by _create finds no document, so nobody holds and nothing is on
\* the wire.
LEMMA CreateClaimKeeps ==
  ASSUME ClaimInv, NEW h \in Requests, CreateClaim(h)
  PROVE  ClaimInv'
<1>1. ClaimTypes'
  BY DEFS ClaimInv, ClaimTypes, CreateClaim, Goto, Reply, WriteClaim, tools,
          Steps, Answers
<1>2. ClaimSafety'
  BY DEFS ClaimInv, ClaimTypes, CreateClaim, Goto, Reply, WriteClaim, tools,
          ClaimSafety, SingleHolder, AtMostOneDispatch, OpenClaimIsClean,
          HolderOwnsDispatch, NothingSentEarly, Dispatched, Holding,
          Undispatched, Facts, OutcomeIsFact, AnswersAreFacts, Word, Steps
<1>3. VersionsAreFresh'
  BY DEFS ClaimInv, ClaimTypes, CreateClaim, Goto, Reply, WriteClaim, tools,
          ClaimSafety, SingleHolder, AtMostOneDispatch, OpenClaimIsClean,
          HolderOwnsDispatch, NothingSentEarly, Dispatched, Holding,
          Undispatched, VersionsAreFresh, Stale, NoBlockComing, BlockLanded,
          Steps
<1>4. Facts'
  <2>1. OutcomeIsFact'
    BY DEFS ClaimInv, ClaimTypes, CreateClaim, Goto, Reply, WriteClaim, tools,
            ClaimSafety, NothingSentEarly, Undispatched, Facts, OutcomeIsFact
  <2>2. AnswersAreFacts'
    BY DEFS ClaimInv, ClaimTypes, CreateClaim, Goto, Reply, WriteClaim, tools,
            ClaimSafety, NothingSentEarly, Undispatched, Facts,
            AnswersAreFacts, Word, Answers
  <2>3. QED  BY <2>1, <2>2 DEF Facts
<1>5. QED  BY <1>1, <1>2, <1>3, <1>4 DEF ClaimInv

\* The version remembered is that of a RELEASED claim.
LEMMA GetClaimKeeps ==
  ASSUME ClaimInv, NEW h \in Requests, GetClaim(h)
  PROVE  ClaimInv'
<1>1. ClaimTypes'
  BY DEFS ClaimInv, ClaimTypes, GetClaim, Goto, Reply, store, tools, Steps,
          Answers
<1>2. ClaimSafety'
  BY DEFS ClaimInv, ClaimTypes, GetClaim, Goto, Reply, store, tools,
          ClaimSafety, SingleHolder, AtMostOneDispatch, OpenClaimIsClean,
          HolderOwnsDispatch, NothingSentEarly, Dispatched, Holding,
          Undispatched, Facts, OutcomeIsFact, AnswersAreFacts, Word, Steps
<1>3. VersionsAreFresh'
  BY DEFS ClaimInv, ClaimTypes, GetClaim, Goto, Reply, store, tools,
          ClaimSafety, SingleHolder, AtMostOneDispatch, OpenClaimIsClean,
          HolderOwnsDispatch, NothingSentEarly, Dispatched, Holding,
          Undispatched, VersionsAreFresh, Stale, NoBlockComing, BlockLanded,
          Steps
<1>4. Facts'
  BY DEFS ClaimInv, ClaimTypes, GetClaim, Goto, Reply, store, tools,
          ClaimSafety, SingleHolder, AtMostOneDispatch, OpenClaimIsClean,
          HolderOwnsDispatch, NothingSentEarly, Dispatched, Holding,
          Undispatched, Facts, OutcomeIsFact, AnswersAreFacts, Word, Steps,
          Answers
<1>5. QED  BY <1>1, <1>2, <1>3, <1>4 DEF ClaimInv

\* A current version is still that RELEASED claim: the conditional PUT wins
\* only an open claim.
LEMMA ReclaimClaimKeeps ==
  ASSUME ClaimInv, NEW h \in Requests, ReclaimClaim(h)
  PROVE  ClaimInv'
<1>1. ClaimTypes'
  BY DEFS ClaimInv, ClaimTypes, ReclaimClaim, ReclaimIf, Goto, Reply,
          WriteClaim, tools, Steps, Answers
<1>2. ClaimSafety'
  BY DEFS ClaimInv, ClaimTypes, ReclaimClaim, ReclaimIf, Goto, Reply,
          WriteClaim, tools, ClaimSafety, SingleHolder, AtMostOneDispatch,
          OpenClaimIsClean, HolderOwnsDispatch, NothingSentEarly, Dispatched,
          Holding, Undispatched, Facts, OutcomeIsFact, AnswersAreFacts, Word,
          VersionsAreFresh, Stale, NoBlockComing, BlockLanded, Steps
<1>3. VersionsAreFresh'
  BY DEFS ClaimInv, ClaimTypes, ReclaimClaim, ReclaimIf, Goto, Reply,
          WriteClaim, tools, ClaimSafety, SingleHolder, AtMostOneDispatch,
          OpenClaimIsClean, HolderOwnsDispatch, NothingSentEarly, Dispatched,
          Holding, Undispatched, VersionsAreFresh, Stale, NoBlockComing,
          BlockLanded, Steps
<1>4. Facts'
  <2>1. OutcomeIsFact'
    BY DEFS ClaimInv, ClaimTypes, ReclaimClaim, ReclaimIf, Goto, Reply,
            WriteClaim, tools, ClaimSafety, NothingSentEarly, Undispatched,
            Facts, OutcomeIsFact
  <2>2. AnswersAreFacts'
    BY DEFS ClaimInv, ClaimTypes, ReclaimClaim, ReclaimIf, Goto, Reply,
            WriteClaim, tools, ClaimSafety, NothingSentEarly, Undispatched,
            Facts, AnswersAreFacts, Word, Answers
  <2>3. QED  BY <2>1, <2>2 DEF Facts
<1>5. QED  BY <1>1, <1>2, <1>3, <1>4 DEF ClaimInv

\* The "claimed" row cannot hide a recorded success: a holder that has not
\* dispatched excludes any landed block.
LEMMA LogClaimedKeeps ==
  ASSUME ClaimInv, NEW h \in Requests, LogClaimed(h)
  PROVE  ClaimInv'
<1>1. ClaimTypes'
  BY DEFS ClaimInv, ClaimTypes, LogClaimed, Goto, AppendRow, tools, Steps,
          Answers
<1>2. ClaimSafety'
  BY DEFS ClaimInv, ClaimTypes, LogClaimed, Goto, AppendRow, tools,
          ClaimSafety, SingleHolder, AtMostOneDispatch, OpenClaimIsClean,
          HolderOwnsDispatch, NothingSentEarly, Dispatched, Holding,
          Undispatched, Facts, OutcomeIsFact, AnswersAreFacts, Word, Steps
<1>3. VersionsAreFresh'
  BY DEFS ClaimInv, ClaimTypes, LogClaimed, Goto, AppendRow, tools,
          ClaimSafety, SingleHolder, AtMostOneDispatch, OpenClaimIsClean,
          HolderOwnsDispatch, NothingSentEarly, Dispatched, Holding,
          Undispatched, VersionsAreFresh, Stale, NoBlockComing, BlockLanded,
          Steps
<1>4. Facts'
  BY DEFS ClaimInv, ClaimTypes, LogClaimed, Goto, AppendRow, tools,
          ClaimSafety, SingleHolder, AtMostOneDispatch, OpenClaimIsClean,
          HolderOwnsDispatch, NothingSentEarly, Dispatched, Holding,
          Undispatched, Facts, OutcomeIsFact, AnswersAreFacts, Word, Steps,
          Answers
<1>5. QED  BY <1>1, <1>2, <1>3, <1>4 DEF ClaimInv

\* Leaving here keeps the claim CLAIMED.
LEMMA ReadContextKeeps ==
  ASSUME ClaimInv, NEW h \in Requests, ReadContext(h)
  PROVE  ClaimInv'
<1>1. ClaimTypes'
  BY DEFS ClaimInv, ClaimTypes, ReadContext, Goto, Reply, store, tools, Steps,
          Answers
<1>2. ClaimSafety'
  BY DEFS ClaimInv, ClaimTypes, ReadContext, Goto, Reply, store, tools,
          ClaimSafety, SingleHolder, AtMostOneDispatch, OpenClaimIsClean,
          HolderOwnsDispatch, NothingSentEarly, Dispatched, Holding,
          Undispatched, Facts, OutcomeIsFact, AnswersAreFacts, Word, Steps
<1>3. VersionsAreFresh'
  BY DEFS ClaimInv, ClaimTypes, ReadContext, Goto, Reply, store, tools,
          ClaimSafety, SingleHolder, AtMostOneDispatch, OpenClaimIsClean,
          HolderOwnsDispatch, NothingSentEarly, Dispatched, Holding,
          Undispatched, VersionsAreFresh, Stale, NoBlockComing, BlockLanded,
          Steps
<1>4. Facts'
  BY DEFS ClaimInv, ClaimTypes, ReadContext, Goto, Reply, store, tools,
          ClaimSafety, SingleHolder, AtMostOneDispatch, OpenClaimIsClean,
          HolderOwnsDispatch, NothingSentEarly, Dispatched, Holding,
          Undispatched, Facts, OutcomeIsFact, AnswersAreFacts, Word, Steps,
          Answers
<1>5. QED  BY <1>1, <1>2, <1>3, <1>4 DEF ClaimInv

\* A dispatch starts under the claim, with nothing else on the wire.
LEMMA ExecuteKeeps ==
  ASSUME ClaimInv, NEW h \in Requests, Execute(h)
  PROVE  ClaimInv'
<1>1. ClaimTypes'
  BY DEFS ClaimInv, ClaimTypes, Execute, Goto, store, tools, Steps, Answers
<1>2. ClaimSafety'
  BY DEFS ClaimInv, ClaimTypes, Execute, Goto, store, tools, ClaimSafety,
          SingleHolder, AtMostOneDispatch, OpenClaimIsClean,
          HolderOwnsDispatch, NothingSentEarly, Dispatched, Holding,
          Undispatched, Facts, OutcomeIsFact, AnswersAreFacts, Word,
          VersionsAreFresh, Stale, NoBlockComing, BlockLanded, Steps
<1>3. VersionsAreFresh'
  BY DEFS ClaimInv, ClaimTypes, Execute, Goto, store, tools, ClaimSafety,
          SingleHolder, AtMostOneDispatch, OpenClaimIsClean,
          HolderOwnsDispatch, NothingSentEarly, Dispatched, Holding,
          Undispatched, VersionsAreFresh, Stale, NoBlockComing, BlockLanded,
          Steps
<1>4. Facts'
  BY DEFS ClaimInv, ClaimTypes, Execute, Goto, store, tools, ClaimSafety,
          SingleHolder, AtMostOneDispatch, OpenClaimIsClean,
          HolderOwnsDispatch, NothingSentEarly, Dispatched, Holding,
          Undispatched, Facts, OutcomeIsFact, AnswersAreFacts, Word, Steps,
          Answers
<1>5. QED  BY <1>1, <1>2, <1>3, <1>4 DEF ClaimInv

\* What is learnt is the fate of the request's own dispatch.
LEMMA AwaitBrokerKeeps ==
  ASSUME ClaimInv, NEW h \in Requests, AwaitBroker(h)
  PROVE  ClaimInv'
<1>1. ClaimTypes'
  BY DEFS ClaimInv, ClaimTypes, AwaitBroker, Goto, Learned, store, tools,
          Steps, Answers
<1>2. ClaimSafety'
  BY DEFS ClaimInv, ClaimTypes, AwaitBroker, Goto, Learned, store, tools,
          ClaimSafety, SingleHolder, AtMostOneDispatch, OpenClaimIsClean,
          HolderOwnsDispatch, NothingSentEarly, Dispatched, Holding,
          Undispatched, Facts, OutcomeIsFact, AnswersAreFacts, Word, Steps
<1>3. VersionsAreFresh'
  BY DEFS ClaimInv, ClaimTypes, AwaitBroker, Goto, Learned, store, tools,
          ClaimSafety, SingleHolder, AtMostOneDispatch, OpenClaimIsClean,
          HolderOwnsDispatch, NothingSentEarly, Dispatched, Holding,
          Undispatched, VersionsAreFresh, Stale, NoBlockComing, BlockLanded,
          Steps
<1>4. Facts'
  <2>1. OutcomeIsFact'
    BY DEFS ClaimInv, ClaimTypes, AwaitBroker, Goto, Learned, store, tools,
            ClaimSafety, NothingSentEarly, Undispatched, Facts, OutcomeIsFact
  <2>2. AnswersAreFacts'
    BY DEFS ClaimInv, ClaimTypes, AwaitBroker, Goto, Learned, store, tools,
            ClaimSafety, NothingSentEarly, Undispatched, Facts,
            AnswersAreFacts, Word, Answers
  <2>3. QED  BY <2>1, <2>2 DEF Facts
<1>5. QED  BY <1>1, <1>2, <1>3, <1>4 DEF ClaimInv

\* EXECUTED is written only for a landed block.
LEMMA RecordPhaseKeeps ==
  ASSUME ClaimInv, NEW h \in Requests, RecordPhase(h)
  PROVE  ClaimInv'
<1>1. ClaimTypes'
  BY DEFS ClaimInv, ClaimTypes, RecordPhase, Goto, PhaseAfter, tools, Steps,
          Answers
<1>2. ClaimSafety'
  BY DEFS ClaimInv, ClaimTypes, RecordPhase, Goto, PhaseAfter, tools,
          ClaimSafety, SingleHolder, AtMostOneDispatch, OpenClaimIsClean,
          HolderOwnsDispatch, NothingSentEarly, Dispatched, Holding,
          Undispatched, Facts, OutcomeIsFact, AnswersAreFacts, Word, Steps
<1>3. VersionsAreFresh'
  BY DEFS ClaimInv, ClaimTypes, RecordPhase, Goto, PhaseAfter, tools,
          ClaimSafety, SingleHolder, AtMostOneDispatch, OpenClaimIsClean,
          HolderOwnsDispatch, NothingSentEarly, Dispatched, Holding,
          Undispatched, VersionsAreFresh, Stale, NoBlockComing, BlockLanded,
          Steps
<1>4. Facts'
  BY DEFS ClaimInv, ClaimTypes, RecordPhase, Goto, PhaseAfter, tools,
          ClaimSafety, SingleHolder, AtMostOneDispatch, OpenClaimIsClean,
          HolderOwnsDispatch, NothingSentEarly, Dispatched, Holding,
          Undispatched, Facts, OutcomeIsFact, AnswersAreFacts, Word, Steps,
          Answers
<1>5. QED  BY <1>1, <1>2, <1>3, <1>4 DEF ClaimInv

\* "approved" is written only for a landed block.
LEMMA LogOutcomeKeeps ==
  ASSUME ClaimInv, NEW h \in Requests, LogOutcome(h)
  PROVE  ClaimInv'
<1>1. ClaimTypes'
  BY DEFS ClaimInv, ClaimTypes, LogOutcome, Goto, AppendRow, RowAfter, tools,
          Steps, Answers
<1>2. ClaimSafety'
  BY DEFS ClaimInv, ClaimTypes, LogOutcome, Goto, AppendRow, RowAfter, tools,
          ClaimSafety, SingleHolder, AtMostOneDispatch, OpenClaimIsClean,
          HolderOwnsDispatch, NothingSentEarly, Dispatched, Holding,
          Undispatched, Facts, OutcomeIsFact, AnswersAreFacts, Word, Steps
<1>3. VersionsAreFresh'
  BY DEFS ClaimInv, ClaimTypes, LogOutcome, Goto, AppendRow, RowAfter, tools,
          ClaimSafety, SingleHolder, AtMostOneDispatch, OpenClaimIsClean,
          HolderOwnsDispatch, NothingSentEarly, Dispatched, Holding,
          Undispatched, VersionsAreFresh, Stale, NoBlockComing, BlockLanded,
          Steps
<1>4. Facts'
  BY DEFS ClaimInv, ClaimTypes, LogOutcome, Goto, AppendRow, RowAfter, tools,
          ClaimSafety, SingleHolder, AtMostOneDispatch, OpenClaimIsClean,
          HolderOwnsDispatch, NothingSentEarly, Dispatched, Holding,
          Undispatched, Facts, OutcomeIsFact, AnswersAreFacts, Word, Steps,
          Answers
<1>5. QED  BY <1>1, <1>2, <1>3, <1>4 DEF ClaimInv

\* A claim is released only with nothing landed or coming.
LEMMA SettleClaimKeeps ==
  ASSUME ClaimInv, NEW h \in Requests, SettleClaim(h)
  PROVE  ClaimInv'
<1>1. ClaimTypes'
  BY DEFS ClaimInv, ClaimTypes, SettleClaim, SettleAs, TransitionClaim,
          WriteClaim, Goto, Reply, tools, Steps, Answers
<1>2. ClaimSafety'
  BY DEFS ClaimInv, ClaimTypes, SettleClaim, SettleAs, TransitionClaim,
          WriteClaim, Goto, Reply, tools, ClaimSafety, SingleHolder,
          AtMostOneDispatch, OpenClaimIsClean, HolderOwnsDispatch,
          NothingSentEarly, Dispatched, Holding, Undispatched, Facts,
          OutcomeIsFact, AnswersAreFacts, Word, Steps
<1>3. VersionsAreFresh'
  BY DEFS ClaimInv, ClaimTypes, SettleClaim, SettleAs, TransitionClaim,
          WriteClaim, Goto, Reply, tools, ClaimSafety, SingleHolder,
          AtMostOneDispatch, OpenClaimIsClean, HolderOwnsDispatch,
          NothingSentEarly, Dispatched, Holding, Undispatched,
          VersionsAreFresh, Stale, NoBlockComing, BlockLanded, Steps
<1>4. Facts'
  BY DEFS ClaimInv, ClaimTypes, SettleClaim, SettleAs, TransitionClaim,
          WriteClaim, Goto, Reply, tools, ClaimSafety, SingleHolder,
          AtMostOneDispatch, OpenClaimIsClean, HolderOwnsDispatch,
          NothingSentEarly, Dispatched, Holding, Undispatched, Facts,
          OutcomeIsFact, AnswersAreFacts, Word, Steps, Answers
<1>5. QED  BY <1>1, <1>2, <1>3, <1>4 DEF ClaimInv

\* The broker completes the one dispatch there is.
LEMMA BrokerAppliesKeeps ==
  ASSUME ClaimInv, NEW h \in Requests, BrokerApplies(h)
  PROVE  ClaimInv'
<1>1. ClaimTypes'
  BY DEFS ClaimInv, ClaimTypes, BrokerApplies, WireStep, store, local, tools,
          Steps, Answers
<1>2. ClaimSafety'
  BY DEFS ClaimInv, ClaimTypes, BrokerApplies, WireStep, store, local, tools,
          ClaimSafety, SingleHolder, AtMostOneDispatch, OpenClaimIsClean,
          HolderOwnsDispatch, NothingSentEarly, Dispatched, Holding,
          Undispatched, Facts, OutcomeIsFact, AnswersAreFacts, Word, Steps
<1>3. VersionsAreFresh'
  BY DEFS ClaimInv, ClaimTypes, BrokerApplies, WireStep, store, local, tools,
          ClaimSafety, SingleHolder, AtMostOneDispatch, OpenClaimIsClean,
          HolderOwnsDispatch, NothingSentEarly, Dispatched, Holding,
          Undispatched, VersionsAreFresh, Stale, NoBlockComing, BlockLanded,
          Steps
<1>4. Facts'
  BY DEFS ClaimInv, ClaimTypes, BrokerApplies, WireStep, store, local, tools,
          ClaimSafety, SingleHolder, AtMostOneDispatch, OpenClaimIsClean,
          HolderOwnsDispatch, NothingSentEarly, Dispatched, Holding,
          Undispatched, Facts, OutcomeIsFact, AnswersAreFacts, Word, Steps,
          Answers
<1>5. QED  BY <1>1, <1>2, <1>3, <1>4 DEF ClaimInv

\* A refused dispatch leaves nothing behind.
LEMMA BrokerRefusesKeeps ==
  ASSUME ClaimInv, NEW h \in Requests, BrokerRefuses(h)
  PROVE  ClaimInv'
<1>1. ClaimTypes'
  BY DEFS ClaimInv, ClaimTypes, BrokerRefuses, WireStep, store, local, tools,
          Steps, Answers
<1>2. ClaimSafety'
  BY DEFS ClaimInv, ClaimTypes, BrokerRefuses, WireStep, store, local, tools,
          ClaimSafety, SingleHolder, AtMostOneDispatch, OpenClaimIsClean,
          HolderOwnsDispatch, NothingSentEarly, Dispatched, Holding,
          Undispatched, Facts, OutcomeIsFact, AnswersAreFacts, Word, Steps
<1>3. VersionsAreFresh'
  BY DEFS ClaimInv, ClaimTypes, BrokerRefuses, WireStep, store, local, tools,
          ClaimSafety, SingleHolder, AtMostOneDispatch, OpenClaimIsClean,
          HolderOwnsDispatch, NothingSentEarly, Dispatched, Holding,
          Undispatched, VersionsAreFresh, Stale, NoBlockComing, BlockLanded,
          Steps
<1>4. Facts'
  BY DEFS ClaimInv, ClaimTypes, BrokerRefuses, WireStep, store, local, tools,
          ClaimSafety, SingleHolder, AtMostOneDispatch, OpenClaimIsClean,
          HolderOwnsDispatch, NothingSentEarly, Dispatched, Holding,
          Undispatched, Facts, OutcomeIsFact, AnswersAreFacts, Word, Steps,
          Answers
<1>5. QED  BY <1>1, <1>2, <1>3, <1>4 DEF ClaimInv

\* A lost dispatch leaves nothing behind.
LEMMA NetworkLosesKeeps ==
  ASSUME ClaimInv, NEW h \in Requests, NetworkLoses(h)
  PROVE  ClaimInv'
<1>1. ClaimTypes'
  BY DEFS ClaimInv, ClaimTypes, NetworkLoses, WireStep, store, local, tools,
          Steps, Answers
<1>2. ClaimSafety'
  BY DEFS ClaimInv, ClaimTypes, NetworkLoses, WireStep, store, local, tools,
          ClaimSafety, SingleHolder, AtMostOneDispatch, OpenClaimIsClean,
          HolderOwnsDispatch, NothingSentEarly, Dispatched, Holding,
          Undispatched, Facts, OutcomeIsFact, AnswersAreFacts, Word, Steps
<1>3. VersionsAreFresh'
  BY DEFS ClaimInv, ClaimTypes, NetworkLoses, WireStep, store, local, tools,
          ClaimSafety, SingleHolder, AtMostOneDispatch, OpenClaimIsClean,
          HolderOwnsDispatch, NothingSentEarly, Dispatched, Holding,
          Undispatched, VersionsAreFresh, Stale, NoBlockComing, BlockLanded,
          Steps
<1>4. Facts'
  BY DEFS ClaimInv, ClaimTypes, NetworkLoses, WireStep, store, local, tools,
          ClaimSafety, SingleHolder, AtMostOneDispatch, OpenClaimIsClean,
          HolderOwnsDispatch, NothingSentEarly, Dispatched, Holding,
          Undispatched, Facts, OutcomeIsFact, AnswersAreFacts, Word, Steps,
          Answers
<1>5. QED  BY <1>1, <1>2, <1>3, <1>4 DEF ClaimInv

\* The operator decides on a claim nobody holds any more.
LEMMA InspectClaimKeeps ==
  ASSUME MayForce = FALSE, ClaimInv, NEW r \in Recoveries, InspectClaim(r)
  PROVE  ClaimInv'
<1>1. ClaimTypes'
  BY DEFS ClaimInv, ClaimTypes, InspectClaim, store, local, Steps, Answers
<1>2. ClaimSafety'
  BY DEFS ClaimInv, ClaimTypes, InspectClaim, store, local, ClaimSafety,
          SingleHolder, AtMostOneDispatch, OpenClaimIsClean,
          HolderOwnsDispatch, NothingSentEarly, Dispatched, Holding,
          Undispatched, Facts, OutcomeIsFact, AnswersAreFacts, Word,
          VersionsAreFresh, Stale, NoBlockComing, BlockLanded, Steps
<1>3. VersionsAreFresh'
  BY DEFS ClaimInv, ClaimTypes, InspectClaim, store, local, ClaimSafety,
          SingleHolder, AtMostOneDispatch, OpenClaimIsClean,
          HolderOwnsDispatch, NothingSentEarly, Dispatched, Holding,
          Undispatched, VersionsAreFresh, Stale, NoBlockComing, BlockLanded,
          Steps
<1>4. Facts'
  BY DEFS ClaimInv, ClaimTypes, InspectClaim, store, local, ClaimSafety,
          SingleHolder, AtMostOneDispatch, OpenClaimIsClean,
          HolderOwnsDispatch, NothingSentEarly, Dispatched, Holding,
          Undispatched, Facts, OutcomeIsFact, AnswersAreFacts, Word, Steps,
          Answers
<1>5. QED  BY <1>1, <1>2, <1>3, <1>4 DEF ClaimInv

\* The conditional write applies the decision to the claim it was made about.
LEMMA TransitionStuckClaimKeeps ==
  ASSUME ClaimInv, NEW r \in Recoveries, TransitionStuckClaim(r)
  PROVE  ClaimInv'
<1>1. ClaimTypes'
  BY DEFS ClaimInv, ClaimTypes, TransitionStuckClaim, ToolWrites, WriteClaim,
          local, Steps, Answers
<1>2. ClaimSafety'
  BY DEFS ClaimInv, ClaimTypes, TransitionStuckClaim, ToolWrites, WriteClaim,
          local, ClaimSafety, SingleHolder, AtMostOneDispatch,
          OpenClaimIsClean, HolderOwnsDispatch, NothingSentEarly, Dispatched,
          Holding, Undispatched, Facts, OutcomeIsFact, AnswersAreFacts, Word,
          VersionsAreFresh, Stale, NoBlockComing, BlockLanded, Steps
<1>3. VersionsAreFresh'
  BY DEFS ClaimInv, ClaimTypes, TransitionStuckClaim, ToolWrites, WriteClaim,
          local, ClaimSafety, SingleHolder, AtMostOneDispatch,
          OpenClaimIsClean, HolderOwnsDispatch, NothingSentEarly, Dispatched,
          Holding, Undispatched, VersionsAreFresh, Stale, NoBlockComing,
          BlockLanded, Steps
<1>4. Facts'
  BY DEFS ClaimInv, ClaimTypes, TransitionStuckClaim, ToolWrites, WriteClaim,
          local, ClaimSafety, SingleHolder, AtMostOneDispatch,
          OpenClaimIsClean, HolderOwnsDispatch, NothingSentEarly, Dispatched,
          Holding, Undispatched, Facts, OutcomeIsFact, AnswersAreFacts, Word,
          Steps, Answers
<1>5. QED  BY <1>1, <1>2, <1>3, <1>4 DEF ClaimInv

\* Deleting a RELEASED claim leaves it open, as it was.
LEMMA CompactClaimKeeps ==
  ASSUME ClaimInv, CompactClaim
  PROVE  ClaimInv'
<1>1. ClaimTypes'
  BY DEFS ClaimInv, ClaimTypes, CompactClaim, DeletablePhases, WriteClaim,
          local, tools, Steps, Answers
<1>2. ClaimSafety'
  BY DEFS ClaimInv, ClaimTypes, CompactClaim, DeletablePhases, WriteClaim,
          local, tools, ClaimSafety, SingleHolder, AtMostOneDispatch,
          OpenClaimIsClean, HolderOwnsDispatch, NothingSentEarly, Dispatched,
          Holding, Undispatched, Facts, OutcomeIsFact, AnswersAreFacts, Word,
          VersionsAreFresh, Stale, NoBlockComing, BlockLanded, Steps
<1>3. VersionsAreFresh'
  BY DEFS ClaimInv, ClaimTypes, CompactClaim, DeletablePhases, WriteClaim,
          local, tools, ClaimSafety, SingleHolder, AtMostOneDispatch,
          OpenClaimIsClean, HolderOwnsDispatch, NothingSentEarly, Dispatched,
          Holding, Undispatched, VersionsAreFresh, Stale, NoBlockComing,
          BlockLanded, Steps
<1>4. Facts'
  BY DEFS ClaimInv, ClaimTypes, CompactClaim, DeletablePhases, WriteClaim,
          local, tools, ClaimSafety, SingleHolder, AtMostOneDispatch,
          OpenClaimIsClean, HolderOwnsDispatch, NothingSentEarly, Dispatched,
          Holding, Undispatched, Facts, OutcomeIsFact, AnswersAreFacts, Word,
          Steps, Answers
<1>5. QED  BY <1>1, <1>2, <1>3, <1>4 DEF ClaimInv

\* Deleting an EXECUTED checkpoint concerns no claim.
LEMMA CompactCheckpointKeeps ==
  ASSUME ClaimInv, CompactCheckpoint
  PROVE  ClaimInv'
<1>1. ClaimTypes'
  BY DEFS ClaimInv, ClaimTypes, CompactCheckpoint, TerminalPhases, local,
          tools, Steps, Answers
<1>2. ClaimSafety'
  BY DEFS ClaimInv, ClaimTypes, CompactCheckpoint, TerminalPhases, local,
          tools, ClaimSafety, SingleHolder, AtMostOneDispatch,
          OpenClaimIsClean, HolderOwnsDispatch, NothingSentEarly, Dispatched,
          Holding, Undispatched, Facts, OutcomeIsFact, AnswersAreFacts, Word,
          Stale, Steps
<1>3. VersionsAreFresh'
  BY DEFS ClaimInv, ClaimTypes, CompactCheckpoint, TerminalPhases, local,
          tools, ClaimSafety, SingleHolder, AtMostOneDispatch,
          OpenClaimIsClean, HolderOwnsDispatch, NothingSentEarly, Dispatched,
          Holding, Undispatched, VersionsAreFresh, Stale, NoBlockComing,
          BlockLanded, Steps
<1>4. Facts'
  BY DEFS ClaimInv, ClaimTypes, CompactCheckpoint, TerminalPhases, local,
          tools, ClaimSafety, SingleHolder, AtMostOneDispatch,
          OpenClaimIsClean, HolderOwnsDispatch, NothingSentEarly, Dispatched,
          Holding, Undispatched, Facts, OutcomeIsFact, AnswersAreFacts, Word,
          Steps, Answers
<1>5. QED  BY <1>1, <1>2, <1>3, <1>4 DEF ClaimInv

\* A crash only ends requests: no holder is left.
LEMMA CrashKeeps ==
  ASSUME ClaimInv, UNCHANGED <<claim, seq, seen, outcome, answer, wire, tools>>,
         pc' = [h \in Requests |-> IF pc[h] \in {"idle", "done"} THEN pc[h] ELSE "crashed"]
  PROVE  ClaimInv'
<1>1. ClaimTypes'
  BY DEFS ClaimInv, ClaimTypes, tools, Steps, Answers
<1>2. ClaimSafety'
  BY DEFS ClaimInv, ClaimTypes, tools, ClaimSafety,
          SingleHolder, AtMostOneDispatch, OpenClaimIsClean,
          HolderOwnsDispatch, NothingSentEarly, Dispatched, Holding,
          Undispatched, Facts, OutcomeIsFact, AnswersAreFacts, Word, Steps
<1>3. VersionsAreFresh'
  BY DEFS ClaimInv, ClaimTypes, tools, ClaimSafety,
          SingleHolder, AtMostOneDispatch, OpenClaimIsClean,
          HolderOwnsDispatch, NothingSentEarly, Dispatched, Holding,
          Undispatched, VersionsAreFresh, Stale, NoBlockComing, BlockLanded,
          Steps
<1>4. Facts'
  BY DEFS ClaimInv, ClaimTypes, tools, ClaimSafety,
          SingleHolder, AtMostOneDispatch, OpenClaimIsClean,
          HolderOwnsDispatch, NothingSentEarly, Dispatched, Holding,
          Undispatched, Facts, OutcomeIsFact, AnswersAreFacts, Word, Steps,
          Answers
<1>5. QED  BY <1>1, <1>2, <1>3, <1>4 DEF ClaimInv

\* Checkpoint and queue may change as they like.
LEMMA StutterKeeps ==
  ASSUME ClaimInv, UNCHANGED <<claim, seq, local, wire, tools>>
  PROVE  ClaimInv'
<1>1. ClaimTypes'
  BY DEFS ClaimInv, ClaimTypes, local, tools, Steps, Answers
<1>2. ClaimSafety'
  BY DEFS ClaimInv, ClaimTypes, local, tools, ClaimSafety,
          SingleHolder, AtMostOneDispatch, OpenClaimIsClean,
          HolderOwnsDispatch, NothingSentEarly, Dispatched, Holding,
          Undispatched, Facts, OutcomeIsFact, AnswersAreFacts, Word, Steps
<1>3. VersionsAreFresh'
  BY DEFS ClaimInv, ClaimTypes, local, tools, ClaimSafety,
          SingleHolder, AtMostOneDispatch, OpenClaimIsClean,
          HolderOwnsDispatch, NothingSentEarly, Dispatched, Holding,
          Undispatched, VersionsAreFresh, Stale, NoBlockComing, BlockLanded,
          Steps
<1>4. Facts'
  BY DEFS ClaimInv, ClaimTypes, local, tools, ClaimSafety,
          SingleHolder, AtMostOneDispatch, OpenClaimIsClean,
          HolderOwnsDispatch, NothingSentEarly, Dispatched, Holding,
          Undispatched, Facts, OutcomeIsFact, AnswersAreFacts, Word, Steps,
          Answers
<1>5. QED  BY <1>1, <1>2, <1>3, <1>4 DEF ClaimInv

\* A step of the approval path but a crash, under the staleness bar.
LEMMA ClaimKeeps ==
  ASSUME MayForce = FALSE, ClaimInv,
         \/ \E h \in Requests : RequestStep(h) \/ BrokerStep(h)
         \/ \E r \in Recoveries : RecoveryStep(r)
         \/ CompactClaim \/ CompactCheckpoint
  PROVE  ClaimInv'
<1>1. ASSUME NEW h \in Requests, RequestStep(h) PROVE ClaimInv'
  BY <1>1, CheckPhaseKeeps, CreateClaimKeeps, GetClaimKeeps, ReclaimClaimKeeps,
     LogClaimedKeeps, ReadContextKeeps, ExecuteKeeps, AwaitBrokerKeeps,
     RecordPhaseKeeps, LogOutcomeKeeps, SettleClaimKeeps DEF RequestStep
<1>2. ASSUME NEW h \in Requests, BrokerStep(h) PROVE ClaimInv'
  BY <1>2, BrokerAppliesKeeps, BrokerRefusesKeeps, NetworkLosesKeeps DEF BrokerStep
<1>3. ASSUME NEW r \in Recoveries, RecoveryStep(r) PROVE ClaimInv'
  BY <1>3, InspectClaimKeeps, TransitionStuckClaimKeeps DEF RecoveryStep
<1>4. QED
  BY <1>1, <1>2, <1>3, CompactClaimKeeps, CompactCheckpointKeeps

-----------------------------------------------------------------------------
(* The whole invariant.                                                    *)

\* A success is learnt before it is recorded, and a landed block stays one.
LEMMA RecordsKeep ==
  ASSUME IInv, [Next]_vars
  PROVE  /\ RecordedByWinner'
         /\ ckpt' \in {"none", "PENDING_APPROVAL", "EXECUTED"}
         /\ row' \in {"pending", "claimed", "approved", "isolation_failed", "isolation_unknown"}
<1>1. ASSUME NEW g \in Requests, wire[g] = "landed", outcome[g] = "ok"
      PROVE  wire'[g] = "landed" /\ outcome'[g] = "ok"
  <2>1. ASSUME NEW h \in Requests, RequestStep(h)
        PROVE  wire'[g] = "landed" /\ outcome'[g] = "ok"
    BY <1>1, <2>1 DEFS IInv, TypeOK, ClaimSafety, NothingSentEarly, Undispatched, RequestStep,
       CheckPhase, CreateClaim, GetClaim, ReclaimClaim, ReclaimIf, LogClaimed, ReadContext,
       Execute, AwaitBroker, Learned, RecordPhase, LogOutcome, SettleClaim, Goto
  <2>2. ASSUME NEW h \in Requests, BrokerStep(h)
        PROVE  wire'[g] = "landed" /\ outcome'[g] = "ok"
    BY <1>1, <2>2 DEFS IInv, TypeOK, BrokerStep, BrokerApplies, BrokerRefuses, NetworkLoses,
       WireStep, local
  <2>3. CASE UNCHANGED <<wire, outcome>>
    BY <1>1, <2>3
  <2>4. QED
    BY <2>1, <2>2, <2>3 DEFS Next, RecoveryStep, InspectClaim, TransitionStuckClaim, ToolWrites,
       CompactClaim, CompactCheckpoint, Crash, local, vars
<1>2. CASE UNCHANGED <<ckpt, row>>
  BY <1>1, <1>2 DEFS IInv, TypeOK, RecordSafety, RecordedByWinner
<1>3. ASSUME NEW h \in Requests, LogClaimed(h) \/ RecordPhase(h) \/ LogOutcome(h)
      PROVE  /\ RecordedByWinner'
             /\ ckpt' \in {"none", "PENDING_APPROVAL", "EXECUTED"}
             /\ row' \in {"pending", "claimed", "approved", "isolation_failed",
                          "isolation_unknown"}
  <2>1. UNCHANGED <<wire, outcome>>
    BY <1>3 DEF LogClaimed, RecordPhase, LogOutcome
  <2>2. pc[h] \in {"record", "log", "settle"} /\ outcome[h] = "ok" => wire[h] = "landed"
    BY DEF IInv, RecordSafety, OutcomeIsFact
  <2>3. (ckpt' = "EXECUTED" /\ ckpt # "EXECUTED") \/ (row' = "approved" /\ row # "approved")
        => pc[h] \in {"record", "log", "settle"} /\ outcome[h] = "ok"
    BY <1>3 DEFS LogClaimed, RecordPhase, LogOutcome, PhaseAfter, RowAfter, AppendRow, Goto,
       IInv, RecordSafety, OutcomeIsFact
  <2>4. RecordedByWinner'
    BY <2>1, <2>2, <2>3 DEF IInv, RecordSafety, RecordedByWinner
  <2>5. /\ ckpt' \in {"none", "PENDING_APPROVAL", "EXECUTED"}
        /\ row' \in {"pending", "claimed", "approved", "isolation_failed", "isolation_unknown"}
    BY <1>3 DEFS IInv, TypeOK, RecordSafety, OutcomeIsFact, LogClaimed, RecordPhase, LogOutcome,
       PhaseAfter, RowAfter, AppendRow, Goto
  <2>6. QED  BY <2>4, <2>5
<1>4. CASE CompactCheckpoint
  BY <1>1, <1>4 DEFS CompactCheckpoint, IInv, TypeOK, RecordSafety, RecordedByWinner
<1>5. QED
  BY <1>2, <1>3, <1>4 DEFS Next, RequestStep, BrokerStep, BrokerApplies, BrokerRefuses,
     NetworkLoses, WireStep, RecoveryStep, InspectClaim, TransitionStuckClaim, ToolWrites,
     CompactClaim, Crash, CheckPhase, CreateClaim, GetClaim, ReclaimClaim, ReclaimIf,
     ReadContext, Execute, AwaitBroker, SettleClaim, store, local, vars

\* A freshly drafted alert satisfies the invariant.
LEMMA InitHolds == Init => IInv
<1> SUFFICES ASSUME Init PROVE IInv
  OBVIOUS
<1>1. TypeOK
  BY DEFS Init, TypeOK, Steps, Answers
<1>2. ClaimSafety
  BY DEFS Init, ClaimSafety, SingleHolder, AtMostOneDispatch, OpenClaimIsClean,
          HolderOwnsDispatch, NothingSentEarly, Dispatched, Holding, Undispatched
<1>3. VersionsAreFresh
  BY DEFS Init, VersionsAreFresh
<1>4. RecordSafety
  BY DEFS Init, RecordSafety, OutcomeIsFact, RecordedByWinner, AnswersAreFacts, Word
<1>5. QED  BY <1>1, <1>2, <1>3, <1>4 DEF IInv

\* Every step of the system, under the staleness bar, preserves the invariant.
LEMMA NextKeeps ==
  ASSUME MayForce = FALSE, IInv, [Next]_vars
  PROVE  IInv'
<1> USE DEF IInv, ClaimInv, TypeOK, ClaimTypes, RecordSafety, Facts
<1>1. ClaimInv
  OBVIOUS
<1>2. ClaimInv'
  <2>1. CASE Crash
    BY <1>1, <2>1, CrashKeeps DEF Crash, store
  <2>2. CASE UNCHANGED vars
    BY <1>1, <2>2, StutterKeeps DEF vars, store
  <2>3. QED
    BY <1>1, <2>1, <2>2, ClaimKeeps DEF Next
<1>3. QED
  BY <1>2, RecordsKeep

\* The invariant holds throughout, for any requests, recoveries and faults.
THEOREM Invariance == Spec /\ MayForce = FALSE => []IInv
<1>1. Init /\ MayForce = FALSE => IInv /\ MayForce = FALSE
  BY InitHolds
<1>2. IInv /\ MayForce = FALSE /\ [Next]_vars => (IInv /\ MayForce = FALSE)'
  BY NextKeeps
<1>3. QED  BY <1>1, <1>2, PTL DEF Spec

-----------------------------------------------------------------------------
(* What the invariant gives.                                               *)

\* Every variable of the approval path keeps its type.
THEOREM TypeCorrect == Spec /\ MayForce = FALSE => []TypeOK
<1>1. IInv => TypeOK
  BY DEF IInv
<1>2. QED  BY <1>1, Invariance, PTL

\* Two approvals are never both between winning the claim and moving it on.
THEOREM OneHolder == Spec /\ MayForce = FALSE => []SingleHolder
<1>1. IInv => SingleHolder
  BY DEF IInv, ClaimSafety
<1>2. QED  BY <1>1, Invariance, PTL

\* At most one block is ever dispatched for the alert: the guarantee
\* claim_approval is there for.
THEOREM OneDispatch == Spec /\ MayForce = FALSE => []AtMostOneDispatch
<1>1. IInv => AtMostOneDispatch
  BY DEF IInv, ClaimSafety
<1>2. QED  BY <1>1, Invariance, PTL

\* A claim that can be won has no earlier block behind it.
THEOREM OpenIsClean == Spec /\ MayForce = FALSE => []OpenClaimIsClean
<1>1. IInv => OpenClaimIsClean
  BY DEF IInv, ClaimSafety
<1>2. QED  BY <1>1, Invariance, PTL

\* What the checkpoint and the queue call executed did land, for good.
THEOREM TruthfulRecords == Spec /\ MayForce = FALSE => []RecordsTellTruth
<1>1. IInv => RecordsTellTruth
  BY DEFS IInv, TypeOK, ClaimSafety, OpenClaimIsClean, RecordSafety, RecordedByWinner,
          RecordsTellTruth, BlockLanded, Dispatched
<1>2. QED  BY <1>1, Invariance, PTL

-----------------------------------------------------------------------------
(* What no step may do.                                                    *)

FinalStep == /\ ckpt = "EXECUTED" => ckpt' \in {"EXECUTED", "none"}
             /\ row = "approved" => row' = "approved"
             /\ claim = "RESOLVED" => claim' = "RESOLVED"

\* Only the winner's own bookkeeping touches a recorded success, and it
\* repeats it: a holder cannot coexist with another request's landed block.
LEMMA StepIsFinal ==
  ASSUME IInv, [Next]_vars
  PROVE  FinalStep
<1> USE DEF FinalStep
<1>1. ASSUME NEW h \in Requests, LogClaimed(h) PROVE FinalStep
  BY <1>1 DEFS IInv, TypeOK, LogClaimed, Goto, AppendRow, ClaimSafety, HolderOwnsDispatch,
     NothingSentEarly, RecordSafety, RecordedByWinner, Dispatched, Holding, Undispatched
<1>2. ASSUME NEW h \in Requests, RecordPhase(h) PROVE FinalStep
  BY <1>2 DEFS IInv, RecordPhase, Goto, PhaseAfter, ClaimSafety, HolderOwnsDispatch,
     RecordSafety, RecordedByWinner, Dispatched, Holding
<1>3. ASSUME NEW h \in Requests, LogOutcome(h) PROVE FinalStep
  BY <1>3 DEFS IInv, LogOutcome, Goto, AppendRow, RowAfter, ClaimSafety, HolderOwnsDispatch,
     RecordSafety, RecordedByWinner, Dispatched, Holding
<1>4. ASSUME NEW h \in Requests, SettleClaim(h) PROVE FinalStep
  BY <1>4 DEFS IInv, SettleClaim, SettleAs, TransitionClaim, WriteClaim, Goto, Reply,
     ClaimSafety, SingleHolder, Holding
<1>5. ASSUME NEW h \in Requests,
             \/ CheckPhase(h) \/ CreateClaim(h) \/ GetClaim(h) \/ ReclaimClaim(h)
             \/ ReadContext(h) \/ Execute(h) \/ AwaitBroker(h) \/ BrokerStep(h)
      PROVE  FinalStep
  BY <1>5 DEFS IInv, TypeOK, VersionsAreFresh, CheckPhase, CreateClaim, GetClaim, ReclaimClaim,
     ReclaimIf, ReadContext, Execute, AwaitBroker, BrokerStep, BrokerApplies, BrokerRefuses,
     NetworkLoses, WireStep, WriteClaim, Goto, Reply, store
<1>6. ASSUME NEW r \in Recoveries, RecoveryStep(r) PROVE FinalStep
  BY <1>6 DEFS IInv, TypeOK, VersionsAreFresh, RecoveryStep, InspectClaim, TransitionStuckClaim,
     ToolWrites, WriteClaim, store
<1>7. CASE CompactClaim \/ CompactCheckpoint
  BY <1>7 DEFS CompactClaim, CompactCheckpoint, DeletablePhases
<1>8. CASE Crash \/ UNCHANGED vars
  BY <1>8 DEFS Crash, vars, store
<1>9. QED
  BY <1>1, <1>2, <1>3, <1>4, <1>5, <1>6, <1>7, <1>8 DEF Next, RequestStep

\* A recorded success is never overwritten by an older attempt's bookkeeping.
THEOREM SuccessStays == Spec /\ MayForce = FALSE => SuccessIsFinal
<1>1. IInv /\ [Next]_vars => [FinalStep]_vars
  BY StepIsFinal
<1>2. QED  BY <1>1, Invariance, PTL DEF Spec, SuccessIsFinal, FinalStep

-----------------------------------------------------------------------------
(* The approval path implements ContainmentOnce.                           *)

\* Nothing landed, nobody answered.
LEMMA InitImplements == Init => Abstract!Init
  BY DEF Init, Abstract!Init, Word

\* The broker's application is Land, every answer is Tell, the rest stutters.
LEMMA StepImplements ==
  ASSUME ClaimInv, ClaimInv', Next \/ UNCHANGED <<wire, answer>>
  PROVE  [Abstract!Next]_(Abstract!vars)
<1> DEFINE Landed == {h \in Requests : wire[h] = "landed"}
           Told == [h \in Requests |-> Word(answer[h])]
<1>1. ASSUME NEW h \in Requests, BrokerApplies(h)
      PROVE  Abstract!Land(h)
  <2>1. Landed = {} /\ Landed' = {h}
    BY <1>1 DEFS ClaimInv, ClaimTypes, BrokerApplies, WireStep, ClaimSafety, AtMostOneDispatch, Dispatched
  <2>2. Told[h] \in {"nothing", "unsure"}
    BY <1>1 DEFS ClaimInv, ClaimTypes, BrokerApplies, WireStep, Facts, AnswersAreFacts, Word, Answers
  <2>3. UNCHANGED Told
    BY <1>1 DEFS BrokerApplies, WireStep, local
  <2>4. QED  BY <2>1, <2>2, <2>3 DEF Abstract!Land
<1>2. ASSUME UNCHANGED <<wire, answer>>
      PROVE  UNCHANGED Abstract!vars
  BY <1>2 DEF Abstract!vars
<1>3. ASSUME NEW h \in Requests, NEW a \in Answers \ {"none"}, pc[h] # "done",
             answer' = [answer EXCEPT ![h] = a], UNCHANGED wire
      PROVE  \E word \in Abstract!Words \ {"nothing"} : Abstract!Tell(h, word)
  <2>1. answer[h] = "none" /\ answer'[h] = a
    BY <1>3 DEFS ClaimInv, ClaimTypes, Facts, AnswersAreFacts
  <2>2. Word(a) \in Abstract!Words \ {"nothing"}
    BY <1>3 DEF Answers, Word, Abstract!Words
  <2>3. Told[h] = "nothing" /\ Told' = [Told EXCEPT ![h] = Word(a)]
    <3>1. Word("none") = "nothing"
      BY DEF Word
    <3>2. \A g \in Requests : answer'[g] = IF g = h THEN a ELSE answer[g]
      BY <1>3 DEFS ClaimInv, ClaimTypes
    <3>3. \A g \in Requests : Told'[g] = IF g = h THEN Word(a) ELSE Told[g]
      BY <3>2
    <3>4. QED  BY <2>1, <3>1, <3>3
  <2>4. Word(a) = "executed" => h \in Landed
    BY <1>3, <2>1 DEFS ClaimInv, Facts, AnswersAreFacts, Word
  <2>5. Word(a) = "failed" => h \notin Landed
    BY <1>3, <2>1 DEFS ClaimInv, Facts, AnswersAreFacts
  <2>6. UNCHANGED Landed
    BY <1>3
  <2>7. Abstract!Tell(h, Word(a))
    BY <2>3, <2>4, <2>5, <2>6 DEF Abstract!Tell
  <2>8. QED  BY <2>2, <2>7
<1>4. ASSUME NEW h \in Requests, BrokerRefuses(h) \/ NetworkLoses(h)
      PROVE  UNCHANGED Abstract!vars
  <2>1. UNCHANGED Landed /\ UNCHANGED Told
    BY <1>4 DEFS ClaimInv, ClaimTypes, BrokerRefuses, NetworkLoses, WireStep, local
  <2>2. QED  BY <2>1 DEF Abstract!vars
<1>5. ASSUME NEW h \in Requests, Execute(h)
      PROVE  UNCHANGED Abstract!vars
  <2>1. UNCHANGED Landed /\ UNCHANGED Told
    BY <1>5 DEFS ClaimInv, ClaimTypes, Execute, Goto, ClaimSafety, NothingSentEarly, Undispatched
  <2>2. QED  BY <2>1 DEF Abstract!vars
<1>6. ASSUME NEW h \in Requests, RequestStep(h)
      PROVE  \/ UNCHANGED Abstract!vars
             \/ \E word \in Abstract!Words \ {"nothing"} : Abstract!Tell(h, word)
  <2>1. CASE \/ LogClaimed(h) \/ AwaitBroker(h) \/ RecordPhase(h) \/ LogOutcome(h)
    BY <2>1, <1>2 DEFS LogClaimed, AwaitBroker, RecordPhase, LogOutcome
  <2>2. CASE Execute(h)
    BY <2>2, <1>5
  <2>3. CASE CheckPhase(h)
    BY <2>3, <1>2, <1>3 DEFS CheckPhase, Goto, Reply, Answers
  <2>4. CASE CreateClaim(h)
    BY <2>4, <1>2, <1>3 DEFS CreateClaim, Goto, Reply, Answers
  <2>5. CASE GetClaim(h)
    BY <2>5, <1>2, <1>3 DEFS GetClaim, Goto, Reply, Answers
  <2>6. CASE ReclaimClaim(h)
    BY <2>6, <1>2, <1>3 DEFS ReclaimClaim, ReclaimIf, Goto, Reply, Answers
  <2>7. CASE ReadContext(h)
    BY <2>7, <1>2, <1>3 DEFS ReadContext, Goto, Reply, Answers
  <2>8. CASE SettleClaim(h)
    BY <2>8, <1>3 DEFS SettleClaim, SettleAs, Goto, Reply, Answers
  <2>9. QED  BY <1>6, <2>1, <2>2, <2>3, <2>4, <2>5, <2>6, <2>7, <2>8 DEF RequestStep
<1>7. ASSUME NEW r \in Recoveries, RecoveryStep(r)
      PROVE  UNCHANGED Abstract!vars
  BY <1>7, <1>2 DEFS RecoveryStep, InspectClaim, TransitionStuckClaim, ToolWrites, local
<1>8. CASE CompactClaim \/ CompactCheckpoint \/ Crash \/ UNCHANGED <<wire, answer>>
  BY <1>8, <1>2 DEFS CompactClaim, CompactCheckpoint, Crash, local
<1>9. QED
  BY <1>1, <1>4, <1>6, <1>7, <1>8 DEF Next, BrokerStep, Abstract!Next

\* The answers given over HTTP and the blocks on the routers are those of a
\* service that contains at most once.
THEOREM Implements == Spec /\ MayForce = FALSE => ImplementsContainmentOnce
<1>1. Init => Abstract!Init
  BY InitImplements
<1>2. IInv /\ IInv' /\ [Next]_vars => [Abstract!Next]_(Abstract!vars)
  BY StepImplements DEFS IInv, TypeOK, RecordSafety, ClaimInv, ClaimTypes, Facts, vars, local
<1>3. QED
  BY <1>1, <1>2, Invariance, PTL DEF Spec, ImplementsContainmentOnce, Abstract!Spec

-----------------------------------------------------------------------------
(* Deliveries beside the approval path.                                    *)

\* Nothing is dispatched without an approval.
NoAutonomy == /\ policy # "autonomous"
              /\ dwire = [d \in Deliveries |-> "none"]

\* Who may write PENDING_APPROVAL to the checkpoint, or has found it there,
\* does so with a row in the queue, which never becomes empty again.
RowFirst ==
    /\ pc \in [Requests -> Steps]
    /\ dphase \in [Deliveries -> {"none", "PENDING_APPROVAL"} \cup TerminalPhases]
    /\ row = "none" =>
          /\ \A h \in Requests : pc[h] \in {"idle", "done", "crashed"}
          /\ \A d \in Deliveries : dphase[d] # "PENDING_APPROVAL"
          /\ ckpt # "PENDING_APPROVAL"

-----------------------------------------------------------------------------
(* At most one block.                                                      *)

\* Deliveries do not touch the claim, nor what requests and tools know.
LEMMA DeliveryStepFrame ==
    ASSUME NEW d \in Deliveries, DeliveryStep(d) \/ AutonomousWire(d)
    PROVE  UNCHANGED <<claim, seq, local, wire, tools, policy>>
BY DEFS DeliveryStep, CheckDuplicate, WritePerceiving, ActProtected, ActAutonomous,
        AwaitAutonomous, ActDraft, Check, AutonomousWire, vars, store, local, tools

\* A step of the lifecycle is one of the approval path, or leaves its claim alone.
LEMMA LifecycleKeepsClaim ==
    ASSUME MayForce = FALSE, ClaimInv, [LifecycleNext]_lifecycleVars
    PROVE  ClaimInv'
<1>1. ASSUME NEW d \in Deliveries, DeliveryStep(d) \/ AutonomousWire(d) PROVE ClaimInv'
    BY <1>1, DeliveryStepFrame, StutterKeeps
<1>2. CASE ApprovalStep
    BY <1>2, ClaimKeeps DEF ApprovalStep
<1>3. CASE AgentCrash
    BY <1>3, CrashKeeps DEF AgentCrash, store
<1>4. CASE UNCHANGED lifecycleVars
    BY <1>4, StutterKeeps DEF lifecycleVars, vars, store
<1>5. QED
    BY <1>1, <1>2, <1>3, <1>4 DEF LifecycleNext

\* Only the autonomous policy lets a delivery dispatch, and no step changes it.
LEMMA LifecycleKeepsNoAutonomy ==
    ASSUME NoAutonomy, [LifecycleNext]_lifecycleVars
    PROVE  NoAutonomy'
<1>1. ASSUME NEW d \in Deliveries, DeliveryStep(d) \/ AutonomousWire(d)
      PROVE  UNCHANGED <<policy, dwire>>
  <2>1. dwire[d] = "none" /\ policy # "autonomous"
    BY DEF NoAutonomy
  <2>2. QED
    BY <1>1, <2>1, DeliveryStepFrame DEFS DeliveryStep, CheckDuplicate, WritePerceiving,
       ActProtected, ActAutonomous, AwaitAutonomous, ActDraft, Check, AutonomousWire
<1>2. CASE (ApprovalStep /\ UNCHANGED delivery) \/ AgentCrash \/ UNCHANGED lifecycleVars
    BY <1>2 DEF NoAutonomy, delivery, AgentCrash, lifecycleVars
<1>3. QED
    BY <1>1, <1>2 DEF NoAutonomy, LifecycleNext

\* At first there is nothing.
LEMMA LifecycleStarts ==
    LifecycleInit => /\ ClaimInv /\ RowFirst
                     /\ "autonomous" \notin Policies => NoAutonomy
<1> SUFFICES ASSUME LifecycleInit
             PROVE  /\ ClaimInv /\ RowFirst
                    /\ "autonomous" \notin Policies => NoAutonomy
    OBVIOUS
<1>1. ClaimTypes
    BY DEFS LifecycleInit, ClaimTypes, Steps, Answers
<1>2. ClaimSafety
    BY DEFS LifecycleInit, ClaimSafety, SingleHolder, AtMostOneDispatch, OpenClaimIsClean,
            HolderOwnsDispatch, NothingSentEarly, Dispatched, Holding, Undispatched
<1>3. VersionsAreFresh /\ Facts
    BY DEFS LifecycleInit, VersionsAreFresh, Facts, OutcomeIsFact, AnswersAreFacts, Word
<1>4. RowFirst
    BY DEFS LifecycleInit, RowFirst, Steps
<1>5. "autonomous" \notin Policies => NoAutonomy
    BY DEF LifecycleInit, NoAutonomy
<1>6. QED
    BY <1>1, <1>2, <1>3, <1>4, <1>5 DEF ClaimInv

\* However often an alert is delivered, approved and recovered, and whatever
\* fails, at most one block is dispatched for it, as long as recoveries respect
\* the staleness bar and autonomous isolation is off.
THEOREM ContainedOnce ==
    LifecycleSpec /\ MayForce = FALSE /\ "autonomous" \notin Policies => []OneContainment
<1> DEFINE P == MayForce = FALSE
           I == P /\ ClaimInv /\ NoAutonomy
<1>1. LifecycleInit /\ P /\ "autonomous" \notin Policies => I
    BY LifecycleStarts
<1>2. I /\ [LifecycleNext]_lifecycleVars => I'
    BY LifecycleKeepsClaim, LifecycleKeepsNoAutonomy
<1>3. I => OneContainment
    BY DEF ClaimInv, ClaimSafety, NoAutonomy, OneContainment, AutoDispatched
<1>4. QED
    BY <1>1, <1>2, <1>3, PTL DEF LifecycleSpec

\* Whatever the deliveries of the alert do to its checkpoint and its queue row,
\* the approvals of the alert keep the promise of ContainmentOnce.
THEOREM LifecycleImplements ==
    LifecycleSpec /\ MayForce = FALSE => ImplementsContainmentOnce
<1> DEFINE I == MayForce = FALSE /\ ClaimInv
<1>1. LifecycleInit /\ MayForce = FALSE => I /\ Abstract!Init
    BY LifecycleStarts DEFS LifecycleInit, Abstract!Init, Word
<1>2. I /\ [LifecycleNext]_lifecycleVars => I'
    BY LifecycleKeepsClaim
<1>3. I /\ I' /\ [LifecycleNext]_lifecycleVars => [Abstract!Next]_(Abstract!vars)
  <2>1. LifecycleNext => Next \/ UNCHANGED <<wire, answer>>
    BY DeliveryStepFrame DEFS LifecycleNext, ApprovalStep, AgentCrash, Next, local
  <2>2. UNCHANGED lifecycleVars => UNCHANGED <<wire, answer>>
    BY DEFS lifecycleVars, vars, local
  <2>3. QED
    BY <2>1, <2>2, StepImplements
<1>4. QED
    BY <1>1, <1>2, <1>3, PTL DEFS LifecycleSpec, ImplementsContainmentOnce, Abstract!Spec

-----------------------------------------------------------------------------
(* What awaits approval is in the queue.                                   *)

\* A request goes on only after it has found PENDING_APPROVAL.
LEMMA RequestKeepsRowFirst ==
    ASSUME RowFirst, NEW h \in Requests, RequestStep(h) \/ BrokerStep(h), UNCHANGED delivery
    PROVE  RowFirst'
<1> USE DEF RowFirst, delivery
<1>1. CASE CheckPhase(h)
    BY <1>1 DEFS CheckPhase, Goto, Reply, store, Steps
<1>2. CASE CreateClaim(h) \/ GetClaim(h) \/ ReclaimClaim(h)
    BY <1>2 DEFS CreateClaim, GetClaim, ReclaimClaim, ReclaimIf, Goto, Reply, store, Steps
<1>3. CASE LogClaimed(h) \/ ReadContext(h) \/ Execute(h) \/ AwaitBroker(h)
    BY <1>3 DEFS LogClaimed, AppendRow, ReadContext, Execute, AwaitBroker, Learned, Goto, Reply,
       store, Steps
<1>4. CASE RecordPhase(h)
    BY <1>4 DEFS RecordPhase, Goto, Steps
<1>5. CASE LogOutcome(h)
    BY <1>5 DEFS LogOutcome, AppendRow, RowAfter, Goto, Steps
<1>6. CASE SettleClaim(h)
    BY <1>6 DEFS SettleClaim, SettleAs, Goto, Reply, Steps
<1>7. CASE BrokerStep(h)
    BY <1>7 DEFS BrokerStep, BrokerApplies, BrokerRefuses, NetworkLoses, WireStep, store, local
<1>8. QED
    BY <1>1, <1>2, <1>3, <1>4, <1>5, <1>6, <1>7 DEF RequestStep

\* act() appends the row before check() writes the phase.
LEMMA DeliveryKeepsRowFirst ==
    ASSUME RowFirst, NEW d \in Deliveries, DeliveryStep(d) \/ AutonomousWire(d)
    PROVE  RowFirst'
<1> USE DEF RowFirst, vars, store, local
<1>1. CASE CheckDuplicate(d) \/ AutonomousWire(d)
    BY <1>1 DEF CheckDuplicate, AutonomousWire
<1>2. CASE WritePerceiving(d)
    BY <1>2 DEF WritePerceiving, PutCheckpoint
<1>3. CASE ActProtected(d) \/ ActAutonomous(d) \/ AwaitAutonomous(d)
    BY <1>3 DEFS ActProtected, ActAutonomous, AwaitAutonomous, Decide, TerminalPhases
<1>4. CASE ActDraft(d)
    BY <1>4 DEFS ActDraft, Decide
<1>5. CASE Check(d)
    BY <1>5 DEFS Check, PutCheckpoint, TerminalPhases
<1>6. QED
    BY <1>1, <1>2, <1>3, <1>4, <1>5 DEF DeliveryStep

\* Recoveries and retention do not write the queue; a crash forgets no row.
LEMMA LifecycleKeepsRowFirst ==
    ASSUME RowFirst, [LifecycleNext]_lifecycleVars
    PROVE  RowFirst'
<1>1. ASSUME NEW r \in Recoveries, RecoveryStep(r), UNCHANGED delivery PROVE RowFirst'
    BY <1>1 DEFS RowFirst, RecoveryStep, InspectClaim, TransitionStuckClaim, ToolWrites,
       delivery, store, local
<1>2. ASSUME CompactClaim \/ CompactCheckpoint, UNCHANGED delivery PROVE RowFirst'
    BY <1>2 DEFS RowFirst, CompactClaim, CompactCheckpoint, delivery, local
<1>3. CASE AgentCrash
    BY <1>3 DEF RowFirst, AgentCrash, store, Steps
<1>4. CASE UNCHANGED lifecycleVars
    BY <1>4 DEF RowFirst, lifecycleVars, vars, store, local, delivery
<1>5. QED
    BY <1>1, <1>2, <1>3, <1>4, RequestKeepsRowFirst, DeliveryKeepsRowFirst
       DEF LifecycleNext, ApprovalStep

\* Whatever awaits approval has a row in the queue, under every policy and
\* fault: act() appends the draft before check() writes the checkpoint.
THEOREM DraftHasRow == LifecycleSpec => []DraftIsQueued
<1>1. LifecycleInit => RowFirst
    BY LifecycleStarts
<1>2. RowFirst /\ [LifecycleNext]_lifecycleVars => RowFirst'
    BY LifecycleKeepsRowFirst
<1>3. RowFirst => DraftIsQueued
    BY DEF RowFirst, DraftIsQueued
<1>4. QED
    BY <1>1, <1>2, <1>3, PTL DEF LifecycleSpec

-----------------------------------------------------------------------------
(* A draft that was answered can be approved, as long as Elasticsearch, the *)
(* disk and the process stay up.                                           *)

\* Under the drafting policy the checkpoint of an alert that no approval has
\* reached yet only says PERCEIVING while a delivery is on its way to overwrite
\* it with PENDING_APPROVAL.
DraftInv ==
    /\ pc \in [Requests -> Steps]
    /\ dpc \in [Deliveries -> {"idle", "done", "crashed"} \cup InProgress]
    /\ dphase \in [Deliveries -> {"none", "PENDING_APPROVAL"} \cup TerminalPhases]
    /\ danswer \in [Deliveries -> {"none", "ignored", "error", "PENDING_APPROVAL"}
                                     \cup TerminalPhases]
    /\ \A d \in Deliveries :
          /\ policy # "draft" => dphase[d] # "PENDING_APPROVAL" /\ danswer[d] # "PENDING_APPROVAL"
          /\ policy = "draft" => dphase[d] \notin TerminalPhases /\ dpc[d] # "await"
          /\ policy = "draft" /\ dpc[d] = "check" => dphase[d] = "PENDING_APPROVAL"
    /\ policy = "draft" /\ (\A h \in Requests : pc[h] = "idle") =>
          /\ ckpt \in {"none", "PERCEIVING", "PENDING_APPROVAL"}
          /\ ckpt = "PERCEIVING" => \E d \in Deliveries : dpc[d] \in {"act", "check"}
          /\ ckpt = "none" => \A d \in Deliveries : /\ dpc[d] \in {"idle", "perceive", "done"}
                                                   /\ danswer[d] # "PENDING_APPROVAL"

\* A delivery that has written PERCEIVING stays on its way until it has written
\* its phase over it.
LEMMA DeliveryKeepsDraft ==
    ASSUME DraftInv, Faults \subseteq {"net"}, NEW d \in Deliveries,
           DeliveryStep(d) \/ AutonomousWire(d)
    PROVE  DraftInv'
<1> USE DEFS DraftInv, InProgress, TerminalPhases, vars, store, local
<1>1. CASE CheckDuplicate(d)
    BY <1>1 DEFS CheckDuplicate, Move, Respond
<1>2. CASE WritePerceiving(d)
    BY <1>2 DEFS WritePerceiving, PutCheckpoint, Move
<1>3. CASE ActProtected(d) \/ ActAutonomous(d) \/ AwaitAutonomous(d)
    BY <1>3 DEFS ActProtected, ActAutonomous, AwaitAutonomous, Decide, Move
<1>4. CASE ActDraft(d)
    BY <1>4 DEFS ActDraft, Decide, Move
<1>5. CASE Check(d)
    BY <1>5 DEFS Check, PutCheckpoint, Respond, Move
<1>6. CASE AutonomousWire(d)
    BY <1>6 DEF AutonomousWire
<1>7. QED
    BY <1>1, <1>2, <1>3, <1>4, <1>5, <1>6 DEF DeliveryStep

\* The checkpoint is written by approvals that have begun, and deleted by the
\* retention of a final phase.
LEMMA ApprovalKeepsDraft ==
    ASSUME DraftInv, ApprovalStep, UNCHANGED delivery
    PROVE  DraftInv'
<1> USE DEFS DraftInv, delivery, store, local, Steps
<1>1. ASSUME NEW h \in Requests, RequestStep(h) PROVE DraftInv'
  <2>1. pc' \in [Requests -> Steps] /\ pc'[h] # "idle"
    BY <1>1 DEFS RequestStep, CheckPhase, CreateClaim, GetClaim, ReclaimClaim, ReclaimIf,
       LogClaimed, ReadContext, Execute, AwaitBroker, Learned, RecordPhase, LogOutcome,
       SettleClaim, SettleAs, Goto, Reply
  <2>2. QED
    BY <2>1
<1>2. ASSUME NEW h \in Requests, BrokerStep(h) PROVE DraftInv'
    BY <1>2 DEFS BrokerStep, BrokerApplies, BrokerRefuses, NetworkLoses, WireStep
<1>3. ASSUME NEW r \in Recoveries, RecoveryStep(r) PROVE DraftInv'
    BY <1>3 DEFS RecoveryStep, InspectClaim, TransitionStuckClaim, ToolWrites
<1>4. CASE CompactClaim \/ CompactCheckpoint
    BY <1>4 DEFS CompactClaim, CompactCheckpoint, TerminalPhases
<1>5. QED
    BY <1>1, <1>2, <1>3, <1>4 DEF ApprovalStep

\* With Elasticsearch, the disk and the process up, whoever was answered
\* "PENDING_APPROVAL" finds an alert that can be approved, however many
\* deliveries of it overwrite each other's checkpoints.
THEOREM DraftStaysApprovable ==
    LifecycleSpec /\ Faults \subseteq {"net"} => []DraftCanBeApproved
<1> DEFINE I == Faults \subseteq {"net"} /\ DraftInv
<1>1. LifecycleInit /\ Faults \subseteq {"net"} => I
    BY DEFS LifecycleInit, DraftInv, Steps, InProgress, TerminalPhases
<1>2. I /\ [LifecycleNext]_lifecycleVars => I'
  <2> SUFFICES ASSUME I, [LifecycleNext]_lifecycleVars PROVE DraftInv'
    OBVIOUS
  <2>1. ~AgentCrash
    BY DEF AgentCrash
  <2>2. CASE UNCHANGED lifecycleVars
    BY <2>2 DEFS lifecycleVars, delivery, vars, store, local, DraftInv
  <2>3. QED
    BY <2>1, <2>2, DeliveryKeepsDraft, ApprovalKeepsDraft DEF LifecycleNext
<1>3. I => DraftCanBeApproved
    BY DEFS DraftInv, DraftCanBeApproved, Untouched, InProgress
<1>4. QED
    BY <1>1, <1>2, <1>3, PTL DEF LifecycleSpec

-----------------------------------------------------------------------------
(* The sampling job beside the approval path.                              *)

\* What the approval path and the calendar do to the claim: nothing, or one
\* write, which takes the next version; only a released claim is deleted, and
\* only winning or recovering one makes it anything but released.
ClaimStep ==
    \/ UNCHANGED <<claim, seq, freed>>
    \/ /\ seq' = seq + 1
       /\ \/ claim' \in {"CLAIMED", "RESOLVED"} /\ freed' = freed
          \/ claim' = "RELEASED" /\ freed' = seq'
          \/ claim = "RELEASED" /\ claim' = "none" /\ freed' = freed

\* A recovery that has decided writes one of its two transitions.
ToolsDecide ==
    /\ tool \in [Recoveries -> {"idle", "confirm", "done"}]
    /\ toolPhase \in [Recoveries -> {"none", "RELEASED", "RESOLVED"}]
    /\ \A r \in Recoveries : tool[r] = "confirm" => toolPhase[r] \in {"RELEASED", "RESOLVED"}

\* What a sampling run may have found so far.
Findings == [breached : SUBSET Metrics, errors : BOOLEAN, misread : BOOLEAN,
             snapshot : {"unread", "failed", "open", "absent", "gone"},
             mark : Nat, listed : {"unread", "failed", "yes", "no"}]

\* The versions of the snapshot and of the last release lie in the past.
MarksArePast ==
    /\ seq \in Nat /\ freed \in 0..seq /\ baseMark \in 0..seq
    /\ run \in Findings /\ run.mark <= seq
    /\ at = "idle" => run = Blank

\* A claim that was open at that version is open still, or was released since,
\* or was deleted from outside.
OpenSince(mark) == outside \/ claim \in {"CLAIMED", "RESOLVED"} \/ freed > mark

SnapshotsAreTrue ==
    /\ baseline = "open" => OpenSince(baseMark)
    /\ run.snapshot = "open" => OpenSince(run.mark)

\* What the snapshot calls gone may have been won again since, at a price of
\* one version.  Before the document is written the second look is over.
GoneSince ==
    /\ at = "index" => run.listed # "unread"
    /\ at \in {"detail", "index"} /\ run.snapshot = "gone" /\ claim # "none"
          => seq > run.mark
    /\ at = "index" /\ run.snapshot = "gone" /\ run.listed = "no"
       /\ baseline = "open" /\ day <= baseDay + MaxAge /\ claim = "none"
          => seq > run.mark + 1

\* Together they hold whatever the approval path does between two queries.
WatchInv == ToolsDecide /\ MarksArePast /\ SnapshotsAreTrue /\ GoneSince /\ AlarmIsJustified

\* Before the first run there is neither a claim nor a baseline.
LEMMA WatchStarts == WatchInit => WatchInv
BY WatchAssumption
   DEFS WatchInit, Init, WatchInv, ToolsDecide, MarksArePast, SnapshotsAreTrue, GoneSince,
        AlarmIsJustified, Blank, Findings

\* Every step of the approval path is such a step.
LEMMA DatedStepIsClaimStep ==
    ASSUME WatchInv, DatedStep
    PROVE  ClaimStep /\ ToolsDecide'
<1> USE DEFS WatchInv, ToolsDecide, DatedStep, Stamped, ClaimStep, MarksArePast, WriteClaim
<1>1. ASSUME NEW h \in Requests, RequestStep(h) PROVE ClaimStep /\ ToolsDecide'
  <2>1. CASE CreateClaim(h) \/ ReclaimClaim(h)
    BY <2>1 DEFS CreateClaim, ReclaimClaim, ReclaimIf, tools
  <2>2. CASE SettleClaim(h)
    BY <2>2 DEFS SettleClaim, SettleAs, TransitionClaim, tools
  <2>3. QED
    BY <1>1, <2>1, <2>2 DEFS RequestStep, CheckPhase, GetClaim, LogClaimed, ReadContext, Execute,
       AwaitBroker, RecordPhase, LogOutcome, store, tools
<1>2. ASSUME NEW h \in Requests, BrokerStep(h) PROVE ClaimStep /\ ToolsDecide'
    BY <1>2 DEFS BrokerStep, BrokerApplies, BrokerRefuses, NetworkLoses, WireStep, store, tools
<1>3. ASSUME NEW r \in Recoveries, RecoveryStep(r) PROVE ClaimStep /\ ToolsDecide'
    BY <1>3 DEFS RecoveryStep, InspectClaim, TransitionStuckClaim, ToolWrites, store
<1>4. CASE CompactClaim
    BY <1>4 DEFS CompactClaim, DeletablePhases, tools
<1>5. CASE CompactCheckpoint \/ Crash
    BY <1>5 DEFS CompactCheckpoint, Crash, tools, store
<1>6. QED
    BY <1>1, <1>2, <1>3, <1>4, <1>5 DEFS DatedStep, Next

\* A step of the claim, its deletion from outside and the passing of a day
\* leave what the sampling run knows as true as it was.
LEMMA ClaimStepKeepsWatch ==
    ASSUME WatchInv, ToolsDecide', UNCHANGED <<sampler, indexed>>,
           \/ ClaimStep /\ UNCHANGED <<day, outside>>
           \/ ClaimStep /\ UNCHANGED outside /\ at = "idle"
           \/ seq' = seq + 1 /\ claim # "none" /\ outside' /\ UNCHANGED <<day, freed>>
    PROVE  WatchInv'
<1> USE DEFS WatchInv, MarksArePast, ClaimStep, sampler, indexed, Findings
<1>1. MarksArePast'
    OBVIOUS
<1>2. SnapshotsAreTrue' /\ AlarmIsJustified'
    BY DEFS SnapshotsAreTrue, OpenSince, AlarmIsJustified
<1>3. GoneSince'
    BY DEFS GoneSince
<1>4. QED
    BY <1>1, <1>2, <1>3

\* A count only adds its own metric to what is breached.
LEMMA CountFields ==
    ASSUME run \in Findings, NEW metric \in Metrics, NEW some \in BOOLEAN,
           NEW found \in {Count(metric, some), Unmeasurable}
    PROVE  /\ found \in Findings
           /\ found.breached \subseteq run.breached \cup {metric}
           /\ ~some => found.breached = run.breached
           /\ found.snapshot = run.snapshot /\ found.mark = run.mark
           /\ found.listed = run.listed /\ found.misread = run.misread
<1>1. CASE found = Unmeasurable
    BY <1>1 DEFS Unmeasurable, Findings
<1>2. CASE found = Count(metric, some) /\ some
    <2>1. found = [run EXCEPT !.breached = @ \cup {metric}]
        BY <1>2 DEF Count
    <2>2. run.breached \cup {metric} \in SUBSET Metrics
        BY DEF Findings
    <2>3. QED
        BY <1>2, <2>1, <2>2 DEF Findings
<1>3. CASE found = Count(metric, some) /\ ~some
    BY <1>3 DEF Count
<1>4. QED
    BY <1>1, <1>2, <1>3

\* Counting an unreadable checkpoint as missing is marked.
LEMMA MisreadFields ==
    ASSUME run \in Findings
    PROVE  /\ Misread \in Findings
           /\ Misread.breached = run.breached \cup {"orphaned"}
           /\ Misread.snapshot = run.snapshot /\ Misread.mark = run.mark
           /\ Misread.listed = run.listed /\ Misread.misread = TRUE
<1>1. Count("orphaned", TRUE) = [run EXCEPT !.breached = @ \cup {"orphaned"}]
    BY DEF Count
<1>2. run.breached \cup {"orphaned"} \in SUBSET Metrics
    BY DEFS Findings, Metrics
<1>3. QED
    BY <1>1, <1>2 DEFS Misread, Findings

\* A sampling run learns what is the case.
LEMMA SamplerKeepsWatch ==
    ASSUME WatchInv, SamplerStep
    PROVE  WatchInv'
<1> USE DEFS WatchInv, ToolsDecide, MarksArePast, SnapshotsAreTrue, OpenSince, GoneSince,
        AlarmIsJustified, Query, Blank, vars, store, tools, clock, indexed
<1>1. CASE CheckPrivileges
  <2>1. \E failed \in BOOLEAN :
           run' = [breached |-> {}, errors |-> failed, misread |-> FALSE, snapshot |-> "unread", mark |-> 0,
                   listed |-> "unread"]
    BY <1>1 DEF CheckPrivileges
  <2>2. run' \in Findings /\ run'.mark = 0 /\ run'.breached = {} /\ run'.snapshot = "unread"
    BY <2>1 DEFS Findings, Metrics
  <2>3. QED
    BY <1>1, <2>2 DEF CheckPrivileges
<1>2. CASE StuckClaims
  <2>1. PICK found \in BOOLEAN : run' \in {Count("stuck", found), Unmeasurable}
    BY <1>2 DEF StuckClaims
  <2>2. QED
    BY <1>2, <2>1, CountFields DEFS StuckClaims, Metrics
<1>3. CASE SearchOrphans
    BY <1>3 DEFS SearchOrphans, Unmeasurable, Findings
<1>4. CASE PairOrphans
  <2>1. CASE run' = Misread
    BY <1>4, <2>1, MisreadFields DEF PairOrphans
  <2>2. CASE run' \in {Count("orphaned", ckpt = "none"), Unmeasurable}
    BY <1>4, <2>2, CountFields DEFS PairOrphans, Metrics
  <2>3. QED
    BY <1>4, <2>1, <2>2 DEF PairOrphans
<1>5. CASE CountVanished
    BY <1>5, CountFields DEFS CountVanished, Vanished, Metrics
<1>6. CASE SnapshotOpen
  <2>1. /\ run' \in Findings /\ run'.breached = run.breached
        /\ \/ run'.mark = seq /\ run'.snapshot = "unread"
           \/ run'.mark = seq /\ run'.snapshot = "open" /\ claim = "CLAIMED"
           \/ run'.mark = run.mark /\ run'.snapshot = "failed"
    BY <1>6 DEFS SnapshotOpen, Findings
  <2>2. QED
    BY <1>6, <2>1 DEF SnapshotOpen
<1>7. CASE SnapshotSettled
    BY <1>7 DEFS SnapshotSettled, SettledPhases, Findings
<1>8. CASE ListVanished
    BY <1>8 DEFS ListVanished, Vanished, Findings
<1>9. CASE IndexSample
    BY <1>9 DEFS IndexSample, Findings
<1>10. CASE LoseSample
    BY <1>10 DEFS LoseSample, Findings
<1>11. QED
    BY <1>1, <1>2, <1>3, <1>4, <1>5, <1>6, <1>7, <1>8, <1>9, <1>10 DEF SamplerStep

\* The approval path, the calendar and a deletion from outside are steps of the
\* claim; the rest are steps of the sampling run.
LEMMA WatchKeeps ==
    ASSUME WatchInv, [WatchNext]_watchVars
    PROVE  WatchInv'
<1>1. CASE DatedStep
    BY <1>1, DatedStepIsClaimStep, ClaimStepKeepsWatch DEF DatedStep
<1>2. CASE Tick
    BY <1>2, ClaimStepKeepsWatch DEFS Tick, ClaimStep, vars, store, tools, WatchInv, ToolsDecide
<1>3. CASE DeleteOutside
    BY <1>3, ClaimStepKeepsWatch
       DEFS DeleteOutside, WriteClaim, tools, clock, WatchInv, ToolsDecide
<1>4. CASE UNCHANGED watchVars
    BY <1>4, ClaimStepKeepsWatch
       DEFS watchVars, ClaimStep, vars, store, tools, clock, WatchInv, ToolsDecide
<1>5. QED
    BY <1>1, <1>2, <1>3, <1>4, SamplerKeepsWatch DEF WatchNext

\* A vanished-claims alarm is never raised by the retention job alone, except
\* over a claim that was released since the baseline, for any number of requests,
\* recoveries and days, under every fault and with forced recoveries as well.
THEOREM JustifiedAlarm == WatchSpec => []AlarmIsJustified
<1>1. WatchInv => AlarmIsJustified
    BY DEF WatchInv
<1>2. QED
    BY WatchStarts, WatchKeeps, <1>1, PTL DEF WatchSpec

\* BuriedOnlyUnseen of main(): what vanished under a baseline is counted, named
\* or declared unmeasurable by the sample that replaces it, unless the second
\* look of that run failed: it comes after the snapshot, and only a claim that
\* was won again in between, at the price of a version, can be missed by it.
THEOREM UnseenAlone == WatchSpec => BuriedOnlyUnseen
<1>1. WatchInv => (Replaces => Reported \/ run.listed = "failed")
    BY DEFS WatchInv, MarksArePast, Findings, GoneSince, Replaces, Reported, IndexSample
<1>2. WatchInv /\ [WatchNext]_watchVars
        => [Replaces => Reported \/ run.listed = "failed"]_watchVars
    BY <1>1
<1>3. QED
    BY WatchStarts, WatchKeeps, <1>2, PTL DEFS WatchSpec, BuriedOnlyUnseen

\* What took the alert out of PENDING_APPROVAL is a block that has landed.
GoneMeansLanded ==
    /\ pc \in [Requests -> Steps]
    /\ wire \in [Requests -> {"none", "inflight", "landed", "refused", "lost"}]
    /\ outcome \in [Requests -> {"none", "ok", "failed", "unknown"}]
    /\ run \in Findings /\ seq \in Nat
    /\ ckpt \in {"none", "PENDING_APPROVAL", "EXECUTED"}
    /\ \A h \in Requests : outcome[h] = "ok" => wire[h] = "landed"
    /\ \A h \in Requests :
          pc[h] \in {"idle", "create", "get", "reclaim"} \cup Undispatched => wire[h] = "none"
    /\ ckpt # "PENDING_APPROVAL" => BlockLanded
    /\ OrphanHasCause

\* Only an approval whose block has landed writes EXECUTED.
LEMMA RequestKeepsLanded ==
    ASSUME GoneMeansLanded, NEW h \in Requests, RequestStep(h) \/ BrokerStep(h),
           UNCHANGED sampler
    PROVE  GoneMeansLanded'
<1> USE DEFS GoneMeansLanded, BlockLanded, OrphanHasCause, sampler, Steps, Undispatched, Goto,
        Reply, WriteClaim, TransitionClaim, Findings
<1>1. CASE CheckPhase(h) \/ CreateClaim(h) \/ GetClaim(h) \/ ReclaimClaim(h)
    BY <1>1 DEFS CheckPhase, CreateClaim, GetClaim, ReclaimClaim, ReclaimIf, store
<1>2. CASE LogClaimed(h) \/ ReadContext(h) \/ LogOutcome(h) \/ SettleClaim(h)
    BY <1>2 DEFS LogClaimed, ReadContext, LogOutcome, SettleClaim, SettleAs, store
<1>3. CASE Execute(h)
    BY <1>3 DEFS Execute, store
<1>4. CASE AwaitBroker(h)
    BY <1>4 DEFS AwaitBroker, Learned, store
<1>5. CASE RecordPhase(h)
    BY <1>5 DEFS RecordPhase, PhaseAfter
<1>6. CASE BrokerStep(h)
    BY <1>6 DEFS BrokerStep, BrokerApplies, BrokerRefuses, NetworkLoses, WireStep, store, local
<1>7. QED
    BY <1>1, <1>2, <1>3, <1>4, <1>5, <1>6 DEF RequestStep

\* A run counts a claim as orphaned while its checkpoint is gone or cannot be
\* read, and nothing brings a landed block back.
LEMMA WatchKeepsLanded ==
    ASSUME GoneMeansLanded, [WatchNext]_watchVars
    PROVE  GoneMeansLanded'
<1>1. CASE DatedStep
  <2>1. ASSUME NEW r \in Recoveries, RecoveryStep(r), UNCHANGED sampler PROVE GoneMeansLanded'
    BY <2>1 DEFS RecoveryStep, InspectClaim, TransitionStuckClaim, ToolWrites, GoneMeansLanded,
       BlockLanded, OrphanHasCause, WriteClaim, store, local, sampler, Findings
  <2>2. ASSUME CompactClaim \/ CompactCheckpoint \/ Crash, UNCHANGED sampler
        PROVE  GoneMeansLanded'
    BY <2>2 DEFS CompactClaim, CompactCheckpoint, Crash, GoneMeansLanded, TerminalPhases,
       BlockLanded, OrphanHasCause, WriteClaim, store, local, sampler, Steps, Undispatched,
       Findings
  <2>3. QED
    BY <1>1, <2>1, <2>2, RequestKeepsLanded DEFS DatedStep, Next
<1>2. CASE Tick \/ DeleteOutside \/ UNCHANGED watchVars
    BY <1>2 DEFS Tick, DeleteOutside, watchVars, vars, store, local, sampler, WriteClaim,
       GoneMeansLanded, BlockLanded, OrphanHasCause, Findings
<1>3. ASSUME UNCHANGED vars, run' \in Findings,
             run.misread => run'.misread,
             "orphaned" \in run'.breached =>
                "orphaned" \in run.breached \/ ckpt = "none" \/ run'.misread
      PROVE  GoneMeansLanded'
    BY <1>3 DEFS vars, store, local, GoneMeansLanded, BlockLanded, OrphanHasCause
<1>4. ASSUME NEW metric \in Metrics, NEW some \in BOOLEAN, UNCHANGED vars,
             run' \in {Count(metric, some), Unmeasurable},
             metric = "orphaned" /\ some => ckpt = "none"
      PROVE  GoneMeansLanded'
    BY <1>3, <1>4, CountFields DEFS GoneMeansLanded, Metrics
<1>5. CASE StuckClaims
    BY <1>4, <1>5 DEFS StuckClaims, Query, Metrics
<1>6. CASE PairOrphans
  <2>1. CASE run' = Misread
    BY <1>3, <1>6, <2>1, MisreadFields DEFS PairOrphans, Query, GoneMeansLanded
  <2>2. CASE run' \in {Count("orphaned", ckpt = "none"), Unmeasurable}
    BY <1>4, <1>6, <2>2 DEFS PairOrphans, Query, Metrics
  <2>3. QED
    BY <1>6, <2>1, <2>2 DEFS PairOrphans, Query
<1>7. CASE CountVanished
  <2>1. Vanished \in BOOLEAN
    BY DEF Vanished
  <2>2. QED
    BY <1>4, <1>7, <2>1 DEFS CountVanished, Query, Metrics
<1>8. ASSUME UNCHANGED vars, run' \in Findings, run'.breached \subseteq run.breached,
             run.misread => run'.misread
      PROVE  GoneMeansLanded'
    BY <1>3, <1>8
<1>9. CASE CheckPrivileges \/ IndexSample \/ LoseSample
  <2>1. /\ Blank \in Findings /\ [Blank EXCEPT !.errors = TRUE] \in Findings
        /\ Blank.breached = {} /\ [Blank EXCEPT !.errors = TRUE].breached = {}
    BY DEFS Blank, Findings
  <2>2. UNCHANGED vars /\ run' \in Findings /\ run'.breached = {}
    BY <1>9, <2>1 DEFS CheckPrivileges, IndexSample, LoseSample, Query
  <2>3. QED
    BY <2>2 DEFS vars, store, local, GoneMeansLanded, BlockLanded, OrphanHasCause
<1>10. CASE SearchOrphans
    BY <1>8, <1>10 DEFS SearchOrphans, Query, Unmeasurable, GoneMeansLanded, Findings
<1>11. CASE SnapshotOpen
    BY <1>8, <1>11 DEFS SnapshotOpen, Query, GoneMeansLanded, Findings
<1>12. CASE SnapshotSettled \/ ListVanished
    BY <1>8, <1>12 DEFS SnapshotSettled, ListVanished, Query, GoneMeansLanded, Findings
<1>13. QED
    BY <1>1, <1>2, <1>5, <1>6, <1>7, <1>9, <1>10, <1>11, <1>12 DEFS WatchNext, SamplerStep

\* OrphanHasCause of metric_orphaned_claims: a claim is counted as orphaned
\* because its block has landed and its EXECUTED checkpoint expired, or because
\* the lookup of the checkpoint failed for that document and no one noticed;
\* whatever else fails and whoever is forced.
THEOREM OrphanCaused == WatchSpec => []OrphanHasCause
<1>1. WatchInit => GoneMeansLanded
    BY DEFS WatchInit, Init, GoneMeansLanded, OrphanHasCause, BlockLanded, Blank, Findings,
       Steps, Undispatched
<1>2. GoneMeansLanded => OrphanHasCause
    BY DEF GoneMeansLanded
<1>3. QED
    BY <1>1, <1>2, WatchKeepsLanded, PTL DEF WatchSpec
=============================================================================
