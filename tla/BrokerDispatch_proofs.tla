------------------------- MODULE BrokerDispatch_proofs -------------------------
(***************************************************************************)
(* For every set of routers and every combination of network and disk      *)
(* faults, late commands and follow-ups that answer wrongly: a "failed"    *)
(* for which no follow-up was misled means that the block did not and will *)
(* not take effect, a success is never false, and the agent's verdict on   *)
(* its call implements ContainmentOnce.  And the agent's patience outlasts *)
(* the broker's limits.                                                    *)
(***************************************************************************)
EXTENDS BrokerDispatch, TLAPS

\* A session knows whether its command may still run: never before it is sent,
\* and after that until it has seen its exit status.
SessionKnowsProcess ==
    \A r \in Routers :
        /\ session[r] \in {"idle", "connect"} => process[r] = "none"
        /\ process[r] = "none" => session[r] # "command"
        /\ session[r] \in {"verify_connect", "verify_command"} => process[r] # "none"

\* What the router's exit status says about the effect.
ExitIsTrue ==
    \A r \in Routers :
        /\ process[r] \in {"none", "running", "exit_1"} => r \notin effect
        /\ process[r] = "exit_0" => r \in effect

\* What block_ip_on_router returned is a fact about the router, unless its
\* follow-up was misled.
StatusIsTrue ==
    \A r \in Routers :
        /\ status[r] # "none" <=> session[r] = "done"
        /\ status[r] = "success" => r \in effect
        /\ status[r] = "failed" /\ r \notin misled => r \notin effect /\ process[r] # "running"

\* The broker answers when every session is over, or before any started.
ReplyIsTimely ==
    /\ request # "served" => reply = "none" /\ \A r \in Routers : session[r] = "idle"
    /\ reply \in {"refused", "unbound"} => \A r \in Routers : session[r] = "idle"
    /\ reply \in {"counted", "error"} => \A r \in Routers : session[r] = "done"

\* An answer that proves that no router ran the command, or ever will, but for
\* those whose follow-up was misled.
ProvesFailure == \/ reply = "refused"
                 \/ reply = "counted" /\ Succeeded = {} /\ Unconfirmed = {}

\* The agent's verdict and the answer it rests on.
ResultIsProved ==
    /\ call # "done" => result = "none"
    /\ call = "idle" => request = "none"
    /\ result = "ok" => Succeeded # {}
    /\ result = "failed" => ProvesFailure

IInv == /\ TypeOK
        /\ SessionKnowsProcess
        /\ ExitIsTrue
        /\ StatusIsTrue
        /\ ReplyIsTimely
        /\ ResultIsProved

\* It does prove it.
LEMMA ProofOfFailure ==
  ASSUME IInv, ProvesFailure
  PROVE  \A r \in Routers : r \in effect \/ process[r] = "running" => r \in misled
<1>1. CASE reply = "refused"
  BY <1>1 DEF IInv, TypeOK, ReplyIsTimely, SessionKnowsProcess, ExitIsTrue
<1>2. CASE reply = "counted" /\ Succeeded = {} /\ Unconfirmed = {}
  <2>1. \A r \in Routers : status[r] = "failed"
    BY <1>2 DEF IInv, TypeOK, ReplyIsTimely, StatusIsTrue, Succeeded, Unconfirmed
  <2>2. QED
    BY <1>2, <2>1 DEF IInv, TypeOK, ReplyIsTimely, SessionKnowsProcess, StatusIsTrue
<1>3. QED  BY <1>1, <1>2 DEF ProvesFailure

\* What TLC checks on instances, from the parts above.
LEMMA InvariantMeans ==
  ASSUME IInv
  PROVE  CountsAreHonest /\ FailedUnlessMisled
<1>1. CountsAreHonest
  BY DEF IInv, TypeOK, StatusIsTrue, Succeeded, CountsAreHonest
<1>2. FailedUnlessMisled
  BY ProofOfFailure DEFS IInv, ResultIsProved, FailedUnlessMisled
<1>3. QED  BY <1>1, <1>2

\* No session, process or answer exists at first.
LEMMA InitHolds == Init => IInv
BY DEF Init, IInv, TypeOK, SessionKnowsProcess, ExitIsTrue, StatusIsTrue,
       ReplyIsTimely, ResultIsProved, Replies, AgentTimeout

-----------------------------------------------------------------------------
(* Every action keeps the invariant.                                       *)

\* The agent's steps read the answer and touch nothing else.
LEMMA AgentKeeps ==
  ASSUME IInv, Post \/ GiveUp \/ Classify
  PROVE  IInv'
<1>1. CASE Post
  BY <1>1 DEFS IInv, TypeOK, SessionKnowsProcess, ExitIsTrue, StatusIsTrue, ReplyIsTimely,
               ResultIsProved, Post, ssh, router, Succeeded, Unconfirmed, ProvesFailure
<1>2. ASSUME NEW what \in {"ok", "failed", "unknown"}, Conclude(what),
             what = "ok" => Succeeded # {},
             what = "failed" => ProvesFailure
      PROVE  IInv'
  BY <1>2 DEFS IInv, TypeOK, SessionKnowsProcess, ExitIsTrue, StatusIsTrue, ReplyIsTimely,
               ResultIsProved, Conclude, wire, ssh, router, Succeeded, Unconfirmed, ProvesFailure
<1>3. CASE GiveUp
  BY <1>3, <1>2 DEF GiveUp
<1>4. CASE Classify
  <2>1. /\ Meaning(reply) \in {"ok", "failed", "unknown"}
        /\ Meaning(reply) = "ok" => Succeeded # {}
        /\ Meaning(reply) = "failed" => ProvesFailure
    BY <1>4 DEFS ProvesFailure, Classify, Meaning, IInv, TypeOK, Replies
  <2>2. QED  BY <2>1, <1>2, <1>4 DEF Classify
<1>5. QED  BY <1>1, <1>3, <1>4

\* The broker starts sessions before it answers, and answers when they are over.
LEMMA BrokerKeeps ==
  ASSUME IInv, Receive \/ AnswerCounts \/ NetworkFails \/ NetworkLoses
  PROVE  IInv'
<1>1. CASE Receive
  BY <1>1 DEFS IInv, TypeOK, SessionKnowsProcess, ExitIsTrue, StatusIsTrue, ReplyIsTimely,
               ResultIsProved, Receive, Enter, Limit, agent, ssh, router, Phases, Replies,
               Succeeded, Unconfirmed, ProvesFailure
<1>2. CASE AnswerCounts
  BY <1>2 DEFS IInv, TypeOK, SessionKnowsProcess, ExitIsTrue, StatusIsTrue, ReplyIsTimely,
               ResultIsProved, AnswerCounts, agent, ssh, router, Replies, Succeeded, Unconfirmed,
               ProvesFailure
<1>3. CASE NetworkFails \/ NetworkLoses
  BY <1>3 DEFS IInv, TypeOK, SessionKnowsProcess, ExitIsTrue, StatusIsTrue, ReplyIsTimely,
               ResultIsProved, NetworkFails, NetworkLoses, agent, ssh, router, Succeeded, Unconfirmed,
               ProvesFailure
<1>4. QED  BY <1>1, <1>2, <1>3

\* While a session is open there is no answer and nothing is proved yet.
LEMMA OpenSession ==
  ASSUME IInv, NEW r \in Routers, session[r] \in Phases
  PROVE  /\ request = "served" /\ reply \notin {"counted", "error", "refused", "unbound"}
         /\ status[r] = "none" /\ result # "failed"
BY DEFS IInv, ReplyIsTimely, StatusIsTrue, ResultIsProved, ProvesFailure, Phases

\* A session that goes on or returns a fact about its router keeps the invariant.
LEMMA RouterKeeps ==
  ASSUME IInv, NEW r \in Routers, RouterStep(r)
  PROVE  IInv'
<1> USE OpenSession DEFS IInv, TypeOK, SessionKnowsProcess, ExitIsTrue, StatusIsTrue,
        ReplyIsTimely, ResultIsProved, Phases, Phase, Return, Ends, Limit, agent, wire, ssh,
        router, Succeeded, Unconfirmed, ProvesFailure
<1>1. CASE Connect(r)
  BY <1>1 DEF Connect
<1>2. CASE RunCommand(r)
  BY <1>2 DEF RunCommand
<1>3. CASE Finish(r)
  BY <1>3 DEF Finish
<1>4. CASE Break(r)
  BY <1>4 DEF Break
<1>5. CASE VerifyConnect(r)
  BY <1>5 DEF VerifyConnect
<1>6. CASE VerifyCommand(r)
  BY <1>6 DEFS VerifyCommand, Verdict
<1>7. QED  BY <1>1, <1>2, <1>3, <1>4, <1>5, <1>6 DEF RouterStep

\* The passing of time changes only the two kinds of patience.
LEMMA TickKeeps ==
  ASSUME IInv, Tick
  PROVE  IInv'
BY DEFS IInv, TypeOK, SessionKnowsProcess, ExitIsTrue, StatusIsTrue, ReplyIsTimely,
        ResultIsProved, Tick, wire, router, Phases, Succeeded, Unconfirmed, ProvesFailure

\* A step that changes nothing keeps the invariant.
LEMMA StutterKeeps ==
  ASSUME IInv, UNCHANGED vars
  PROVE  IInv'
BY DEFS IInv, TypeOK, SessionKnowsProcess, ExitIsTrue, StatusIsTrue, ReplyIsTimely,
        ResultIsProved, vars, agent, wire, ssh, router, Succeeded, Unconfirmed, ProvesFailure

\* The invariant holds of every behaviour.
THEOREM Invariance == Spec => []IInv
<1>1. IInv /\ [Next]_vars => IInv'
  BY AgentKeeps, BrokerKeeps, RouterKeeps, TickKeeps, StutterKeeps DEF Next
<1>2. QED  BY InitHolds, <1>1, PTL DEF Spec

\* _reconcile_unknown and block_ip_on_router: a router that ran the command of
\* a call that failed, or still may, had a follow-up that answered "absent".
THEOREM FailureIsFoundOut == Spec => []FailedUnlessMisled
<1>1. IInv => FailedUnlessMisled
  BY InvariantMeans
<1>2. QED  BY <1>1, Invariance, PTL

\* dispatch_block_to_all: no router is counted as a success without the block,
\* and none with it among the failures but by a misled follow-up.
THEOREM HonestCounts == Spec => []CountsAreHonest
<1>1. IInv => CountsAreHonest
  BY InvariantMeans
<1>2. QED  BY <1>1, Invariance, PTL

-----------------------------------------------------------------------------
(* The agent's patience outlasts the broker's time limits.                 *)

\* What may follow a phase of a session before it returns.
Later(phase) == CASE phase = "connect" -> Limit("command") + Limit("verify_connect")
                                                          + Limit("verify_command")
                  [] phase = "command" -> Limit("verify_connect") + Limit("verify_command")
                  [] phase = "verify_connect" -> Limit("verify_command")
                  [] OTHER -> 0

\* What the agent has left when every session takes as long as it may.
Spare == AgentTimeout - (Limit("connect") + Later("connect"))

\* The call begins at once, and ends with the first answer.
CallIsTimely ==
    /\ call # "done" => result = "none"
    /\ call = "idle" <=> request = "none"
    /\ request = "lost" => net = "down"
    /\ request = "served" /\ reply = "none" => \A r \in Routers : session[r] # "idle"

\* While the network works, every session still fits into the agent's patience.
PatienceLasts ==
    net = "up" =>
        /\ request # "served" => patience = AgentTimeout
        /\ call = "wait" => patience >= Spare
        /\ call = "wait" => \A r \in Routers :
              session[r] \in Phases => patience >= Spare + left[r] + Later(session[r])

PInv == /\ TypeOK /\ ReplyIsTimely /\ CallIsTimely
        /\ PatienceLasts /\ UnknownHasReason

\* The time limits in seconds.
LEMMA TimeLimits ==
    /\ AgentTimeout = 25 /\ Spare = 9
    /\ Limit("connect") = 5 /\ Limit("command") = 5
    /\ Limit("verify_connect") = 3 /\ Limit("verify_command") = 3
    /\ Later("connect") = 11 /\ Later("command") = 6
    /\ Later("verify_connect") = 3 /\ Later("verify_command") = 0
BY DEF AgentTimeout, Spare, Limit, Later

\* The agent has its whole patience before the call.
LEMMA PatienceStarts == Init => PInv
BY TimeLimits DEFS Init, PInv, TypeOK, ReplyIsTimely, CallIsTimely, PatienceLasts,
        UnknownHasReason, Phases, Replies

\* It never gives up on a working network, so "unknown" is the broker's word.
LEMMA AgentKeepsPatience ==
    ASSUME PInv, Post \/ GiveUp \/ Classify
    PROVE  PInv'
<1> USE DEFS PInv, TypeOK, ReplyIsTimely, CallIsTimely, PatienceLasts, UnknownHasReason,
        Succeeded, Unconfirmed, ssh, router, wire
<1>1. CASE Post
    BY <1>1, TimeLimits DEFS Post, Phases
<1>2. CASE GiveUp
    BY <1>2, TimeLimits DEF GiveUp, Conclude
<1>3. CASE Classify
    BY <1>3 DEFS Classify, Conclude, Meaning, Replies
<1>4. QED
    BY <1>1, <1>2, <1>3

\* Receive opens the sessions with the agent's patience untouched.
LEMMA BrokerKeepsPatience ==
    ASSUME PInv, Receive \/ AnswerCounts \/ NetworkFails \/ NetworkLoses
    PROVE  PInv'
<1> USE DEFS PInv, TypeOK, ReplyIsTimely, CallIsTimely, PatienceLasts, UnknownHasReason,
        Succeeded, Unconfirmed, agent, ssh, router
<1>1. CASE Receive
    BY <1>1, TimeLimits DEF Receive, Enter, Phases, Replies
<1>2. CASE AnswerCounts
    BY <1>2 DEF AnswerCounts, Replies
<1>3. CASE NetworkFails \/ NetworkLoses
    BY <1>3 DEF NetworkFails, NetworkLoses
<1>4. QED
    BY <1>1, <1>2, <1>3

\* A session that goes on to its next phase was granted that phase before.
LEMMA RouterKeepsPatience ==
    ASSUME PInv, NEW r \in Routers, RouterStep(r)
    PROVE  PInv'
<1> USE DEFS PInv, TypeOK, ReplyIsTimely, CallIsTimely, PatienceLasts, UnknownHasReason,
        agent, wire, ssh
<1>1. CASE RunCommand(r)
    BY <1>1 DEF RunCommand, Ends, Succeeded, Unconfirmed
<1>2. ASSUME NEW from \in Phases, NEW to \in Phases \cup {"done"}, Phase(r, from, to),
             to # "done" => Later(from) = Limit(to) + Later(to),
             status' = status \/ status' = [status EXCEPT ![r] = "success"]
                \/ status' = [status EXCEPT ![r] = "failed"]
                \/ status' = [status EXCEPT ![r] = "unknown"],
             process' \in [Routers -> {"none", "running", "exit_0", "exit_1", "signaled"}],
             effect' \subseteq Routers, before' \subseteq Routers,
             misled' \subseteq Routers
      PROVE  PInv'
  <2>1. request = "served" /\ reply = "none"
    BY <1>2 DEF Phase, Phases, Replies
  <2>2. to \in Phases => Limit(to) \in 0..5
    BY TimeLimits DEF Phases
  <2>3. TypeOK'
    BY <1>2, <2>2 DEF Phase
  <2>4. PatienceLasts'
    BY <1>2, <2>1, TimeLimits DEF Phase, Phases
  <2>5. QED
    BY <1>2, <2>1, <2>3, <2>4 DEF Phase, Phases
<1>3. CASE Connect(r)
    BY <1>3, <1>2, TimeLimits DEF Connect, Return, Phase, Phases, router
<1>4. CASE Finish(r)
    BY <1>4, <1>2, TimeLimits DEF Finish, Return, Phase, Phases, router
<1>5. CASE Break(r)
    BY <1>5, <1>2, TimeLimits DEF Break, Ends, Phase, Phases, router
<1>6. CASE VerifyConnect(r)
    BY <1>6, <1>2, TimeLimits DEF VerifyConnect, Return, Phase, Phases, router
<1>7. CASE VerifyCommand(r)
    BY <1>7, <1>2, TimeLimits DEF VerifyCommand, Verdict, Return, Phase, Phases, router
<1>8. QED
    BY <1>1, <1>3, <1>4, <1>5, <1>6, <1>7 DEF RouterStep

\* On a working network a second only passes while some session uses it up.
LEMMA TickKeepsPatience ==
    ASSUME PInv, Tick
    PROVE  PInv'
<1> USE DEFS PInv, TypeOK, ReplyIsTimely, CallIsTimely, PatienceLasts, UnknownHasReason, Tick,
        wire, router
<1>1. TypeOK' /\ ReplyIsTimely' /\ CallIsTimely' /\ UnknownHasReason'
    BY DEF Succeeded, Unconfirmed
<1>2. ASSUME net = "up", call = "wait" PROVE request = "served" /\ reply = "none"
    BY <1>2
<1>3. ASSUME net = "up", call = "wait"
      PROVE  \E r \in Routers : session[r] \in Phases /\ patience >= Spare + left[r]
                                                   /\ left[r] > 0
    BY <1>3, <1>2, TimeLimits DEF Phases
<1>4. PatienceLasts'
    BY <1>2, <1>3, TimeLimits DEF Phases
<1>5. QED
    BY <1>1, <1>4

\* On a working network, "unknown" is what the broker said, never the agent's
\* own timeout: dispatch_block_via_broker's 25 seconds outlast the sum of the
\* dispatcher's limits, for any number of routers and whatever they do.
THEOREM UnknownIsReasoned == Spec => []UnknownHasReason
<1>1. PInv /\ UNCHANGED vars => PInv'
    BY DEFS PInv, TypeOK, ReplyIsTimely, CallIsTimely, PatienceLasts, UnknownHasReason,
       Succeeded, Unconfirmed, vars, agent, wire, ssh, router
<1>2. PInv /\ [Next]_vars => PInv'
    BY <1>1, AgentKeepsPatience, BrokerKeepsPatience, RouterKeepsPatience, TickKeepsPatience
       DEF Next
<1>3. PInv => UnknownHasReason
    BY DEF PInv
<1>4. QED
    BY PatienceStarts, <1>2, <1>3, PTL DEF Spec

-----------------------------------------------------------------------------
(* The refinement.                                                         *)

\* The call starts with nothing landed and nothing told.
LEMMA InitImplements == Init => Contract!Init
BY DEFS Init, Contract!Init, Word

\* A verdict is Tell, and the first effect on a router is Land.
LEMMA StepImplements ==
  ASSUME IInv, IInv', [Next]_vars
  PROVE  [Contract!Next]_(Contract!vars)
<1> DEFINE Landed == IF effect = {} THEN {} ELSE {"call"}
           Told == [c \in {"call"} |-> Word(result)]
<1>1. ASSUME UNCHANGED <<effect, result, misled>>
      PROVE  UNCHANGED Contract!vars
  BY <1>1 DEF Contract!vars, Word
<1>2. ASSUME NEW what \in {"ok", "failed", "unknown"}, Conclude(what), result' = what,
             what = "ok" => effect # {}, what = "failed" /\ misled = {} => effect = {}
      PROVE  \E word \in Contract!Words \ {"nothing"} : Contract!Tell("call", word)
  <2>1. result = "none" /\ UNCHANGED <<effect, misled>>
    BY <1>2 DEFS IInv, ResultIsProved, Conclude, router
  <2>2. Word(what) \in Contract!Words \ {"nothing"}
    BY DEFS Word, Contract!Words
  <2>3. Told["call"] = "nothing" /\ Told' = [Told EXCEPT !["call"] = Word(what)]
    BY <2>1, <1>2 DEF Word
  <2>4. Word(what) = "executed" => "call" \in Landed
    BY <1>2 DEF Word
  <2>5. Word(what) = "failed" => "call" \notin Landed
    BY <1>2 DEF Word
  <2>6. UNCHANGED Landed
    BY <2>1
  <2>7. Contract!Tell("call", Word(what))
    BY <2>3, <2>4, <2>5, <2>6 DEF Contract!Tell
  <2>8. QED  BY <2>2, <2>7
<1>3. ASSUME GiveUp \/ Classify
      PROVE  \E word \in Contract!Words \ {"nothing"} : Contract!Tell("call", word)
  <2>1. PICK what \in {"ok", "failed", "unknown"} :
           /\ Conclude(what) /\ result' = what
           /\ what = "ok" => Succeeded # {}
           /\ what = "failed" => ProvesFailure
    BY <1>3 DEFS GiveUp, Classify, Meaning, Conclude, IInv, TypeOK, Replies, ProvesFailure
  <2>2. what = "ok" => effect # {}
    BY <2>1 DEFS IInv, StatusIsTrue, Succeeded
  <2>3. what = "failed" /\ misled = {} => effect = {}
    BY <2>1, ProofOfFailure DEFS IInv, TypeOK
  <2>4. QED  BY <2>1, <2>2, <2>3, <1>2
<1>4. ASSUME NEW r \in Routers, effect' = effect \cup {r}, UNCHANGED <<result, misled>>,
             process[r] = "running"
      PROVE  UNCHANGED Contract!vars \/ Contract!Land("call")
  <2>1. CASE effect = {}
    <3>1. Told["call"] \in {"nothing", "unsure"}
      <4>1. result # "ok"
        BY <2>1 DEFS IInv, ResultIsProved, StatusIsTrue, Succeeded
      <4>2. result = "failed" => misled # {}
        BY <1>4, InvariantMeans DEF FailedUnlessMisled
      <4>3. QED  BY <4>1, <4>2 DEFS IInv, TypeOK, Word
    <3>2. Landed = {} /\ Landed' = {"call"} /\ UNCHANGED Told
      BY <2>1, <1>4 DEF Word
    <3>3. QED  BY <3>1, <3>2 DEF Contract!Land
  <2>2. CASE effect # {}
    BY <2>2, <1>4 DEF Contract!vars, Word
  <2>3. QED  BY <2>1, <2>2
<1>5. ASSUME NEW r \in Routers, RouterStep(r)
      PROVE  UNCHANGED Contract!vars \/ Contract!Land("call")
  <2>1. UNCHANGED result
    BY <1>5 DEFS RouterStep, Connect, RunCommand, Finish, Break, VerifyConnect, VerifyCommand,
                 Return, Phase, Ends, agent
  <2>2. CASE VerifyCommand(r)
    <3>1. result # "failed" /\ UNCHANGED effect
      BY <2>2, OpenSession DEFS VerifyCommand, Return, Phase, Phases
    <3>2. result \in {"none", "ok", "unknown"}
      BY <3>1 DEFS IInv, TypeOK
    <3>3. Word(result)' = Word(result)
      BY <2>1, <3>2 DEF Word
    <3>4. QED  BY <2>1, <3>1, <3>3 DEF Contract!vars
  <2>3. CASE ~VerifyCommand(r)
    <3>1. UNCHANGED misled /\ (UNCHANGED effect \/ (effect' = effect \cup {r} /\ process[r] = "running"))
      BY <1>5, <2>3 DEFS RouterStep, Connect, RunCommand, Finish, Break, VerifyConnect, Ends, router
    <3>2. QED  BY <2>1, <3>1, <1>1, <1>4
  <2>4. QED  BY <2>2, <2>3
<1>6. CASE Post \/ Receive \/ AnswerCounts \/ NetworkFails \/ NetworkLoses \/ Tick \/ UNCHANGED vars
  BY <1>6, <1>1 DEFS Post, Receive, AnswerCounts, NetworkFails, NetworkLoses, Tick, agent, router, vars
<1>7. QED
  BY <1>3, <1>5, <1>6 DEFS Next, Contract!Next

\* What the approval path assumes of a call to the broker is what the broker
\* does, whatever the network, the disks and the SSH sessions do, as long as no
\* follow-up is misled; a "failed" after that may still land, like an "unknown".
THEOREM KeepsContract == Spec => ImplementsContract
<1>1. Init => Contract!Init
  BY InitImplements
<1>2. IInv /\ IInv' /\ [Next]_vars => [Contract!Next]_(Contract!vars)
  BY StepImplements
<1>3. QED
  BY <1>1, <1>2, Invariance, PTL DEF Spec, ImplementsContract, Contract!Spec
=============================================================================
