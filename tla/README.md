# Formal model of Suburban SOC's response path

TLA+ specifications of the parts of Suburban SOC in which a mistake blocks the
wrong thing, blocks twice, blocks silently, loses an alert or loses what would
have shown it: the SOC agent (`scripts/setup/ai_agent`) with its jobs and
metrics, and the hive-mind broker (`scripts/hive-mind-broker`). TLC checks them
on small instances; TLAPS proves the safety properties among them for all
instances.

Paths below are relative to `src/`; line numbers are in `PROJECT.json` ("map").

## 1. Inventory

| Component | State | Operations | Hard behaviour | What makes it correct |
|---|---|---|---|---|
| Agent: approval of a draft (`agent.py` `execute_approved`, `checkpoints.py`) | checkpoint document, `.claim` document with `_seq_no`, latest queue row, the request's own progress | `POST /approve`: check phase, create or re-claim, log, read context, isolate, record, log, settle | four threads race for one claim; every Elasticsearch write may be applied and unacknowledged; the broker call may time out and still land; the process may die anywhere | at most one block; an open claim is a clean one; records and answers are facts; claims settle |
| Operator recovery (`manage_stuck_claims.py`) | the version it read | `resolve`: inspect, confirm, conditional write | the request being recovered may not be dead | never overrides a newer state |
| Retention of checkpoints (`compact_agent_checkpoints.py`) | – | delete by query of terminal documents | deletes under running requests; polls a server task | never reopens an executed alert |
| Agent: intake (`agent.py` `Agent.run`) | checkpoint, queue row | perceive, duplicate check, act (ignore, isolate, draft), check | non-atomic duplicate check, concurrent duplicate deliveries, tolerated write failures | one containment per alert; a draft can be approved; every alert is decided |
| Agent: technique suppression (`should_suppress_technique`) | one document per host and technique | read, decide, write | unconditional read-then-write; sliding window; fails open; a crash after the write | silence is always earned by a recent alert |
| Agent: approval queue (`_append_pending_action`, `GET /pending`, `compact_agent_approval_queue.py`) | append-only file, archive, lock file | append; list; archive and replace | another process replaces the file; a crash between two writes; failed and short writes | a cut line costs one row at most, nothing else is lost; open work stays visible |
| Signature and replay cache (`verify_signature`, `_nonce_is_fresh`, broker `_verify`) | signature cache with expiry, in memory | verify, prune; a restart empties it | window and expiry boundaries; time read before an `await` | a second copy of a message needs a slow verification; only copies are called replays |
| Broker: dispatch (`dispatcher.py`, `app.py` `dispatch_block`, agent `dispatch_block_via_broker`) | one SSH session per router, the router's nft set, the HTTP exchange | connect, run, reconcile, count, answer, classify | partial failure, ambiguous sessions, stacked timeouts, lost replies | "ok" is a fact, "failed" is one unless a follow-up was misled; "unknown" only for a reason |
| Broker: own alert intake, `/pending`, `/approve`, queue compaction (`app.py`, `compact_broker_approval_queue.py`) | queue file, archive, flock, each coroutine's progress | draft, list, approve, relay; archive and replace | two unlocked reads, an awaited dispatch between check and row, an append that blocks the event loop, a job that dies | what is listed is pending; what is resolved is never dispatched again; rows are facts; half an archive line costs one row at most; requests end |
| Threat-intelligence retention (`compact_threat_intel.py`, `refresh_intel.sh` as its writer) | the index, its heartbeat, the server's tasks | count, guard, kickoff, poll | the guard and what it guards are separate requests; tasks outlive their runs; refreshes meanwhile | only expired indicators go; the guard binds; a clean run has done its work |
| SLO sampling and alerting (`slo_metrics.py`) | the previous sample (claim snapshot, indicator count) | measure, snapshot, detail query, index | the claims move between six queries; baselines age or fail | an alarm has a cause; what disappears is reported unless the last look failed |
| Weekly report (`weekly_ciso_report.py`, trigger in `agent_app.py`) | report directory, Slack upload, notice | collect, write, prune, upload, notify | several pipelines share one directory; a file named by the second; deletion under an upload; deletions that fail | the notice is true; the directory is bounded; a report goes only to younger ones |
| Retry helper, Elasticsearch client | – | bounded retry, session | – | a failed retry is a failed call: not modelled by itself |
| Hunts, coverage and document generators, playbook views | files | sequential batch | none | not modelled: no shared state |
| Shell scripts, pipeline configuration, rules, dashboards | external services | orchestration | those of Docker, systemd, Elasticsearch, Logstash | not modelled: not this program's control flow |

Interactions: Logstash posts to `/alert`; `run()` writes the checkpoint, drafts
into the queue or isolates on its own authority; a human posts to `/approve`,
which reads the checkpoint, wins the claim and calls the broker; the broker
opens SSH sessions to the tenant's routers. The broker also takes alerts and
approvals of its own, through its own queue file. The operator tool, the
retention and compaction jobs and the sampling job are separate processes on
the same documents and files; the sampling job watches what the others do to
them. The agent runs as one gunicorn worker with four threads (`Dockerfile`),
the broker as one asyncio process; each accepted `/weekly-report` starts a
daemon thread.

## 2. Modules

| Module | Models | Composes |
|---|---|---|
| `ContainmentOnce` | the abstract promise: one block at most, "executed" and "failed" are facts | – |
| `ApprovalClaim` | approval, recovery and retention of one drafted alert | implements `ContainmentOnce` |
| `AlertLifecycle` | the same alert from its deliveries on | extends `ApprovalClaim` |
| `ClaimWatch` | the same claim watched by the sampling job, day by day | extends `ApprovalClaim` |
| `BrokerDispatch` | one containment call, agent to routers, in seconds | implements `ContainmentOnce` for its call |
| `BrokerApproval` | the broker's own queue, its four endpoints and its compaction | – |
| `ReplayWindow` | copies of one signed message against window and cache | – |
| `ApprovalQueue` | the agent's queue file, its lock, its listing and the compaction job | – |
| `SuppressionWindow` | firings of one technique on one host | – |
| `IntelRetention` | the indicator index between feed, retention runs, server tasks and sampling | – |
| `WeeklyReport` | report pipelines over one directory | – |
| `*_proofs` | the theorems of section 5 | extend their module; `ApprovalClaim_proofs` extends all three of the approval path |
| `MC*` | symmetry sets for TLC | extend their module |

Each definition named `Definition_Change` is `Definition` with one plausible
mistake; nothing uses it. It shows which property notices the mistake.

### ApprovalClaim

One alert, since documents of different alerts share nothing. `ckpt`, `claim`
and `seq` are the two Elasticsearch documents and the version the conditional
writes test; `row` is the latest status in the queue. A request has a program
counter `pc` with one step per store or network call of `execute_approved`;
`outcome` is what it learnt (`_execute_isolation` true, false or
`IsolationOutcomeUnknown`), `answer` the HTTP reply, `wire` what really became
of its dispatch, which the agent may never learn. Creating the claim, the
conditional re-claim and the conditional operator write are atomic, as
Elasticsearch makes them; the rest interleaves. With `"es"` every store call may
fail whether or not it was applied, `"net"` loses or delays the broker exchange,
`"disk"` fails a queue row, `"crash"` ends all requests at once. The broker is
the promise of `ContainmentOnce`, which `BrokerDispatch` keeps for a call as
long as no follow-up of it is misled. An operator decides truthfully (she looks
at the routers and the logs first) and, without `MayForce`, only on a claim past
the staleness bar (30 minutes, far above the sum of a request's timeouts), hence
one without a living holder. A starting state of `ApprovalClaim` is a draft with
no delivery in progress; `AlertLifecycle` lifts that.

### AlertLifecycle

Adds the deliveries that share a dedup key, with one step per store or network
call of `Agent.run`. `policy` is what `act()` decides; it depends on the key
only, so all deliveries decide alike. The technique suppression appears as a
nondeterministic "ignored"; `SuppressionWindow` has its detail. The model call
and the case management of `think()` decide nothing and are left out. Retention
runs when the five-minute bucket is over.

### ClaimWatch

Adds the sampling job to the same claim, one step per Elasticsearch call of
`main()`: the stuck count, the claims and their checkpoints in two searches,
the vanished check against the baseline, the snapshot in two searches, the
second query for details, the index request. `run` holds what the sample has
found, `baseline`, `baseDay` what the newest indexed sample says of the claim.
`day` is the clock of retention and of the baseline's age; `won`, `written`
are the documents' timestamps, and retention deletes only what is old enough.
`outside` says that something other than this code deleted the claim, which is
the event the metric exists for; `freed` and `baseMark` are history that lets
the properties speak about what happened between two samples. A sample whose
index request fails leaves the older baseline in place. A failed query makes a
metric unmeasurable, with one exception that the code makes: an error that the
lookup of the checkpoints reports for one document counts as "no checkpoint"
(`Misread`; `run.misread` is history).

### BrokerDispatch

`session`, `left` and `status` are `block_ip_on_router` per router with the
time left in its phase, `process`, `effect` and `before` are the router: the
nft command, whether it added the address, whether it was there already.
`Limit` holds the broker's time limits (5 s, and 3 s for the follow-up),
`AgentTimeout` the agent's 25 s. `net` is up until it fails; while it is up
messages take no time and seconds pass only where somebody waits. A session
may break or time out at any moment, and a command still running then may run
on to its effect. The follow-up takes exit status 1 for "absent", which is also
nft's generic failure, so it may answer that whatever the set holds. `misled`
(history) names the routers where "absent" was wrong: the command had taken
effect, or was still running.

### BrokerApproval

Handlers are coroutines of one thread: `loop` is the one that runs, and it
gives the loop up only where the code awaits, at its dispatch or at its end.
`live` and `archive` map each drafted action to the set of statuses its rows
have in the queue and in the archive, which is all that `_pending_actions` and
the compaction look at. A request reads twice (`half`, `viewed`) without a
lock, because the handlers read the queue once for what is resolved and once
for what is pending; an append takes the flock that the job holds from its read
to its replace. `HandOver` is `dispatch_block_to_all`: it looks at the exclusion
list again and may refuse without contacting a router, and the handler records
its row all the same. `torn` says whether an unfinished line is in the queue
(it makes the reader raise, and the row written after it is swallowed), `scar`
whether the archive ends in one, which a job that died within its append has
left; the next pass glues its first row to it. `cut` says that a line of either
file was ever cut short. `late` marks requests that began after their action was
resolved, `vouched` the actions whose outcome somebody was told. Crashes: the
job between any two of its writes and within its archive lines, the broker with
every request in progress.

### ReplayWindow, ApprovalQueue, SuppressionWindow

`ReplayWindow` takes integer seconds as the code does; `stamp` is the message's
time, `now` what a verification read from the clock at its start and compares
with both window and cache, `at` when it concluded. Nothing bounds how long a
message travels or a verification takes. A restart empties the cache and starts
a new `life`; `server` says in which life each copy was verified, because
nothing in the code makes a later process remember. `ApprovalQueue` keeps the
file system's distinction between a name and an inode (`entry`, `files`), so
that a lost append to a replaced file is possible. The rows of an alert are
numbered as they are appended; readers only compare rows of one alert, so a file
is the set of its rows, and `torn` says which files end in a line without its
newline. One thread appends the rows of one alert: deliveries draft it, again if
they cannot see that they are duplicates, and approvals log a claim and its
outcome (`stage`). A row that is appended behind a cut line becomes part of it,
once, for it brings its newline. `said` and `cut` are history: the rows whose
append succeeded and those that were written in part. `Pending` is the listing
of `GET /pending`. The archive has no reader, so a row counts as archived even
if it stands behind the remains of a line that a dying job left.
`SuppressionWindow` separates a firing's GET from its PUT and lets either fail;
it ends with the verdict that `run()` is given, or with "lost" when the agent
died in between or before the alert was drafted.

### IntelRetention

`stamp` is the refresh that last wrote each indicator; a refresh writes its
documents in one bulk request of which a part may fail. `cutoff` moves past one
refresh at a time, so a retention run may find other documents expired at each
of its three requests. `pc`, `matched` are a run in `compact_index`; `task`,
`hits` its task on the server, which matched documents at their versions, skips
those that were rewritten, may fail, and lives on when its run gives up, dies or
never learns its name. `flagged` and `baseline` are the sampling run's drop
metric. `due`, `wild`, `excused` and `culprits` are history for the properties,
as is `amiss`: the newest refresh has written only a part of its feed, or its
heartbeat was not written.

### WeeklyReport

A run writes its PDF under the second it began in (`stamp`), lists the directory
and asks each file for its time, deletes what is beyond the newest `Keep` one by
one, where any deletion may fail and is only logged, then uploads its own in the
three requests of Slack's protocol and pushes the notice. `shelf` is the set of
names in the directory and `newer` says of each which others were modified after
it; that is all the pruning asks of the modification times. `content` is the run
whose report a name holds, `linked` the runs whose open file still has a name.
`rivals` and `tidied` (the runs that deleted all they were to) are history.

## 3. Runs

| Run | Instance | Shows |
|---|---|---|
| `approval_faults` | 3 requests, 2 recoveries, all faults | the safety of the approval path and its refinement of `ContainmentOnce`; 1.0 M states |
| `approval_forced_recovery` (violation) | 3 requests, 1 forced recovery, no faults | the unconditional release at the end of `execute_approved` frees somebody else's claim |
| `lifecycle_faults` | 2 deliveries, 2 requests, 1 recovery, all faults, no autonomy | duplicate deliveries never lead to a second block nor to an answer that is not a fact, and what waits for approval is in the queue |
| `lifecycle_progress` | as above, all policies, lost broker exchanges only, fair | drafts can be approved, alerts are decided, claims settle |
| `broker_dispatch` | 2 routers, network and disk faults, late commands, wrong follow-ups | a success is a fact, a failure is one unless a follow-up was misled, "unknown" has a reason, `ContainmentOnce` is implemented with that exception |
| `broker_approval` | 3 handlers that start as often as they like, 1 action, all faults, fair, with deadlock checking | what is shown is pending, what is resolved stays so, rows are facts, an archive line left unfinished costs one row at most, every request ends |
| `replay` | 3 copies, window 2, clock to 6, 1 restart, verifications of any length | a second acceptance needs a delayed verification, and only copies are called replays; 1.8 M states |
| `approval_queue` | 2 alerts of up to 3 rows, 2 job runs, crashes, appends that fail in part or altogether | a cut line costs one row at most, nothing else is lost, open work is visible; 106 k states |
| `suppression` | 2 + 2 critical firings, window 2, ceiling 3, clock to 5, failing store, crash | silence is earned, critical firings are heard; 0.8 M states |
| `claim_watch` | 1 request, 1 recovery, 4 days, retention 2 days, baseline valid 1 day, 1 outside deletion, Elasticsearch, network and crash faults | an alarm has a cause, replacing the baseline buries a deletion only if the second look failed, an orphan's block has landed unless its checkpoint was misread; 2.9 M states |
| `intel_retention` | 3 indicators, 2 runs, 2 refreshes, guard from 2 documents on, all faults | what is deleted is expired, clean is done, the guard binds, the drop alarm has a cause; 1.0 M states |
| `weekly_report` | 3 runs, 1 report kept, 2 seconds, all faults | the notice is true, the directory is bounded, a report is lost to rivals only; 2.5 M states |

The violation is a disagreement between the code and what its comments say;
`PROJECT.json` ("findings") quotes them. Section 4 names five statements more
that the code's comments make and the models refute, each with the weaker
property that a run checks in its place.

**Bounds.** Three requests are the least number with which a stale release can
hurt (one to fail, one to win, one to win wrongly), and two recoveries can
recover against each other. Two deliveries are two sides of a race; a third one
repeats either role. Two routers show a mixed result, one of them misled. Three
copies cover accept, prune and accept again; with a window of 2 the clock passes
window and expiry and leaves a verification time to straddle both, and one
restart falls before, between or after them. Two alerts make "keep" and
"archive" differ in one job run, and the second run meets what the first left;
three rows are a draft, a claim and its outcome. Four firings fill a ceiling of
3 with a window of 2 and still leave one beyond it. The broker's handlers are
endless, so three of them show any overlap of three requests after any history.
One action goes through every stage of the queue and the archive; with two of
them, of which one is archived while the other stays, the same invariants and
`KeepsRows` hold (2 handlers, all faults, symmetry `Alike`, 0.5 M states), but
that instance is too large for liveness. In `ClaimWatch` four days hold a
baseline that is fresh, one that has expired and a claim past retention; the
sampler runs as often as it likes. One request and one recovery put the claim
through every state there is. Two refreshes are one that expires and one that
does not; two retention runs are the least with which a task meets another's
leftovers and two permitted deletions add up; of three documents one is less and
two are more than half. With `Keep = 1` the second report already endangers the
first; three runs let a run lose its file, or fail to delete one, while another
is in its pruning. With two seconds two of the runs share a name and the third
has one of its own, or all share one. All versions, clocks and files are bounded
by the number of actors or by a named constant, not by constraints. Actors of
one kind are interchangeable; symmetry is off wherever a liveness property is
checked.

**Fairness.** `lifecycle_progress`: a thread of the pool finishes the delivery
or request it has begun, each step of it ending by a timeout at the latest; the
broker serves what reaches it. Nobody owes a delivery, an approval, a recovery
or a retention run. Crashes and store failures are excluded there, because the
code promises no progress under them: a claim left by a crash waits for an
operator. `broker_approval`: the job finishes what it has begun (weak fairness
of `JobStep`), and the event loop serves its ready coroutines in turn, a
dispatch has a time limit and the job holds its lock for a moment only (strong
fairness of each handler's steps). Nobody owes a request or a run of the job;
all faults may happen.

**Deadlock** is checked in `broker_approval`, where the actors are endless and
wait on each other's locks. It is off elsewhere: all actors are finite.

## 4. What else was seen

Reproducible by changing a constant or by adding a definition that the modules
keep to the cfg of the module's run. Five statements of comments fail that way,
under the constants the run has: `FailedMeansUntouched` (`broker_dispatch`),
`AcceptedOnce` (`replay`), `NothingLost` (`broker_approval`), `NothingSlipsAway`
and `OrphanLacksCheckpoint` (`claim_watch`).

Approval and intake

- `AlertLifecycle` with the policy "autonomous" violates `OneContainment`
  without any fault: two deliveries both dispatch (`agent.py:1749`). The comment
  at 1440 leaves duplicates to `claim_approval()`, which this path does not
  call, and the one at 1744 says that it dispatches at most once.
- With `Faults = {"es"}` `DraftCanBeApproved` fails: the last checkpoint write
  is tolerated when it fails (`agent.py:1821`), and the queued draft answers
  every approval with a refusal. It fails with `"disk"` or `"crash"` as well: a
  second delivery that could not append its draft, or died before it did, leaves
  the checkpoint of the first at PERCEIVING.
- `DuplicateDraftIsHarmless` fails without faults: a slow duplicate turns an
  executed alert back into a pending one (`agent.py:1798`); the claim stops its
  second execution.
- With `"crash"` `AlertIsDecided` fails: nothing resumes an alert that died at
  PERCEIVING, and redeliveries are ignored.

Replay and dispatch

- A message that arrives in the second it was stamped in is accepted again
  exactly `Window` seconds later by the same process (`agent.py:297`), in spite
  of 149-151: `AcceptedOnce` fails. One that took longer to arrive is accepted
  again only if a second verification takes at least as long, and nothing bounds
  that: the broker's `_verify` reads the time, awaits the body and consults the
  cache with the old time. `SecondNeedsDelay` states both.
- A restarted process has no cache and accepts a copy once more within the
  window; the properties speak of one life of the process.
- "failed" is the agent's licence to release the claim for a retry, and
  `dispatcher.py:344-347` calls it confirmed. It is not when the follow-up's exit
  status 1 was another error than "absent" (267-284), or when the command
  outlives its session (321-326): `FailedMeansUntouched` fails. Both are known to
  the code's comments. Where it happens, the router is among `misled`; the
  results about `ApprovalClaim`, which takes a "failed" for a fact, do not cover
  such a call.

Queues

- The one row that a cut line may cost was appended successfully: readers of the
  agent's queue skip the line it has become part of. `RowsSurvive` counts it.
- The broker's queue has the same trait, and more: while a torn line is in the
  file `_read_queue` (`app.py:277-282`) raises, so every listing and approval is
  answered 500 until a compaction that has something to archive rewrites it.
- A compaction job that dies within an archive line costs one row: the next pass
  glues its first row to the rest, and drops it from the queue (`NothingLost`
  fails), although the comment at `compact_broker_approval_queue.py:86`
  has it duplicated rather than lost.
- An approval that reached no router at all is recorded "approved" like any
  other, one whose address became protected between the two looks at the
  exclusion list included, and two overlapping approvals of one action both
  dispatch it (the block is idempotent on the routers). `ResolvedIsFinal`
  therefore speaks of requests that begin after the resolution.

Sampling and retention

- `AlarmMeansDeletion`, the statement of `slo_metrics.py:918-922`, fails in
  `ClaimWatch`: a claim that was stuck beyond the retention, then released, is
  compacted at once by the age of its winning, and the alarm is raised for it.
- A deletion between the vanished check and the snapshot is named in the
  sample's details but never counted, hence never alerted. When the detail query
  fails as well, that is printed (`slo_metrics.py:2030-2033`) and nothing else:
  the new baseline buries the deletion (`NothingSlipsAway` fails).
  `BuriedOnlyUnseen` says that this is the only way.
- An orphan is not always a lost checkpoint, as `slo_metrics.py:826-828` has it.
  The checkpoint of an executed approval whose claim was never resolved expires
  too, and an error that `_mget` reports for one document counts as a missing one
  (913; `OrphanLacksCheckpoint` fails), unlike in the vanished check (1174-1178).
  `OrphanHasCause` states what does hold.
- The guard and the task of `compact_threat_intel.py` are separate requests
  (175-193): a cutoff that passes a refresh in between deletes more than half.
  `GuardHolds` excuses exactly that.
- A kickoff whose reply is lost leaves a running task nobody can name, in spite
  of "never orphans" (349-353; the same in
  `compact_agent_checkpoints.py:354-359`).
- The drop alarm needs no fault: two tasks, each within its guard, may delete
  more than half between two samples, and below `MinDocs` one may. A lost
  heartbeat raises it too, when the feed it would have reported is the smaller
  one. `DropHasCause` excuses these by name.
- A deletion between the drop metric's count and the count that is persisted
  lowers the baseline unnoticed.

Weekly report

- A run that asks a file for its time (`weekly_ciso_report.py:320-321`) after
  another has deleted it ends with an exception: its report is complete, but
  there is neither upload nor notice. So do exceptions of `send_to_slack`.
- A lost reply of the last Slack request leaves a published report whose notice
  says that it was not delivered.
- A file that cannot be deleted stays (323-326) and the run goes on;
  `DirectoryIsBounded` allows one report for each run that this happens to.
- Two triggers in one second share a file (`NoticeIsTrue` exempts them), and
  with as many concurrent runs as reports are kept the newest report can be
  deleted before its upload.
- The notice gives demo figures without the banner the report carries
  (450-455).

## 5. Proofs

TLAPS 1.4.5 (Z3, Zenon, LS4); every leaf is checked. All theorems hold for any
constant sets and bounds; their only assumptions are the named `ASSUME`s of the
modules and the conditions in their statements.

**ApprovalClaim_proofs**, condition `MayForce = FALSE`. The checked invariants are
not inductive: `AtMostOneDispatch` does not say who may dispatch next. `IInv`
adds that a dispatch belongs to the holder (`HolderOwnsDispatch`), that nothing
is sent before the claim is won (`NothingSentEarly`), that an outcome is a fact
about the wire (`OutcomeIsFact`), that a version read earlier and still current
means what was read, including the operator's reasons (`VersionsAreFresh`),
that a recorded success was learnt by its own request (`RecordedByWinner`) and
that answers fit (`AnswersAreFacts`). One lemma per action; then type
correctness, each safety property, `SuccessIsFinal` as an action property, and
the refinement of `ContainmentOnce`. The condition is needed:
`approval_forced_recovery`. `ClaimInv` is the part of `IInv` that mentions
neither checkpoint nor queue. It is inductive by itself, which is why duplicate
deliveries, which write just those two, cannot break it.

Its second part is about `AlertLifecycle` and uses that: deliveries leave the
claim, the requests and the tools alone (`DeliveryStepFrame`), so `ClaimInv`
survives them, and without the policy "autonomous" nothing else dispatches
(`NoAutonomy`). Hence `ContainedOnce`, under `MayForce = FALSE` and
`"autonomous" \notin Policies`; section 4 shows that the second condition is
needed. `LifecycleImplements` is the refinement of `ContainmentOnce` by the
whole lifecycle: a step of it is one of the approval path or changes neither a
request's wire nor its answer (`StepImplements` serves both refinements).
`DraftHasRow` needs no condition: whoever may write PENDING_APPROVAL has
appended a row before (`RowFirst`). `DraftStaysApprovable` holds under
`Faults \subseteq {"net"}`: while no approval has begun, a checkpoint that says
PERCEIVING has a delivery on its way that will overwrite it (`DraftInv`).
Section 4 shows what each other fault breaks.

The third part is about `ClaimWatch`, without any condition, forced recoveries
included. All that the sampling run depends on is that every step of the
approval path leaves the claim alone or writes it once at the next version, and
that only a released claim is deleted (`ClaimStep`); so a claim that was open at
a version is open still, was released since, or was deleted from outside
(`OpenSince`), and what a snapshot calls gone can only have come back at the
price of a version (`GoneSince`). Hence `JustifiedAlarm` and the action property
`UnseenAlone`. `OrphanCaused` rests on the checkpoint instead: only a block that
has landed takes it out of PENDING_APPROVAL (`GoneMeansLanded`), so without a
misread lookup an orphan is a claim whose block has landed.

**BrokerDispatch_proofs**, no condition. `IInv` relates each layer to the one
below: session to process, process to effect, status to effect, reply to
sessions, verdict to reply. `ProofOfFailure` is the heart: a refusal, or counts
without success and without unknown, leave an effect or a running command only
on a router whose follow-up was misled. Hence `FailureIsFoundOut`,
`HonestCounts` and the refinement `KeepsContract`, in which a "failed" with a
misled follow-up counts as an unknown outcome. Together with `Implements` this
is the argument for the whole path, and its gap: as long as no follow-up is
misled, the broker keeps for one call what the approval path assumes of it.
`UnknownIsReasoned`: while the network is up, the age of a
call is bounded by the sum of the limits its sessions have used up, 16 seconds
for any number of routers, which is below the agent's 25; so the agent's own
timeout is never the reason.

**BrokerApproval_proofs**, no condition. Why two unlocked reads suffice: an
action that is resolved in the archive only has no draft left in the queue
(`NoGhostDraft`), because the job moves all rows of an action under the lock
that every append takes (`Locking`) and an identifier is drawn once
(`Identity`); so what the first read says of a draft still in the queue holds at
the second (`Reading`). `OneRuns` and `Duty` are the event loop, `LateIsSettled`
and `Recorded` tie the history to the rows. What the job is about to drop from
the queue is in the archive but for one row at most, and for that one only if it
was glued to an unfinished line (`Missing`, in `Locking`). Theorems: type
correctness, `CurrentView`, `FinalResolution`, `TrueRows`, and `RowsKept` as an
action property.

**IntelRetention_proofs**, no condition; indicators and runs are finite sets.
`Margin` is the heart: while no task has gone past the guard, what all tasks
together may still delete is at most what will remain, and nothing of the newest
refresh is among it (`HitsAreOld`). With that the two yardsticks of the sampling
run stay within one half (`HeartbeatKept`, `BaselineKept`), which gives
`DropExplained`, an action property about the step that raises the alarm.
`GuardCounts` carries the guard's count to the task (`GuardBinds`), `WorkLeft`
what a run has to see deleted (`CleanIsDone`), and `LiveSurvive` is an action
property.

**ReplayWindow_proofs**, no condition. The cache entry of an accepted copy lasts
until a window after the time that copy was checked against (`EntryLasts`); a
copy that finds it gone concludes no earlier than that, and was itself checked at
a time within the window of the stamp (`TimesAreSound`). The difference of the
two is the first copy's journey: `SecondIsDelayed`. `OnlyReplaysRefused`: a cache
entry has a copy accepted in the same life behind it (`EntryHasReason`).

**SuppressionWindow_proofs**, no condition. A burst, whether stored or about to
be written back by a slow firing, was opened by one that was let through or that
died on its way there (`Opened`, `PlanIsSound`, `Passing`), so races, failures
and crashes can only let more through, apart from the one alert a crash takes
with it.

**ApprovalQueue_proofs**, no condition. Whoever is between taking the lock and
releasing it is alone, and knows the file that the name refers to
(`LockHolder`); files are made in order (`FilesInOrder`), and a row that is
tried has a number nobody has had (`Numbered`). `LossIsPaid` strengthens
`RowsSurvive`: the rows lost so far, and one more if the file ends in a cut line,
are at most the cut ones. The job changes nothing about that, because it has
archived what it leaves out of the new file. For `OpenStaysVisible`, what the
job has picked and what is archived was settled by a later row
(`PickedAreSettled`, `ArchiveIsSettled`), and every alert with a row has a last
one (`LatestExists`).

**WeeklyReport_proofs**, no condition; runs are a finite set. `Basics` holds the
types, the order of a run's stages and that of the files (`ShelfOrder`: of any
two one is newer, transitively). `BoundedDirectory`: pruning runs delete from
listings that are stale by then, so that no run's own pruning need suffice.
`PruningSuffices` says why the last of them does, where a run that could not
delete a file is as one that never pruned: of any set of runs between listing
and deleting, one will, when it is done, have left at most `Keep` files besides
those of runs outside the set that have not pruned; the run that lists last
covers the whole directory, and each deletion hands its share on to the others.
`KeepsAtMost` is the counting: the oldest spared file has all other spared ones
among its newer files. `TrueNotice`: for a run that shares its second with
nobody, its file is whole if it is still there (`Intact`), and what it sent and
announces is its own (`Truthful`). `EarnedLoss`: files newer than that of a run
are of its rivals (`RivalsAreNewer`), so whoever decides to delete it counts
`Keep` of them (`DecisionIsEarned`); the decision stays justified, for a name
that is to be deleted has a writer (`NamesHaveWriters`), hence cannot become the
unshared name of a later run.

**Only model-checked:** liveness and everything under fairness (outside the
prover's reach, like ENABLED): `AlertIsDecided`, `ClaimsSettle`, `RequestsEnd`.
Every safety invariant and action property of a passing run has a theorem.
`LifecycleTypeOK` and `WatchTypeOK` document the variables.

## 6. Not modelled

- The other metrics of `slo_metrics.py`: each is one query (or a count of rows)
  compared with a target, with nothing that persists from run to run. Of the
  feed heartbeats only the newest count is in `IntelRetention`. Elasticsearch's
  refresh interval, which lets a search miss the latest write, is left out of
  `ClaimWatch`: the metrics' grace periods are minutes, the interval a second.
- The second index of the threat-intelligence job, which it treats after and
  independently of the first.
- `retry.py`: it repeats an idempotent request a bounded number of times; in the
  models a call fails when its last attempt does.
- Case management and the model call: they decide nothing about containment.
- Authentication, parsing, exclusion lists and address checks beyond their
  effect of refusing; the contents of alerts, analyses, cases and reports.
- Playbook views, hunts, coverage and document generators: sequential and
  without shared state. Shell scripts and service configuration: the control
  flow there is that of Docker, systemd, Logstash and Elasticsearch.

## 7. Plan

Done: all modules, with proofs of every safety property that the runs check.

Next, in this order:

1. The heartbeat metric for stale feeds and its two indices, in
   `IntelRetention`, with its safety.
2. The composition of `BrokerDispatch` with several calls of `ApprovalClaim`:
   the router's set as state that survives a call, so that a retry after
   "failed" meets what the first call left.
3. A bound on how long the broker waits for a body, if the server's settings give
   one: with it `SecondNeedsDelay` becomes "at most once" for messages that travel
   longer.
