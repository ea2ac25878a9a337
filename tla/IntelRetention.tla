--------------------------- MODULE IntelRetention ---------------------------
(***************************************************************************)
(* Retention of the threat-intelligence indicators: refresh_intel.sh       *)
(* stamps every indicator of the current feed, compact_threat_intel.py     *)
(* deletes what has not been stamped for 30 days by starting a             *)
(* delete-by-query task on the server and polling it up to a deadline, and *)
(* slo_metrics.py compares the index with the last heartbeat and with its  *)
(* own previous sample.  compact_agent_checkpoints.py drives its task the  *)
(* same way, without the guard.                                            *)
(*                                                                         *)
(* One index stands for both: the job treats them one after the other and  *)
(* independently.  All indicators of one refresh carry the same timestamp, *)
(* so what the cutoff (now - 30 days) passes, it passes a refresh at a     *)
(* time.  Runs may overlap: the timer, a manual run, and server tasks that *)
(* outlive the run that started them.                                      *)
(***************************************************************************)
EXTENDS Naturals, FiniteSets

CONSTANTS
    Docs,         \* the indicators
    Runs,         \* runs of the retention job
    Refreshes,    \* bound: refreshes in a behaviour
    MinDocs,      \* MIN_DOCS_FOR_BLAST_RADIUS_CHECK
    Faults        \* "es": queries fail, "bulk": a refresh loses writes, "crash": a run dies

ASSUME BoundsAssumption == Refreshes \in Nat /\ MinDocs \in Nat
ASSUME FinitenessAssumption == IsFiniteSet(Docs) /\ IsFiniteSet(Runs)

VARIABLES
    stamp,      \* refresh that last wrote each indicator, 0 when it has no document
    latest,     \* number of refreshes so far
    cutoff,     \* the refreshes up to this one are older than the retention
    heartbeat,  \* indicator_count of the newest heartbeat, 0 before the first
    amiss,      \* the newest refresh wrote only a part of its feed, or its
                \* heartbeat was not written (history)
    pc,         \* where each run is in compact_index
    matched,    \* its count of expired documents
    verdict,    \* how it ended: "failed" is an exception, exit status 1
    task,       \* its task on the server
    hits,       \* what the task has still to delete, at the version it matched
    due,        \* what was expired at the run's count and is still (history)
    wild,       \* runs whose task deletes more than half of the index (history)
    excused,    \* runs that were forced, or whose guard was overtaken (history)
    flagged,    \* what the sampling run made of the drop, "idle" between runs
    baseline,   \* the count the last sample persisted, 0 when there is none
    culprits    \* runs whose task has deleted since the baseline (history)

index == <<stamp, latest, cutoff, heartbeat, amiss>>
client == <<pc, matched, verdict>>
server == <<task, hits, wild>>
history == <<due, excused, culprits>>
sampler == <<flagged, baseline>>
vars == <<index, client, server, sampler, history>>

Present == {d \in Docs : stamp[d] # 0}
Total == Cardinality(Present)

\* _build_query: the timestamp is before the cutoff.
Expired_RoundedUp == {d \in Present : stamp[d] <= cutoff + 1}
Expired == {d \in Present : stamp[d] <= cutoff}

TypeOK ==
    /\ stamp \in [Docs -> 0..latest] /\ latest \in 0..Refreshes /\ cutoff \in 0..latest
    /\ heartbeat \in 0..Cardinality(Docs) /\ amiss \in BOOLEAN
    /\ pc \in [Runs -> {"idle", "guard", "kickoff", "poll", "ended"}]
    /\ matched \in [Runs -> 0..Cardinality(Docs)]
    /\ verdict \in [Runs -> {"none", "clean", "failed"}]
    /\ task \in [Runs -> {"none", "running", "clean", "dirty", "broken"}]
    /\ hits \in [Runs -> SUBSET Docs] /\ due \in [Runs -> SUBSET Docs]
    /\ \A r \in Runs : /\ hits[r] \subseteq Present /\ due[r] \subseteq Expired
                       /\ task[r] # "running" => hits[r] = {}
                       /\ pc[r] = "poll" => task[r] # "none"
    /\ wild \subseteq Runs /\ excused \subseteq Runs
    /\ flagged \in {"idle", "no", "drop", "error"} /\ culprits \subseteq Runs
    /\ baseline \in 0..Cardinality(Docs)

Init ==
    /\ stamp = [d \in Docs |-> 0] /\ latest = 0 /\ cutoff = 0
    /\ heartbeat = 0 /\ amiss = FALSE
    /\ pc = [r \in Runs |-> "idle"] /\ verdict = [r \in Runs |-> "none"]
    /\ matched = [r \in Runs |-> 0] /\ excused = {}
    /\ task = [r \in Runs |-> "none"] /\ wild = {}
    /\ hits = [r \in Runs |-> {}] /\ due = [r \in Runs |-> {}]
    /\ flagged = "idle" /\ baseline = 0 /\ culprits = {}

-----------------------------------------------------------------------------
(* The writer and the calendar.                                            *)

\* A run that has counted and not started its task: what it counted changes.
CountingRuns == {r \in Runs : pc[r] \in {"guard", "kickoff"}}
Overtaken(so) == excused' = IF so THEN excused \cup CountingRuns ELSE excused

\* A written or deleted document no longer has the version a task matched.
Rewritten(docs) == /\ hits' = [r \in Runs |-> hits[r] \ docs]
                   /\ due' = [r \in Runs |-> due[r] \ docs]

\* refresh_intel.sh: the bulk request writes all of the feed, or a part; the
\* heartbeat reports all of it, or is not written.
Refresh ==
    /\ latest < Refreshes /\ latest' = latest + 1
    /\ \E feed \in SUBSET Docs : \E landed \in SUBSET feed :
          /\ feed # {} /\ (landed = feed \/ "bulk" \in Faults)
          /\ stamp' = [d \in Docs |-> IF d \in landed THEN latest + 1 ELSE stamp[d]]
          /\ Rewritten(landed) /\ Overtaken(~(landed \subseteq Present))
          /\ \/ heartbeat' = Cardinality(feed) /\ amiss' = (landed # feed)
             \/ "bulk" \in Faults /\ amiss' = TRUE /\ UNCHANGED heartbeat
    /\ UNCHANGED <<cutoff, client, task, wild, sampler, culprits>>

\* Thirty days after a refresh the cutoff passes its timestamp.
AgeOut == /\ cutoff < latest
          /\ cutoff' = cutoff + 1
          /\ Overtaken(TRUE)
          /\ UNCHANGED <<stamp, latest, heartbeat, amiss, client, server, due,
                         sampler, culprits>>

-----------------------------------------------------------------------------
(* One run of the job: compact_index, then _wait_for_task.                 *)

Goto(r, from, to) == pc[r] = from /\ pc' = [pc EXCEPT ![r] = to]
Goes(r, from, to) == Goto(r, from, to) /\ UNCHANGED <<verdict, due>>

\* The history of a run that does not end clean is no longer looked at.
Ends(r, from, how) ==
    /\ Goto(r, from, "ended")
    /\ verdict' = [verdict EXCEPT ![r] = how]
    /\ due' = [due EXCEPT ![r] = IF how = "clean" THEN @ ELSE {}]

\* The first _count; the guard is skipped for --force and for an empty match.
CountMatched(r) ==
    /\ \/ /\ \E forced \in BOOLEAN :
                /\ Goto(r, "idle", IF Expired # {} /\ ~forced THEN "guard" ELSE "kickoff")
                /\ excused' = IF forced THEN excused \cup {r} ELSE excused
          /\ matched' = [matched EXCEPT ![r] = Cardinality(Expired)]
          /\ due' = [due EXCEPT ![r] = Expired]
          /\ UNCHANGED verdict
       \/ /\ "es" \in Faults /\ Ends(r, "idle", "failed")
          /\ UNCHANGED <<matched, excused>>
    /\ UNCHANGED <<index, server, sampler, culprits>>

\* BLAST_RADIUS_FRACTION: refuse to delete more than half of the index, unless
\* that holds only a few documents.
TooMany_AboveFloor(n, of) == of > MinDocs /\ 2 * n > of
TooMany(n, of) == of >= MinDocs /\ 2 * n > of

CountTotal(r) ==
    /\ \/ (TooMany(matched[r], Total) \/ "es" \in Faults) /\ Ends(r, "guard", "failed")
       \/ ~TooMany(matched[r], Total) /\ Goes(r, "guard", "kickoff")
    /\ matched' = [matched EXCEPT ![r] = 0]
    /\ excused' = IF pc'[r] = "ended" THEN excused \ {r} ELSE excused
    /\ UNCHANGED <<index, server, sampler, culprits>>

\* The _delete_by_query is started without waiting.  Its reply may be lost or
\* lack a task id: the run fails and the task runs on.
StartTask(r) ==
    /\ task' = [task EXCEPT ![r] = "running"]
    /\ hits' = [hits EXCEPT ![r] = Expired]
    /\ IF 2 * Cardinality(Expired) > Total
       THEN /\ wild' = wild \cup {r}
            /\ excused' = IF Total < MinDocs THEN excused \cup {r} ELSE excused
       ELSE UNCHANGED wild /\ excused' = excused \ {r}

NoTask(r) == excused' = excused \ {r} /\ UNCHANGED server

Kickoff_Unchecked(r) ==
    /\ \/ StartTask(r) /\ Goes(r, "kickoff", "poll")
       \/ "es" \in Faults /\ NoTask(r) /\ Goes(r, "kickoff", "poll")
    /\ matched' = [matched EXCEPT ![r] = 0]
    /\ UNCHANGED <<index, sampler, culprits>>

Kickoff(r) ==
    /\ \/ StartTask(r) /\ Goes(r, "kickoff", "poll")
       \/ "es" \in Faults /\ (StartTask(r) \/ NoTask(r)) /\ Ends(r, "kickoff", "failed")
    /\ matched' = [matched EXCEPT ![r] = 0]
    /\ UNCHANGED <<index, sampler, culprits>>

\* A completed task is judged by its response; "error", or neither of the two
\* keys, raises; so does a permanent (4xx) answer.  A task that is not completed
\* and a transient failure are polled again until the deadline, which
\* may pass at any moment: the run gives up and the task runs on.
Judged_ByCount(r) == \/ task[r] \in {"clean", "dirty"} /\ Ends(r, "poll", "clean")
                     \/ task[r] = "broken" /\ Ends(r, "poll", "failed")
Judged(r) == \/ task[r] = "clean" /\ Ends(r, "poll", "clean")
             \/ task[r] \in {"dirty", "broken"} /\ Ends(r, "poll", "failed")

PollTask(r) ==
    /\ \/ Judged(r)
       \/ (task[r] = "running" \/ "es" \in Faults) /\ Ends(r, "poll", "failed")
    /\ UNCHANGED <<index, matched, server, excused, sampler, culprits>>

RunDies(r) == /\ "crash" \in Faults
              /\ \E from \in {"guard", "kickoff", "poll"} : Ends(r, from, "failed")
              /\ matched' = [matched EXCEPT ![r] = 0]
              /\ UNCHANGED <<index, server, excused, sampler, culprits>>

RunStep(r) == CountMatched(r) \/ CountTotal(r) \/ Kickoff(r) \/ PollTask(r)

-----------------------------------------------------------------------------
(* The server's task: it deletes document by document, skipping those      *)
(* whose version changed (conflicts=proceed), until it is through or fails. *)

DeleteDoc(r) ==
    /\ task[r] = "running"
    /\ \E d \in hits[r] : /\ stamp' = [stamp EXCEPT ![d] = 0]
                          /\ Rewritten({d})
    /\ culprits' = culprits \cup {r}
    /\ UNCHANGED <<latest, cutoff, heartbeat, amiss, client, task, wild, excused, sampler>>

TaskEnds(r) ==
    /\ task[r] = "running"
    /\ \E fate \in {"clean", "dirty", "broken"} :
          /\ fate = "clean" => hits[r] = {}
          /\ fate # "clean" => "es" \in Faults
          /\ task' = [task EXCEPT ![r] = fate]
    /\ hits' = [hits EXCEPT ![r] = {}]
    /\ UNCHANGED <<index, client, wild, sampler, history>>

-----------------------------------------------------------------------------
(* The sampling run: metric_intel_indicator_count_drop_pct in the loop of   *)
(* main(), and later, by a count of its own, the next run's baseline.      *)

\* More than half of a count that is not 0 is gone.
Halved_Inclusive(from, to) == from > 0 /\ 2 * to <= from
Halved(from, to) == from > 0 /\ 2 * to < from

\* The heartbeat, the documents and the last sample, read at once: between the
\* queries a refresh only adds documents and a task's deletion might as well
\* have come before them.  A baseline of 0, or one that has left its freshness
\* window, is none; a failed query makes the metric unmeasurable.
Drop(prior) == Halved(heartbeat, Total) \/ Halved(prior, Total)

MeasureDrop ==
    /\ flagged = "idle"
    /\ \/ \E prior \in {baseline, 0} : flagged' = IF Drop(prior) THEN "drop" ELSE "no"
       \/ "es" \in Faults /\ flagged' = "error"
    /\ UNCHANGED <<index, client, server, baseline, history>>

\* _intel_indicator_actual_count again, indexed with the sample.  When that or
\* the indexing fails, the older baseline stays.
IndexSample ==
    /\ flagged # "idle" /\ flagged' = "idle"
    /\ \/ baseline' = Total /\ culprits' = {}
       \/ "es" \in Faults /\ UNCHANGED <<baseline, culprits>>
    /\ UNCHANGED <<index, client, server, due, excused>>

SamplerStep == MeasureDrop \/ IndexSample

-----------------------------------------------------------------------------

Next == \/ Refresh \/ AgeOut \/ SamplerStep
        \/ \E r \in Runs : RunStep(r) \/ RunDies(r)
                           \/ DeleteDoc(r) \/ TaskEnds(r)

Spec == Init /\ [][Next]_vars

-----------------------------------------------------------------------------
(* Properties.                                                             *)

\* A run that ends clean has done its work: everything that was expired when it
\* counted is deleted, or was written again since.
CleanRunMeansDone == \A r \in Runs : verdict[r] = "clean" => due[r] = {}

\* However long a task outlives its run, and whatever the writer and other
\* tasks do meanwhile, a document is only deleted while it is expired.
LiveDocsSurvive ==
    [][\A d \in Present : stamp'[d] = 0 => stamp[d] <= cutoff]_vars

\* The guard binds the task, not only the count before it: a task that deletes
\* more than half of the index was forced, found fewer than MinDocs documents,
\* or was overtaken between count and start by the cutoff or by new documents.
GuardHolds == wild \subseteq excused

\* When the drop alarm is raised, retention within its guard is not alone behind
\* it, although both go by one half: the newest refresh is not all there or has
\* no heartbeat, some task deletes more than half of the index (forced, overtaken,
\* or let through below MinDocs), or two tasks, each perhaps within its guard,
\* have deleted since the baseline.
DropHasCause ==
    [][flagged # "drop" /\ flagged' = "drop" => \/ amiss
                                               \/ wild # {}
                                               \/ Cardinality(culprits) > 1]_vars
=============================================================================
