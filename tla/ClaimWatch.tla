----------------------------- MODULE ClaimWatch -----------------------------
(***************************************************************************)
(* The claim metrics of slo_metrics.py, run by a timer beside the approval *)
(* path of ApprovalClaim: every run counts claims that are stuck, orphaned *)
(* (CLAIMED without a checkpoint) or vanished (listed by the previous      *)
(* sample and gone now), takes the snapshot the next run compares against, *)
(* looks once more for what vanished and indexes all of it as one document *)
(* of soc-slo-metrics.  The steps of a run are its Elasticsearch calls;    *)
(* requests, recoveries, retention and crashes happen between them.        *)
(*                                                                         *)
(* Time is counted in days, the unit of the retention and of the baseline's *)
(* age.  The grace periods (30 and 10 minutes) are shorter than a day and  *)
(* longer than a request; a sampling run starts and ends on the same day.  *)
(***************************************************************************)
EXTENDS ApprovalClaim

CONSTANTS
    Horizon,      \* the last day of the model
    Retention,    \* DEFAULT_RETENTION_DAYS of compact_agent_checkpoints.py
    MaxAge        \* SLO_VANISHED_CLAIM_BASELINE_MAX_AGE_MIN, in days

ASSUME WatchAssumption ==
    /\ Horizon \in Nat /\ Retention \in Nat /\ MaxAge \in Nat
    /\ MaxAge < Retention

VARIABLES
    day,         \* today
    won,         \* the claim's @timestamp: the day it was last won
    written,     \* the checkpoint's @timestamp
    freed,       \* _seq_no of the claim's last release (history, not stored)
    outside,     \* a claim was deleted by something outside this code
    at,          \* where the sampling run is in main()
    run,         \* what it has found so far
    baseline,    \* what the newest indexed snapshot says of the claim
    baseDay,     \* its claimed_snapshot_at
    baseMark     \* the claim's _seq_no when it was taken (history, not stored)

clock == <<day, won, written, freed>>
sampler == <<at, run>>
indexed == <<baseline, baseDay, baseMark>>
watchVars == <<vars, clock, outside, sampler, indexed>>

Metrics == {"stuck", "orphaned", "vanished"}
Calls == {"idle", "stuck", "orphans", "pairs", "vanished",
          "open", "settled", "detail", "index"}

\* Nothing measured yet.  "mark" is the claim's _seq_no at the snapshot and
\* "misread" that an unreadable checkpoint was counted as missing (history).
Blank == [breached |-> {}, errors |-> FALSE, misread |-> FALSE,
          snapshot |-> "unread", mark |-> 0, listed |-> "unread"]

WatchTypeOK ==
    /\ day \in 0..Horizon
    /\ won \in 0..day /\ written \in 0..day /\ freed \in 0..seq
    /\ outside \in BOOLEAN
    /\ at \in Calls
    /\ run \in [breached : SUBSET Metrics, errors : BOOLEAN, misread : BOOLEAN,
                snapshot : {"unread", "failed", "open", "absent", "gone"},
                mark : 0..seq,
                listed : {"unread", "failed", "yes", "no"}]
    /\ baseline \in {"none", "open", "absent", "gone"}
    /\ baseDay \in 0..day /\ baseMark \in 0..seq

WatchInit ==
    /\ Init
    /\ day = 0 /\ won = 0 /\ written = 0 /\ freed = 0
    /\ outside = FALSE
    /\ at = "idle" /\ run = Blank
    /\ baseline = "none" /\ baseDay = 0 /\ baseMark = 0

-----------------------------------------------------------------------------
(* The approval path under a calendar.                                     *)

\* _build_query: strictly older than the retention.
Expired(stamp) == day > stamp + Retention

\* Only winning a claim stamps it, _transition_claim does not; every write of
\* the checkpoint stamps that.
Stamped ==
    /\ won' = IF claim' = "CLAIMED" /\ seq' # seq THEN day ELSE won
    /\ written' = IF ckpt' # ckpt THEN day ELSE written
    /\ freed' = IF claim' = "RELEASED" /\ seq' # seq THEN seq' ELSE freed

DatedStep ==
    /\ Next
    /\ claim # "none" /\ claim' = "none" => Expired(won)
    /\ ckpt # "none" /\ ckpt' = "none" => Expired(written)
    /\ Stamped
    /\ UNCHANGED <<day, outside, sampler, indexed>>

\* A request lasts minutes, so none is under way when a day has passed.
Tick == /\ day < Horizon
        /\ at = "idle" /\ Stale
        /\ day' = day + 1
        /\ UNCHANGED <<vars, won, written, freed, outside, sampler, indexed>>

\* What the vanished-claims metric is there to notice: something that holds the
\* delete privilege removes a claim the retention job never would.  Once.
DeleteOutside ==
    /\ ~outside /\ claim \in {"CLAIMED", "RESOLVED"}
    /\ outside' = TRUE
    /\ WriteClaim("none")
    /\ UNCHANGED <<ckpt, row, local, wire, tools, clock, sampler, indexed>>

-----------------------------------------------------------------------------
(* One sampling run: main().                                               *)

\* One query: it answers, or it raises MetricUnavailable.
Query(from, to, answered, failed) ==
    /\ at = from
    /\ at' = to
    /\ run' = answered \/ ("es" \in Faults /\ run' = failed)
    /\ UNCHANGED <<vars, clock, outside, indexed>>

\* A count above its target (0) is a breach; an error never reads as 0.
Count(metric, some) == IF some THEN [run EXCEPT !.breached = @ \cup {metric}] ELSE run
Unmeasurable == [run EXCEPT !.errors = TRUE]

CheckPrivileges == Query("idle", "stuck", Blank, [Blank EXCEPT !.errors = TRUE])

\* The CLAIMED documents past a grace period: no request holds one any more,
\* and one won on an earlier day is among them.
PastGrace(found) == /\ found => claim = "CLAIMED" /\ Stale
                    /\ claim = "CLAIMED" /\ day > won => found

StuckClaims == \E found \in BOOLEAN :
                  /\ PastGrace(found)
                  /\ Query("stuck", "orphans", Count("stuck", found), Unmeasurable)

\* metric_orphaned_claims: the search, then _mget of the claims' checkpoints.
SearchOrphans == \/ PastGrace(TRUE) /\ Query("orphans", "pairs", run, run)
                 \/ PastGrace(FALSE) /\ Query("orphans", "vanished", run, run)
                 \/ /\ "es" \in Faults
                    /\ Query("orphans", "vanished", Unmeasurable, Unmeasurable)

\* An answer that reports an error for the one document says "found" of it no
\* more than one that finds none, and is counted alike.
Misread == [Count("orphaned", TRUE) EXCEPT !.misread = TRUE]

PairOrphans ==
    \/ Query("pairs", "vanished", Count("orphaned", ckpt = "none"), Unmeasurable)
    \/ "es" \in Faults /\ Query("pairs", "vanished", Misread, Misread)

\* _vanished_claims_detail: the newest sample with a claimed_snapshot_at inside
\* the window lists the claim, and _mget no longer finds it.
Vanished == baseline = "open" /\ day <= baseDay + MaxAge /\ claim = "none"

CountVanished == Query("vanished", "open", Count("vanished", Vanished), Unmeasurable)

\* _claimed_snapshot: a search for CLAIMED and one for RESOLVED.  "gone" (no
\* document) and "absent" (a RELEASED one) look alike to the code.
SettledPhases_Released == {"RESOLVED", "RELEASED"}
SettledPhases == {"RESOLVED"}

SnapshotOpen ==
    Query("open", "settled",
          [run EXCEPT !.snapshot = IF claim = "CLAIMED" THEN "open" ELSE "unread",
                      !.mark = seq],
          [run EXCEPT !.snapshot = "failed"])

SnapshotSettled ==
    LET seenNow == IF claim \in SettledPhases \/ run.snapshot = "open" THEN "open"
                   ELSE IF claim = "none" THEN "gone" ELSE "absent"
    IN  Query("settled", "detail",
              IF run.snapshot = "failed" THEN run
              ELSE [run EXCEPT !.snapshot = seenNow],
              [run EXCEPT !.snapshot = "failed"])

\* The second call of _vanished_claims_detail, for vanished_claim_docs.  It
\* changes no count.
ListVanished_FromMetric ==
    Query("detail", "index",
          [run EXCEPT !.listed = IF "vanished" \in run.breached THEN "yes" ELSE "no"],
          [run EXCEPT !.listed = "failed"])
ListVanished ==
    Query("detail", "index",
          [run EXCEPT !.listed = IF Vanished THEN "yes" ELSE "no"],
          [run EXCEPT !.listed = "failed"])

\* The document is indexed; with a snapshot in it, it is the next baseline.
\* The alert goes out and the run ends.
IndexSample ==
    /\ at = "index"
    /\ at' = "idle" /\ run' = Blank
    /\ IF run.snapshot = "failed" THEN UNCHANGED indexed
       ELSE baseline' = run.snapshot /\ baseDay' = day /\ baseMark' = run.mark
    /\ UNCHANGED <<vars, clock, outside>>

\* The document is refused or the run dies: the older baseline stays.
LoseSample ==
    /\ \/ at = "index" /\ "es" \in Faults
       \/ at # "idle" /\ "crash" \in Faults
    /\ at' = "idle" /\ run' = Blank
    /\ UNCHANGED <<vars, clock, outside, indexed>>

\* doc["status"]: an error outranks a breach.
Status == IF run.errors THEN "error" ELSE IF run.breached # {} THEN "breach" ELSE "ok"

SamplerStep == \/ CheckPrivileges \/ StuckClaims \/ SearchOrphans \/ PairOrphans
               \/ CountVanished \/ SnapshotOpen \/ SnapshotSettled \/ ListVanished
               \/ IndexSample \/ LoseSample

WatchNext == DatedStep \/ Tick \/ DeleteOutside \/ SamplerStep

WatchSpec == WatchInit /\ [][WatchNext]_watchVars

-----------------------------------------------------------------------------
(* Properties.                                                             *)

\* A vanished-claims breach has one of two causes: a deletion from outside, or
\* a claim that was open when the baseline was taken and was released since, so
\* that retention, which goes by the day it was won, could take it at once.
AlarmIsJustified ==
    "vanished" \in run.breached => outside \/ freed > baseMark

\* The stronger claim of the comment on the baseline's age: "a stale baseline
\* can never reach into a doc the compactor was always going to delete anyway".
AlarmMeansDeletion == "vanished" \in run.breached => outside

\* Replacing the baseline may bury a deletion: a claim that the old baseline
\* lists, that was gone when the new snapshot was taken and was not won again.
Replaces == /\ IndexSample
            /\ baseline = "open" /\ day <= baseDay + MaxAge
            /\ run.snapshot = "gone" /\ claim = "none" /\ seq <= run.mark + 1
Reported == \/ Status = "error" \/ "vanished" \in run.breached
            \/ run.listed = "yes"

\* A failed second look "costs only forensic detail": the document that replaces
\* the baseline counts or names every claim it buries, or says that something
\* could not be measured.  The code does not keep this word.
NothingSlipsAway == [][Replaces => Reported]_watchVars

\* What it keeps: such a claim goes unreported only when the second look failed,
\* a failure that is printed and reaches neither the document nor the alert.
BuriedOnlyUnseen == [][Replaces => Reported \/ run.listed = "failed"]_watchVars

\* "Count of CLAIMED .claim documents with no corresponding phase checkpoint
\* document": a claim is counted as orphaned only when its checkpoint is missing
\* at that moment.  The code does not keep this word.
OrphanLacksCheckpoint ==
    [][at = "pairs" /\ "orphaned" \in run'.breached => ckpt = "none"]_watchVars

\* What it keeps: without a claim created before its alert, one is counted as
\* orphaned only when its block has landed and its EXECUTED checkpoint expired
\* under it, or when the lookup of its checkpoint failed for that document.
OrphanHasCause == "orphaned" \in run.breached => BlockLanded \/ run.misread
=============================================================================
