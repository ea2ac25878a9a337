---------------------------- MODULE WeeklyReport ----------------------------
(***************************************************************************)
(* The weekly report of weekly_ciso_report.py, as POST /weekly-report of   *)
(* agent_app.py runs it: every accepted trigger starts a daemon thread of  *)
(* its own, and nothing keeps two pipelines apart.  They share the report  *)
(* directory, where each writes a PDF named after the second it began in   *)
(* and then deletes all but the newest PDF_RETENTION_COUNT reports, before *)
(* it uploads its own to Slack in three requests and pushes a notice that  *)
(* says whether that worked.                                               *)
(*                                                                         *)
(* What a report says is the run that rendered it.  Its figures (real, or  *)
(* demo data under a banner) and its narrative (the model's, or a fallback *)
(* text) are all there is to the failures of the first two stages.         *)
(***************************************************************************)
EXTENDS Naturals, FiniteSets

CONSTANTS
    Runs,        \* accepted triggers, finitely many
    Keep,        \* PDF_RETENTION_COUNT
    Seconds,     \* bound: the last second of the model
    Faults       \* "disk": rendering, writing or deleting fails, "net": Slack or ntfy
                 \* does, "crash": the agent's process dies

ASSUME KeepAssumption == IsFiniteSet(Runs) /\ Keep \in Nat /\ Seconds \in Nat

VARIABLES
    clock,       \* the current second
    pc,          \* where each run is in run_reporting_pipeline
    stamp,       \* the second its file is named after
    shelf,       \* the names in the directory
    newer,       \* those of them that were modified after a given one
    content,     \* what each name holds: a run's whole report, or ...
    linked,      \* runs that write into a file that is still in the directory
    listed,      \* what the pruning run found
    doomed,      \* what it decided to delete
    upload,      \* what was sent to Slack's upload URL
    delivered,   \* what send_to_slack returned
    published,   \* what appeared in the Slack channel
    notice,      \* what the push notification said
    tidied,      \* runs that deleted all they were to delete (history)
    rivals       \* runs that wrote a report after this one began its own (history)

files == <<shelf, newer, content, linked>>
pruning == <<listed, doomed, tidied>>
slack == <<upload, delivered, published>>
vars == <<clock, pc, stamp, files, pruning, slack, notice, rivals>>

Names == 0..Seconds
Unstamped == Seconds + 1

\* The file name: a fixed one was the mistake this form replaced.
FileName_Fixed(second) == 0
FileName(second) == second
Own(r) == FileName(stamp[r])

Init ==
    /\ clock = 0
    /\ pc = [r \in Runs |-> "idle"] /\ stamp = [r \in Runs |-> Unstamped]
    /\ shelf = {} /\ newer = [n \in Names |-> {}]
    /\ content = [n \in Names |-> "none"] /\ linked = {}
    /\ listed = [r \in Runs |-> {}] /\ doomed = [r \in Runs |-> {}]
    /\ upload = [r \in Runs |-> "none"] /\ published = [r \in Runs |-> "none"]
    /\ delivered = [r \in Runs |-> FALSE] /\ notice = [r \in Runs |-> "none"]
    /\ tidied = {} /\ rivals = [r \in Runs |-> {}]

Goto(r, from, to) == pc[r] = from /\ pc' = [pc EXCEPT ![r] = to]

-----------------------------------------------------------------------------
(* The trigger, the figures and the file.                                  *)

\* 202 Accepted; the pipeline runs in a thread of its own.
Trigger(r) == /\ Goto(r, "idle", "stamp")
              /\ UNCHANGED <<clock, stamp, files, pruning, slack, notice, rivals>>

\* The figures, the narrative and the stamp of the file.  The first two never
\* end the run: demo data and a fallback text stand in when they cannot be had.
Collect(r) == /\ Goto(r, "stamp", "render")
              /\ stamp' = [stamp EXCEPT ![r] = clock]
              /\ UNCHANGED <<clock, files, pruning, slack, notice, rivals>>

\* r's own file becomes the most recently modified one.
Touch(r) ==
    /\ shelf' = shelf \cup {Own(r)}
    /\ newer' = [n \in Names |-> IF n \in shelf \ {Own(r)} THEN newer[n] \cup {Own(r)} ELSE {}]

Ended == {"done", "failed", "lost"}
Begun == {r \in Runs : pc[r] \notin {"idle", "stamp", "render"}}
Rival(r) == rivals' = [q \in Runs |-> IF q = r \/ q \notin Begun THEN rivals[q]
                                      ELSE rivals[q] \cup {r}]

\* write_pdf opens the file, truncating one of that name, and writes it.
OpenPdf(r) ==
    /\ \/ /\ Goto(r, "render", "write")
          /\ Touch(r) /\ Rival(r)
          /\ linked' = linked \cup {r}
          /\ content' = [content EXCEPT ![Own(r)] =
                 IF \E q \in linked : Own(q) = Own(r) THEN "mixed" ELSE "partial"]
       \/ "disk" \in Faults /\ Goto(r, "render", "failed") /\ UNCHANGED <<files, rivals>>
    /\ UNCHANGED <<clock, stamp, pruning, slack, notice>>

\* A file deleted meanwhile is finished out of sight.  Two writers of one file
\* leave either report, or a mixture.
ClosePdf(r) ==
    /\ \/ Goto(r, "write", "list")
       \/ "disk" \in Faults /\ Goto(r, "write", "failed")
    /\ linked' = linked \ {r}
    /\ IF r \in linked /\ pc'[r] = "list"
       THEN /\ Touch(r) /\ Rival(r)
            /\ \E what \in IF content[Own(r)] = "mixed" THEN {r, "mixed"} ELSE {r} :
                  content' = [content EXCEPT ![Own(r)] = what]
       ELSE UNCHANGED <<shelf, newer, content, rivals>>
    /\ UNCHANGED <<clock, stamp, pruning, slack, notice>>

-----------------------------------------------------------------------------
(* _prune_old_reports.                                                     *)

List(r) == /\ Goto(r, "list", "stat")
           /\ listed' = [listed EXCEPT ![r] = shelf]
           /\ UNCHANGED <<clock, stamp, files, doomed, tidied, slack, notice, rivals>>

\* reports[keep:] of the listing, newest first.
Doomed_KeepsOneMore(found) == {n \in found : Cardinality(newer[n] \cap found) > Keep}
Doomed_OldestFirst(found) ==
    {n \in found : Cardinality({m \in found : n \in newer[m]}) >= Keep}
Doomed(found) == {n \in found : Cardinality(newer[n] \cap found) >= Keep}

\* Sorting by st_mtime raises when one of the listed files is gone.
Stat(r) ==
    /\ \/ /\ listed[r] \subseteq shelf
          /\ Goto(r, "stat", "unlink")
          /\ doomed' = [doomed EXCEPT ![r] = Doomed(listed[r])]
       \/ ~(listed[r] \subseteq shelf) /\ Goto(r, "stat", "failed") /\ UNCHANGED doomed
    /\ listed' = [listed EXCEPT ![r] = {}]
    /\ UNCHANGED <<clock, stamp, files, tidied, slack, notice, rivals>>

\* One after the other, in any order.  A file that another run has deleted is
\* only logged, and so is one that cannot be deleted and stays.
Unlink(r) ==
    /\ pc[r] \in {"unlink", "unlink_rest"}
    /\ \E n \in doomed[r] :
          /\ doomed' = [doomed EXCEPT ![r] = @ \ {n}]
          /\ \/ /\ shelf' = shelf \ {n}
                /\ newer' = [m \in Names |-> IF m = n THEN {} ELSE newer[m] \ {n}]
                /\ content' = [content EXCEPT ![n] = "none"]
                /\ linked' = {q \in linked : Own(q) # n}
                /\ UNCHANGED pc
             \/ /\ "disk" \in Faults /\ n \in shelf
                /\ pc' = [pc EXCEPT ![r] = "unlink_rest"]
                /\ UNCHANGED files
    /\ UNCHANGED <<clock, stamp, listed, tidied, slack, notice, rivals>>

\* Whether or not every file went, the run goes on with its upload.
EndPruning(r) ==
    /\ doomed[r] = {}
    /\ \/ Goto(r, "unlink", "size") /\ tidied' = tidied \cup {r}
       \/ Goto(r, "unlink_rest", "size") /\ UNCHANGED tidied
    /\ UNCHANGED <<clock, stamp, files, listed, doomed, slack, notice, rivals>>

-----------------------------------------------------------------------------
(* send_to_slack: only its own "not ok" answers are caught.  An exception, *)
(* a missing file among them, ends the pipeline without a notice.          *)

Skips(r, from) == "net" \in Faults /\ Goto(r, from, "notify")
Raises(r, from) == "net" \in Faults /\ Goto(r, from, "failed")
Missing(r, from) == Own(r) \notin shelf /\ Goto(r, from, "lost")

\* Without credentials Slack is skipped before the file is looked at.
UploadUrl(r) ==
    /\ \/ Own(r) \in shelf /\ (Goto(r, "size", "put") \/ Raises(r, "size"))
       \/ Missing(r, "size")
       \/ Skips(r, "size")
    /\ UNCHANGED <<clock, stamp, files, pruning, slack, notice, rivals>>

Put(r) ==
    /\ \/ /\ Own(r) \in shelf /\ Goto(r, "put", "complete")
          /\ upload' = [upload EXCEPT ![r] = content[Own(r)]]
       \/ /\ \/ Missing(r, "put")
             \/ Own(r) \in shelf /\ (Skips(r, "put") \/ Raises(r, "put"))
          /\ UNCHANGED upload
    /\ UNCHANGED <<clock, stamp, files, pruning, delivered, published, notice, rivals>>

\* The reply to the last request may be lost after Slack has published.
Complete(r) ==
    /\ \/ /\ Goto(r, "complete", "notify")
          /\ delivered' = [delivered EXCEPT ![r] = TRUE]
          /\ published' = [published EXCEPT ![r] = upload[r]]
       \/ /\ Skips(r, "complete") \/ Raises(r, "complete")
          /\ UNCHANGED <<delivered, published>>
       \/ /\ Raises(r, "complete")
          /\ published' = [published EXCEPT ![r] = upload[r]]
          /\ UNCHANGED delivered
    /\ upload' = [upload EXCEPT ![r] = "none"]
    /\ UNCHANGED <<clock, stamp, files, pruning, notice, rivals>>

\* The notice that does not get through is only logged.
Notify(r) ==
    /\ Goto(r, "notify", "done")
    /\ \/ notice' = [notice EXCEPT ![r] = IF delivered[r] THEN "delivered" ELSE "skipped"]
       \/ "net" \in Faults /\ UNCHANGED notice
    /\ delivered' = [delivered EXCEPT ![r] = FALSE]
    /\ UNCHANGED <<clock, stamp, files, pruning, upload, published, rivals>>

-----------------------------------------------------------------------------

\* The daemon threads die with the agent's process.
Dies == /\ "crash" \in Faults
        /\ \E r \in Runs : pc[r] \notin Ended \cup {"idle"}
        /\ pc' = [r \in Runs |-> IF pc[r] \in Ended \cup {"idle"} THEN pc[r] ELSE "failed"]
        /\ linked' = {}
        /\ UNCHANGED <<clock, stamp, shelf, newer, content, pruning, slack, notice, rivals>>

Tick == /\ clock < Seconds
        /\ clock' = clock + 1
        /\ UNCHANGED <<pc, stamp, files, pruning, slack, notice, rivals>>

RunStep(r) == \/ Trigger(r) \/ Collect(r) \/ OpenPdf(r) \/ ClosePdf(r)
              \/ List(r) \/ Stat(r) \/ Unlink(r) \/ EndPruning(r)
              \/ UploadUrl(r) \/ Put(r) \/ Complete(r) \/ Notify(r)

Next == (\E r \in Runs : RunStep(r)) \/ Dies \/ Tick

Spec == Init /\ [][Next]_vars

-----------------------------------------------------------------------------
(* Properties.                                                             *)

\* Two runs that took their stamp in one second share a file.
Shares(r) == \E q \in Runs \ {r} : stamp[q] = stamp[r]

\* A notice "Delivered to Slack" is true, and what was delivered is this run's
\* own report and all of it, whatever other runs write and delete beside it;
\* only runs of one second may get each other's.
NoticeIsTrue ==
    \A r \in Runs : notice[r] = "delivered" => published[r] = r \/ Shares(r)

\* The directory does not grow: beyond the retained reports it holds at most
\* one for each run that did not get through its own pruning, or could not delete
\* all it was to.  A failure to delete is never made worse by the runs that
\* follow, and costs one report even when it leaves several.
Untidy == {r \in Runs : pc[r] # "idle"} \ tidied
DirectoryIsBounded == Cardinality(shelf) <= Keep + Cardinality(Untidy)

\* A report is not deleted under its own run: a run misses its file only after
\* as many other runs as there are reports kept have written theirs.
LossNeedsRivals ==
    \A r \in Runs : pc[r] = "lost" => Cardinality(rivals[r]) >= Keep \/ Shares(r)
=============================================================================
