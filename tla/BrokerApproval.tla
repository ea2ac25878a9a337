---------------------------- MODULE BrokerApproval ----------------------------
(***************************************************************************)
(* The broker's own approval queue (scripts/hive-mind-broker/app.py): an   *)
(* alert drafts a block, GET /pending lists the drafts, POST /approve      *)
(* dispatches one, POST /webhook/dispatch relays a block the agent has     *)
(* approved, and a scheduled job archives what is resolved.                *)
(*                                                                         *)
(* The handlers are coroutines of one thread: one of them runs (loop)      *)
(* until it awaits its dispatch.  The job is another process.  Appends and *)
(* the job take one flock; reads take no lock, so the job may replace the  *)
(* file between the two reads of one request.                              *)
(*                                                                         *)
(* An operator named Definition_Change is Definition with one mistake,     *)
(* used nowhere.                                                           *)
(***************************************************************************)
EXTENDS Naturals, FiniteSets

CONSTANTS
    Handlers,   \* requests served at the same time
    Actions,    \* the identifiers uuid4 may draw
    Faults      \* what may fail: a subset of FaultKinds

FaultKinds == {"job dies",     \* between any two of its writes
               "broker dies",  \* with all requests in progress; it is restarted
               "disk"}         \* an append fails, perhaps after part of the line

ASSUME HandlersAssumption == "nobody" \notin Handlers
ASSUME ActionsAssumption == "none" \notin Actions
ASSUME FaultsAssumption == Faults \subseteq FaultKinds

VARIABLES
    live,       \* the statuses of each action's rows in the queue
    archive,    \* ... and in the archive
    torn,       \* whether a line is unfinished: "open" at the file's end,
                \* "closed" once another line has been glued to it
    cut,        \* whether a line of either file was ever cut short
    lock,       \* who holds the queue's lock file: "nobody" or "job"
    loop,       \* the handler that runs, or "nobody"
    req,        \* the request each handler serves
    used,       \* the identifiers drawn so far
    dispatched, \* the actions handed to dispatch_block_to_all()
    vouched,    \* the actions some caller was told are "executed"
    autonomous, \* AUTONOMOUS_BLOCK_ENABLED
    jpc,        \* where the job is
    entries,    \* the rows it has read
    picked,     \* the actions it archives
    scar        \* whether the archive ends in an unfinished line: "open", or
                \* "glued" while the pass that wrote its first row behind it lasts

file == <<live, archive, torn, cut>>
ids == <<used, dispatched, vouched>>
job == <<jpc, entries, picked, scar>>
vars == <<file, lock, loop, req, ids, autonomous, job>>

NoAction == "none"
Statuses == {"pending", "approved", "denied", "executed"}
Rows == [Actions -> SUBSET Statuses]
NoRows == [a \in Actions |-> {}]

\* A request: where its handler is, the action it is about (none for a
\* listing), the rows of its first read, the drafts it found pending, the
\* status it will append, and whether the action was resolved when it began.
Requests == [pc : {"idle", "asked", "half", "viewed", "dispatching", "recording"},
             on : Actions \cup {NoAction}, first : Rows, seen : SUBSET Actions,
             due : Statuses \cup {"none"}, late : BOOLEAN]

\* One that is about to read or has read, and one that will append, or not.
Reader(place, a, late, rows, drafts) ==
    [pc |-> place, on |-> a, first |-> rows, seen |-> drafts, due |-> "none", late |-> late]
Writer(place, a, late, status) ==
    [pc |-> place, on |-> a, first |-> NoRows, seen |-> {}, due |-> status, late |-> late]
Idle == Reader("idle", NoAction, FALSE, NoRows, {})

TypeOK ==
    /\ live \in Rows /\ archive \in Rows /\ entries \in Rows
    /\ torn \in {"no", "open", "closed"} /\ cut \in BOOLEAN
    /\ lock \in {"nobody", "job"}
    /\ loop \in Handlers \cup {"nobody"}
    /\ req \in [Handlers -> Requests]
    /\ used \subseteq Actions /\ dispatched \subseteq Actions /\ vouched \subseteq Actions
    /\ autonomous \in BOOLEAN
    /\ jpc \in {"idle", "read", "archive", "replace"} /\ picked \subseteq Actions
    /\ scar \in {"no", "open", "glued"}

Init ==
    /\ live = NoRows /\ archive = NoRows /\ torn = "no" /\ cut = FALSE
    /\ lock = "nobody" /\ loop = "nobody"
    /\ req = [h \in Handlers |-> Idle]
    /\ used = {} /\ dispatched = {} /\ vouched = {}
    /\ autonomous \in BOOLEAN
    /\ jpc = "idle" /\ entries = NoRows /\ picked = {} /\ scar = "no"

\* The actions with a final row, in the queue or anywhere, and the drafts.
Final == {"approved", "denied"}
ResolvedIn(rows) == {a \in Actions : rows[a] \cap Final # {}}
PendingIn(rows) == {a \in Actions : "pending" \in rows[a]}
Settled == ResolvedIn(live) \cup ResolvedIn(archive)

-----------------------------------------------------------------------------
(* The handlers.                                                           *)

Becomes(h, r) == req' = [req EXCEPT ![h] = r]

\* A request, its signature verified, is taken up.
Begins(h, r) == req[h].pc = "idle" /\ loop = "nobody" /\ Becomes(h, r)

Fresh(a) == a \notin used /\ used' = used \cup {a}

\* receive_alert(): drafts, or in the legacy mode dispatches in the background
\* and records nothing.  A protected address, or one of a tenant without
\* routers, changes nothing.
ReceiveAlert(h, a) ==
    /\ Fresh(a)
    /\ \/ /\ ~autonomous
          /\ Begins(h, Writer("recording", a, FALSE, "pending"))
          /\ loop' = h /\ UNCHANGED dispatched
       \/ /\ autonomous
          /\ Begins(h, Writer("dispatching", a, FALSE, "none"))
          /\ dispatched' = dispatched \cup {a} /\ UNCHANGED loop
    /\ UNCHANGED <<file, lock, vouched, autonomous, job>>

\* dispatch_block_to_all(): awaiting the routers lets the other handlers run.
\* An address that has become protected meanwhile is refused without an await,
\* and the handler goes on to record it, as 0 routers.
HandOver(h, a, late, status) ==
    /\ dispatched' = dispatched \cup {a}
    /\ \/ Becomes(h, Writer("dispatching", a, late, status)) /\ loop' = "nobody"
       \/ Becomes(h, Writer("recording", a, late, status)) /\ loop' = h

\* dispatch_block(): dispatches now and records it under a fresh identifier.
DispatchBlock(h, a) ==
    /\ Fresh(a)
    /\ req[h].pc = "idle" /\ loop = "nobody"
    /\ HandOver(h, a, FALSE, "executed")
    /\ UNCHANGED <<file, lock, vouched, autonomous, job>>

\* list_pending() and approve() read the queue twice and then, without an
\* await in between, answer or dispatch.
Ask(h, a) ==
    /\ Begins(h, Reader("asked", a, a \in Settled, NoRows, {}))
    /\ loop' = h
    /\ UNCHANGED <<file, lock, ids, autonomous, job>>

\* The request is answered, or it failed; its handler is gone.
Ends(h) == Becomes(h, Idle) /\ loop' = "nobody"

\* _read_queue() raises on a line it cannot parse.
ReadFails(h) ==
    /\ req[h].pc = "asked" /\ torn # "no"
    /\ Ends(h)
    /\ UNCHANGED <<file, lock, ids, autonomous, job>>

\* The first read is for the ids with a final row, the second for the drafts.
ReadResolved(h) ==
    /\ req[h].pc = "asked" /\ torn = "no"
    /\ Becomes(h, Reader("half", req[h].on, req[h].late, live, {}))
    /\ UNCHANGED <<file, lock, loop, ids, autonomous, job>>

Open_ReadInReverse(before, now) == PendingIn(before) \ ResolvedIn(now)
Open_WithResolved(before, now) == PendingIn(now)
Open(before, now) == PendingIn(now) \ ResolvedIn(before)

\* No line can have been torn since the first read: only handlers append.
ReadPending(h) ==
    /\ req[h].pc = "half"
    /\ Becomes(h, Reader("viewed", req[h].on, req[h].late, NoRows, Open(req[h].first, live)))
    /\ UNCHANGED <<file, lock, loop, ids, autonomous, job>>

\* list_pending() answers; approve() does not find its action.
Reply(h) ==
    /\ req[h].pc = "viewed" /\ req[h].on \notin req[h].seen
    /\ Ends(h)
    /\ UNCHANGED <<file, lock, ids, autonomous, job>>

\* The handler goes on to append a row.
Records(h, status) ==
    Becomes(h, Writer("recording", req[h].on, req[h].late, status)) /\ loop' = h

\* approve() denies an address on the exclusion list, which is read anew.
Deny(h) ==
    /\ req[h].pc = "viewed" /\ req[h].on \in req[h].seen
    /\ Records(h, "denied")
    /\ UNCHANGED <<file, lock, ids, autonomous, job>>

Approve(h) ==
    /\ req[h].pc = "viewed" /\ req[h].on \in req[h].seen
    /\ HandOver(h, req[h].on, req[h].late, "approved")
    /\ UNCHANGED <<file, lock, used, vouched, autonomous, job>>

\* Every router has answered or timed out.
DispatchEnds_AlwaysRecords(h) ==
    /\ req[h].pc = "dispatching" /\ loop = "nobody"
    /\ Records(h, req[h].due)
    /\ UNCHANGED <<file, lock, ids, autonomous, job>>

DispatchEnds(h) ==
    /\ req[h].pc = "dispatching" /\ loop = "nobody"
    /\ \/ req[h].due = "none" /\ Ends(h)
       \/ /\ req[h].due # "none"
          /\ Records(h, req[h].due)
    /\ UNCHANGED <<file, lock, ids, autonomous, job>>

\* The row is a line of its own unless the last line is unfinished.
AddRow(a, status) ==
    IF torn = "open" THEN torn' = "closed" /\ UNCHANGED live
                     ELSE live' = [live EXCEPT ![a] = @ \cup {status}] /\ UNCHANGED torn

\* _append_action(), which blocks the thread until the job frees the lock,
\* and the answer.
Append(h) ==
    /\ req[h].pc = "recording" /\ lock = "nobody"
    /\ AddRow(req[h].on, req[h].due)
    /\ vouched' = IF req[h].due \in {"approved", "executed"} THEN vouched \cup {req[h].on}
                                                           ELSE vouched
    /\ Ends(h)
    /\ UNCHANGED <<archive, cut, lock, used, dispatched, autonomous, job>>

AppendFails_Ignored(h) ==
    /\ "disk" \in Faults
    /\ req[h].pc = "recording" /\ lock = "nobody"
    /\ vouched' = IF req[h].due \in {"approved", "executed"} THEN vouched \cup {req[h].on}
                                                           ELSE vouched
    /\ Ends(h)
    /\ UNCHANGED <<file, lock, used, dispatched, autonomous, job>>

AppendFails(h) ==
    /\ "disk" \in Faults
    /\ req[h].pc = "recording" /\ lock = "nobody"
    /\ \/ torn' = "open" /\ cut' = TRUE
       \/ UNCHANGED <<torn, cut>>
    /\ Ends(h)
    /\ UNCHANGED <<live, archive, lock, ids, autonomous, job>>

\* All requests in progress die with the process; one that was appending may
\* leave its row, or half of it.
BrokerDies ==
    /\ "broker dies" \in Faults
    /\ \/ UNCHANGED <<live, torn, cut>>
       \/ \E h \in Handlers :
             /\ req[h].pc = "recording" /\ lock = "nobody"
             /\ \/ AddRow(req[h].on, req[h].due) /\ UNCHANGED cut
                \/ torn' = "open" /\ cut' = TRUE /\ UNCHANGED live
    /\ req' = [h \in Handlers |-> Idle]
    /\ loop' = "nobody"
    /\ UNCHANGED <<archive, lock, ids, autonomous, job>>

-----------------------------------------------------------------------------
(* The job: compact().  Any resolved action may be past the retention.     *)

JobLock_NoLock ==
    /\ jpc = "idle"
    /\ jpc' = "read"
    /\ UNCHANGED <<file, lock, loop, req, ids, entries, picked, scar, autonomous>>

JobLock ==
    /\ jpc = "idle" /\ lock = "nobody"
    /\ jpc' = "read" /\ lock' = "job"
    /\ UNCHANGED <<file, loop, req, ids, entries, picked, scar, autonomous>>

JobEnds == jpc' = "idle" /\ lock' = "nobody" /\ entries' = NoRows /\ picked' = {}

TerminalStatuses == {"approved", "denied", "executed"}
Archivable == {a \in Actions : live[a] \cap TerminalStatuses # {}}

\* A line that does not parse is skipped.
JobRead_KeepsLock ==
    /\ jpc = "read"
    /\ \E old \in SUBSET Archivable :
          \/ /\ old = {}
             /\ jpc' = "idle" /\ UNCHANGED <<lock, entries, picked>>
          \/ /\ old # {}
             /\ entries' = live /\ picked' = old /\ jpc' = "archive" /\ UNCHANGED lock
    /\ UNCHANGED <<file, loop, req, ids, scar, autonomous>>

JobRead ==
    /\ jpc = "read"
    /\ \E old \in SUBSET Archivable :
          \/ old = {} /\ JobEnds
          \/ /\ old # {}
             /\ entries' = live /\ picked' = old /\ jpc' = "archive" /\ UNCHANGED lock
    /\ UNCHANGED <<file, loop, req, ids, scar, autonomous>>

PickedRows == [a \in Actions |-> IF a \in picked THEN entries[a] ELSE {}]
KeptRows == [a \in Actions |-> IF a \in picked THEN {} ELSE entries[a]]

\* The line of an action that is written first.
Heads(statuses) == IF "pending" \in statuses THEN {"pending"} ELSE statuses

\* Rows go to the archive; the first is lost if it is glued to an unfinished line.
Archived(rows) ==
    IF scar = "open"
    THEN \E a \in Actions : \E s \in Heads(rows[a]) :
            archive' = [b \in Actions |->
                           archive[b] \cup (IF b = a THEN rows[b] \ {s} ELSE rows[b])]
    ELSE archive' = [a \in Actions |-> archive[a] \cup rows[a]]

JobArchive ==
    /\ jpc = "archive"
    /\ Archived(PickedRows)
    /\ scar' = IF scar = "open" THEN "glued" ELSE "no"
    /\ jpc' = "replace"
    /\ UNCHANGED <<live, torn, cut, lock, loop, req, ids, entries, picked, autonomous>>

\* The file that takes the queue's name has only whole lines.
JobReplace ==
    /\ jpc = "replace"
    /\ live' = KeptRows /\ torn' = "no"
    /\ JobEnds
    /\ scar' = IF scar = "glued" THEN "no" ELSE scar
    /\ UNCHANGED <<archive, cut, loop, req, ids, autonomous>>

\* The archive lines of a pass that was cut short, each action's in their order.
PartOfPass(part) ==
    \A a \in Actions :
        /\ part[a] \subseteq PickedRows[a]
        /\ part[a] # {} /\ "pending" \in PickedRows[a] => "pending" \in part[a]

\* The job dies, leaving any of its archive lines and perhaps half of another;
\* the flock goes with it.
JobDies ==
    /\ "job dies" \in Faults /\ jpc # "idle"
    /\ \/ scar' = (IF scar = "glued" THEN "no" ELSE scar) /\ UNCHANGED <<archive, cut>>
       \/ /\ jpc = "archive"
          /\ \E part \in Rows :
                /\ PartOfPass(part) /\ Archived(part)
                /\ \/ scar' = "no" /\ UNCHANGED cut
                   \/ part # PickedRows /\ scar' = "open" /\ cut' = TRUE
    /\ JobEnds
    /\ UNCHANGED <<live, torn, loop, req, ids, autonomous>>

-----------------------------------------------------------------------------

HandlerStep(h) ==
    \/ ReadFails(h) \/ ReadResolved(h) \/ ReadPending(h) \/ Reply(h)
    \/ Deny(h) \/ Approve(h) \/ DispatchEnds(h)
    \/ Append(h) \/ AppendFails(h)

JobStep == JobRead \/ JobArchive \/ JobReplace

Next ==
    \/ \E h \in Handlers :
          \/ \E a \in Actions : ReceiveAlert(h, a) \/ DispatchBlock(h, a)
          \/ \E a \in Actions \cup {NoAction} : Ask(h, a)
          \/ HandlerStep(h)
    \/ BrokerDies \/ JobLock \/ JobStep \/ JobDies

\* The event loop serves its ready coroutines in turn, a dispatch has a time
\* limit, and the scheduled job holds the lock for a moment of the day only.
Fairness == WF_vars(JobStep) /\ \A h \in Handlers : SF_vars(HandlerStep(h))

Spec == Init /\ [][Next]_vars /\ Fairness

-----------------------------------------------------------------------------
(* Properties.                                                             *)

\* What a request sees as awaiting approval is just that, although its two
\* reads take no lock: no draft that was resolved, archived or not, and every
\* draft that was not, whatever the job replaced between the reads.
ViewIsCurrent ==
    \A h \in Handlers :
        req[h].pc = "viewed" =>
            req[h].seen = {a \in PendingIn(live) : a \notin Settled}

\* No request dispatches an action whose resolution was on record before the
\* request began, in the queue or in the archive: only requests that overlap
\* an approval, or follow one whose row was lost, repeat its dispatch.
ResolvedIsFinal ==
    \A h \in Handlers : req[h].pc = "dispatching" => ~req[h].late

\* An approved or executed row stands for a call of dispatch_block_to_all(), and
\* while no line was cut short a caller told "executed" has its row in the queue
\* or the archive ("the dispatch is recorded to the approval queue").
RowsTellTruth ==
    /\ \A a \in Actions : (live[a] \cup archive[a]) \cap {"approved", "executed"} # {}
                              => a \in dispatched
    /\ ~cut => \A a \in vouched :
                   (live[a] \cup archive[a]) \cap {"approved", "executed"} # {}

\* A row that is lost from both files.
Loses(a, s) == /\ s \in live[a] \cup archive[a]
               /\ s \notin live'[a] \cup archive'[a]

\* A draft without a resolution is never moved out of the queue, and no row that
\* was appended is lost from both files, except that the pass which first writes
\* to an archive left with half a line loses one, whatever job and handlers do.
KeepsRows ==
    [][\A a \in Actions :
           /\ live[a] = {"pending"} => "pending" \in live'[a]
           /\ \A s \in Statuses : Loses(a, s) =>
                 /\ scar = "glued"
                 /\ \A b \in Actions, t \in Statuses : Loses(b, t) => a = b /\ s = t]_vars

\* What the job's comment promises of a crash: the archived lines are duplicated
\* in the live file rather than lost from both.
NothingLost == [][\A a \in Actions, s \in Statuses : ~Loses(a, s)]_vars

\* Every request ends, although it may wait for the job's lock, and the event
\* loop with it.
RequestsEnd == \A h \in Handlers : req[h].pc # "idle" ~> req[h].pc = "idle"
=============================================================================
