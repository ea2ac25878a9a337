------------------------- MODULE BrokerApproval_proofs -------------------------
(***************************************************************************)
(* That no request is shown, or dispatches, an action that was resolved    *)
(* before, for any number of requests, actions and any faults, although    *)
(* the two reads of a request take no lock.  The argument: an action that  *)
(* is resolved in the archive only has no draft left in the queue          *)
(* (NoGhostDraft), for the job moves all rows of an action, under the lock *)
(* that every append takes, and identifiers are not drawn twice.           *)
(***************************************************************************)
EXTENDS BrokerApproval, TLAPS

Busy == {"dispatching", "recording"}

\* The rows of an action that the pass has not got into the archive.
Missing(a) == entries[a] \ archive[a]

\* The job works on the queue as it is: no append can come between.  What it
\* is about to drop is in the archive, but for the row glued to half a line.
Locking ==
    /\ jpc # "idle" => lock = "job"
    /\ jpc \in {"archive", "replace"} => entries = live /\ picked \subseteq Archivable
    /\ jpc = "replace" /\ scar # "glued" => \A a \in picked : Missing(a) = {}
    /\ jpc = "replace" => \A a, b \in picked : \A s \in Missing(a), t \in Missing(b) :
          a = b /\ s = t
    /\ scar = "glued" => jpc = "replace"

\* Between two awaits a handler runs alone.
OneRuns == \A h \in Handlers :
    req[h].pc \in {"asked", "half", "viewed", "recording"} => loop = h

\* The row a handler is about to append.
Duty == \A h \in Handlers :
    /\ req[h].pc \notin Busy => req[h].due = "none"
    /\ req[h].pc = "recording" => req[h].due # "none"
    /\ req[h].pc \in Busy => req[h].on \in used
    /\ req[h].due = "pending" => req[h].pc = "recording"

\* An identifier is drawn once: either it names a draft or a relayed block.
Identity ==
    /\ \A a \in Actions \ used : live[a] = {} /\ archive[a] = {}
    /\ \A h \in Handlers : req[h].due = "pending" =>
          live[req[h].on] = {} /\ archive[req[h].on] = {}
    /\ \A h \in Handlers : req[h].due = "executed" => "pending" \notin live[req[h].on]
    /\ \A h, i \in Handlers : req[h].due = "executed" /\ req[i].due = "pending" =>
          req[h].on # req[i].on
    /\ \A a \in Actions : ~("pending" \in live[a] /\ "executed" \in live[a])

NoGhostDraft == \A a \in PendingIn(live) :
    a \in ResolvedIn(archive) => a \in ResolvedIn(live)

\* What the first read says of the drafts that are still in the queue.
Reading == \A h \in Handlers : req[h].pc = "half" =>
    \A a \in PendingIn(live) : a \in ResolvedIn(req[h].first) <=> a \in Settled

\* Of an action that was resolved when the request began, no draft is left but
\* a resolved one, nor will one be appended.
LateIsSettled == \A h \in Handlers :
    req[h].pc \in {"asked", "half", "viewed"} /\ req[h].late =>
        /\ req[h].on \in used
        /\ req[h].on \in PendingIn(live) => req[h].on \in Settled
        /\ \A i \in Handlers : req[i].due = "pending" => req[i].on # req[h].on

Recorded ==
    /\ torn = "open" \/ scar # "no" => cut
    /\ \A h \in Handlers : req[h].due \in {"approved", "executed"} => req[h].on \in dispatched

IInv == /\ TypeOK /\ Locking /\ OneRuns /\ Duty /\ Identity
        /\ NoGhostDraft /\ Reading /\ LateIsSettled /\ ViewIsCurrent /\ ResolvedIsFinal
        /\ Recorded /\ RowsTellTruth

-----------------------------------------------------------------------------
(* How a step changes the request of one handler.                          *)

Moved(h, place, a, late, rows, drafts, status) ==
    /\ req' \in [Handlers -> Requests]
    /\ \A i \in Handlers : i # h => req'[i] = req[i]
    /\ req'[h].pc = place /\ req'[h].on = a /\ req'[h].late = late
    /\ req'[h].first = rows /\ req'[h].seen = drafts /\ req'[h].due = status

Places == {"idle", "asked", "half", "viewed", "dispatching", "recording"}

LEMMA NoRowsType == NoRows \in Rows
    BY DEF NoRows, Rows

\* A handler that reads.
LEMMA ReaderMoves ==
    ASSUME TypeOK, NEW h \in Handlers, NEW place \in Places, NEW late \in BOOLEAN,
           NEW a \in Actions \cup {NoAction}, NEW rows \in Rows,
           NEW drafts \in SUBSET Actions, Becomes(h, Reader(place, a, late, rows, drafts))
    PROVE  Moved(h, place, a, late, rows, drafts, "none")
<1> DEFINE r == Reader(place, a, late, rows, drafts)
<1>1. r \in Requests
    BY DEF Reader, Requests, Places
<1>2. req' = [req EXCEPT ![h] = r] /\ req \in [Handlers -> Requests]
    BY DEF Becomes, TypeOK
<1>3. /\ r.pc = place /\ r.on = a /\ r.late = late
      /\ r.first = rows /\ r.seen = drafts /\ r.due = "none"
    BY DEF Reader
<1> QED
    <2> HIDE DEF r
    <2> QED BY <1>1, <1>2, <1>3 DEF Moved

\* A handler that will append.
LEMMA WriterMoves ==
    ASSUME TypeOK, NEW h \in Handlers, NEW place \in Places, NEW late \in BOOLEAN,
           NEW a \in Actions \cup {NoAction}, NEW status \in Statuses \cup {"none"},
           Becomes(h, Writer(place, a, late, status))
    PROVE  Moved(h, place, a, late, NoRows, {}, status)
<1> DEFINE r == Writer(place, a, late, status)
<1>1. r \in Requests
    BY NoRowsType DEF Writer, Requests, Places
<1>2. req' = [req EXCEPT ![h] = r] /\ req \in [Handlers -> Requests]
    BY DEF Becomes, TypeOK
<1>3. /\ r.pc = place /\ r.on = a /\ r.late = late
      /\ r.first = NoRows /\ r.seen = {} /\ r.due = status
    BY DEF Writer
<1> QED
    <2> HIDE DEF r
    <2> QED BY <1>1, <1>2, <1>3 DEF Moved

\* A request that ends.
LEMMA EndMoves ==
    ASSUME TypeOK, NEW h \in Handlers, Ends(h)
    PROVE  Moved(h, "idle", NoAction, FALSE, NoRows, {}, "none") /\ loop' = "nobody"
    BY ReaderMoves, NoRowsType DEF Ends, Idle, Places

\* The types of one request.
LEMMA RequestTypes ==
    ASSUME TypeOK, NEW h \in Handlers
    PROVE  /\ req[h] \in Requests /\ req[h].pc \in Places /\ req[h].late \in BOOLEAN
           /\ req[h].on \in Actions \cup {NoAction} /\ req[h].first \in Rows
           /\ req[h].seen \in SUBSET Actions /\ req[h].due \in Statuses \cup {"none"}
    BY DEF TypeOK, Requests, Places

\* One lemma per action: what the action does, and then each part of the invariant.

LEMMA ReadFailsStep ==
    ASSUME IInv, NEW h \in Handlers, ReadFails(h)
    PROVE  IInv'
<1> USE DEF IInv
<1>1. /\ req[h].pc = "asked"
      /\ Moved(h, "idle", NoAction, FALSE, NoRows, {}, "none") /\ loop' = "nobody"
      /\ UNCHANGED <<live, archive, torn, cut, lock, jpc, entries, picked, scar>>
      /\ UNCHANGED <<used, dispatched, vouched, autonomous>>
    BY EndMoves DEF ReadFails, file, ids, job
<1>2. TypeOK'
    BY <1>1 DEF Moved, TypeOK
<1>3. Locking'
    BY <1>1 DEF Moved, Locking, Missing, Archivable
<1>4. OneRuns'
    BY <1>1, HandlersAssumption DEF Moved, OneRuns
<1>5. Duty'
    BY <1>1 DEF Moved, Duty, Busy
<1>6. Identity'
    BY <1>1 DEF Moved, Identity
<1>7. NoGhostDraft'
    BY <1>1 DEF Moved, NoGhostDraft, PendingIn, ResolvedIn
<1>8. Reading'
    BY <1>1 DEF Moved, Reading, PendingIn, ResolvedIn, Settled
<1>9. LateIsSettled'
    BY <1>1 DEF Moved, LateIsSettled, Settled, ResolvedIn, PendingIn
<1>10. ViewIsCurrent'
    BY <1>1 DEF Moved, ViewIsCurrent, PendingIn, ResolvedIn, Settled
<1>11. ResolvedIsFinal'
    BY <1>1 DEF Moved, ResolvedIsFinal
<1>12. Recorded'
    BY <1>1 DEF Moved, Recorded
<1>13. RowsTellTruth'
    BY <1>1 DEF Moved, RowsTellTruth
<1> QED
    BY <1>2, <1>3, <1>4, <1>5, <1>6, <1>7, <1>8, <1>9, <1>10, <1>11, <1>12, <1>13
LEMMA ReadResolvedStep ==
    ASSUME IInv, NEW h \in Handlers, ReadResolved(h)
    PROVE  IInv'
<1> USE DEF IInv
<1>1. /\ req[h].pc = "asked"
      /\ Moved(h, "half", req[h].on, req[h].late, live, {}, "none")
      /\ UNCHANGED loop
      /\ UNCHANGED <<live, archive, torn, cut, lock, jpc, entries, picked, scar>>
      /\ UNCHANGED <<used, dispatched, vouched, autonomous>>
    BY ReaderMoves, RequestTypes DEF ReadResolved, Places, TypeOK, file, ids, job
<1>2. TypeOK'
    BY <1>1 DEF Moved, TypeOK
<1>3. Locking'
    BY <1>1 DEF Moved, Locking, Missing, Archivable
<1>4. OneRuns'
    BY <1>1, HandlersAssumption DEF Moved, OneRuns
<1>5. Duty'
    BY <1>1 DEF Moved, Duty, Busy
<1>6. Identity'
    BY <1>1 DEF Moved, Identity
<1>7. NoGhostDraft'
    BY <1>1 DEF Moved, NoGhostDraft, PendingIn, ResolvedIn
<1>8. Reading'
    BY <1>1 DEF Moved, Reading, PendingIn, ResolvedIn, Settled, NoGhostDraft
<1>9. LateIsSettled'
    BY <1>1 DEF Moved, LateIsSettled, Settled, ResolvedIn, PendingIn
<1>10. ViewIsCurrent'
    BY <1>1 DEF Moved, ViewIsCurrent, PendingIn, ResolvedIn, Settled
<1>11. ResolvedIsFinal'
    BY <1>1 DEF Moved, ResolvedIsFinal
<1>12. Recorded'
    BY <1>1 DEF Moved, Recorded
<1>13. RowsTellTruth'
    BY <1>1 DEF Moved, RowsTellTruth
<1> QED
    BY <1>2, <1>3, <1>4, <1>5, <1>6, <1>7, <1>8, <1>9, <1>10, <1>11, <1>12, <1>13
LEMMA ReadPendingStep ==
    ASSUME IInv, NEW h \in Handlers, ReadPending(h)
    PROVE  IInv'
<1> USE DEF IInv
<1>1. /\ req[h].pc = "half"
      /\ Moved(h, "viewed", req[h].on, req[h].late, NoRows, Open(req[h].first, live), "none")
      /\ UNCHANGED loop
      /\ UNCHANGED <<live, archive, torn, cut, lock, jpc, entries, picked, scar>>
      /\ UNCHANGED <<used, dispatched, vouched, autonomous>>
    BY ReaderMoves, RequestTypes, NoRowsType DEF ReadPending, Open, PendingIn, Places, TypeOK, file, ids, job
<1>2. TypeOK'
    BY <1>1 DEF Moved, TypeOK
<1>3. Locking'
    BY <1>1 DEF Moved, Locking, Missing, Archivable
<1>4. OneRuns'
    BY <1>1, HandlersAssumption DEF Moved, OneRuns
<1>5. Duty'
    BY <1>1 DEF Moved, Duty, Busy
<1>6. Identity'
    BY <1>1 DEF Moved, Identity
<1>7. NoGhostDraft'
    BY <1>1 DEF Moved, NoGhostDraft, PendingIn, ResolvedIn
<1>8. Reading'
    BY <1>1 DEF Moved, Reading, PendingIn, ResolvedIn, Settled
<1>9. LateIsSettled'
    BY <1>1 DEF Moved, LateIsSettled, Settled, ResolvedIn, PendingIn
<1>10. ViewIsCurrent'
    BY <1>1 DEF Moved, ViewIsCurrent, PendingIn, ResolvedIn, Settled, Reading, Open
<1>11. ResolvedIsFinal'
    BY <1>1 DEF Moved, ResolvedIsFinal
<1>12. Recorded'
    BY <1>1 DEF Moved, Recorded
<1>13. RowsTellTruth'
    BY <1>1 DEF Moved, RowsTellTruth
<1> QED
    BY <1>2, <1>3, <1>4, <1>5, <1>6, <1>7, <1>8, <1>9, <1>10, <1>11, <1>12, <1>13
LEMMA ReplyStep ==
    ASSUME IInv, NEW h \in Handlers, Reply(h)
    PROVE  IInv'
<1> USE DEF IInv
<1>1. /\ req[h].pc = "viewed"
      /\ Moved(h, "idle", NoAction, FALSE, NoRows, {}, "none") /\ loop' = "nobody"
      /\ UNCHANGED <<live, archive, torn, cut, lock, jpc, entries, picked, scar>>
      /\ UNCHANGED <<used, dispatched, vouched, autonomous>>
    BY EndMoves DEF Reply, file, ids, job
<1>2. TypeOK'
    BY <1>1 DEF Moved, TypeOK
<1>3. Locking'
    BY <1>1 DEF Moved, Locking, Missing, Archivable
<1>4. OneRuns'
    BY <1>1, HandlersAssumption DEF Moved, OneRuns
<1>5. Duty'
    BY <1>1 DEF Moved, Duty, Busy
<1>6. Identity'
    BY <1>1 DEF Moved, Identity
<1>7. NoGhostDraft'
    BY <1>1 DEF Moved, NoGhostDraft, PendingIn, ResolvedIn
<1>8. Reading'
    BY <1>1 DEF Moved, Reading, PendingIn, ResolvedIn, Settled
<1>9. LateIsSettled'
    BY <1>1 DEF Moved, LateIsSettled, Settled, ResolvedIn, PendingIn
<1>10. ViewIsCurrent'
    BY <1>1 DEF Moved, ViewIsCurrent, PendingIn, ResolvedIn, Settled
<1>11. ResolvedIsFinal'
    BY <1>1 DEF Moved, ResolvedIsFinal
<1>12. Recorded'
    BY <1>1 DEF Moved, Recorded
<1>13. RowsTellTruth'
    BY <1>1 DEF Moved, RowsTellTruth
<1> QED
    BY <1>2, <1>3, <1>4, <1>5, <1>6, <1>7, <1>8, <1>9, <1>10, <1>11, <1>12, <1>13
LEMMA DenyStep ==
    ASSUME IInv, NEW h \in Handlers, Deny(h)
    PROVE  IInv'
<1> USE DEF IInv
<1>1. /\ req[h].pc = "viewed" /\ req[h].on \in req[h].seen
      /\ Moved(h, "recording", req[h].on, req[h].late, NoRows, {}, "denied")
      /\ loop' = h
      /\ UNCHANGED <<live, archive, torn, cut, lock, jpc, entries, picked, scar>>
      /\ UNCHANGED <<used, dispatched, vouched, autonomous>>
    BY WriterMoves, RequestTypes DEF Deny, Records, Places, Statuses, file, ids, job
<1>2. TypeOK'
    BY <1>1 DEF Moved, TypeOK
<1>3. Locking'
    BY <1>1 DEF Moved, Locking, Missing, Archivable
<1>4. OneRuns'
    BY <1>1 DEF Moved, OneRuns
<1>5. Duty'
    BY <1>1, ActionsAssumption DEF Moved, Duty, Busy, ViewIsCurrent, PendingIn,
       Identity
<1>6. Identity'
    BY <1>1 DEF Moved, Identity
<1>7. NoGhostDraft'
    BY <1>1 DEF Moved, NoGhostDraft, PendingIn, ResolvedIn
<1>8. Reading'
    BY <1>1 DEF Moved, Reading, PendingIn, ResolvedIn, Settled
<1>9. LateIsSettled'
    BY <1>1 DEF Moved, LateIsSettled, Settled, ResolvedIn, PendingIn
<1>10. ViewIsCurrent'
    BY <1>1 DEF Moved, ViewIsCurrent, PendingIn, ResolvedIn, Settled
<1>11. ResolvedIsFinal'
    BY <1>1 DEF Moved, ResolvedIsFinal
<1>12. Recorded'
    BY <1>1 DEF Moved, Recorded
<1>13. RowsTellTruth'
    BY <1>1 DEF Moved, RowsTellTruth
<1> QED
    BY <1>2, <1>3, <1>4, <1>5, <1>6, <1>7, <1>8, <1>9, <1>10, <1>11, <1>12, <1>13
LEMMA ApproveStep ==
    ASSUME IInv, NEW h \in Handlers, Approve(h)
    PROVE  IInv'
<1> USE DEF IInv
<1>1. /\ req[h].pc = "viewed" /\ req[h].on \in req[h].seen
      /\ \/ /\ Moved(h, "dispatching", req[h].on, req[h].late, NoRows, {}, "approved")
            /\ loop' = "nobody"
         \/ /\ Moved(h, "recording", req[h].on, req[h].late, NoRows, {}, "approved")
            /\ loop' = h
      /\ UNCHANGED <<live, archive, torn, cut, lock, jpc, entries, picked, scar>>
      /\ dispatched' = dispatched \cup {req[h].on}
      /\ UNCHANGED <<used, vouched, autonomous>>
    BY WriterMoves, RequestTypes DEF Approve, HandOver, Places, Statuses, file, job
<1>2. TypeOK'
    BY <1>1, RequestTypes DEF Moved, TypeOK
<1>3. Locking'
    BY <1>1 DEF Moved, Locking, Missing, Archivable
<1>4. OneRuns'
    BY <1>1, HandlersAssumption DEF Moved, OneRuns
<1>5. Duty'
    BY <1>1 DEF Moved, Duty, Busy, ViewIsCurrent, PendingIn, Identity
<1>6. Identity'
    BY <1>1 DEF Moved, Identity
<1>7. NoGhostDraft'
    BY <1>1 DEF Moved, NoGhostDraft, PendingIn, ResolvedIn
<1>8. Reading'
    BY <1>1 DEF Moved, Reading, PendingIn, ResolvedIn, Settled
<1>9. LateIsSettled'
    BY <1>1 DEF Moved, LateIsSettled, Settled, ResolvedIn, PendingIn
<1>10. ViewIsCurrent'
    BY <1>1 DEF Moved, ViewIsCurrent, PendingIn, ResolvedIn, Settled
<1>11. ResolvedIsFinal'
    BY <1>1 DEF Moved, ResolvedIsFinal, LateIsSettled, ViewIsCurrent
<1>12. Recorded'
    BY <1>1 DEF Moved, Recorded
<1>13. RowsTellTruth'
    BY <1>1 DEF Moved, RowsTellTruth
<1> QED
    BY <1>2, <1>3, <1>4, <1>5, <1>6, <1>7, <1>8, <1>9, <1>10, <1>11, <1>12, <1>13
LEMMA DispatchBlockStep ==
    ASSUME IInv, NEW h \in Handlers, NEW a \in Actions, DispatchBlock(h, a)
    PROVE  IInv'
<1> USE DEF IInv
<1>1. /\ a \in Actions \ used /\ used' = used \cup {a}
      /\ loop = "nobody" /\ req[h].pc = "idle"
      /\ \/ Moved(h, "dispatching", a, FALSE, NoRows, {}, "executed") /\ loop' = "nobody"
         \/ Moved(h, "recording", a, FALSE, NoRows, {}, "executed") /\ loop' = h
      /\ UNCHANGED <<live, archive, torn, cut, lock, jpc, entries, picked, scar>>
      /\ dispatched' = dispatched \cup {a}
      /\ UNCHANGED <<vouched, autonomous>>
    BY WriterMoves DEF DispatchBlock, HandOver, Fresh, Places, Statuses, file, job
<1>2. TypeOK'
    BY <1>1 DEF Moved, TypeOK
<1>3. Locking'
    BY <1>1 DEF Moved, Locking, Missing, Archivable
<1>4. OneRuns'
    BY <1>1, HandlersAssumption DEF Moved, OneRuns
<1>5. Duty'
    BY <1>1 DEF Moved, Duty, Busy
<1>6. Identity'
    BY <1>1 DEF Moved, Identity, Duty, Busy
<1>7. NoGhostDraft'
    BY <1>1 DEF Moved, NoGhostDraft, PendingIn, ResolvedIn
<1>8. Reading'
    BY <1>1 DEF Moved, Reading, PendingIn, ResolvedIn, Settled
<1>9. LateIsSettled'
    BY <1>1 DEF Moved, LateIsSettled, Settled, ResolvedIn, PendingIn
<1>10. ViewIsCurrent'
    BY <1>1 DEF Moved, ViewIsCurrent, PendingIn, ResolvedIn, Settled
<1>11. ResolvedIsFinal'
    BY <1>1 DEF Moved, ResolvedIsFinal
<1>12. Recorded'
    BY <1>1 DEF Moved, Recorded
<1>13. RowsTellTruth'
    BY <1>1 DEF Moved, RowsTellTruth
<1> QED
    BY <1>2, <1>3, <1>4, <1>5, <1>6, <1>7, <1>8, <1>9, <1>10, <1>11, <1>12, <1>13
LEMMA ReceiveAlertStep ==
    ASSUME IInv, NEW h \in Handlers, NEW a \in Actions, ReceiveAlert(h, a)
    PROVE  IInv'
<1> USE DEF IInv
<1>1. /\ a \in Actions \ used /\ used' = used \cup {a}
      /\ loop = "nobody" /\ req[h].pc = "idle"
      /\ \/ Moved(h, "dispatching", a, FALSE, NoRows, {}, "none") /\ UNCHANGED loop
         \/ Moved(h, "recording", a, FALSE, NoRows, {}, "pending") /\ loop' = h
      /\ UNCHANGED <<live, archive, torn, cut, lock, jpc, entries, picked, scar>>
      /\ dispatched' \in {dispatched, dispatched \cup {a}}
      /\ UNCHANGED <<vouched, autonomous>>
    BY WriterMoves DEF ReceiveAlert, Fresh, Begins, Places, Statuses, file, job
<1>2. TypeOK'
    BY <1>1 DEF Moved, TypeOK
<1>3. Locking'
    BY <1>1 DEF Moved, Locking, Missing, Archivable
<1>4. OneRuns'
    BY <1>1, HandlersAssumption DEF Moved, OneRuns
<1>5. Duty'
    BY <1>1 DEF Moved, Duty, Busy
<1>6. Identity'
    BY <1>1 DEF Moved, Identity, Duty, Busy
<1>7. NoGhostDraft'
    BY <1>1 DEF Moved, NoGhostDraft, PendingIn, ResolvedIn
<1>8. Reading'
    BY <1>1 DEF Moved, Reading, PendingIn, ResolvedIn, Settled
<1>9. LateIsSettled'
    BY <1>1 DEF Moved, LateIsSettled, Settled, ResolvedIn, PendingIn
<1>10. ViewIsCurrent'
    BY <1>1 DEF Moved, ViewIsCurrent, PendingIn, ResolvedIn, Settled
<1>11. ResolvedIsFinal'
    BY <1>1 DEF Moved, ResolvedIsFinal
<1>12. Recorded'
    BY <1>1 DEF Moved, Recorded
<1>13. RowsTellTruth'
    BY <1>1 DEF Moved, RowsTellTruth
<1> QED
    BY <1>2, <1>3, <1>4, <1>5, <1>6, <1>7, <1>8, <1>9, <1>10, <1>11, <1>12, <1>13
LEMMA AskStep ==
    ASSUME IInv, NEW h \in Handlers, NEW a \in Actions \cup {NoAction}, Ask(h, a)
    PROVE  IInv'
<1> USE DEF IInv
<1>1. /\ loop = "nobody" /\ req[h].pc = "idle"
      /\ Moved(h, "asked", a, a \in Settled, NoRows, {}, "none")
      /\ loop' = h
      /\ UNCHANGED <<live, archive, torn, cut, lock, jpc, entries, picked, scar>>
      /\ UNCHANGED <<used, dispatched, vouched, autonomous>>
    <2>1. Becomes(h, Reader("asked", a, a \in Settled, NoRows, {}))
        BY DEF Ask, Begins
    <2>2. (a \in Settled) \in BOOLEAN /\ "asked" \in Places /\ {} \in SUBSET Actions
        BY DEF Places
    <2>3. Moved(h, "asked", a, a \in Settled, NoRows, {}, "none")
        BY ONLY <2>1, <2>2, ReaderMoves, NoRowsType, TypeOK
    <2> QED BY <2>3 DEF Ask, Begins, file, ids, job
<1>2. TypeOK'
    BY <1>1 DEF Moved, TypeOK
<1>3. Locking'
    BY <1>1 DEF Moved, Locking, Missing, Archivable
<1>4. OneRuns'
    BY <1>1, HandlersAssumption DEF Moved, OneRuns
<1>5. Duty'
    BY <1>1 DEF Moved, Duty, Busy
<1>6. Identity'
    BY <1>1 DEF Moved, Identity
<1>7. NoGhostDraft'
    BY <1>1 DEF Moved, NoGhostDraft, PendingIn, ResolvedIn
<1>8. Reading'
    BY <1>1 DEF Moved, Reading, PendingIn, ResolvedIn, Settled
<1>9. LateIsSettled'
    <2>1. ASSUME a \in Settled
          PROVE  a \in used /\ \A i \in Handlers : req[i].due = "pending" => req[i].on # a
        <3>1. a \in Actions /\ ~(live[a] = {} /\ archive[a] = {})
            BY <2>1 DEF Settled, ResolvedIn
        <3> QED BY <3>1 DEF Identity
    <2> QED BY <1>1, <2>1 DEF Moved, LateIsSettled, Settled, ResolvedIn, PendingIn
<1>10. ViewIsCurrent'
    BY <1>1 DEF Moved, ViewIsCurrent, PendingIn, ResolvedIn, Settled
<1>11. ResolvedIsFinal'
    BY <1>1 DEF Moved, ResolvedIsFinal
<1>12. Recorded'
    BY <1>1 DEF Moved, Recorded
<1>13. RowsTellTruth'
    BY <1>1 DEF Moved, RowsTellTruth
<1> QED
    BY <1>2, <1>3, <1>4, <1>5, <1>6, <1>7, <1>8, <1>9, <1>10, <1>11, <1>12, <1>13
LEMMA DispatchEndsStep ==
    ASSUME IInv, NEW h \in Handlers, DispatchEnds(h)
    PROVE  IInv'
<1> USE DEF IInv
<1>1. /\ req[h].pc = "dispatching" /\ loop = "nobody"
      /\ \/ Moved(h, "idle", NoAction, FALSE, NoRows, {}, "none") /\ loop' = "nobody"
         \/ /\ Moved(h, "recording", req[h].on, req[h].late, NoRows, {}, req[h].due)
            /\ req[h].due # "none" /\ loop' = h
      /\ UNCHANGED <<live, archive, torn, cut, lock, jpc, entries, picked, scar>>
      /\ UNCHANGED <<used, dispatched, vouched, autonomous>>
    BY WriterMoves, EndMoves, RequestTypes DEF DispatchEnds, Records, Places, Statuses, file, ids, job
<1>2. TypeOK'
    BY <1>1 DEF Moved, TypeOK
<1>3. Locking'
    BY <1>1 DEF Moved, Locking, Missing, Archivable
<1>4. OneRuns'
    BY <1>1, HandlersAssumption DEF Moved, OneRuns
<1>5. Duty'
    BY <1>1 DEF Moved, Duty, Busy
<1>6. Identity'
    BY <1>1 DEF Moved, Identity
<1>7. NoGhostDraft'
    BY <1>1 DEF Moved, NoGhostDraft, PendingIn, ResolvedIn
<1>8. Reading'
    BY <1>1 DEF Moved, Reading, PendingIn, ResolvedIn, Settled
<1>9. LateIsSettled'
    BY <1>1 DEF Moved, LateIsSettled, Settled, ResolvedIn, PendingIn
<1>10. ViewIsCurrent'
    BY <1>1 DEF Moved, ViewIsCurrent, PendingIn, ResolvedIn, Settled
<1>11. ResolvedIsFinal'
    BY <1>1 DEF Moved, ResolvedIsFinal
<1>12. Recorded'
    BY <1>1 DEF Moved, Recorded
<1>13. RowsTellTruth'
    BY <1>1 DEF Moved, RowsTellTruth
<1> QED
    BY <1>2, <1>3, <1>4, <1>5, <1>6, <1>7, <1>8, <1>9, <1>10, <1>11, <1>12, <1>13
LEMMA AppendFailsStep ==
    ASSUME IInv, NEW h \in Handlers, AppendFails(h)
    PROVE  IInv'
<1> USE DEF IInv
<1>1. /\ req[h].pc = "recording"
      /\ Moved(h, "idle", NoAction, FALSE, NoRows, {}, "none") /\ loop' = "nobody"
      /\ UNCHANGED <<live, archive, lock, jpc, entries, picked, scar>>
      /\ \/ torn' = "open" /\ cut' = TRUE
         \/ UNCHANGED <<torn, cut>>
      /\ UNCHANGED <<used, dispatched, vouched, autonomous>>
    BY EndMoves DEF AppendFails, file, ids, job
<1>2. TypeOK'
    BY <1>1 DEF Moved, TypeOK
<1>3. Locking'
    BY <1>1 DEF Moved, Locking, Missing, Archivable
<1>4. OneRuns'
    BY <1>1, HandlersAssumption DEF Moved, OneRuns
<1>5. Duty'
    BY <1>1 DEF Moved, Duty, Busy
<1>6. Identity'
    BY <1>1 DEF Moved, Identity
<1>7. NoGhostDraft'
    BY <1>1 DEF Moved, NoGhostDraft, PendingIn, ResolvedIn
<1>8. Reading'
    BY <1>1 DEF Moved, Reading, PendingIn, ResolvedIn, Settled
<1>9. LateIsSettled'
    BY <1>1 DEF Moved, LateIsSettled, Settled, ResolvedIn, PendingIn
<1>10. ViewIsCurrent'
    BY <1>1 DEF Moved, ViewIsCurrent, PendingIn, ResolvedIn, Settled
<1>11. ResolvedIsFinal'
    BY <1>1 DEF Moved, ResolvedIsFinal
<1>12. Recorded'
    BY <1>1 DEF Moved, Recorded
<1>13. RowsTellTruth'
    BY <1>1 DEF Moved, RowsTellTruth
<1> QED
    BY <1>2, <1>3, <1>4, <1>5, <1>6, <1>7, <1>8, <1>9, <1>10, <1>11, <1>12, <1>13
LEMMA AppendStep ==
    ASSUME IInv, NEW h \in Handlers, Append(h)
    PROVE  IInv'
<1> USE DEF IInv
<1>1. /\ req[h].pc = "recording" /\ lock = "nobody"
      /\ req[h].on \in used /\ req[h].on \in Actions /\ req[h].due \in Statuses
      /\ Moved(h, "idle", NoAction, FALSE, NoRows, {}, "none") /\ loop' = "nobody"
      /\ \A i \in Handlers : i # h => req[i].pc \notin {"asked", "half", "viewed", "recording"}
      /\ UNCHANGED <<archive, cut, lock, jpc, entries, picked, scar>>
      /\ \/ torn = "open" /\ torn' = "closed" /\ UNCHANGED live
         \/ /\ torn # "open" /\ UNCHANGED torn
            /\ live' = [live EXCEPT ![req[h].on] = @ \cup {req[h].due}]
      /\ vouched' = IF req[h].due \in {"approved", "executed"} THEN vouched \cup {req[h].on}
                                                               ELSE vouched
      /\ UNCHANGED <<used, dispatched, autonomous>>
    <2>1. req[h].pc = "recording" /\ lock = "nobody" /\ loop = h
        BY DEF Append, OneRuns
    <2>2. req[h].on \in used /\ req[h].on \in Actions /\ req[h].due \in Statuses
        BY <2>1, RequestTypes DEF Duty, Busy, TypeOK
    <2> QED BY <2>1, <2>2, EndMoves DEF Append, AddRow, OneRuns, job
<1>2. TypeOK'
    BY <1>1 DEF Moved, TypeOK, Rows
<1>3. Locking'
    BY <1>1 DEF Moved, Locking, Missing, Archivable
<1>4. OneRuns'
    BY <1>1, HandlersAssumption DEF Moved, OneRuns
<1>5. Duty'
    BY <1>1 DEF Moved, Duty, Busy
<1>6. Identity'
    BY <1>1 DEF Moved, Identity, Duty, Busy, TypeOK, Rows
<1>7. NoGhostDraft'
    BY <1>1 DEF Moved, NoGhostDraft, PendingIn, ResolvedIn, Identity, TypeOK, Rows,
       Statuses
<1>8. Reading'
    BY <1>1 DEF Moved, Reading, PendingIn, ResolvedIn, Settled
<1>9. LateIsSettled'
    BY <1>1 DEF Moved, LateIsSettled, Settled, ResolvedIn, PendingIn
<1>10. ViewIsCurrent'
    BY <1>1 DEF Moved, ViewIsCurrent, PendingIn, ResolvedIn, Settled
<1>11. ResolvedIsFinal'
    BY <1>1 DEF Moved, ResolvedIsFinal
<1>12. Recorded'
    BY <1>1 DEF Moved, Recorded
<1>13. RowsTellTruth'
    <2> DEFINE Row(x) == live[x] \cup archive[x]
    <2>1. \A x \in Actions :
             live'[x] = live[x] \/ (x = req[h].on /\ live'[x] = live[x] \cup {req[h].due})
        BY <1>1 DEF TypeOK, Rows
    <2>2. \A x \in Actions : Row(x)' \cap {"approved", "executed"} # {} => x \in dispatched'
        BY <1>1, <2>1 DEF RowsTellTruth, Recorded
    <2>3. ASSUME ~cut', NEW x \in vouched'
          PROVE  Row(x)' \cap {"approved", "executed"} # {}
        <3>1. CASE x \in vouched
            BY <3>1, <2>3, <2>1, <1>1 DEF RowsTellTruth, TypeOK
        <3>2. CASE x = req[h].on /\ req[h].due \in {"approved", "executed"}
            <4>1. torn # "open"
                BY <2>3, <1>1 DEF Recorded
            <4> QED BY <4>1, <3>2, <1>1 DEF TypeOK, Rows
        <3> QED BY <3>1, <3>2, <1>1
    <2> QED BY <2>2, <2>3 DEF RowsTellTruth
<1> QED
    BY <1>2, <1>3, <1>4, <1>5, <1>6, <1>7, <1>8, <1>9, <1>10, <1>11, <1>12, <1>13
LEMMA BrokerDiesStep ==
    ASSUME IInv, BrokerDies
    PROVE  IInv'
<1> USE DEF IInv
<1>1. /\ req' \in [Handlers -> Requests] /\ loop' = "nobody"
      /\ \A i \in Handlers : req'[i].pc = "idle" /\ req'[i].due = "none"
      /\ UNCHANGED <<archive, lock, jpc, entries, picked, scar>>
      /\ UNCHANGED <<used, dispatched, vouched, autonomous>>
      /\ \/ UNCHANGED <<live, torn, cut>>
         \/ torn = "open" /\ torn' = "closed" /\ UNCHANGED <<live, cut>>
         \/ torn' = "open" /\ cut' = TRUE /\ UNCHANGED live
         \/ \E h \in Handlers :
               /\ req[h].pc = "recording" /\ lock = "nobody" /\ UNCHANGED <<torn, cut>>
               /\ req[h].on \in used /\ req[h].on \in Actions /\ req[h].due \in Statuses
               /\ live' = [live EXCEPT ![req[h].on] = @ \cup {req[h].due}]
    <2>1. ASSUME NEW h \in Handlers, req[h].pc = "recording"
          PROVE  /\ req[h].on \in used /\ req[h].on \in Actions
                 /\ req[h].due \in Statuses
        BY <2>1, RequestTypes DEF Duty, Busy, TypeOK
    <2>2. req' = [i \in Handlers |-> Idle] /\ Idle \in Requests
        BY NoRowsType DEF BrokerDies, Idle, Reader, Requests
    <2>3. Idle.pc = "idle" /\ Idle.due = "none"
        BY DEF Idle, Reader
    <2>4. /\ req' \in [Handlers -> Requests]
          /\ \A i \in Handlers : req'[i].pc = "idle" /\ req'[i].due = "none"
        BY <2>2, <2>3
    <2> QED BY <2>1, <2>4 DEF BrokerDies, AddRow, ids, job
<1>2. TypeOK'
    <2>1. live' \in Rows
        BY <1>1 DEF TypeOK, Rows
    <2>2. torn' \in {"no", "open", "closed"} /\ cut' \in BOOLEAN
        BY <1>1 DEF TypeOK
    <2> QED BY <1>1, <2>1, <2>2 DEF TypeOK
<1>3. Locking'
    BY <1>1 DEF Moved, Locking, Missing, Archivable
<1>4. OneRuns'
    BY <1>1 DEF Moved, OneRuns
<1>5. Duty'
    BY <1>1 DEF Moved, Duty, Busy
<1>6. Identity'
    BY <1>1 DEF Moved, Identity, Duty, Busy, TypeOK, Rows
<1>7. NoGhostDraft'
    BY <1>1 DEF Moved, NoGhostDraft, PendingIn, ResolvedIn, Identity, TypeOK, Rows,
       Statuses
<1>8. Reading'
    BY <1>1 DEF Moved, Reading, PendingIn, ResolvedIn, Settled
<1>9. LateIsSettled'
    BY <1>1 DEF Moved, LateIsSettled, Settled, ResolvedIn, PendingIn
<1>10. ViewIsCurrent'
    BY <1>1 DEF Moved, ViewIsCurrent, PendingIn, ResolvedIn, Settled
<1>11. ResolvedIsFinal'
    BY <1>1 DEF Moved, ResolvedIsFinal
<1>12. Recorded'
    BY <1>1 DEF Moved, Recorded
<1>13. RowsTellTruth'
    BY <1>1 DEF Moved, RowsTellTruth, Recorded, TypeOK, Rows
<1> QED
    BY <1>2, <1>3, <1>4, <1>5, <1>6, <1>7, <1>8, <1>9, <1>10, <1>11, <1>12, <1>13
LEMMA JobLockStep ==
    ASSUME IInv, JobLock
    PROVE  IInv'
<1> USE DEF IInv
<1>1. /\ jpc = "idle" /\ lock = "nobody" /\ jpc' = "read" /\ lock' = "job"
      /\ UNCHANGED <<live, archive, torn, cut, entries, picked, scar>>
      /\ UNCHANGED <<req, loop, used, dispatched, vouched, autonomous>>
    BY DEF JobLock, file, ids
<1>2. TypeOK'
    BY <1>1 DEF Moved, TypeOK
<1>3. Locking'
    BY <1>1 DEF Moved, Locking, Missing, Archivable
<1>4. OneRuns'
    BY <1>1 DEF Moved, OneRuns
<1>5. Duty'
    BY <1>1 DEF Moved, Duty, Busy
<1>6. Identity'
    BY <1>1 DEF Moved, Identity
<1>7. NoGhostDraft'
    BY <1>1 DEF Moved, NoGhostDraft, PendingIn, ResolvedIn
<1>8. Reading'
    BY <1>1 DEF Moved, Reading, PendingIn, ResolvedIn, Settled
<1>9. LateIsSettled'
    BY <1>1 DEF Moved, LateIsSettled, Settled, ResolvedIn, PendingIn
<1>10. ViewIsCurrent'
    BY <1>1 DEF Moved, ViewIsCurrent, PendingIn, ResolvedIn, Settled
<1>11. ResolvedIsFinal'
    BY <1>1 DEF Moved, ResolvedIsFinal
<1>12. Recorded'
    BY <1>1 DEF Moved, Recorded
<1>13. RowsTellTruth'
    BY <1>1 DEF Moved, RowsTellTruth
<1> QED
    BY <1>2, <1>3, <1>4, <1>5, <1>6, <1>7, <1>8, <1>9, <1>10, <1>11, <1>12, <1>13
LEMMA JobReadStep ==
    ASSUME IInv, JobRead
    PROVE  IInv'
<1> USE DEF IInv
<1>1. /\ jpc = "read" /\ UNCHANGED <<live, archive, torn, cut, scar>>
      /\ \/ jpc' = "idle" /\ lock' = "nobody"
         \/ /\ jpc' = "archive" /\ lock' = lock
            /\ entries' = live /\ picked' \subseteq Archivable
      /\ entries' \in Rows /\ picked' \subseteq Actions
      /\ UNCHANGED <<req, loop, used, dispatched, vouched, autonomous>>
    BY NoRowsType DEF JobRead, JobEnds, Archivable, file, ids, TypeOK
<1>2. TypeOK'
    BY <1>1 DEF Moved, TypeOK
<1>3. Locking'
    BY <1>1 DEF Moved, Locking, Missing, Archivable
<1>4. OneRuns'
    BY <1>1 DEF Moved, OneRuns
<1>5. Duty'
    BY <1>1 DEF Moved, Duty, Busy
<1>6. Identity'
    BY <1>1 DEF Moved, Identity
<1>7. NoGhostDraft'
    BY <1>1 DEF Moved, NoGhostDraft, PendingIn, ResolvedIn
<1>8. Reading'
    BY <1>1 DEF Moved, Reading, PendingIn, ResolvedIn, Settled
<1>9. LateIsSettled'
    BY <1>1 DEF Moved, LateIsSettled, Settled, ResolvedIn, PendingIn
<1>10. ViewIsCurrent'
    BY <1>1 DEF Moved, ViewIsCurrent, PendingIn, ResolvedIn, Settled
<1>11. ResolvedIsFinal'
    BY <1>1 DEF Moved, ResolvedIsFinal
<1>12. Recorded'
    BY <1>1 DEF Moved, Recorded
<1>13. RowsTellTruth'
    BY <1>1 DEF Moved, RowsTellTruth
<1> QED
    BY <1>2, <1>3, <1>4, <1>5, <1>6, <1>7, <1>8, <1>9, <1>10, <1>11, <1>12, <1>13
\* What Archived() adds: the rows, but perhaps for one that was glued.
LEMMA ArchivedAdds ==
    ASSUME TypeOK, NEW rows \in Rows, Archived(rows)
    PROVE  /\ archive' \in Rows
           /\ \A x \in Actions : /\ archive[x] \subseteq archive'[x]
                                 /\ archive'[x] \subseteq archive[x] \cup rows[x]
           /\ scar # "open" => \A x \in Actions : rows[x] \subseteq archive'[x]
           /\ \A x, y \in Actions : \A s \in rows[x] \ archive'[x], t \in rows[y] \ archive'[y] :
                 x = y /\ s = t
<1>1. CASE scar = "open"
    <2>1. PICK a \in Actions : \E s \in Heads(rows[a]) :
             archive' = [b \in Actions |->
                            archive[b] \cup (IF b = a THEN rows[b] \ {s} ELSE rows[b])]
        BY <1>1 DEF Archived
    <2>2. PICK s \in Heads(rows[a]) :
             archive' = [b \in Actions |->
                            archive[b] \cup (IF b = a THEN rows[b] \ {s} ELSE rows[b])]
        BY <2>1
    <2> QED BY <1>1, <2>2 DEF TypeOK, Rows
<1>2. CASE scar # "open"
    BY <1>2 DEF Archived, TypeOK, Rows
<1> QED BY <1>1, <1>2

LEMMA JobArchiveStep ==
    ASSUME IInv, JobArchive
    PROVE  IInv'
<1> USE DEF IInv
<1>1. /\ jpc = "archive" /\ jpc' = "replace" /\ UNCHANGED <<live, torn, cut, lock, entries, picked>>
      /\ entries = live /\ picked \subseteq Archivable
      /\ archive' \in Rows /\ scar \in {"no", "open"}
      /\ scar' = IF scar = "open" THEN "glued" ELSE "no"
      /\ \A x \in Actions : archive[x] \subseteq archive'[x] /\ archive'[x] \subseteq archive[x] \cup live[x]
      /\ \A x \in Actions \ picked : archive'[x] = archive[x]
      /\ UNCHANGED <<req, loop, used, dispatched, vouched, autonomous>>
    <2>1. PickedRows \in Rows /\ \A x \in Actions :
             PickedRows[x] = IF x \in picked THEN live[x] ELSE {}
        BY DEF JobArchive, PickedRows, Locking, TypeOK, Rows
    <2>2. Archived(PickedRows)
        BY DEF JobArchive
    <2>3. /\ archive' \in Rows
          /\ \A x \in Actions : /\ archive[x] \subseteq archive'[x]
                                /\ archive'[x] \subseteq archive[x] \cup PickedRows[x]
        BY <2>1, <2>2, ArchivedAdds
    <2>4. \A x \in Actions \ picked : archive'[x] \subseteq archive[x]
        BY <2>1, <2>3
    <2>5. \A x \in Actions : archive'[x] \subseteq archive[x] \cup live[x]
        BY <2>1, <2>3
    <2>6. jpc = "archive" /\ scar \in {"no", "open"}
        BY DEF JobArchive, Locking, TypeOK
    <2> QED BY <2>3, <2>4, <2>5, <2>6 DEF JobArchive, Locking, ids
<1>2. TypeOK'
    BY <1>1 DEF TypeOK
<1>3. Locking'
    <2>1. PickedRows \in Rows /\ \A x \in picked : PickedRows[x] = entries[x]
        BY DEF PickedRows, TypeOK, Rows
    <2>2. Archived(PickedRows)
        BY DEF JobArchive
    <2>3. scar # "open" => \A x \in picked : entries[x] \subseteq archive'[x]
        BY <2>1, <2>2, ArchivedAdds DEF TypeOK
    <2>4. \A x, y \in picked : \A s \in entries[x] \ archive'[x], t \in entries[y] \ archive'[y] :
             x = y /\ s = t
        BY <2>1, <2>2, ArchivedAdds DEF TypeOK
    <2> QED BY <1>1, <2>3, <2>4 DEF Locking, Missing, Archivable
<1>4. OneRuns'
    BY <1>1 DEF Moved, OneRuns
<1>5. Duty'
    BY <1>1 DEF Moved, Duty, Busy
<1>6. Identity'
    <2>1. \A x \in Actions : live[x] = {} /\ archive[x] = {} => archive'[x] = {}
        BY <1>1
    <2>2. \A h \in Handlers : req[h].due = "pending" => req[h].on \in Actions
        BY DEF Duty, Busy, TypeOK
    <2> QED BY <1>1, <2>1, <2>2 DEF Identity
<1>7. NoGhostDraft'
    BY <1>1 DEF Moved, NoGhostDraft, PendingIn, ResolvedIn
<1>8. Reading'
    BY <1>1 DEF Moved, Reading, PendingIn, ResolvedIn, Settled
<1>9. LateIsSettled'
    BY <1>1 DEF Moved, LateIsSettled, Settled, ResolvedIn, PendingIn
<1>10. ViewIsCurrent'
    BY <1>1 DEF Moved, ViewIsCurrent, PendingIn, ResolvedIn, Settled
<1>11. ResolvedIsFinal'
    BY <1>1 DEF Moved, ResolvedIsFinal
<1>12. Recorded'
    BY <1>1 DEF Moved, Recorded
<1>13. RowsTellTruth'
    BY <1>1 DEF Moved, RowsTellTruth, TypeOK
<1> QED
    BY <1>2, <1>3, <1>4, <1>5, <1>6, <1>7, <1>8, <1>9, <1>10, <1>11, <1>12, <1>13
LEMMA JobReplaceStep ==
    ASSUME IInv, JobReplace
    PROVE  IInv'
<1> USE DEF IInv
<1>1. /\ jpc = "replace" /\ jpc' = "idle" /\ lock' = "nobody"
      /\ picked \subseteq Archivable
      /\ scar # "glued" => \A x \in picked : live[x] \subseteq archive[x]
      /\ live' \in Rows /\ \A x \in Actions : live'[x] = IF x \in picked THEN {} ELSE live[x]
      /\ torn' = "no" /\ entries' = NoRows /\ picked' = {} /\ UNCHANGED <<archive, cut>>
      /\ scar' \in {"no", "open"} /\ (scar' # "no" => scar # "no")
      /\ UNCHANGED <<req, loop, used, dispatched, vouched, autonomous>>
    BY NoRowsType DEF JobReplace, JobEnds, KeptRows, Locking, Missing, ids, TypeOK, Rows
<1>2. TypeOK'
    BY <1>1, NoRowsType DEF Moved, TypeOK
<1>3. Locking'
    BY <1>1 DEF Moved, Locking, Missing, Archivable
<1>4. OneRuns'
    BY <1>1 DEF Moved, OneRuns
<1>5. Duty'
    BY <1>1 DEF Moved, Duty, Busy
<1>6. Identity'
    BY <1>1 DEF Moved, Identity, Duty, Busy, TypeOK
<1>7. NoGhostDraft'
    BY <1>1 DEF Moved, NoGhostDraft, PendingIn, ResolvedIn
<1>8. Reading'
    BY <1>1 DEF Moved, Reading, PendingIn, ResolvedIn, Settled
<1>9. LateIsSettled'
    BY <1>1 DEF Moved, LateIsSettled, Settled, ResolvedIn, PendingIn
<1>10. ViewIsCurrent'
    <2>1. \A x \in picked : x \notin PendingIn(live) \/ x \in Settled
        BY <1>1 DEF Archivable, TerminalStatuses, PendingIn, Settled, ResolvedIn,
           Final, Identity
    <2>2. PendingIn(live)' = PendingIn(live) \ picked
        BY <1>1 DEF PendingIn
    <2>3. \A x \in Actions \ picked : x \in Settled' <=> x \in Settled
        BY <1>1 DEF Settled, ResolvedIn
    <2>4. PendingIn(live) \subseteq Actions
        BY DEF PendingIn
    <2> QED BY <1>1, <2>1, <2>2, <2>3, <2>4 DEF ViewIsCurrent
<1>11. ResolvedIsFinal'
    BY <1>1 DEF Moved, ResolvedIsFinal
<1>12. Recorded'
    BY <1>1 DEF Moved, Recorded
<1>13. RowsTellTruth'
    <2>1. ~cut => \A x \in picked : live[x] \subseteq archive[x]
        BY <1>1 DEF Recorded
    <2> QED BY <1>1, <2>1 DEF RowsTellTruth, TypeOK
<1> QED
    BY <1>2, <1>3, <1>4, <1>5, <1>6, <1>7, <1>8, <1>9, <1>10, <1>11, <1>12, <1>13
LEMMA JobDiesStep ==
    ASSUME IInv, JobDies
    PROVE  IInv'
<1> USE DEF IInv
<1>1. /\ jpc # "idle" /\ jpc' = "idle" /\ lock' = "nobody" /\ UNCHANGED <<live, torn>>
      /\ archive' \in Rows /\ entries' \in Rows /\ picked' = {}
      /\ scar' \in {"no", "open"} /\ cut' \in BOOLEAN
      /\ (cut => cut') /\ (scar' # "no" => scar # "no" \/ cut')
      /\ \A x \in Actions : archive[x] \subseteq archive'[x] /\ archive'[x] \subseteq archive[x] \cup live[x]
      /\ UNCHANGED <<req, loop, used, dispatched, vouched, autonomous>>
    <2>1. /\ archive' \in Rows
          /\ \A x \in Actions : archive[x] \subseteq archive'[x]
                                /\ archive'[x] \subseteq archive[x] \cup live[x]
          /\ scar' \in {"no", "open"} /\ cut' \in BOOLEAN
          /\ (cut => cut') /\ (scar' # "no" => scar # "no" \/ cut')
        <3>1. CASE scar' = (IF scar = "glued" THEN "no" ELSE scar) /\ UNCHANGED <<archive, cut>>
            BY <3>1 DEF TypeOK
        <3>2. CASE jpc = "archive" /\ \E part \in Rows :
                      /\ PartOfPass(part) /\ Archived(part)
                      /\ \/ scar' = "no" /\ UNCHANGED cut
                         \/ part # PickedRows /\ scar' = "open" /\ cut' = TRUE
            <4>1. PICK part \in Rows :
                      /\ PartOfPass(part) /\ Archived(part)
                      /\ \/ scar' = "no" /\ UNCHANGED cut
                         \/ part # PickedRows /\ scar' = "open" /\ cut' = TRUE
                BY <3>2
            <4>2. \A a \in Actions : part[a] \subseteq live[a]
                BY <3>2, <4>1 DEF PartOfPass, PickedRows, Locking
            <4>3. /\ archive' \in Rows
                  /\ \A x \in Actions : /\ archive[x] \subseteq archive'[x]
                                        /\ archive'[x] \subseteq archive[x] \cup part[x]
                BY <4>1, ArchivedAdds
            <4>4. /\ scar' \in {"no", "open"} /\ (scar' # "no" => cut')
                  /\ UNCHANGED cut \/ cut' = TRUE
                BY <4>1
            <4>5. cut' \in BOOLEAN /\ (cut => cut')
                <5>1. cut \in BOOLEAN
                    BY DEF TypeOK
                <5>2. CASE cut' = cut
                    BY ONLY <5>1, <5>2
                <5>3. CASE cut' = TRUE
                    BY ONLY <5>3
                <5> QED BY <4>4, <5>2, <5>3
            <4>6. \A x \in Actions : archive'[x] \subseteq archive[x] \cup live[x]
                BY <4>2, <4>3
            <4> QED BY <4>3, <4>4, <4>5, <4>6
        <3> QED BY <3>1, <3>2 DEF JobDies
    <2> QED BY <2>1, NoRowsType DEF JobDies, JobEnds, ids
<1>2. TypeOK'
    BY <1>1 DEF Moved, TypeOK
<1>3. Locking'
    BY <1>1 DEF Moved, Locking, Missing, Archivable
<1>4. OneRuns'
    BY <1>1 DEF Moved, OneRuns
<1>5. Duty'
    BY <1>1 DEF Moved, Duty, Busy
<1>6. Identity'
    BY <1>1 DEF Moved, Identity, Duty, Busy, TypeOK
<1>7. NoGhostDraft'
    BY <1>1 DEF Moved, NoGhostDraft, PendingIn, ResolvedIn
<1>8. Reading'
    BY <1>1 DEF Moved, Reading, PendingIn, ResolvedIn, Settled
<1>9. LateIsSettled'
    BY <1>1 DEF Moved, LateIsSettled, Settled, ResolvedIn, PendingIn
<1>10. ViewIsCurrent'
    BY <1>1 DEF Moved, ViewIsCurrent, PendingIn, ResolvedIn, Settled
<1>11. ResolvedIsFinal'
    BY <1>1 DEF Moved, ResolvedIsFinal
<1>12. Recorded'
    BY <1>1 DEF Moved, Recorded
<1>13. RowsTellTruth'
    BY <1>1 DEF Moved, RowsTellTruth, TypeOK
<1> QED
    BY <1>2, <1>3, <1>4, <1>5, <1>6, <1>7, <1>8, <1>9, <1>10, <1>11, <1>12, <1>13

-----------------------------------------------------------------------------

LEMMA Start == Init => IInv
<1> SUFFICES ASSUME Init PROVE IInv
    OBVIOUS
<1>1. /\ req = [h \in Handlers |-> Idle] /\ Idle \in Requests
      /\ \A h \in Handlers : req[h].pc = "idle" /\ req[h].due = "none"
    BY NoRowsType DEF Init, Idle, Reader, Requests
<1>2. \A a \in Actions : live[a] = {} /\ archive[a] = {}
    BY DEF Init, NoRows
<1>3. TypeOK
    BY <1>1, NoRowsType DEF Init, TypeOK
<1>4. Locking /\ OneRuns /\ Duty /\ Identity
    BY <1>1, <1>2 DEF Init, Locking, OneRuns, Duty, Busy, Identity
<1>5. NoGhostDraft /\ Reading /\ LateIsSettled /\ ViewIsCurrent /\ ResolvedIsFinal
    BY <1>1, <1>2 DEF NoGhostDraft, PendingIn, Reading, LateIsSettled, ViewIsCurrent,
       ResolvedIsFinal
<1>6. Recorded /\ RowsTellTruth
    BY <1>1, <1>2 DEF Init, Recorded, RowsTellTruth
<1> QED BY <1>3, <1>4, <1>5, <1>6 DEF IInv

LEMMA Stutter == IInv /\ UNCHANGED vars => IInv'
<1> SUFFICES ASSUME IInv, UNCHANGED vars PROVE IInv'
    OBVIOUS
<1>1. /\ UNCHANGED <<live, archive, torn, cut, lock, loop, req, used, dispatched, vouched>>
      /\ UNCHANGED <<autonomous, jpc, entries, picked, scar>>
    BY DEF vars, file, ids, job
<1>2. (TypeOK /\ Locking /\ OneRuns /\ Duty /\ Identity)'
    BY <1>1 DEF IInv, TypeOK, Locking, Missing, Archivable, OneRuns, Duty, Identity
<1>3. (NoGhostDraft /\ Reading /\ LateIsSettled /\ ViewIsCurrent /\ ResolvedIsFinal)'
    BY <1>1 DEF IInv, NoGhostDraft, PendingIn, ResolvedIn, Settled, Reading, LateIsSettled,
       ViewIsCurrent, ResolvedIsFinal
<1>4. (Recorded /\ RowsTellTruth)'
    BY <1>1 DEF IInv, Recorded, RowsTellTruth
<1> QED BY <1>2, <1>3, <1>4 DEF IInv

LEMMA Inductive == IInv /\ [Next]_vars => IInv'
<1> SUFFICES ASSUME IInv, [Next]_vars PROVE IInv'
    OBVIOUS
<1>1. ASSUME NEW h \in Handlers, NEW a \in Actions, ReceiveAlert(h, a) \/ DispatchBlock(h, a)
      PROVE  IInv'
    BY <1>1, ReceiveAlertStep, DispatchBlockStep
<1>2. ASSUME NEW h \in Handlers, NEW a \in Actions \cup {NoAction}, Ask(h, a) PROVE IInv'
    BY <1>2, AskStep
<1>3. ASSUME NEW h \in Handlers, HandlerStep(h) PROVE IInv'
    BY <1>3, ReadFailsStep, ReadResolvedStep, ReadPendingStep, ReplyStep, DenyStep,
       ApproveStep, DispatchEndsStep, AppendStep, AppendFailsStep DEF HandlerStep
<1>4. CASE BrokerDies \/ JobLock \/ JobStep \/ JobDies
    BY <1>4, BrokerDiesStep, JobLockStep, JobReadStep, JobArchiveStep, JobReplaceStep,
       JobDiesStep DEF JobStep
<1> QED BY <1>1, <1>2, <1>3, <1>4, Stutter DEF Next

LEMMA Invariance == Spec => []IInv
    BY Start, Inductive, PTL DEF Spec

OneLost(a, s) == /\ scar = "glued"
                 /\ \A b \in Actions, t \in Statuses : Loses(b, t) => a = b /\ s = t
RowsStay(a) == /\ live[a] = {"pending"} => "pending" \in live'[a]
               /\ \A s \in Statuses : Loses(a, s) => OneLost(a, s)

\* Only appends and the job touch the files.
LEMMA StepKeepsRows ==
    ASSUME IInv, [Next]_vars, NEW a \in Actions PROVE RowsStay(a)
<1>1. CASE UNCHANGED <<live, archive>>
    BY <1>1 DEF RowsStay, Loses
<1>2. ASSUME NEW h \in Handlers, AddRow(req[h].on, req[h].due), UNCHANGED archive
      PROVE  RowsStay(a)
    BY <1>2 DEF AddRow, RowsStay, Loses, IInv, TypeOK, Rows
<1>3. CASE JobArchive
    <2>1. PickedRows \in Rows /\ Archived(PickedRows) /\ UNCHANGED live
        BY <1>3 DEF JobArchive, PickedRows, IInv, TypeOK, Rows
    <2>2. archive[a] \subseteq archive'[a]
        BY <2>1, ArchivedAdds DEF IInv
    <2> QED BY <2>1, <2>2 DEF RowsStay, Loses
<1>4. CASE JobReplace
    <2>1. /\ jpc = "replace" /\ entries = live /\ picked \subseteq Archivable
          /\ scar # "glued" => \A x \in picked : Missing(x) = {}
          /\ \A x, y \in picked : \A s \in Missing(x), t \in Missing(y) : x = y /\ s = t
        BY <1>4 DEF JobReplace, IInv, Locking
    <2>2. \A x \in Actions : live'[x] = (IF x \in picked THEN {} ELSE live[x])
        BY <1>4, <2>1 DEF JobReplace, KeptRows
    <2>3. UNCHANGED archive
        BY <1>4 DEF JobReplace
    <2>4. live[a] = {"pending"} => a \notin picked
        BY <2>1 DEF Archivable, TerminalStatuses
    <2>5. \A x \in Actions, s \in Statuses : Loses(x, s) => x \in picked /\ s \in Missing(x)
        BY <2>1, <2>2, <2>3 DEF Loses, Missing
    <2>6. ASSUME NEW s \in Statuses, Loses(a, s) PROVE OneLost(a, s)
        BY <2>1, <2>5, <2>6 DEF OneLost
    <2> QED BY <2>2, <2>4, <2>6 DEF RowsStay
<1>5. CASE JobDies
    <2>1. UNCHANGED live
        BY <1>5 DEF JobDies
    <2>2. archive[a] \subseteq archive'[a]
        BY <1>5, ArchivedAdds DEF JobDies, IInv, TypeOK
    <2> QED BY <2>1, <2>2 DEF RowsStay, Loses
<1>6. ASSUME NEW h \in Handlers, NEW b \in Actions \cup {NoAction},
             ReceiveAlert(h, b) \/ DispatchBlock(h, b) \/ Ask(h, b)
      PROVE  RowsStay(a)
    BY <1>1, <1>6 DEF ReceiveAlert, DispatchBlock, Ask, file
<1>7. ASSUME NEW h \in Handlers, HandlerStep(h) PROVE RowsStay(a)
    <2>1. CASE Append(h)
        BY <2>1, <1>2 DEF Append
    <2>2. CASE AppendFails(h)
        BY <2>2, <1>1 DEF AppendFails
    <2>3. CASE ~Append(h) /\ ~AppendFails(h)
        BY <2>3, <1>7, <1>1 DEF HandlerStep, ReadFails, ReadResolved, ReadPending, Reply,
           Deny, Approve, DispatchEnds, file
    <2> QED BY <2>1, <2>2, <2>3
<1>8. CASE BrokerDies
    BY <1>8, <1>1, <1>2 DEF BrokerDies
<1>9. CASE JobLock \/ JobRead
    BY <1>9, <1>1 DEF JobLock, JobRead, file
<1>10. CASE UNCHANGED vars
    BY <1>10, <1>1 DEF vars, file
<1> QED BY <1>3, <1>4, <1>5, <1>6, <1>7, <1>8, <1>9, <1>10 DEF Next, JobStep

\* No draft without a resolution is archived, and no row is lost from both files,
\* but for the first that is written behind an archive line left unfinished.
THEOREM RowsKept == Spec => KeepsRows
<1>1. IInv /\ [Next]_vars => [\A a \in Actions : RowsStay(a)]_vars
    BY StepKeepsRows
<1>2. KeepsRows <=> [][\A a \in Actions : RowsStay(a)]_vars
    BY DEF KeepsRows, RowsStay, OneLost
<1> QED BY <1>1, <1>2, Invariance, PTL DEF Spec

\* Every reachable state is well-typed.
THEOREM TypeCorrect == Spec => []TypeOK
    BY Invariance, PTL DEF IInv

\* What a request sees as pending is what is pending when it answers: the two
\* reads of list_pending() and approve() are as good as one under a lock.
THEOREM CurrentView == Spec => []ViewIsCurrent
    BY Invariance, PTL DEF IInv

\* approve() never dispatches an action that had been resolved before.
THEOREM FinalResolution == Spec => []ResolvedIsFinal
    BY Invariance, PTL DEF IInv

\* Rows stand for calls of dispatch_block_to_all(), and unless a line was cut
\* short an answer "executed" stands for a row.
THEOREM TrueRows == Spec => []RowsTellTruth
    BY Invariance, PTL DEF IInv
=============================================================================
