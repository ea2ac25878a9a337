----------------------------- MODULE ApprovalQueue -----------------------------
(***************************************************************************)
(* The agent's approval queue: an append-only file that request threads    *)
(* append to (_append_pending_action) while a scheduled job archives what  *)
(* is resolved and replaces the file (compact_agent_approval_queue.py).    *)
(* Both take the flock of a lock file that is never replaced.  The file is *)
(* a directory entry that names one of several inodes: os.replace gives    *)
(* the name a new one, and an open handle keeps the old.                   *)
(*                                                                         *)
(* The rows of an alert are numbered in the order of their appends, which  *)
(* is their order in any file that holds them; between alerts the order of *)
(* the lines means nothing to a reader.  So a file is the set of its rows, *)
(* and whether its last line was cut short.                                *)
(*                                                                         *)
(* An operator named Definition_Change is Definition with one mistake; it  *)
(* is used nowhere and stands there to show that a property notices it.    *)
(***************************************************************************)
EXTENDS Naturals, FiniteSets

CONSTANTS
    Ids,        \* the drafted alerts
    MaxRows,    \* the rows of an alert: a bound for TLC
    MaxRuns,    \* how often the job runs: a bound for TLC
    Faults      \* what may fail: a subset of FaultKinds

FaultKinds == {"crash",    \* the job dies between two of its writes
               "disk"}     \* an append fails, part of the line written or none

ASSUME IdsAssumption == {"nobody", "job"} \cap Ids = {}
ASSUME BoundsAssumption == MaxRows \in Nat /\ MaxRuns \in Nat
ASSUME FaultsAssumption == Faults \subseteq FaultKinds

VARIABLES
    files,      \* the rows of each inode
    torn,       \* the inodes that end in a line cut short
    entry,      \* the inode that the queue's name refers to
    archive,    \* the rows of the archive file
    lock,       \* who holds the lock file: "nobody", "job" or an alert's thread
    said,       \* the rows whose append succeeded (history)
    cut,        \* the rows whose append was cut short (history)
    stage,      \* what the next row of each alert may be
    tried,      \* how many rows of each alert were appended or failed
    wpc,        \* where each alert's thread is
    fd,         \* the inode that thread has open (the initial one at first)
    jpc,        \* where the job is
    entries,    \* the rows it has read
    picked,     \* the alerts it archives
    runs        \* how often it has started

queue == <<files, torn, entry, archive>>
threads == <<said, cut, stage, tried, wpc, fd>>
job == <<jpc, entries, picked, runs>>
vars == <<queue, lock, threads, job>>

Inodes == 0..MaxRuns
Statuses == {"pending", "claimed", "approved", "isolation_failed", "isolation_unknown"}
Row(i, nth, status) == [id |-> i, nth |-> nth, status |-> status]

Init ==
    /\ files = [n \in Inodes |-> {}] /\ torn = {} /\ entry = 0
    /\ archive = {} /\ lock = "nobody"
    /\ said = {} /\ cut = {}
    /\ stage = [i \in Ids |-> "new"] /\ tried = [i \in Ids |-> 0]
    /\ wpc = [i \in Ids |-> "idle"] /\ fd = [i \in Ids |-> 0]
    /\ jpc = "idle" /\ entries = {} /\ picked = {} /\ runs = 0

-----------------------------------------------------------------------------
(* One append: _append_pending_action and its _locked part.                *)

Step(i, from, to) == /\ wpc[i] = from
                     /\ wpc' = [wpc EXCEPT ![i] = to]

Flock_ThreadLockOnly(i) ==
    /\ lock \notin Ids /\ tried[i] < MaxRows
    /\ Step(i, "idle", "locked")
    /\ lock' = i
    /\ UNCHANGED <<queue, said, cut, stage, tried, fd, job>>

Flock(i) ==
    /\ lock = "nobody" /\ tried[i] < MaxRows
    /\ Step(i, "idle", "locked")
    /\ lock' = i
    /\ UNCHANGED <<queue, said, cut, stage, tried, fd, job>>

OpenQueue(i) ==
    /\ Step(i, "locked", "opened")
    /\ fd' = [fd EXCEPT ![i] = entry]
    /\ UNCHANGED <<queue, lock, said, cut, stage, tried, job>>

\* A delivery drafts the alert, and may do so again when it cannot see that it
\* is a duplicate.  An approval logs its claim and then its outcome; a claim
\* that was released, or reset by an operator, is followed by another.
NextStatuses(i) == {"pending"} \cup CASE stage[i] = "new" -> {}
                                      [] stage[i] = "drafted" -> {"claimed"}
                                      [] stage[i] = "claimed" -> Statuses
                                      [] stage[i] = "closed" -> {}

\* Without its row the alert is not drafted; any other row that fails is only
\* logged.
StageAfter(i, status, failed) ==
    CASE status = "pending" -> IF failed \/ stage[i] # "new" THEN stage[i] ELSE "drafted"
      [] status = "claimed" -> "claimed"
      [] status = "approved" -> "closed"
      [] OTHER -> "drafted"

\* What follows a line without its newline becomes part of it, once.
Extend(rows, ends, row) == IF ends THEN rows ELSE rows \cup {row}
TornAfter_ForEver(n) == torn
TornAfter(n) == torn \ {n}

\* Write and close, then unlock.
WriteRow(i) ==
    /\ Step(i, "opened", "idle")
    /\ tried' = [tried EXCEPT ![i] = @ + 1]
    /\ \E status \in NextStatuses(i), failed \in BOOLEAN :
          LET row == Row(i, tried[i] + 1, status)
          IN  /\ failed => "disk" \in Faults
              /\ stage' = [stage EXCEPT ![i] = StageAfter(i, status, failed)]
              /\ IF failed
                 THEN /\ \/ torn' = torn \cup {fd[i]} /\ cut' = cut \cup {row}
                         \/ UNCHANGED <<torn, cut>>
                      /\ UNCHANGED <<files, said>>
                 ELSE /\ files' = [files EXCEPT ![fd[i]] = Extend(@, fd[i] \in torn, row)]
                      /\ torn' = TornAfter(fd[i]) /\ said' = said \cup {row}
                      /\ UNCHANGED cut
    /\ lock' = IF lock = i THEN "nobody" ELSE lock
    /\ UNCHANGED <<entry, archive, fd, job>>

-----------------------------------------------------------------------------
(* The job: compact().                                                     *)

TerminalStatuses_Claimed == {"approved", "denied", "claimed"}
TerminalStatuses == {"approved", "denied"}

RowsOf(rows, ids) == {row \in rows : row.id \in ids}

\* The last row of each alert is its current state.
Latest(rows) == {row \in rows : \A other \in RowsOf(rows, {row.id}) : other.nth <= row.nth}

JobLock == /\ jpc = "idle" /\ lock = "nobody" /\ runs < MaxRuns
           /\ jpc' = "read" /\ lock' = "job" /\ runs' = runs + 1
           /\ UNCHANGED <<queue, threads, entries, picked>>

\* The job ends one way or another, and its lock and what it knew with it.
JobEnds == jpc' = "idle" /\ lock' = "nobody" /\ entries' = {} /\ picked' = {}

\* Malformed lines are skipped.  Any of the resolved alerts may be past the
\* retention.
JobRead ==
    /\ jpc = "read"
    /\ \E old \in SUBSET {row.id : row \in {r \in Latest(files[entry]) :
                                                r.status \in TerminalStatuses}} :
          IF old = {} THEN JobEnds
          ELSE /\ jpc' = "archive" /\ entries' = files[entry] /\ picked' = old
               /\ UNCHANGED lock
    /\ UNCHANGED <<queue, threads, runs>>

JobArchive == /\ jpc = "archive"
              /\ archive' = archive \cup RowsOf(entries, picked)
              /\ jpc' = "replace"
              /\ UNCHANGED <<files, torn, entry, lock, threads, entries, picked, runs>>

\* The temporary file holds the kept rows and takes the queue's name.
JobReplace == /\ jpc = "replace"
              /\ files' = [files EXCEPT ![entry + 1] = entries \ RowsOf(entries, picked)]
              /\ entry' = entry + 1
              /\ JobEnds
              /\ UNCHANGED <<torn, archive, threads, runs>>

\* The job dies, leaving any part of its archive lines; the flock goes with it.
JobCrash ==
    /\ "crash" \in Faults /\ jpc # "idle"
    /\ \/ UNCHANGED archive
       \/ /\ jpc = "archive"
          /\ \E part \in SUBSET RowsOf(entries, picked) : archive' = archive \cup part
    /\ JobEnds
    /\ UNCHANGED <<files, torn, entry, threads, runs>>

-----------------------------------------------------------------------------

Next == \/ \E i \in Ids : Flock(i) \/ OpenQueue(i) \/ WriteRow(i)
        \/ JobLock \/ JobRead \/ JobArchive \/ JobReplace \/ JobCrash

Spec == Init /\ [][Next]_vars

-----------------------------------------------------------------------------
(* Properties.                                                             *)

Live == files[entry]
Lost == said \ (Live \cup archive)

\* Every line that was cut short costs at most the one row that came to stand
\* behind it.  No other row that was appended is ever lost: it is in the queue
\* or in the archive, whatever the job was doing when it ran or died ("an
\* append-only audit log").
RowsSurvive == Cardinality(Lost) <= Cardinality(cut)

\* GET /pending: the alerts whose latest row in the file is unresolved.
ResolvedStatuses == {"approved", "denied"}
Pending == {row.id : row \in {r \in Latest(Live) : r.status \notin ResolvedStatuses}}

\* Rows up to which the alert was resolved.
Settled(row) == \E later \in RowsOf(said, {row.id}) :
                   later.nth >= row.nth /\ later.status \in ResolvedStatuses

\* What still needs a human is shown by /pending, at any moment of the job: a
\* row that no outcome has settled yet is in the queue and not in the archive,
\* and its alert is listed.
OpenIsVisible ==
    \A row \in said \ Lost : Settled(row) \/ (row \in Live \ archive /\ row.id \in Pending)
=============================================================================
