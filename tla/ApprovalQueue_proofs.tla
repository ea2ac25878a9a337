------------------------- MODULE ApprovalQueue_proofs -------------------------
(***************************************************************************)
(* The agent's approval queue for any alerts, any number of rows and job   *)
(* runs and every fault: the lock keeps appends and compaction apart, so   *)
(* that a row is lost only behind a line that was cut short, and nothing   *)
(* unresolved is archived.                                                 *)
(***************************************************************************)
EXTENDS ApprovalQueue, FiniteSetTheorems, WellFoundedInduction, TLAPS

-----------------------------------------------------------------------------
(* Types, the lock and the numbers of the rows.                            *)

Rows == [id : Ids, nth : Nat, status : Statuses]

Types ==
    /\ files \in [Inodes -> SUBSET Rows] /\ torn \subseteq Inodes
    /\ entry \in Inodes /\ archive \subseteq Rows
    /\ said \subseteq Rows /\ cut \subseteq Rows
    /\ IsFiniteSet(said) /\ IsFiniteSet(cut)
    /\ stage \in [Ids -> {"new", "drafted", "claimed", "closed"}]
    /\ tried \in [Ids -> Nat]
    /\ wpc \in [Ids -> {"idle", "locked", "opened"}] /\ fd \in [Ids -> Inodes]
    /\ jpc \in {"idle", "read", "archive", "replace"}
    /\ runs \in 0..MaxRuns

\* Whoever works on the file holds the lock, and knows the file that is there.
LockHolder ==
    /\ \A i \in Ids : /\ wpc[i] # "idle" => lock = i
                      /\ wpc[i] = "opened" => fd[i] = entry
    /\ jpc # "idle" => lock = "job"
    /\ jpc \in {"archive", "replace"} => entries = files[entry]
    /\ jpc = "replace" => RowsOf(entries, picked) \subseteq archive

\* Each run makes at most one file, and no file ahead of its time is torn.
FilesInOrder ==
    /\ entry <= runs /\ (jpc # "idle" => entry < runs)
    /\ \A n \in torn : n <= entry

\* Rows are numbered as they are tried, and what is read was appended.
Numbered ==
    /\ \A row \in said \cup cut : row.nth <= tried[row.id]
    /\ Live \subseteq said /\ archive \subseteq said

QueueInv == Types /\ LockHolder /\ FilesInOrder /\ Numbered

LEMMA QueueStarts == Init => QueueInv
BY BoundsAssumption, FS_EmptySet
   DEFS Init, QueueInv, Types, LockHolder, FilesInOrder, Numbered, Inodes, Live

LEMMA LockingKeeps ==
    ASSUME QueueInv, NEW i \in Ids, Flock(i) \/ OpenQueue(i)
    PROVE  QueueInv'
BY IdsAssumption DEFS Flock, OpenQueue, Step, queue, job, QueueInv, Types, LockHolder,
   FilesInOrder, Numbered, Live

\* The writer of a row: its number is new, and the file is the one in place.
LEMMA WriteIsFresh ==
    ASSUME QueueInv, NEW i \in Ids, WriteRow(i)
    PROVE  /\ lock = i /\ jpc = "idle" /\ fd[i] = entry
           /\ \A j \in Ids \ {i} : wpc[j] = "idle"
           /\ UNCHANGED <<entry, archive, fd, jpc, entries, picked, runs>>
           /\ wpc' = [wpc EXCEPT ![i] = "idle"] /\ lock' = "nobody"
           /\ tried' = [tried EXCEPT ![i] = @ + 1]
           /\ \E row \in Rows, failed \in BOOLEAN :
                 /\ row.id = i /\ row.nth = tried[i] + 1
                 /\ row \notin said \cup cut
                 /\ stage' = [stage EXCEPT ![i] = StageAfter(i, row.status, failed)]
                 /\ row.status \in NextStatuses(i)
                 /\ IF failed
                    THEN /\ \/ torn' = torn \cup {entry} /\ cut' = cut \cup {row}
                            \/ UNCHANGED <<torn, cut>>
                         /\ UNCHANGED <<files, said>>
                    ELSE /\ files' = [files EXCEPT ![entry] = Extend(@, entry \in torn, row)]
                         /\ torn' = torn \ {entry} /\ said' = said \cup {row}
                         /\ UNCHANGED cut
<1>1. wpc[i] = "opened" /\ lock = i /\ fd[i] = entry /\ jpc = "idle"
    BY IdsAssumption DEFS WriteRow, Step, QueueInv, LockHolder
<1>2. \A j \in Ids \ {i} : wpc[j] = "idle"
    BY <1>1 DEFS QueueInv, LockHolder
<1>3. /\ UNCHANGED <<entry, archive, fd, jpc, entries, picked, runs>>
      /\ wpc' = [wpc EXCEPT ![i] = "idle"] /\ lock' = "nobody"
      /\ tried' = [tried EXCEPT ![i] = @ + 1]
    BY <1>1 DEFS WriteRow, Step, job
<1>4. PICK status \in NextStatuses(i), failed \in BOOLEAN :
          LET row == Row(i, tried[i] + 1, status)
          IN  /\ stage' = [stage EXCEPT ![i] = StageAfter(i, status, failed)]
              /\ IF failed
                 THEN /\ \/ torn' = torn \cup {fd[i]} /\ cut' = cut \cup {row}
                         \/ UNCHANGED <<torn, cut>>
                      /\ UNCHANGED <<files, said>>
                 ELSE /\ files' = [files EXCEPT ![fd[i]] = Extend(@, fd[i] \in torn, row)]
                      /\ torn' = TornAfter(fd[i]) /\ said' = said \cup {row}
                      /\ UNCHANGED cut
    BY DEF WriteRow
<1>5. PICK row : row = Row(i, tried[i] + 1, status)
    OBVIOUS
<1>6. row \in Rows /\ row.id = i /\ row.nth = tried[i] + 1 /\ row.status = status
  <2>1. status \in Statuses
    BY DEFS NextStatuses, Statuses, QueueInv, Types
  <2>2. QED
    BY <1>5, <2>1 DEFS Row, Rows, QueueInv, Types
<1>7. row \notin said \cup cut
  <2>1. ~(tried[i] + 1 <= tried[i])
    BY DEFS QueueInv, Types
  <2>2. QED
    BY <1>6, <2>1 DEFS QueueInv, Numbered
<1>8. QED
    BY <1>1, <1>2, <1>3, <1>4, <1>5, <1>6, <1>7 DEF TornAfter

LEMMA WriteKeeps ==
    ASSUME QueueInv, NEW i \in Ids, WriteRow(i)
    PROVE  QueueInv'
<1>1. PICK row \in Rows, failed \in BOOLEAN :
                 /\ row.id = i /\ row.nth = tried[i] + 1
                 /\ row.status \in NextStatuses(i)
                 /\ stage' = [stage EXCEPT ![i] = StageAfter(i, row.status, failed)]
                 /\ IF failed
                    THEN /\ \/ torn' = torn \cup {entry} /\ cut' = cut \cup {row}
                            \/ UNCHANGED <<torn, cut>>
                         /\ UNCHANGED <<files, said>>
                    ELSE /\ files' = [files EXCEPT ![entry] = Extend(@, entry \in torn, row)]
                         /\ torn' = torn \ {entry} /\ said' = said \cup {row}
                         /\ UNCHANGED cut
    BY WriteIsFresh
<1>2. /\ jpc = "idle" /\ \A j \in Ids \ {i} : wpc[j] = "idle"
      /\ UNCHANGED <<entry, archive, fd, jpc, entries, picked, runs>>
      /\ wpc' = [wpc EXCEPT ![i] = "idle"] /\ lock' = "nobody"
      /\ tried' = [tried EXCEPT ![i] = @ + 1]
    BY WriteIsFresh
<1>3. IsFiniteSet(said') /\ IsFiniteSet(cut')
    BY <1>1, FS_AddElement DEFS QueueInv, Types
<1>4. files' \in [Inodes -> SUBSET Rows] /\ torn' \subseteq Inodes
        /\ said' \subseteq Rows /\ cut' \subseteq Rows
    BY <1>1 DEFS QueueInv, Types, Extend
<1>5. StageAfter(i, row.status, failed) \in {"new", "drafted", "claimed", "closed"}
    BY DEFS StageAfter, QueueInv, Types
<1>6. Types'
    BY <1>1, <1>2, <1>3, <1>4, <1>5 DEFS QueueInv, Types
<1>7. LockHolder' /\ FilesInOrder'
  <2>1. LockHolder'
    BY <1>1, <1>2 DEFS QueueInv, Types, LockHolder
  <2>2. torn' \subseteq torn \cup {entry}
    BY <1>1
  <2>3. FilesInOrder'
    BY <1>2, <2>2 DEFS QueueInv, Types, FilesInOrder, Inodes
  <2>4. QED
    BY <2>1, <2>3
<1>8. Numbered'
  <2>1. \A r \in said' \cup cut' : r.nth <= tried'[r.id]
    BY <1>1, <1>2 DEFS QueueInv, Types, Numbered, Rows
  <2>2. Live' \subseteq said' /\ archive' \subseteq said'
    BY <1>1, <1>2 DEFS QueueInv, Types, Numbered, Live, Extend
  <2>3. QED
    BY <2>1, <2>2 DEF Numbered
<1>9. QED
    BY <1>6, <1>7, <1>8 DEF QueueInv

LEMMA JobKeeps ==
    ASSUME QueueInv, JobLock \/ JobRead \/ JobArchive \/ JobReplace \/ JobCrash
    PROVE  QueueInv'
<1> USE DEFS QueueInv, Types, LockHolder, FilesInOrder, Numbered, Live, queue, threads, JobEnds
<1>1. CASE JobLock
    BY <1>1, IdsAssumption, BoundsAssumption DEFS JobLock, Inodes
<1>2. CASE JobRead
    BY <1>2, IdsAssumption DEF JobRead
<1>3. CASE JobArchive
    BY <1>3, IdsAssumption DEFS JobArchive, RowsOf
<1>4. CASE JobReplace
  <2>1. entry + 1 \in Inodes
    BY <1>4, BoundsAssumption DEFS JobReplace, Inodes
  <2>2. \A i \in Ids : wpc[i] = "idle"
    BY <1>4, IdsAssumption DEF JobReplace
  <2>3. QED
    BY <1>4, <2>1, <2>2 DEFS JobReplace, Inodes
<1>5. CASE JobCrash
    BY <1>5, IdsAssumption DEFS JobCrash, RowsOf
<1>6. QED
    BY <1>1, <1>2, <1>3, <1>4, <1>5

LEMMA QueueKeeps ==
    ASSUME QueueInv, [Next]_vars
    PROVE  QueueInv'
<1>1. CASE UNCHANGED vars
    BY <1>1 DEFS vars, queue, threads, job, QueueInv, Types, LockHolder, FilesInOrder, Numbered,
       Live
<1>2. QED
    BY <1>1, LockingKeeps, WriteKeeps, JobKeeps DEF Next

-----------------------------------------------------------------------------
(* No row is lost but behind a line that was cut short.                    *)

\* A line cut short at the end of the file has its victim to come.
Unpaid == IF entry \in torn THEN 1 ELSE 0
LossIsPaid == Cardinality(Lost) + Unpaid <= Cardinality(cut)

LossInv == QueueInv /\ LossIsPaid

LEMMA WritePays ==
    ASSUME LossInv, NEW i \in Ids, WriteRow(i)
    PROVE  LossIsPaid'
<1>1. PICK row \in Rows, failed \in BOOLEAN :
                 /\ row.id = i /\ row \notin said \cup cut
                 /\ IF failed
                    THEN /\ \/ torn' = torn \cup {entry} /\ cut' = cut \cup {row}
                            \/ UNCHANGED <<torn, cut>>
                         /\ UNCHANGED <<files, said>>
                    ELSE /\ files' = [files EXCEPT ![entry] = Extend(@, entry \in torn, row)]
                         /\ torn' = torn \ {entry} /\ said' = said \cup {row}
                         /\ UNCHANGED cut
    BY WriteIsFresh DEF LossInv
<1>2. UNCHANGED <<entry, archive>>
    BY WriteIsFresh DEF LossInv
<1>3. /\ IsFiniteSet(Lost) /\ IsFiniteSet(cut)
      /\ Cardinality(Lost) \in Nat /\ Cardinality(cut) \in Nat
    BY FS_Subset, FS_CardinalityType DEFS LossInv, QueueInv, Types, Lost
<1>4. CASE failed /\ UNCHANGED <<torn, cut>>
  <2>1. Lost' = Lost /\ Unpaid' = Unpaid
    BY <1>1, <1>2, <1>4 DEFS Lost, Live, Unpaid
  <2>2. QED
    BY <1>4, <2>1 DEFS LossInv, LossIsPaid
<1>5. CASE /\ failed
           /\ torn' = torn \cup {entry} /\ cut' = cut \cup {row}
  <2>1. Lost' = Lost /\ Unpaid' = 1
    BY <1>1, <1>2, <1>5 DEFS Lost, Live, Unpaid
  <2>2. Cardinality(cut') = Cardinality(cut) + 1
    BY <1>1, <1>3, <1>5, FS_AddElement
  <2>3. QED
    BY <1>3, <2>1, <2>2 DEFS LossInv, LossIsPaid, Unpaid
<1>6. CASE ~failed /\ entry \in torn
  <2>1. Lost' \subseteq Lost \cup {row} /\ Unpaid = 1 /\ Unpaid' = 0 /\ cut' = cut
    BY <1>1, <1>2, <1>6 DEFS Lost, Live, Unpaid, Extend, LossInv, QueueInv, Types
  <2>2. IsFiniteSet(Lost \cup {row}) /\ Cardinality(Lost \cup {row}) <= Cardinality(Lost) + 1
    BY <1>3, FS_AddElement
  <2>3. Cardinality(Lost') <= Cardinality(Lost \cup {row}) /\ Cardinality(Lost') \in Nat
          /\ Cardinality(Lost \cup {row}) \in Nat
    BY <2>1, <2>2, FS_Subset, FS_CardinalityType
  <2>4. QED
    BY <1>3, <2>1, <2>2, <2>3 DEFS LossInv, LossIsPaid
<1>7. CASE ~failed /\ entry \notin torn
  <2>1. Lost' = Lost /\ Unpaid' = Unpaid /\ cut' = cut
    BY <1>1, <1>2, <1>7 DEFS Lost, Live, Unpaid, Extend, LossInv, QueueInv, Types
  <2>2. QED
    BY <2>1 DEFS LossInv, LossIsPaid
<1>8. QED
    BY <1>1, <1>4, <1>5, <1>6, <1>7

\* The job moves rows to the archive before it takes them out of the queue.
LEMMA JobPays ==
    ASSUME LossInv, JobLock \/ JobRead \/ JobArchive \/ JobReplace \/ JobCrash
    PROVE  LossIsPaid'
<1>1. cut' = cut /\ said' = said
    BY DEFS JobLock, JobRead, JobArchive, JobReplace, JobCrash, threads
<1>2. Lost' \subseteq Lost
  <2>1. CASE JobReplace
    <3>1. files[entry] = entries /\ RowsOf(entries, picked) \subseteq archive
      BY <2>1 DEFS JobReplace, LossInv, QueueInv, LockHolder
    <3>2. entry + 1 \in Inodes /\ entry # entry + 1
      BY <2>1, BoundsAssumption
         DEFS JobReplace, LossInv, QueueInv, FilesInOrder, Types, Inodes
    <3>3. Live' = entries \ RowsOf(entries, picked) /\ archive' = archive
      BY <2>1, <3>2 DEFS JobReplace, Live, LossInv, QueueInv, Types
    <3>4. QED
      BY <1>1, <3>1, <3>3 DEFS Lost, Live
  <2>2. CASE JobLock \/ JobRead \/ JobArchive \/ JobCrash
    BY <1>1, <2>2 DEFS JobLock, JobRead, JobArchive, JobCrash, queue, Lost, Live
  <2>3. QED
    BY <2>1, <2>2
<1>3. Unpaid' <= Unpaid
  <2>1. CASE JobReplace
    <3>1. entry + 1 \notin torn
      BY DEFS LossInv, QueueInv, FilesInOrder, Types, Inodes
    <3>2. QED
      BY <2>1, <3>1 DEFS JobReplace, Unpaid
  <2>2. CASE JobLock \/ JobRead \/ JobArchive \/ JobCrash
    BY <2>2 DEFS JobLock, JobRead, JobArchive, JobCrash, queue, Unpaid
  <2>3. QED
    BY <2>1, <2>2
<1>4. /\ Cardinality(Lost') <= Cardinality(Lost)
      /\ Cardinality(Lost) \in Nat /\ Cardinality(Lost') \in Nat /\ Cardinality(cut) \in Nat
  <2>1. IsFiniteSet(Lost) /\ IsFiniteSet(cut)
    BY FS_Subset DEFS LossInv, QueueInv, Types, Lost
  <2>2. QED
    BY <1>2, <2>1, FS_Subset, FS_CardinalityType
<1>5. Unpaid \in Nat /\ Unpaid' \in Nat
    BY DEF Unpaid
<1>6. QED
    BY <1>1, <1>3, <1>4, <1>5 DEFS LossInv, LossIsPaid

\* Every row whose append succeeded is in the queue or in the archive, but for at
\* most one for each append that was cut short, whatever the job did meanwhile.
THEOREM LossesArePaid == Spec => []RowsSurvive
<1>1. Init => LossInv
  <2> SUFFICES ASSUME Init PROVE LossInv
    OBVIOUS
  <2>1. Lost = {} /\ cut = {} /\ entry \notin torn
    BY DEFS Init, Lost
  <2>2. QED
    BY <2>1, FS_EmptySet, QueueStarts DEFS LossInv, LossIsPaid, Unpaid
<1>2. LossInv /\ [Next]_vars => LossInv'
  <2> SUFFICES ASSUME LossInv, [Next]_vars PROVE LossInv'
    OBVIOUS
  <2>1. QueueInv'
    BY QueueKeeps DEF LossInv
  <2>2. CASE \E i \in Ids : Flock(i) \/ OpenQueue(i)
    BY <2>1, <2>2 DEFS Flock, OpenQueue, queue, LossInv, LossIsPaid, Lost, Live, Unpaid
  <2>3. CASE UNCHANGED vars
    BY <2>1, <2>3 DEFS vars, queue, threads, LossInv, LossIsPaid, Lost, Live, Unpaid
  <2>4. QED
    BY <2>1, <2>2, <2>3, WritePays, JobPays DEFS Next, LossInv
<1>3. LossInv => RowsSurvive
  <2> SUFFICES ASSUME LossInv PROVE RowsSurvive
    OBVIOUS
  <2>1. Cardinality(Lost) \in Nat /\ Cardinality(cut) \in Nat
    BY FS_Subset, FS_CardinalityType DEFS LossInv, QueueInv, Types, Lost
  <2>2. QED
    BY <2>1 DEFS LossInv, LossIsPaid, Unpaid, RowsSurvive
<1>4. QED
    BY <1>1, <1>2, <1>3, PTL DEF Spec

-----------------------------------------------------------------------------
(* Nothing unresolved is archived.                                         *)

\* An alert is picked for a resolved row, the last there is of it.
PickedAreSettled ==
    jpc \in {"archive", "replace"} => \A row \in RowsOf(entries, picked) : Settled(row)
ArchiveIsSettled == \A row \in archive : Settled(row)

VisibleInv == QueueInv /\ PickedAreSettled /\ ArchiveIsSettled

LEMMA VisibleKeeps ==
    ASSUME VisibleInv, [Next]_vars
    PROVE  VisibleInv'
<1>1. QueueInv' /\ QueueInv
    BY QueueKeeps DEF VisibleInv
<1>2. said \subseteq said'
    BY WriteIsFresh, <1>1 DEFS Next, vars, threads, Flock, OpenQueue, JobLock, JobRead, JobArchive,
       JobReplace, JobCrash
<1>3. ASSUME NEW row, Settled(row) PROVE Settled(row)'
    BY <1>2, <1>3 DEFS Settled, RowsOf
<1>4. ASSUME \/ UNCHANGED <<jpc, entries, picked, archive>>
             \/ jpc' = "idle" /\ archive' \subseteq archive \cup RowsOf(entries, picked)
                  /\ (archive' = archive \/ jpc = "archive")
             \/ jpc' = "read" /\ archive' = archive
             \/ jpc' = "replace" /\ jpc = "archive" /\ UNCHANGED <<entries, picked>>
                  /\ archive' = archive \cup RowsOf(entries, picked)
      PROVE  PickedAreSettled' /\ ArchiveIsSettled'
    BY <1>3, <1>4 DEFS VisibleInv, PickedAreSettled, ArchiveIsSettled, RowsOf
<1>5. CASE JobRead /\ jpc' = "archive"
  <2>1. entries' = files[entry] /\ archive' = archive /\ said' = said
    BY <1>5 DEFS JobRead, JobEnds, queue, threads
  <2>2. \A i \in picked' : \E last \in Latest(files[entry]) :
            last.id = i /\ last.status \in TerminalStatuses
    BY <1>5 DEFS JobRead, JobEnds
  <2>3. ASSUME NEW row \in RowsOf(entries', picked') PROVE Settled(row)
    <3>1. PICK last \in Latest(files[entry]) : last.id = row.id /\ last.status \in TerminalStatuses
      BY <2>2, <2>3 DEF RowsOf
    <3>2. last.nth >= row.nth /\ last \in said
      BY <1>1, <2>1, <2>3, <3>1 DEFS Latest, RowsOf, QueueInv, Numbered, Live, Types, Rows
    <3>3. QED
      BY <3>1, <3>2 DEFS Settled, RowsOf, TerminalStatuses, ResolvedStatuses
  <2>4. QED
    BY <1>1, <1>3, <2>1, <2>3 DEFS VisibleInv, PickedAreSettled, ArchiveIsSettled, RowsOf
<1>6. CASE UNCHANGED vars \/ \E i \in Ids : Flock(i) \/ OpenQueue(i) \/ WriteRow(i)
    BY <1>1, <1>4, <1>6 DEFS VisibleInv, vars, queue, job, Flock, OpenQueue, WriteRow
<1>7. CASE JobRead /\ jpc' # "archive"
    BY <1>1, <1>4, <1>7 DEFS VisibleInv, JobRead, JobEnds, queue
<1>8. CASE JobLock \/ JobArchive \/ JobReplace \/ JobCrash
    BY <1>1, <1>4, <1>8 DEFS VisibleInv, JobLock, JobArchive, JobReplace, JobCrash, JobEnds, queue,
       RowsOf
<1>9. QED
    BY <1>5, <1>6, <1>7, <1>8 DEF Next

\* An alert with a row in the queue has a last one there.
LEMMA LatestExists ==
    ASSUME QueueInv, NEW row \in Live
    PROVE  \E last \in Latest(Live) : last.id = row.id /\ last.nth >= row.nth
<1> DEFINE own == RowsOf(Live, {row.id})
           gaps == {tried[row.id] - r.nth : r \in own}
<1>1. \A r \in own : r.id = row.id /\ r.nth \in Nat /\ tried[row.id] \in Nat /\ r.nth <= tried[row.id]
    BY DEFS QueueInv, Types, Numbered, Rows, RowsOf, Live
<1>2. gaps \subseteq Nat /\ gaps # {}
    BY <1>1 DEF RowsOf
<1>3. PICK gap \in gaps : \A g \in gaps : <<g, gap>> \notin OpToRel(<, Nat)
  <2> HIDE DEF gaps
  <2> QED
    BY <1>2, NatLessThanWellFounded, WFMin
<1>4. PICK last \in own : gap = tried[row.id] - last.nth
    OBVIOUS
<1>5. ASSUME NEW r \in own PROVE r.nth <= last.nth
  <2>1. ~(tried[row.id] - r.nth < gap)
    BY <1>2, <1>3 DEF OpToRel
  <2>2. QED
    BY <1>1, <1>4, <2>1
<1>6. row \in own /\ last \in Live /\ last.id = row.id
    BY DEF RowsOf
<1>7. last \in Latest(Live) /\ last.nth >= row.nth
    BY <1>1, <1>5, <1>6 DEF Latest
<1>8. QED
    BY <1>6, <1>7

\* Whatever no outcome has settled is in the queue and its alert is listed by
\* GET /pending, at any moment of the job, unless it was lost behind a cut line.
THEOREM OpenStaysVisible == Spec => []OpenIsVisible
<1>1. Init => VisibleInv
    BY QueueStarts DEFS VisibleInv, PickedAreSettled, ArchiveIsSettled, Init
<1>2. VisibleInv => OpenIsVisible
  <2> SUFFICES ASSUME VisibleInv, NEW row \in said \ Lost, ~Settled(row)
               PROVE  row \in Live \ archive /\ row.id \in Pending
    BY DEF OpenIsVisible
  <2>1. row \in Live \ archive
    BY DEFS VisibleInv, ArchiveIsSettled, Lost
  <2>2. PICK last \in Latest(Live) : last.id = row.id /\ last.nth >= row.nth
    BY <2>1, LatestExists DEF VisibleInv
  <2>3. last \in said
    BY DEFS VisibleInv, QueueInv, Numbered, Latest
  <2>4. last.status \notin ResolvedStatuses
    BY <2>2, <2>3 DEFS Settled, RowsOf
  <2>5. QED
    BY <2>1, <2>2, <2>4 DEF Pending
<1>3. QED
    BY <1>1, <1>2, VisibleKeeps, PTL DEF Spec
=============================================================================
