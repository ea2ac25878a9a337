------------------------- MODULE WeeklyReport_proofs -------------------------
(***************************************************************************)
(* The weekly report for any finite number of concurrent pipelines, any    *)
(* retention count and every fault: what the notice says is true, the      *)
(* directory stays bounded although pruning runs work from stale listings, *)
(* and a run only loses its report to as many rivals as reports are kept.  *)
(***************************************************************************)
EXTENDS WeeklyReport, FiniteSetTheorems, WellFoundedInduction, TLAPS

-----------------------------------------------------------------------------
(* Types, stamps and the order of the files.                               *)

Early == {"idle", "stamp", "render"}
Pruning == {"stat", "unlink"}
Later == {"unlink_rest", "size", "put", "complete", "notify"} \cup Ended
Stages == Early \cup {"write", "list"} \cup Pruning \cup Later
Reports == Runs \cup {"none", "partial", "mixed"}

Types ==
    /\ clock \in Names
    /\ pc \in [Runs -> Stages]
    /\ stamp \in [Runs -> Names \cup {Unstamped}]
    /\ shelf \subseteq Names
    /\ newer \in [Names -> SUBSET Names]
    /\ content \in [Names -> Reports]
    /\ linked \subseteq Runs
    /\ listed \in [Runs -> SUBSET Names] /\ doomed \in [Runs -> SUBSET Names]
    /\ upload \in [Runs -> Reports] /\ published \in [Runs -> Reports]
    /\ delivered \in [Runs -> BOOLEAN]
    /\ notice \in [Runs -> {"none", "delivered", "skipped"}]
    /\ tidied \subseteq Runs
    /\ rivals \in [Runs -> SUBSET Runs]

\* A run takes its stamp once, writes under it and goes through its pruning
\* before anything else.
StagesInOrder ==
    /\ \A r \in Runs :
          /\ pc[r] \in {"idle", "stamp"} => stamp[r] = Unstamped
          /\ pc[r] \notin {"idle", "stamp", "failed"} => stamp[r] \in Names
          /\ r \in tidied => pc[r] \in Later
    /\ \A r \in linked : pc[r] = "write"

\* Of any two files in the directory one was modified after the other.
ShelfOrder ==
    /\ \A n \in Names : newer[n] \subseteq shelf \ {n}
    /\ \A n \in Names \ shelf : newer[n] = {}
    /\ \A m, n \in shelf : m = n \/ m \in newer[n] \/ n \in newer[m]
    /\ \A m, n \in shelf : m \in newer[n] => newer[m] \subseteq newer[n]

Basics == Types /\ StagesInOrder /\ ShelfOrder

\* A write makes the file the newest one and leaves the order of the others.
LEMMA TouchKeepsOrder ==
    ASSUME Types, ShelfOrder, NEW r \in Runs, stamp[r] \in Names, Touch(r)
    PROVE  /\ shelf' \subseteq Names /\ newer' \in [Names -> SUBSET Names]
           /\ ShelfOrder'
<1> USE DEFS Types, ShelfOrder, Touch, Own, FileName
<1>1. shelf' \subseteq Names /\ newer' \in [Names -> SUBSET Names]
    OBVIOUS
<1>2. ShelfOrder'
    OBVIOUS
<1>3. QED
    BY <1>1, <1>2

\* Nothing is on the shelf at first.
LEMMA BasicsStart == Init => Basics
<1> Unstamped \notin Names /\ 0 \in Names
    BY KeepAssumption DEFS Unstamped, Names
<1> QED
    BY DEFS Init, Basics, Types, StagesInOrder, ShelfOrder, Stages, Early, Reports

LEMMA FilesKeepBasics ==
    ASSUME Basics, NEW r \in Runs,
           Trigger(r) \/ Collect(r) \/ OpenPdf(r) \/ ClosePdf(r)
    PROVE  Basics'
<1> USE DEFS Basics, Types, StagesInOrder, Goto, pruning, slack, files
<1>1. CASE Trigger(r)
    BY <1>1 DEFS Trigger, ShelfOrder, Stages, Early, Later, Ended
<1>2. CASE Collect(r)
    BY <1>2 DEFS Collect, ShelfOrder, Stages, Early, Later, Ended
<1>3. CASE OpenPdf(r)
  <2>1. CASE Touch(r) /\ Rival(r)
    <3>1. stamp[r] \in Names
      BY <1>3 DEF OpenPdf
    <3>2. shelf' \subseteq Names /\ newer' \in [Names -> SUBSET Names] /\ ShelfOrder'
      BY <2>1, <3>1, TouchKeepsOrder
    <3>3. rivals' \in [Runs -> SUBSET Runs] /\ content' \in [Names -> Reports]
      BY <1>3, <2>1 DEFS OpenPdf, Rival, Reports
    <3>4. QED
      BY <1>3, <2>1, <3>1, <3>2, <3>3 DEFS OpenPdf, Stages, Early, Later, Ended
  <2>2. CASE UNCHANGED <<files, rivals>>
    BY <1>3, <2>2 DEFS OpenPdf, ShelfOrder, Stages, Early, Later, Ended
  <2>3. QED
    BY <1>3, <2>1, <2>2 DEF OpenPdf
<1>4. CASE ClosePdf(r)
  <2>1. CASE Touch(r) /\ Rival(r)
    <3>1. stamp[r] \in Names
      BY <1>4 DEF ClosePdf
    <3>2. shelf' \subseteq Names /\ newer' \in [Names -> SUBSET Names] /\ ShelfOrder'
      BY <2>1, <3>1, TouchKeepsOrder
    <3>3. rivals' \in [Runs -> SUBSET Runs] /\ content' \in [Names -> Reports]
      BY <1>4, <2>1 DEFS ClosePdf, Rival, Reports
    <3>4. QED
      BY <1>4, <2>1, <3>1, <3>2, <3>3 DEFS ClosePdf, Stages, Early, Later, Ended
  <2>2. CASE UNCHANGED <<shelf, newer, content, rivals>>
    BY <1>4, <2>2 DEFS ClosePdf, ShelfOrder, Stages, Early, Later, Ended
  <2>3. QED
    BY <1>4, <2>1, <2>2 DEF ClosePdf
<1>5. QED
    BY <1>1, <1>2, <1>3, <1>4

LEMMA PruningKeepsBasics ==
    ASSUME Basics, NEW r \in Runs, List(r) \/ Stat(r) \/ Unlink(r) \/ EndPruning(r)
    PROVE  Basics'
<1> USE DEFS Basics, Types, StagesInOrder, ShelfOrder, Goto, slack, files, Stages, Early,
        Later, Pruning, Ended
<1>1. CASE List(r)
    BY <1>1 DEF List
<1>2. CASE Stat(r)
  <2>1. Doomed(listed[r]) \in SUBSET Names
    BY DEF Doomed
  <2>2. QED
    BY <1>2, <2>1 DEF Stat
<1>3. CASE Unlink(r)
  <2>1. ShelfOrder'
    BY <1>3 DEF Unlink
  <2>2. Types' /\ StagesInOrder'
    BY <1>3 DEFS Unlink, Reports
  <2>3. QED
    BY <2>1, <2>2
<1>4. CASE EndPruning(r)
    BY <1>4 DEF EndPruning
<1>5. QED
    BY <1>1, <1>2, <1>3, <1>4

\* What follows the pruning leaves the directory and the order alone.
LEMMA SlackKeepsBasics ==
    ASSUME Basics, NEW r \in Runs,
           UploadUrl(r) \/ Put(r) \/ Complete(r) \/ Notify(r)
    PROVE  Basics'
<1> USE DEFS Basics, Types, StagesInOrder, ShelfOrder, Goto, pruning, slack, files, Stages,
        Early, Later, Ended, Skips, Raises, Missing
<1>1. CASE UploadUrl(r)
    BY <1>1 DEF UploadUrl
<1>2. CASE Put(r)
    BY <1>2 DEFS Put, Own, FileName
<1>3. CASE Complete(r)
  <2>1. /\ upload' \in [Runs -> Reports] /\ published' \in [Runs -> Reports]
        /\ delivered' \in [Runs -> BOOLEAN]
    BY <1>3 DEFS Complete, Reports
  <2>2. pc[r] = "complete" /\ (pc' = [pc EXCEPT ![r] = "notify"] \/ pc' = [pc EXCEPT ![r] = "failed"])
    BY <1>3 DEF Complete
  <2>3. UNCHANGED <<clock, stamp, files, pruning, notice, rivals>>
    BY <1>3 DEF Complete
  <2>4. QED
    BY <2>1, <2>2, <2>3
<1>4. CASE Notify(r)
    BY <1>4 DEF Notify
<1>5. QED
    BY <1>1, <1>2, <1>3, <1>4

LEMMA BasicsKeep ==
    ASSUME Basics, [Next]_vars
    PROVE  Basics'
<1>1. CASE Dies
    BY <1>1 DEFS Dies, Basics, Types, StagesInOrder, ShelfOrder, pruning, slack, Stages, Early,
       Later, Ended
<1>2. CASE Tick
    BY <1>2, KeepAssumption DEFS Tick, Basics, Types, StagesInOrder, ShelfOrder, pruning, slack,
       files, Names
<1>3. CASE UNCHANGED vars
    BY <1>3 DEFS vars, Basics, Types, StagesInOrder, ShelfOrder, pruning, slack, files
<1>4. QED
    BY <1>1, <1>2, <1>3, FilesKeepBasics, PruningKeepsBasics, SlackKeepsBasics DEFS Next, RunStep
-----------------------------------------------------------------------------
(* The directory is bounded.                                               *)

\* Sparing what has fewer than Keep newer files spares at most Keep: the oldest
\* of them has all the others among its newer ones.
LEMMA KeepsAtMost ==
    ASSUME Basics, NEW found \in SUBSET shelf
    PROVE  Cardinality(found \ Doomed(found)) <= Keep
<1> DEFINE spared == found \ Doomed(found)
           olderOr(n) == found \ newer[n]
<1> USE KeepAssumption
<1>1. IsFiniteSet(found) /\ IsFiniteSet(spared)
  <2>1. IsFiniteSet(Names)
    BY FS_Interval DEF Names
  <2>2. QED
    BY <2>1, FS_Subset DEFS Basics, Types
<1>2. CASE spared = {}
    BY <1>2, FS_EmptySet
<1>3. CASE spared # {}
  <2> DEFINE T == {olderOr(n) : n \in spared}
             R == StrictSubsetOrdering(found)
  <2>1. IsWellFoundedOn(R, FiniteSubsetsOf(found))
    BY FS_StrictSubsetOrderingWellFounded
  <2>2. FiniteSubsetsOf(found) = SUBSET found
    BY <1>1, FS_FiniteSubsetsOfFinite
  <2>3. T \subseteq FiniteSubsetsOf(found) /\ T # {}
    <3>1. T \subseteq SUBSET found /\ T # {}
      BY <1>3
    <3>2. QED
      BY <2>2, <3>1
  <2>4. PICK x \in T : \A y \in T : <<y, x>> \notin R
    <3> HIDE DEF T, R
    <3> QED  BY <2>1, <2>3, WFMin
  <2>5. PICK oldest \in spared : x = olderOr(oldest)
    OBVIOUS
  <2>6. ASSUME NEW n \in spared, n # oldest PROVE n \in newer[oldest]
    <3>1. n \in newer[oldest] \/ oldest \in newer[n]
      BY <2>6 DEFS Basics, ShelfOrder
    <3>2. ASSUME oldest \in newer[n] PROVE FALSE
      <4>1. newer[oldest] \subseteq newer[n] /\ oldest \notin newer[oldest]
        BY <3>2 DEFS Basics, ShelfOrder, Types
      <4>2. olderOr(n) \subseteq olderOr(oldest) /\ olderOr(n) # olderOr(oldest)
        BY <3>2, <4>1
      <4>3. <<olderOr(n), x>> \in R
        BY <2>5, <4>2 DEF StrictSubsetOrdering
      <4>4. QED
        BY <2>4, <2>6, <4>3
    <3>3. QED
      BY <3>1, <3>2
  <2>7. spared \ {oldest} \subseteq newer[oldest] \cap found
    BY <2>6
  <2>8. IsFiniteSet(newer[oldest] \cap found) /\ Cardinality(newer[oldest] \cap found) < Keep
    <3>1. IsFiniteSet(newer[oldest] \cap found)
      BY <1>1, FS_Subset
    <3>2. ~(Cardinality(newer[oldest] \cap found) >= Keep)
      BY DEF Doomed
    <3>3. QED
      BY <3>1, <3>2, FS_CardinalityType
  <2>9. Cardinality(spared \ {oldest}) < Keep
    BY <2>7, <2>8, FS_Subset, FS_CardinalityType
  <2>10. Cardinality(spared \ {oldest}) = Cardinality(spared) - 1 /\ Cardinality(spared) \in Nat
    BY <1>1, FS_RemoveElement, FS_CardinalityType
  <2>11. QED
    BY <2>9, <2>10
<1>4. QED
    BY <1>2, <1>3

\* The runs whose files may lie in the directory beyond the retained ones, once
\* those in "finished" have pruned.
Covered(names, finished) == \A n \in names : \E q \in Untidy \ finished : Own(q) = n
Few(names) == names \subseteq Names /\ Cardinality(names) <= Keep

\* What run s leaves if it deletes now what it has decided on.
Leaves(s) == {n \in shelf : pc[s] = "unlink" => n \notin doomed[s]}

\* The pruning of s is enough for all of "finished": it is about to decide on
\* everything the others do not cover, or spares little enough.
Suffices(s, finished) ==
    \/ pc[s] = "stat" /\ Covered(shelf \ listed[s], finished)
    \/ \E kept : Few(kept) /\ Covered(Leaves(s) \ kept, finished)

\* Of the runs between listing and deleting, the last to list makes up for the
\* stale listings of all the others.
PruningSuffices ==
    \A finished \in SUBSET {r \in Runs : pc[r] \in Pruning} :
        finished # {} => \E s \in finished : Suffices(s, finished)

ShelfIsCovered == \E kept : Few(kept) /\ Covered(shelf \ kept, {})

BoundInv == Basics /\ PruningSuffices /\ ShelfIsCovered

\* A run that does not prune may add its own file, and one that prunes delete
\* what it decided on.
LEMMA AddingKeepsBound ==
    ASSUME BoundInv, UNCHANGED tidied,
           \A r \in Runs : pc[r] # "idle" => pc'[r] # "idle",
           \A r \in Runs : stamp[r] \in Names => stamp'[r] = stamp[r],
           \A r \in Runs : pc'[r] \in Pruning =>
               /\ pc'[r] = pc[r] /\ listed'[r] = listed[r]
               /\ doomed[r] \cap shelf' \subseteq doomed'[r],
           \A n \in shelf' \ shelf : \E w \in Untidy' : pc'[w] \notin Pruning /\ Own(w)' = n
    PROVE  PruningSuffices' /\ ShelfIsCovered'
<1> USE DEFS Own, FileName, Untidy
<1>1. ASSUME NEW finished \in SUBSET {r \in Runs : pc'[r] \in Pruning}, NEW n \in shelf',
             n \in shelf => \E q \in Untidy \ finished : Own(q) = n
      PROVE  \E q \in Untidy' \ finished : Own(q)' = n
    BY <1>1 DEFS BoundInv, Basics, Types
<1>2. PruningSuffices'
  <2> SUFFICES ASSUME NEW finished \in SUBSET {r \in Runs : pc'[r] \in Pruning}, finished # {}
               PROVE  \E s \in finished : Suffices(s, finished)'
    BY DEF PruningSuffices
  <2>1. PICK s \in finished : Suffices(s, finished)
    BY DEFS BoundInv, PruningSuffices
  <2>2. /\ pc'[s] = pc[s] /\ listed'[s] = listed[s]
        /\ doomed[s] \cap shelf' \subseteq doomed'[s]
    OBVIOUS
  <2>3. CASE pc[s] = "stat" /\ Covered(shelf \ listed[s], finished)
    <3>1. Covered(shelf \ listed[s], finished)
      BY <2>3
    <3>2. Covered(shelf \ listed[s], finished)'
      BY <1>1, <2>2, <3>1 DEF Covered
    <3>3. QED
      BY <2>2, <2>3, <3>2 DEF Suffices
  <2>4. ASSUME NEW kept, Few(kept), Covered(Leaves(s) \ kept, finished)
        PROVE  Suffices(s, finished)'
    <3>1. Covered(Leaves(s) \ kept, finished)'
      BY <1>1, <2>2, <2>4 DEFS Covered, Leaves
    <3>2. QED
      BY <2>4, <3>1 DEFS Suffices, Few
  <2>5. QED
    BY <2>1, <2>3, <2>4 DEF Suffices
<1>3. ShelfIsCovered'
  <2>1. PICK kept : Few(kept) /\ Covered(shelf \ kept, {})
    BY DEFS BoundInv, ShelfIsCovered
  <2>2. Covered(shelf \ kept, {})'
    <3>1. ASSUME NEW n \in shelf' \ kept PROVE \E q \in Untidy' \ {} : Own(q)' = n
      <4>1. PICK none \in SUBSET {r \in Runs : pc'[r] \in Pruning} : none = {}
        OBVIOUS
      <4>2. n \in shelf => \E q \in Untidy \ none : Own(q) = n
        BY <2>1, <4>1 DEF Covered
      <4>3. \E q \in Untidy' \ none : Own(q)' = n
        BY <1>1, <4>2
      <4>4. QED
        BY <4>1, <4>3
    <3>2. QED
      BY <3>1 DEF Covered
  <2>3. QED
    BY <2>1, <2>2 DEFS ShelfIsCovered, Few
<1>4. QED
    BY <1>2, <1>3
\* What a run lists covers the directory; from then on it shares the burden.
LEMMA ListKeepsBound ==
    ASSUME BoundInv, NEW r \in Runs, List(r)
    PROVE  PruningSuffices' /\ ShelfIsCovered'
<1> USE DEFS List, Goto, files, BoundInv, Basics, Types, Own, FileName, Untidy
<1>1. ShelfIsCovered'
  <2>1. PICK kept : Few(kept) /\ Covered(shelf \ kept, {})
    BY DEF ShelfIsCovered
  <2>2. QED
    BY <2>1 DEFS ShelfIsCovered, Few, Covered
<1>2. PruningSuffices'
  <2> SUFFICES ASSUME NEW finished \in SUBSET {s \in Runs : pc'[s] \in Pruning}, finished # {}
               PROVE  \E s \in finished : Suffices(s, finished)'
    BY DEF PruningSuffices
  <2>1. CASE r \in finished
    BY <2>1 DEFS Suffices, Covered
  <2>2. CASE r \notin finished
    <3>1. finished \in SUBSET {s \in Runs : pc[s] \in Pruning}
      BY <2>2
    <3>2. PICK s \in finished : Suffices(s, finished)
      BY <3>1 DEF PruningSuffices
    <3>3. pc'[s] = pc[s] /\ listed'[s] = listed[s] /\ doomed'[s] = doomed[s]
      BY <2>2
    <3>4. QED
      BY <3>2, <3>3 DEFS Suffices, Leaves, Covered, Few
  <2>3. QED
    BY <2>1, <2>2
<1>3. QED
  BY <1>1, <1>2

\* Deciding on the listing spares no more than Keep of what it covers.
LEMMA StatKeepsBound ==
    ASSUME BoundInv, NEW r \in Runs, Stat(r)
    PROVE  PruningSuffices' /\ ShelfIsCovered'
<1> USE DEFS Goto, files, Own, FileName
<1>1. CASE pc' = [pc EXCEPT ![r] = "failed"]
    BY <1>1, AddingKeepsBound DEFS Stat, Pruning, BoundInv, Basics, Types, Untidy
<1>2. CASE /\ pc' = [pc EXCEPT ![r] = "unlink"] /\ listed[r] \subseteq shelf
           /\ doomed' = [doomed EXCEPT ![r] = Doomed(listed[r])]
  <2>1. PICK kept : kept = listed[r] \ Doomed(listed[r]) /\ Few(kept)
    BY <1>2, KeepsAtMost DEFS Few, BoundInv, Basics, Types
  <2>2. /\ UNCHANGED <<stamp, shelf, tidied>> /\ pc[r] = "stat"
        /\ doomed'[r] = Doomed(listed[r]) /\ pc'[r] = "unlink"
        /\ \A s \in Runs \ {r} : /\ pc'[s] = pc[s] /\ listed'[s] = listed[s]
                                 /\ doomed'[s] = doomed[s]
    BY <1>2 DEFS Stat, BoundInv, Basics, Types
  <2>3. Untidy' = Untidy /\ Leaves(r)' \subseteq Leaves(r) /\ \A s \in Runs : Own(s)' = Own(s)
    BY <2>2 DEFS Untidy, Leaves
  <2>4. ASSUME NEW finished, NEW s \in Runs, Suffices(s, finished)
        PROVE  Suffices(s, finished)'
    <3>1. CASE s = r /\ Covered(shelf \ listed[r], finished)
      <4>1. Covered(Leaves(r) \ kept, finished)'
        BY <1>2, <2>1, <2>2, <2>3, <3>1 DEFS Covered, Leaves
      <4>2. QED
        BY <2>1, <3>1, <4>1 DEFS Suffices, Few
    <3>2. ASSUME s = r, NEW others, Few(others), Covered(Leaves(r) \ others, finished)
          PROVE  Suffices(s, finished)'
      <4>1. \A n \in Leaves(r) \ others : \E q \in Untidy \ finished : Own(q) = n
        BY <3>2 DEF Covered
      <4>2. Covered(Leaves(r) \ others, finished)'
        BY <2>3, <4>1 DEFS Covered, Untidy
      <4>3. QED
        BY <3>2, <4>2 DEFS Suffices, Few
    <3>3. CASE s # r
      BY <2>2, <2>3, <2>4, <3>3 DEFS Suffices, Leaves, Covered, Few
    <3>4. QED
      BY <2>4, <3>1, <3>2, <3>3 DEF Suffices
  <2>5. {s \in Runs : pc'[s] \in Pruning} = {s \in Runs : pc[s] \in Pruning}
    BY <2>2 DEF Pruning
  <2>6. PruningSuffices'
    BY <2>4, <2>5 DEFS BoundInv, PruningSuffices
  <2>7. ShelfIsCovered'
    BY <2>2, <2>3 DEFS BoundInv, ShelfIsCovered, Few, Covered
  <2>8. QED
    BY <2>6, <2>7
<1>3. QED
  BY <1>1, <1>2 DEF Stat

\* What r deletes uncovers nothing, and it stays untidy until it has deleted all
\* of it, for good when one deletion fails.
LEMMA UnlinkKeepsBound ==
    ASSUME BoundInv, NEW r \in Runs, Unlink(r)
    PROVE  PruningSuffices' /\ ShelfIsCovered'
<1>1. UNCHANGED <<stamp, listed, tidied>> /\ shelf' \subseteq shelf
    BY DEFS Unlink, files
<1>2. /\ \A s \in Runs : pc[s] # "idle" => pc'[s] # "idle"
      /\ \A s \in Runs : pc'[s] \in Pruning => pc'[s] = pc[s]
    BY DEFS Unlink, Pruning, BoundInv, Basics, Types
<1>3. \A s \in Runs : doomed[s] \cap shelf' \subseteq doomed'[s] \/ pc'[s] \notin Pruning
    BY DEFS Unlink, files, Pruning, BoundInv, Basics, Types
<1>4. QED
    BY <1>1, <1>2, <1>3, AddingKeepsBound

\* That r leaves the untidy ones is paid for by whoever suffices in its company.
LEMMA EndPruningKeepsBound ==
    ASSUME BoundInv, NEW r \in Runs, EndPruning(r), pc[r] = "unlink"
    PROVE  PruningSuffices' /\ ShelfIsCovered'
<1>1. /\ pc[r] = "unlink" /\ pc'[r] = "size"
      /\ shelf' = shelf \ doomed[r] /\ UNCHANGED <<stamp, listed>>
      /\ Untidy' = Untidy \ {r}
      /\ \A s \in Runs \ {r} : pc'[s] = pc[s] /\ doomed'[s] = doomed[s]
    BY DEFS EndPruning, Goto, Untidy, files, BoundInv, Basics, Types
<1>2. \A s \in Runs : Own(s)' = Own(s)
    BY <1>1 DEFS Own, FileName
<1>3. ASSUME NEW finished \in SUBSET {s \in Runs : pc'[s] \in Pruning}
      PROVE  \/ \E kept : Few(kept) /\ Covered(shelf \ kept, finished)'
             \/ \E s \in finished : Suffices(s, finished)'
  <2>1. finished \cup {r} \in SUBSET {s \in Runs : pc[s] \in Pruning} /\ r \notin finished
    BY <1>1 DEF Pruning
  <2>2. PICK s \in finished \cup {r} : Suffices(s, finished \cup {r})
    BY <2>1 DEFS BoundInv, PruningSuffices
  <2>3. \A names : Covered(names, finished \cup {r})
                      => \A n \in names : \E q \in Untidy' \ finished : Own(q)' = n
    BY <1>1, <1>2 DEFS Covered, Untidy
  <2>4. CASE s = r
    <3>1. PICK kept : Few(kept) /\ Covered(Leaves(r) \ kept, finished \cup {r})
      BY <1>1, <2>2, <2>4 DEF Suffices
    <3>2. Covered(shelf \ kept, finished)'
      BY <1>1, <2>3, <3>1 DEFS Covered, Leaves
    <3>3. QED
      BY <3>1, <3>2
  <2>5. CASE s \in finished /\ pc[s] = "stat" /\ Covered(shelf \ listed[s], finished \cup {r})
    <3>1. Covered(shelf \ listed[s], finished \cup {r})
      BY <2>5
    <3>2. Covered(shelf \ listed[s], finished)'
      BY <1>1, <2>3, <3>1 DEF Covered
    <3>3. QED
      BY <1>1, <2>1, <2>5, <3>2 DEF Suffices
  <2>6. ASSUME s \in finished, NEW kept, Few(kept), Covered(Leaves(s) \ kept, finished \cup {r})
        PROVE  Suffices(s, finished)'
    <3>1. Leaves(s)' \subseteq Leaves(s)
      BY <1>1, <2>1, <2>6 DEF Leaves
    <3>2. Covered(Leaves(s) \ kept, finished)'
      BY <2>3, <2>6, <3>1 DEF Covered
    <3>3. QED
      BY <2>6, <3>2 DEFS Suffices, Few
  <2>7. QED
    BY <2>2, <2>4, <2>5, <2>6 DEF Suffices
<1>4. PruningSuffices'
  <2> SUFFICES ASSUME NEW finished \in SUBSET {s \in Runs : pc'[s] \in Pruning}, finished # {}
               PROVE  \E s \in finished : Suffices(s, finished)'
    BY DEF PruningSuffices
  <2>1. ASSUME NEW kept, Few(kept), Covered(shelf \ kept, finished)', NEW s \in finished
        PROVE  Suffices(s, finished)'
    <3>1. Covered(Leaves(s) \ kept, finished)'
      BY <2>1 DEFS Covered, Leaves
    <3>2. QED
      BY <2>1, <3>1 DEFS Suffices, Few
  <2>2. QED
    BY <1>3, <2>1
<1>5. ShelfIsCovered'
  <2>1. PICK none \in SUBSET {s \in Runs : pc'[s] \in Pruning} : none = {}
    OBVIOUS
  <2>2. PICK kept : Few(kept) /\ Covered(shelf \ kept, none)'
    BY <1>3, <2>1
  <2>3. QED
    BY <2>1, <2>2 DEFS ShelfIsCovered, Few
<1>6. QED
  BY <1>4, <1>5

\* The retained files and one for each untidy run are not more than the bound.
LEMMA CoveredIsBounded ==
    ASSUME Basics, ShelfIsCovered
    PROVE  DirectoryIsBounded
<1>1. PICK kept : Few(kept) /\ Covered(shelf \ kept, {})
    BY DEF ShelfIsCovered
<1>2. IsFiniteSet(kept) /\ IsFiniteSet(shelf) /\ IsFiniteSet(Untidy)
  <2>1. IsFiniteSet(Names)
    BY KeepAssumption, FS_Interval DEF Names
  <2>2. kept \subseteq Names /\ shelf \subseteq Names /\ Untidy \subseteq Runs
    BY <1>1 DEFS Few, Basics, Types, Untidy
  <2>3. QED
    BY <2>1, <2>2, KeepAssumption, FS_Subset
<1> DEFINE rest == shelf \ kept
           owner == [n \in rest |-> CHOOSE q \in Untidy : Own(q) = n]
<1>3. IsFiniteSet(rest) /\ Cardinality(rest) <= Cardinality(Untidy)
  <2>1. \A n \in rest : owner[n] \in Untidy /\ Own(owner[n]) = n
    BY <1>1 DEF Covered
  <2>2. owner \in Injection(rest, Untidy)
    BY <2>1 DEFS Injection, IsInjective
  <2>3. QED
    BY <1>2, <2>2, FS_Injection
<1>4. Cardinality(rest \cup kept) <= Cardinality(rest) + Cardinality(kept)
        /\ IsFiniteSet(rest \cup kept)
  <2>1. Cardinality(rest \cup kept)
           = Cardinality(rest) + Cardinality(kept) - Cardinality(rest \cap kept)
    BY <1>2, <1>3, FS_Union
  <2>2. rest \cap kept = {} /\ Cardinality(rest \cap kept) = 0
    BY FS_EmptySet
  <2>3. QED
    BY <1>2, <1>3, <2>1, <2>2, FS_Union, FS_CardinalityType
<1>5. Cardinality(shelf) <= Cardinality(rest \cup kept)
    BY <1>4, FS_Subset
<1>6. Cardinality(kept) <= Keep
    BY <1>1 DEF Few
<1> HIDE DEF rest
<1>7. QED
    BY <1>2, <1>3, <1>4, <1>5, <1>6, KeepAssumption, FS_CardinalityType DEF DirectoryIsBounded

\* Every other step only adds the file of a run that has not pruned yet.
LEMMA BoundKeeps ==
    ASSUME BoundInv, [Next]_vars
    PROVE  BoundInv'
<1>1. Basics'
    BY BasicsKeep DEF BoundInv
<1> USE DEFS Basics, Types, StagesInOrder
<1>2. ASSUME NEW r \in Runs, Trigger(r) \/ Collect(r)
      PROVE  PruningSuffices' /\ ShelfIsCovered'
  <2>1. Unstamped \notin Names
    BY KeepAssumption DEFS Unstamped, Names
  <2>2. QED
    BY <1>2, <2>1, AddingKeepsBound DEFS Trigger, Collect, Goto, files, pruning, BoundInv, Pruning
<1>3. ASSUME NEW r \in Runs, OpenPdf(r) \/ ClosePdf(r)
      PROVE  PruningSuffices' /\ ShelfIsCovered'
  <2>1. r \in Untidy' /\ pc'[r] \notin Pruning
    BY <1>3 DEFS OpenPdf, ClosePdf, Goto, pruning, Untidy, Pruning, BoundInv, Later, Ended
  <2>2. \A n \in shelf' \ shelf : Own(r)' = n
    BY <1>3 DEFS OpenPdf, ClosePdf, Touch, files, Own, FileName
  <2>3. QED
    BY <1>3, <2>1, <2>2, AddingKeepsBound DEFS OpenPdf, ClosePdf, Goto, pruning, BoundInv, Pruning
<1>4. ASSUME NEW r \in Runs, UploadUrl(r) \/ Put(r) \/ Complete(r) \/ Notify(r)
      PROVE  PruningSuffices' /\ ShelfIsCovered'
    BY <1>4, AddingKeepsBound DEFS UploadUrl, Put, Complete, Notify, Skips, Raises, Missing, Goto,
       files, pruning, BoundInv, Pruning
<1>5. CASE Dies
  <2>1. UNCHANGED <<stamp, shelf, listed, doomed, tidied>>
    BY <1>5 DEFS Dies, pruning
  <2>2. \A r \in Runs : pc'[r] = pc[r] \/ (pc[r] # "idle" /\ pc'[r] = "failed")
    BY <1>5 DEFS Dies, Ended
  <2>3. \A r \in Runs : pc'[r] \in Pruning => pc'[r] = pc[r]
    BY <2>2 DEF Pruning
  <2>4. QED
    <3> HIDE DEFS Basics, Types, StagesInOrder
    <3> QED
      BY <1>1, <2>1, <2>2, <2>3, AddingKeepsBound DEF BoundInv
<1>6. CASE Tick \/ UNCHANGED vars
  <2>1. UNCHANGED <<pc, stamp, shelf, listed, doomed, tidied>>
    BY <1>6 DEFS Tick, vars, files, pruning
  <2>2. QED
    <3> HIDE DEFS Basics, Types, StagesInOrder
    <3> QED
      BY <1>1, <2>1, AddingKeepsBound DEF BoundInv
<1>7. ASSUME NEW r \in Runs, EndPruning(r), pc[r] # "unlink"
      PROVE  PruningSuffices' /\ ShelfIsCovered'
    BY <1>7, AddingKeepsBound DEFS EndPruning, Goto, files, BoundInv, Pruning
<1>8. QED
  <2> HIDE DEFS Basics, Types, StagesInOrder
  <2> QED
    BY <1>1, <1>2, <1>3, <1>4, <1>5, <1>6, <1>7, ListKeepsBound, StatKeepsBound,
       UnlinkKeepsBound, EndPruningKeepsBound DEFS BoundInv, Next, RunStep

\* The report directory holds at most the retained reports and one for each run
\* that did not get through its pruning, for any number of concurrent pipelines
\* whose listings are stale when they delete, and whatever breaks.
THEOREM BoundedDirectory == Spec => []DirectoryIsBounded
<1>1. Init => BoundInv
  <2> SUFFICES ASSUME Init PROVE BoundInv
    OBVIOUS
  <2>1. Few({}) /\ Covered(shelf \ {}, {})
    BY FS_EmptySet, KeepAssumption DEFS Few, Covered, Init
  <2>2. PruningSuffices
    BY DEFS PruningSuffices, Init, Pruning
  <2>3. QED
    BY <2>1, <2>2, BasicsStart DEFS BoundInv, ShelfIsCovered
<1>2. BoundInv => DirectoryIsBounded
    BY CoveredIsBounded DEF BoundInv
<1>3. QED
    BY <1>1, <1>2, BoundKeeps, PTL DEF Spec

-----------------------------------------------------------------------------
(* What the notice says is true.                                           *)

\* A run keeps the stamp it took, and those it shares it with.
LEMMA StampsStay ==
    ASSUME Basics, [Next]_vars, NEW r \in Runs, stamp[r] \in Names
    PROVE  stamp'[r] = stamp[r] /\ (Shares(r) => Shares(r)')
<1>1. \A q \in Runs : stamp[q] \in Names => stamp'[q] = stamp[q]
  <2>1. Unstamped \notin Names
    BY KeepAssumption DEFS Unstamped, Names
  <2>2. ASSUME NEW z \in Runs, Collect(z)
        PROVE  \A q \in Runs : stamp[q] \in Names => stamp'[q] = stamp[q]
    BY <2>1, <2>2 DEFS Collect, Goto, Basics, Types, StagesInOrder
  <2>3. QED
    BY <2>2 DEFS Next, RunStep, vars, Trigger, OpenPdf, ClosePdf, List, Stat, Unlink, EndPruning, UploadUrl,
       Put, Complete, Notify, Dies, Tick
<1>2. QED
    BY <1>1 DEF Shares

\* Until it is uploaded the file of r holds the whole report of r, if r wrote it
\* and it is still there.
Intact(r) ==
    /\ pc[r] = "write" => IF r \in linked THEN content[Own(r)] # "mixed"
                                          ELSE Own(r) \notin shelf
    /\ pc[r] \in {"list", "unlink_rest", "size", "put"} \cup Pruning /\ Own(r) \in shelf
          => content[Own(r)] = r

\* What was sent, and what is announced, is the report of r.
Truthful(r) ==
    /\ pc[r] = "complete" => upload[r] = r
    /\ delivered[r] \/ notice[r] = "delivered" => published[r] = r

NoticeInv ==
    /\ Basics
    /\ \A r \in Runs :
          IF stamp[r] \in Names THEN Shares(r) \/ (Intact(r) /\ Truthful(r))
                                ELSE ~delivered[r] /\ notice[r] = "none"

\* Another run that writes uses a name of its own; r itself writes all of it.
LEMMA WritingKeepsReport ==
    ASSUME Basics, NEW r \in Runs, stamp[r] \in Names, ~Shares(r), Intact(r), Truthful(r),
           NEW z \in Runs, OpenPdf(z) \/ ClosePdf(z)
    PROVE  Intact(r)' /\ Truthful(r)'
<1> USE DEFS Basics, Types, StagesInOrder, Goto
<1>1. Truthful(r)'
    BY DEFS Truthful, OpenPdf, ClosePdf, slack
<1>2. \A q \in Runs \ {r} : Own(q) # Own(r)
    BY DEFS Shares, Own, FileName
<1>3. Own(r)' = Own(r) /\ Own(r) \in Names
    BY DEFS OpenPdf, ClosePdf, Own, FileName
<1>4. CASE z = r
  <2>1. CASE OpenPdf(z)
    <3>1. ~\E q \in linked : Own(q) = Own(r)
      BY <1>2, <1>4, <2>1 DEF OpenPdf
    <3>2. QED
      BY <1>1, <1>3, <1>4, <2>1, <3>1 DEFS OpenPdf, Intact, Pruning
  <2>2. CASE ClosePdf(z)
    BY <1>1, <1>3, <1>4, <2>2 DEFS ClosePdf, Intact, Pruning
  <2>3. QED
    BY <2>1, <2>2
<1>5. CASE z # r
  <2>1. pc'[r] = pc[r] /\ (r \in linked' <=> r \in linked)
    BY <1>5 DEFS OpenPdf, ClosePdf, files
  <2>2. content'[Own(r)] = content[Own(r)] /\ (Own(r) \in shelf' <=> Own(r) \in shelf)
    BY <1>2, <1>3, <1>5 DEFS OpenPdf, ClosePdf, Touch, files
  <2>3. QED
    BY <1>1, <1>3, <2>1, <2>2 DEF Intact
<1>6. QED
    BY <1>4, <1>5

\* Nothing after that writes a file; a deleted one is not read again.
LEMMA OthersKeepReport ==
    ASSUME Basics, NEW r \in Runs, stamp[r] \in Names, Intact(r), Truthful(r), Basics',
           NEW z \in Runs, z = r => pc[z] # "stamp",
           \/ Trigger(z) \/ Collect(z) \/ List(z) \/ Stat(z) \/ Unlink(z) \/ EndPruning(z)
           \/ UploadUrl(z) \/ Put(z) \/ Complete(z) \/ Notify(z)
    PROVE  Intact(r)' /\ Truthful(r)'
<1> USE DEFS Basics, Types, Goto, files, slack
<1>1. CASE Trigger(z) \/ Collect(z)
    BY <1>1 DEFS Trigger, Collect, Intact, Truthful, Own, FileName, Pruning
<1>2. CASE List(z) \/ Stat(z)
    BY <1>2 DEFS List, Stat, Intact, Truthful, Own, FileName, Pruning
<1>3. CASE Unlink(z)
  <2>1. Truthful(r)'
    BY <1>3 DEFS Unlink, Truthful
  <2>2. Own(r)' = Own(r) /\ Own(r) \in Names
    BY <1>3 DEFS Unlink, Own, FileName
  <2>3. QED
    BY <1>3, <2>1, <2>2 DEFS Unlink, Intact, Pruning
<1>4. CASE UploadUrl(z)
    BY <1>4 DEFS UploadUrl, Skips, Raises, Missing, Intact, Truthful, Own, FileName, Pruning
<1>5. CASE Put(z)
  <2>1. Intact(r)'
    BY <1>5 DEFS Put, Skips, Raises, Missing, Intact, Own, FileName, Pruning
  <2>2. Truthful(r)'
    BY <1>5 DEFS Put, Skips, Raises, Missing, Intact, Truthful
  <2>3. QED
    BY <2>1, <2>2
<1>6. CASE Complete(z)
  <2>1. Intact(r)'
    BY <1>6 DEFS Complete, Skips, Raises, Intact, Own, FileName, Pruning
  <2>2. Truthful(r)'
    BY <1>6 DEFS Complete, Skips, Raises, Truthful
  <2>3. QED
    BY <2>1, <2>2
<1>7. CASE Notify(z)
    BY <1>7 DEFS Notify, Intact, Truthful, Own, FileName, Pruning
<1>8. CASE EndPruning(z)
    BY <1>8 DEFS EndPruning, Intact, Truthful, Own, FileName, Pruning
<1>9. QED
    BY <1>1, <1>2, <1>3, <1>4, <1>5, <1>6, <1>7, <1>8

LEMMA NoticeKeeps ==
    ASSUME NoticeInv, [Next]_vars
    PROVE  NoticeInv'
<1>1. Basics' /\ Basics
    BY BasicsKeep DEF NoticeInv
<1>2. ASSUME NEW r \in Runs, stamp[r] \in Names
      PROVE  stamp'[r] \in Names /\ (Shares(r)' \/ (Intact(r)' /\ Truthful(r)'))
  <2>1. stamp'[r] = stamp[r] /\ (Shares(r) => Shares(r)')
    BY <1>1, <1>2, StampsStay
  <2> SUFFICES ASSUME ~Shares(r), Intact(r), Truthful(r)
               PROVE  Intact(r)' /\ Truthful(r)'
    BY <1>2, <2>1 DEF NoticeInv
  <2>2. CASE \E z \in Runs : RunStep(z)
    <3>1. PICK z \in Runs : RunStep(z)
      BY <2>2
    <3>2. pc[r] # "stamp"
      BY <1>1, <1>2, KeepAssumption DEFS Basics, StagesInOrder, Unstamped, Names
    <3>3. QED
      BY <1>1, <1>2, <3>1, <3>2, WritingKeepsReport, OthersKeepReport DEF RunStep
  <2>3. CASE Dies
    BY <1>1, <2>3 DEFS Dies, Intact, Truthful, slack, Own, FileName, Basics, Types, Pruning, Ended
  <2>4. CASE Tick \/ UNCHANGED vars
    BY <2>4 DEFS Tick, vars, files, slack, Intact, Truthful, Own, FileName
  <2>5. QED
    BY <2>2, <2>3, <2>4 DEF Next
<1>3. ASSUME NEW r \in Runs, stamp[r] \notin Names
      PROVE  /\ ~delivered'[r] /\ notice'[r] = "none"
             /\ stamp'[r] \in Names => Intact(r)' /\ Truthful(r)'
  <2>1. ~delivered[r] /\ notice[r] = "none" /\ pc[r] \in {"idle", "stamp", "failed"}
    BY <1>1, <1>3 DEFS NoticeInv, Basics, StagesInOrder
  <2>2. ~delivered'[r] /\ notice'[r] = "none"
    BY <1>1, <2>1 DEFS Next, RunStep, vars, slack, Trigger, Collect, OpenPdf, ClosePdf, List, Stat,
       Unlink, EndPruning, UploadUrl, Put, Complete, Notify, Dies, Tick, Goto, Basics, Types
  <2>3. ASSUME stamp'[r] \in Names PROVE pc'[r] = "render"
    BY <1>1, <1>3, <2>1, <2>3 DEFS Next, RunStep, vars, Trigger, Collect, OpenPdf, ClosePdf, List,
       Stat, Unlink, EndPruning, UploadUrl, Put, Complete, Notify, Dies, Tick, Goto, Basics, Types
  <2>4. QED
    BY <2>2, <2>3 DEFS Intact, Truthful, Pruning
<1>4. QED
    BY <1>1, <1>2, <1>3 DEF NoticeInv

\* "Delivered to Slack" is pushed only when Slack has published this run's own
\* report, whole, however many pipelines write and delete beside it; only runs of
\* one second are exempt.
THEOREM TrueNotice == Spec => []NoticeIsTrue
<1>1. Init => NoticeInv
  <2>1. Unstamped \notin Names
    BY KeepAssumption DEFS Unstamped, Names
  <2>2. QED
    BY <2>1, BasicsStart DEFS Init, NoticeInv
<1>2. NoticeInv => NoticeIsTrue
    BY DEFS NoticeInv, Truthful, NoticeIsTrue
<1>3. QED
    BY <1>1, <1>2, NoticeKeeps, PTL DEF Spec

-----------------------------------------------------------------------------
(* A report is not deleted under its own run.                              *)

\* Every file, and every name still to be deleted, is of a run that wrote it.
Written(n) == \E q \in Begun : Own(q) = n
NamesHaveWriters ==
    /\ \A n \in shelf : Written(n)
    /\ \A z \in Runs : \A n \in doomed[z] : Written(n)

\* The files newer than that of r are of runs that wrote after r began.
RivalsAreNewer(r) == \A m \in newer[Own(r)] : \E q \in rivals[r] : Own(q) = m

Outnumbered(r) == Cardinality(rivals[r]) >= Keep
Wrote == {"write", "list"} \cup Pruning \cup (Later \ {"failed"})

\* Whoever misses its file or is about to lose it has Keep rivals.
LossIsEarned(r) ==
    /\ r \in Begun => RivalsAreNewer(r)
    /\ pc[r] \in Wrote /\ Own(r) \notin shelf => Outnumbered(r)
    /\ \A z \in Runs : Own(r) \in doomed[z] => Outnumbered(r)
    /\ pc[r] = "lost" => Outnumbered(r)

LossInv ==
    /\ Basics /\ NamesHaveWriters
    /\ \A r \in Runs : stamp[r] \in Names => Shares(r) \/ LossIsEarned(r)

\* A run that began stays one that began; its rivals only grow in number.
LEMMA RivalsGrow ==
    ASSUME Basics, [Next]_vars, NEW r \in Runs
    PROVE  /\ r \in Begun => r \in Begun'
           /\ rivals[r] \subseteq rivals'[r]
           /\ Outnumbered(r) => Outnumbered(r)'
<1> USE DEFS Basics, Types
<1>1. r \in Begun => r \in Begun'
    BY DEFS Begun, Next, RunStep, vars, Trigger, Collect, OpenPdf, ClosePdf, List, Stat, Unlink, EndPruning,
       UploadUrl, Put, Complete, Notify, Skips, Raises, Missing, Dies, Tick, Goto
<1>2. rivals[r] \subseteq rivals'[r]
    BY DEFS Next, RunStep, vars, Trigger, Collect, OpenPdf, ClosePdf, List, Stat, Unlink, EndPruning,
       UploadUrl, Put, Complete, Notify, Dies, Tick, Rival
<1>3. rivals'[r] \subseteq Runs
    BY BasicsKeep
<1>4. Outnumbered(r) => Outnumbered(r)'
  <2>1. IsFiniteSet(rivals[r]) /\ IsFiniteSet(rivals'[r])
    BY <1>2, <1>3, KeepAssumption, FS_Subset
  <2>2. Cardinality(rivals[r]) <= Cardinality(rivals'[r])
    BY <1>2, <2>1, FS_Subset
  <2>3. QED
    BY <2>1, <2>2, KeepAssumption, FS_CardinalityType DEF Outnumbered
<1>5. QED
    BY <1>1, <1>2, <1>4

\* What a run decides to delete it found in a listing that was not stale then.
LEMMA DecisionIsFresh ==
    ASSUME Basics, [Next]_vars, NEW z \in Runs
    PROVE  \/ doomed'[z] \subseteq doomed[z]
           \/ listed[z] \subseteq shelf /\ doomed'[z] = Doomed(listed[z])
<1>1. CASE \E r \in Runs : Stat(r)
    BY <1>1 DEFS Stat, Goto, Basics, Types
<1>2. CASE \E r \in Runs : Unlink(r)
    BY <1>2 DEFS Unlink, Basics, Types
<1>3. QED
    BY <1>1, <1>2 DEFS Next, RunStep, vars, pruning, Trigger, Collect, OpenPdf, ClosePdf, List,
       EndPruning, UploadUrl, Put, Complete, Notify, Dies, Tick

\* A file that comes to the shelf is of the run that writes it, and a name comes
\* to be deleted from the shelf.
LEMMA WritersKeep ==
    ASSUME Basics, NamesHaveWriters, [Next]_vars
    PROVE  NamesHaveWriters'
<1>1. ASSUME NEW n, Written(n) PROVE Written(n)'
  <2>1. PICK q \in Begun : Own(q) = n
    BY <1>1 DEF Written
  <2>2. q \in Begun'
    BY RivalsGrow DEF Begun
  <2>3. Own(q)' = Own(q)
    <3>1. CASE stamp[q] \in Names
      BY <3>1, StampsStay DEFS Own, FileName, Begun
    <3>2. CASE stamp[q] \notin Names
      <4>1. pc[q] = "failed"
        BY <3>2 DEFS Basics, StagesInOrder, Begun
      <4>2. QED
        BY <4>1 DEFS Next, RunStep, vars, Trigger, Collect, OpenPdf, ClosePdf, List, Stat, Unlink, EndPruning,
           UploadUrl, Put, Complete, Notify, Dies, Tick, Goto, Own, FileName, Begun, Basics, Types
    <3>3. QED
      BY <3>1, <3>2
  <2>4. QED
    BY <2>1, <2>2, <2>3 DEF Written
<1>2. ASSUME NEW n \in shelf' \ shelf PROVE Written(n)'
  <2>1. PICK z \in Runs : (OpenPdf(z) \/ ClosePdf(z)) /\ Touch(z)
    BY <1>2 DEFS Next, RunStep, vars, files, Trigger, Collect, OpenPdf, ClosePdf, List, Stat,
       Unlink, EndPruning, UploadUrl, Put, Complete, Notify, Dies, Tick
  <2>2. n = Own(z) /\ Own(z)' = Own(z) /\ z \in Begun'
    BY <1>2, <2>1 DEFS Touch, OpenPdf, ClosePdf, Own, FileName, Begun, Goto, Basics, Types
  <2>3. QED
    BY <2>2 DEF Written
<1>3. ASSUME NEW z \in Runs, NEW n \in doomed'[z] PROVE n \in doomed[z] \/ n \in shelf
    BY <1>3, DecisionIsFresh DEF Doomed
<1>4. QED
    BY <1>1, <1>2, <1>3 DEF NamesHaveWriters

\* A name that r shares with nobody is written by r alone.
LEMMA OnlyWriter ==
    ASSUME NEW r \in Runs, ~Shares(r), Written(Own(r))
    PROVE  r \in Begun
    BY DEFS Written, Shares, Own, FileName, Begun

\* To decide against the file of r takes Keep newer ones, each of a rival.
LEMMA DecisionIsEarned ==
    ASSUME Basics, NamesHaveWriters, NEW r \in Runs, ~Shares(r), LossIsEarned(r),
           NEW found \in SUBSET shelf, Own(r) \in Doomed(found)
    PROVE  Outnumbered(r)
<1> DEFINE later == newer[Own(r)] \cap found
           author == [m \in later |-> CHOOSE q \in rivals[r] : Own(q) = m]
<1>1. \A m \in later : \E q \in rivals[r] : Own(q) = m
    BY OnlyWriter DEFS Doomed, NamesHaveWriters, LossIsEarned, RivalsAreNewer
<1>2. author \in Injection(later, rivals[r])
  <2>1. \A m \in later : author[m] \in rivals[r] /\ Own(author[m]) = m
    BY <1>1
  <2>2. QED
    BY <2>1 DEFS Injection, IsInjective
<1>3. IsFiniteSet(rivals[r])
    BY KeepAssumption, FS_Subset DEFS Basics, Types
<1>4. IsFiniteSet(later) /\ Cardinality(later) <= Cardinality(rivals[r])
    BY <1>2, <1>3, FS_Injection
<1>5. Cardinality(later) >= Keep
    BY DEF Doomed
<1> HIDE DEF later
<1>6. QED
    BY <1>3, <1>4, <1>5, KeepAssumption, FS_CardinalityType DEF Outnumbered

\* A write of another run makes it a rival of r; one of r itself leaves none newer.
LEMMA RivalsStayNewer ==
    ASSUME Basics, NamesHaveWriters, [Next]_vars, NEW r \in Runs, stamp[r] \in Names,
           ~Shares(r), r \in Begun => RivalsAreNewer(r), r \in Begun'
    PROVE  RivalsAreNewer(r)'
<1> USE DEFS Basics, Types
<1>1. /\ \A q \in Runs : stamp[q] \in Names => Own(q)' = Own(q)
      /\ Own(r)' = Own(r) /\ Own(r) \in Names
    BY StampsStay DEFS Own, FileName
<1>2. \A m \in newer[Own(r)] : \E q \in rivals[r] : Own(q) = m
  <2>1. CASE r \in Begun
    BY <2>1 DEF RivalsAreNewer
  <2>2. CASE r \notin Begun
    <3>1. Own(r) \notin shelf
      BY <2>2, OnlyWriter DEF NamesHaveWriters
    <3>2. QED
      BY <1>1, <3>1 DEF ShelfOrder
  <2>3. QED
    BY <2>1, <2>2
<1>3. \A m \in newer[Own(r)] : \E q \in rivals'[r] : Own(q)' = m
    BY <1>1, <1>2, RivalsGrow DEFS ShelfOrder, Own, FileName
<1>4. ASSUME NEW m \in newer'[Own(r)], m \notin newer[Own(r)]
      PROVE  \E q \in rivals'[r] : Own(q)' = m
  <2>1. PICK z \in Runs : (OpenPdf(z) \/ ClosePdf(z)) /\ Touch(z) /\ Rival(z)
    <3>1. CASE \E z \in Runs : Unlink(z)
      BY <1>1, <1>4, <3>1 DEFS Unlink, files
    <3>2. CASE newer' = newer
      BY <1>4, <3>2
    <3>3. QED
      BY <3>1, <3>2 DEFS Next, RunStep, vars, files, Trigger, Collect, OpenPdf, ClosePdf, List,
         Stat, EndPruning, UploadUrl, Put, Complete, Notify, Dies, Tick
  <2>2. m = Own(z) /\ Own(r) \in shelf \ {Own(z)}
    BY <1>1, <1>4, <2>1 DEF Touch
  <2>3. r \in Begun /\ z # r
    BY <2>2, OnlyWriter DEF NamesHaveWriters
  <2>4. z \in rivals'[r] /\ Own(z)' = Own(z)
    BY <2>1, <2>3 DEFS Rival, OpenPdf, ClosePdf, Own, FileName
  <2>5. QED
    BY <2>2, <2>4
<1>5. QED
    BY <1>1, <1>3, <1>4 DEF RivalsAreNewer

LEMMA LossKeeps ==
    ASSUME LossInv, [Next]_vars
    PROVE  LossInv'
<1>1. Basics' /\ Basics /\ NamesHaveWriters /\ NamesHaveWriters'
    BY BasicsKeep, WritersKeep DEF LossInv
<1>2. ASSUME NEW r \in Runs, stamp[r] \in Names, ~Shares(r), LossIsEarned(r)
      PROVE  LossIsEarned(r)'
  <2>1. Own(r)' = Own(r) /\ Own(r) \in Names
    BY <1>1, <1>2, StampsStay DEFS Own, FileName
  <2>2. Outnumbered(r) => Outnumbered(r)'
    BY <1>1, RivalsGrow
  <2>3. (r \in Begun => RivalsAreNewer(r))'
    BY <1>1, <1>2, RivalsStayNewer DEF LossIsEarned
  <2>4. ASSUME NEW z \in Runs, Own(r) \in doomed'[z] PROVE Outnumbered(r)
    <3>1. CASE Own(r) \in doomed[z]
      BY <1>2, <3>1 DEF LossIsEarned
    <3>2. CASE Own(r) \notin doomed[z]
      <4>1. listed[z] \subseteq shelf /\ doomed'[z] = Doomed(listed[z])
        BY <1>1, <2>4, <3>2, DecisionIsFresh
      <4>2. QED
        BY <1>1, <1>2, <2>4, <4>1, DecisionIsEarned
    <3>3. QED
      BY <3>1, <3>2
  <2>5. ASSUME pc'[r] \in Wrote, Own(r) \notin shelf' PROVE Outnumbered(r)
    <3>1. CASE Own(r) \in shelf
      <4>1. PICK z \in Runs : Own(r) \in doomed[z]
        BY <2>5, <3>1 DEFS Next, RunStep, vars, files, Trigger, Collect, OpenPdf, ClosePdf, List,
           Stat, Unlink, EndPruning, UploadUrl, Put, Complete, Notify, Dies, Tick, Touch
      <4>2. QED
        BY <1>2, <4>1 DEF LossIsEarned
    <3>2. CASE Own(r) \notin shelf
      <4>1. pc[r] \in Wrote
        BY <1>1, <2>5, <3>2 DEFS Next, RunStep, vars, files, Trigger, Collect, OpenPdf, ClosePdf,
           List, Stat, Unlink, EndPruning, UploadUrl, Put, Complete, Notify, Skips, Raises, Missing, Dies, Tick,
           Touch, Goto, Wrote, Later, Ended, Pruning, Basics, Types
      <4>2. QED
        BY <1>2, <3>2, <4>1 DEF LossIsEarned
    <3>3. QED
      BY <3>1, <3>2
  <2>6. ASSUME pc'[r] = "lost" PROVE Outnumbered(r)
    <3>1. pc[r] = "lost" \/ (pc[r] \in {"size", "put"} /\ Own(r) \notin shelf)
      BY <1>1, <2>6 DEFS Next, RunStep, vars, Trigger, Collect, OpenPdf, ClosePdf, List, Stat,
         Unlink, EndPruning, UploadUrl, Put, Complete, Notify, Skips, Raises, Missing, Dies, Tick, Goto,
         Basics, Types
    <3>2. QED
      BY <1>2, <3>1 DEFS LossIsEarned, Wrote, Later
  <2>7. QED
    BY <2>1, <2>2, <2>3, <2>4, <2>5, <2>6 DEF LossIsEarned
<1>3. ASSUME NEW r \in Runs, stamp[r] \notin Names, stamp'[r] \in Names, ~Shares(r)'
      PROVE  LossIsEarned(r)'
  <2>1. pc'[r] = "render"
    BY <1>1, <1>3 DEFS Next, RunStep, vars, Trigger, Collect, OpenPdf, ClosePdf, List, Stat, Unlink, EndPruning,
       UploadUrl, Put, Complete, Notify, Dies, Tick, Goto, Basics, Types
  <2>2. r \notin Begun'
    BY <2>1 DEF Begun
  <2>3. \A z \in Runs : Own(r)' \notin doomed'[z]
    BY <1>1, <1>3, <2>2 DEFS NamesHaveWriters, Written, Shares, Own, FileName, Begun
  <2>4. QED
    BY <2>1, <2>2, <2>3 DEFS LossIsEarned, Wrote, Later, Ended, Pruning
<1>4. ASSUME NEW r \in Runs, stamp'[r] \in Names, ~Shares(r)'
      PROVE  LossIsEarned(r)'
  <2>1. CASE stamp[r] \in Names
    BY <1>1, <1>2, <1>4, <2>1, StampsStay DEF LossInv
  <2>2. QED
    BY <1>3, <1>4, <2>1
<1>5. QED
    BY <1>1, <1>4 DEF LossInv

\* A run misses its own report only after as many other runs as reports are kept
\* have written theirs: pruning, stale listings included, takes no younger file.
THEOREM EarnedLoss == Spec => []LossNeedsRivals
<1>1. Init => LossInv
  <2>1. Unstamped \notin Names
    BY KeepAssumption DEFS Unstamped, Names
  <2>2. QED
    BY <2>1, BasicsStart DEFS Init, LossInv, NamesHaveWriters
<1>2. LossInv => LossNeedsRivals
    BY DEFS LossInv, Basics, StagesInOrder, LossIsEarned, Outnumbered, LossNeedsRivals
<1>3. QED
    BY <1>1, <1>2, LossKeeps, PTL DEF Spec
=============================================================================
