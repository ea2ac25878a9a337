------------------------- MODULE IntelRetention_proofs -------------------------
(***************************************************************************)
(* For every finite set of indicators and of runs, any number of refreshes *)
(* and every fault: retention deletes only what is expired, a run that     *)
(* ends clean has done its work, the guard binds the task and ordinary     *)
(* retention raises no alarm.  The argument for the last one: while no     *)
(* task has gone past the guard, what all tasks together may still delete  *)
(* is at most what will remain (Margin), and nothing of the newest refresh *)
(* is among it (HitsAreOld).                                               *)
(***************************************************************************)
EXTENDS IntelRetention, FiniteSetTheorems, TLAPS

USE DEF Total

Live == Present \ Expired
Sought == {d \in Docs : \E r \in Runs : d \in hits[r]}
Newest == {d \in Present : stamp[d] = latest}

\* A task starts when its run is through with the guard.
Phases == \A r \in Runs :
    /\ pc[r] \in {"idle", "guard", "kickoff"} => task[r] = "none" /\ r \notin wild
    /\ task[r] = "none" => hits[r] = {} /\ r \notin culprits

HitsAreOld == \A r \in Runs :
    /\ hits[r] \subseteq Expired
    /\ wild = {} => \A d \in hits[r] : stamp[d] < latest

\* What a run has still to see deleted is what its task has still to delete.
WorkLeft == \A r \in Runs :
    /\ pc[r] = "poll" /\ task[r] = "running" => due[r] \subseteq hits[r]
    /\ pc[r] = "poll" /\ task[r] = "clean" => due[r] = {}
    /\ verdict[r] = "clean" => pc[r] = "ended"

\* The count holds until the guard uses it, and the guard's result until the
\* task starts, unless the run is excused.
GuardCounts == \A r \in Runs \ excused :
    /\ pc[r] = "guard" => Cardinality(Expired) <= matched[r]
    /\ pc[r] = "kickoff" => Cardinality(Expired) <= Cardinality(Live) \/ Total < MinDocs

Margin == wild = {} => Cardinality(Sought) <= Cardinality(Present \ Sought)

HeartbeatKept == ~amiss /\ wild = {} => heartbeat <= Cardinality(Newest)

BaselineKept == wild = {} =>
    /\ culprits = {} => baseline <= Total
    /\ \A r \in Runs : culprits = {r} => baseline <= 2 * Cardinality(Present \ hits[r])

IInv == /\ TypeOK /\ Phases /\ HitsAreOld /\ WorkLeft /\ CleanRunMeansDone
        /\ GuardHolds /\ GuardCounts /\ Margin /\ HeartbeatKept /\ BaselineKept

-----------------------------------------------------------------------------
(* Counting.                                                               *)

\* A part of a set of documents and the rest of it.
LEMMA Counting ==
    ASSUME NEW S \in SUBSET Docs, NEW T \in SUBSET S
    PROVE  /\ Cardinality(S) \in Nat /\ Cardinality(T) \in Nat
           /\ Cardinality(S \ T) \in Nat
           /\ Cardinality(T) <= Cardinality(S)
           /\ Cardinality(S) = Cardinality(T) + Cardinality(S \ T)
<1>1. IsFiniteSet(S)
    BY FinitenessAssumption, FS_Subset
<1>2. IsFiniteSet(T) /\ Cardinality(T) <= Cardinality(S)
    BY <1>1, FS_Subset
<1>3. IsFiniteSet(S \ T) /\ Cardinality(S \ T) = Cardinality(S) - Cardinality(S \cap T)
    BY <1>1, FS_Difference
<1>4. S \cap T = T
    OBVIOUS
<1>5. /\ Cardinality(S) \in Nat /\ Cardinality(T) \in Nat
      /\ Cardinality(S \ T) \in Nat
    BY <1>1, <1>2, <1>3, FS_CardinalityType
<1>6. Cardinality(S \ T) = Cardinality(S) - Cardinality(T)
    BY <1>3, <1>4
<1>7. QED
    BY <1>2, <1>5, <1>6

\* At most one culprit is none or a single one.
LEMMA FewCulprits ==
    ASSUME culprits \in SUBSET Runs
    PROVE  /\ Cardinality(culprits) \in Nat
           /\ ~(Cardinality(culprits) > 1) => culprits = {} \/ \E r \in Runs : culprits = {r}
<1>1. IsFiniteSet(culprits)
    BY FinitenessAssumption, FS_Subset
<1>2. Cardinality(culprits) \in Nat
    BY <1>1, FS_CardinalityType
<1>3. Cardinality(culprits) = 0 => culprits = {}
    BY <1>1, FS_EmptySet
<1>4. Cardinality(culprits) = 1 => \E r : culprits = {r}
    BY <1>1, FS_Singleton
<1>5. QED
    BY <1>2, <1>3, <1>4

\* The sets of documents the invariant counts.
LEMMA Sets ==
    ASSUME TypeOK, HitsAreOld
    PROVE  /\ Present \in SUBSET Docs /\ Expired \in SUBSET Present
           /\ Live \in SUBSET Present /\ Sought \in SUBSET Expired
           /\ Newest \in SUBSET Present
           /\ \A r \in Runs : hits[r] \in SUBSET Sought
BY DEF TypeOK, HitsAreOld, Present, Expired, Live, Sought, Newest

\* While no task is past the guard, a single task leaves half of what there is.
LEMMA OneTaskLeavesHalf ==
    ASSUME TypeOK, HitsAreOld, Margin, wild = {}, NEW r \in Runs
    PROVE  Total <= 2 * Cardinality(Present \ hits[r])
<1>1. hits[r] \in SUBSET Sought /\ Sought \in SUBSET Present /\ Present \in SUBSET Docs
    BY Sets
<1>2. /\ Cardinality(hits[r]) <= Cardinality(Sought)
      /\ Cardinality(Sought) \in Nat /\ Cardinality(hits[r]) \in Nat
    BY <1>1, Counting
<1>3. Cardinality(Sought) <= Cardinality(Present \ Sought)
    BY DEF Margin
<1>4. /\ Cardinality(Present \ Sought) <= Cardinality(Present \ hits[r])
      /\ Cardinality(Present \ Sought) \in Nat /\ Cardinality(Present \ hits[r]) \in Nat
  <2>1. Present \ Sought \in SUBSET (Present \ hits[r]) /\ Present \ hits[r] \in SUBSET Docs
    BY <1>1
  <2>2. QED
    BY <2>1, Counting
<1>5. Total = Cardinality(hits[r]) + Cardinality(Present \ hits[r])
    BY <1>1, Counting
<1>6. Cardinality(Present) \in Nat
    BY <1>1, Counting
<1>7. QED
    BY <1>2, <1>3, <1>4, <1>5, <1>6

-----------------------------------------------------------------------------
(* Every step preserves the invariant.                                     *)

\* What only speaks of the documents, the tasks and the samples.
DocsInv == HitsAreOld /\ Margin /\ HeartbeatKept /\ BaselineKept

\* The steps of a run, but for its kickoff, leave that alone.
LEMMA ClientFrame ==
    ASSUME IInv, UNCHANGED <<index, server, sampler, culprits>>
    PROVE  /\ DocsInv'
           /\ Expired' = Expired /\ Live' = Live /\ Present' = Present
BY DEF IInv, DocsInv, HitsAreOld, Margin, HeartbeatKept, BaselineKept,
       Sought, Newest, Live, Expired, Present, index, server, sampler

\* Empty at first.
LEMMA InitHolds == Init => IInv
<1> SUFFICES ASSUME Init PROVE IInv
    OBVIOUS
<1>1. Present = {} /\ Expired = {} /\ Live = {} /\ Sought = {} /\ Newest = {}
    BY DEF Init, Present, Expired, Live, Sought, Newest
<1>2. Cardinality({}) = 0 /\ Cardinality(Docs) \in Nat
    BY FS_EmptySet, FS_CardinalityType, FinitenessAssumption
<1>3. TypeOK
  <2>1. \A r \in Runs : /\ hits[r] = {} /\ due[r] = {} /\ pc[r] = "idle"
    BY DEF Init
  <2>2. hits \in [Runs -> SUBSET Docs] /\ due \in [Runs -> SUBSET Docs]
    BY DEF Init
  <2>3. /\ latest \in 0..Refreshes /\ cutoff \in 0..latest
        /\ heartbeat \in 0..Cardinality(Docs) /\ baseline \in 0..Cardinality(Docs)
    BY <1>2, BoundsAssumption DEF Init
  <2> amiss \in BOOLEAN
    BY DEF Init
  <2> stamp \in [Docs -> 0..latest]
    BY DEF Init
  <2>4. matched \in [Runs -> 0..Cardinality(Docs)]
    BY <1>2 DEF Init
  <2>5. /\ pc \in [Runs -> {"idle", "guard", "kickoff", "poll", "ended"}]
        /\ verdict \in [Runs -> {"none", "clean", "failed"}]
        /\ task \in [Runs -> {"none", "running", "clean", "dirty", "broken"}]
        /\ wild \subseteq Runs /\ excused \subseteq Runs
        /\ flagged \in {"idle", "no", "drop", "error"} /\ culprits \subseteq Runs
    BY DEF Init
  <2>6. QED
    BY <2>1, <2>2, <2>3, <2>4, <2>5 DEF TypeOK
<1>4. Phases /\ HitsAreOld /\ WorkLeft /\ CleanRunMeansDone /\ GuardHolds /\ GuardCounts
    BY <1>1 DEF Init, Phases, HitsAreOld, WorkLeft, CleanRunMeansDone, GuardHolds, GuardCounts
<1>5. Margin
    BY <1>1, <1>2 DEF Margin, Init
<1>6. HeartbeatKept /\ BaselineKept
    BY <1>1, <1>2 DEF HeartbeatKept, BaselineKept, Init
<1>7. QED
    BY <1>3, <1>4, <1>5, <1>6 DEF IInv

LEMMA CountMatchedHolds ==
    ASSUME IInv, NEW r \in Runs, CountMatched(r) PROVE IInv'
<1>1. /\ DocsInv' /\ Expired' = Expired /\ Live' = Live /\ Present' = Present
    BY ClientFrame DEF CountMatched
<1>2. /\ Cardinality(Expired) \in 0..Cardinality(Docs)
      /\ Expired = {} => Cardinality(Expired) = 0
      /\ Cardinality(Live) \in Nat
  <2>1. Expired \in SUBSET Docs /\ Live \in SUBSET Docs /\ Docs \in SUBSET Docs
    BY Sets DEF IInv
  <2>2. /\ Cardinality(Expired) \in Nat /\ Cardinality(Docs) \in Nat
        /\ Cardinality(Expired) <= Cardinality(Docs) /\ Cardinality(Live) \in Nat
    BY <2>1, Counting
  <2>3. QED
    BY <2>2, FS_EmptySet
<1> USE DEF IInv, index, server, sampler
<1>3. TypeOK'
  <2>1. /\ pc' \in [Runs -> {"idle", "guard", "kickoff", "poll", "ended"}]
        /\ verdict' \in [Runs -> {"none", "clean", "failed"}]
        /\ \A q \in Runs : pc'[q] = "poll" => pc[q] = "poll"
        /\ excused' \subseteq Runs
    BY DEF CountMatched, TypeOK, Ends, Goto
  <2>2. /\ matched' \in [Runs -> 0..Cardinality(Docs)]
        /\ due' \in [Runs -> SUBSET Docs]
        /\ \A q \in Runs : due'[q] \subseteq Expired
    <3>1. Expired \in SUBSET Docs
      BY Sets
    <3>2. CASE due' = [due EXCEPT ![r] = Expired]
               /\ matched' = [matched EXCEPT ![r] = Cardinality(Expired)]
      BY <3>1, <3>2, <1>2 DEF TypeOK
    <3>3. CASE due' = [due EXCEPT ![r] = {}] /\ UNCHANGED matched
      BY <3>3 DEF TypeOK
    <3>4. QED
      BY <3>2, <3>3 DEF CountMatched, Ends
  <2>3. QED
    BY <1>1, <2>1, <2>2 DEF CountMatched, TypeOK
<1>4. Phases' /\ WorkLeft' /\ CleanRunMeansDone' /\ GuardHolds'
    BY DEF CountMatched, Phases, WorkLeft, CleanRunMeansDone, GuardHolds, TypeOK, Ends, Goto
<1>5. GuardCounts'
    BY <1>1, <1>2 DEF CountMatched, GuardCounts, TypeOK, Ends, Goto
<1>6. QED
    BY <1>1, <1>3, <1>4, <1>5 DEF DocsInv

\* The guard: not more than half, or hardly any documents.
LEMMA CountTotalHolds ==
    ASSUME IInv, NEW r \in Runs, CountTotal(r) PROVE IInv'
<1>1. /\ DocsInv' /\ Expired' = Expired /\ Live' = Live /\ Present' = Present
    BY ClientFrame DEF CountTotal
<1>2. /\ Cardinality(Expired) \in Nat /\ Cardinality(Live) \in Nat
      /\ Total = Cardinality(Expired) + Cardinality(Live)
  <2>1. Expired \in SUBSET Present /\ Present \in SUBSET Docs
    BY Sets DEF IInv
  <2>2. QED
    BY <2>1, Counting DEF Live
<1>3. Cardinality(Docs) \in Nat
    BY FinitenessAssumption, FS_CardinalityType
<1> USE DEF IInv, index, server, sampler
<1>4. TypeOK'
    BY <1>1, <1>3 DEF CountTotal, TypeOK, Ends, Goes, Goto
<1>5. Phases' /\ WorkLeft' /\ CleanRunMeansDone' /\ GuardHolds'
    BY DEF CountTotal, Phases, WorkLeft, CleanRunMeansDone, GuardHolds, TypeOK, Ends, Goes, Goto
<1>6. GuardCounts'
  <2> SUFFICES ASSUME NEW q \in Runs \ excused'
               PROVE  /\ pc'[q] = "guard" => Cardinality(Expired) <= matched'[q]
                      /\ pc'[q] = "kickoff" =>
                             Cardinality(Expired) <= Cardinality(Live) \/ Total < MinDocs
    BY <1>1 DEF GuardCounts
  <2>1. CASE q = r /\ pc'[r] = "kickoff"
    <3>1. pc[r] = "guard" /\ ~TooMany(matched[r], Total) /\ r \notin excused
      BY <2>1 DEF CountTotal, TypeOK, Ends, Goes, Goto
    <3>2. Cardinality(Expired) <= matched[r] /\ matched[r] \in Nat
      BY <3>1, <1>3 DEF GuardCounts, TypeOK
    <3>3. QED
      BY <2>1, <3>1, <3>2, <1>2, BoundsAssumption DEF TooMany
  <2>2. CASE q = r /\ pc'[r] = "ended"
    BY <2>2
  <2>3. CASE q # r
    BY <2>3, <1>1 DEF CountTotal, GuardCounts, TypeOK, Ends, Goes, Goto
  <2>4. pc'[r] \in {"kickoff", "ended"}
    BY DEF CountTotal, TypeOK, Ends, Goes, Goto
  <2>5. QED
    BY <2>1, <2>2, <2>3, <2>4
<1>7. QED
    BY <1>1, <1>4, <1>5, <1>6 DEF DocsInv

\* A run that polls, or dies.
LEMMA LateStepHolds ==
    ASSUME IInv, NEW r \in Runs, PollTask(r) \/ RunDies(r) PROVE IInv'
<1>1. /\ DocsInv' /\ Expired' = Expired /\ Live' = Live /\ Present' = Present
    BY ClientFrame DEF PollTask, RunDies
<1>2. Cardinality(Docs) \in Nat
    BY FinitenessAssumption, FS_CardinalityType
<1> USE DEF IInv, index, server, sampler
<1>3. TypeOK'
    BY <1>1, <1>2 DEF PollTask, RunDies, Judged, TypeOK, Ends, Goto
<1>4. Phases' /\ WorkLeft' /\ GuardHolds'
    BY DEF PollTask, RunDies, Judged, Phases, WorkLeft, GuardHolds, TypeOK, Ends, Goto
<1>5. CleanRunMeansDone'
    BY DEF PollTask, RunDies, Judged, WorkLeft, CleanRunMeansDone, TypeOK, Ends, Goto
<1>6. GuardCounts'
    BY <1>1 DEF PollTask, RunDies, Judged, GuardCounts, TypeOK, Ends, Goto
<1>7. QED
    BY <1>1, <1>3, <1>4, <1>5, <1>6 DEF DocsInv


\* Counting runs are excused when the cutoff passes a refresh.
LEMMA AgeOutHolds ==
    ASSUME IInv, AgeOut PROVE IInv'
<1> USE DEF IInv
<1>1. Present' = Present /\ Expired \in SUBSET (Expired') /\ cutoff' \in 0..latest
    BY DEF AgeOut, TypeOK, Present, Expired
<1>2. TypeOK'
  <2>1. excused' \subseteq Runs
    BY DEF AgeOut, Overtaken, CountingRuns, TypeOK
  <2>2. \A r \in Runs : hits'[r] \subseteq Present' /\ due'[r] \subseteq Expired'
    BY <1>1 DEF AgeOut, TypeOK, server
  <2>3. QED
    BY <1>1, <2>1, <2>2 DEF AgeOut, TypeOK, client, server, sampler
<1>3. Phases' /\ WorkLeft' /\ CleanRunMeansDone' /\ GuardHolds'
    BY DEF AgeOut, Overtaken, CountingRuns, Phases, WorkLeft, CleanRunMeansDone, GuardHolds,
           client, server
<1>4. GuardCounts'
    BY DEF AgeOut, Overtaken, CountingRuns, GuardCounts, client
<1>5. HitsAreOld'
    BY <1>1 DEF AgeOut, HitsAreOld, server
<1>6. Margin' /\ HeartbeatKept' /\ BaselineKept'
    BY <1>1 DEF AgeOut, Margin, HeartbeatKept, BaselineKept, Sought, Newest,
           server, sampler
<1>7. QED
    BY <1>2, <1>3, <1>4, <1>5, <1>6

\* A refresh only takes from what the tasks may delete, and adds to the rest.
LEMMA RefreshHolds ==
    ASSUME IInv, Refresh PROVE IInv'
<1> USE DEF IInv
<1>1. PICK feed \in SUBSET Docs, landed \in SUBSET Docs :
          /\ landed \subseteq feed
          /\ stamp' = [d \in Docs |-> IF d \in landed THEN latest + 1 ELSE stamp[d]]
          /\ Rewritten(landed) /\ Overtaken(~(landed \subseteq Present))
          /\ \/ heartbeat' = Cardinality(feed) /\ amiss' = (landed # feed)
             \/ amiss' = TRUE /\ UNCHANGED heartbeat
    BY DEF Refresh
<1>2. /\ latest \in Nat /\ cutoff \in Nat /\ cutoff <= latest /\ latest' = latest + 1
      /\ latest' \in 0..Refreshes /\ cutoff' = cutoff
      /\ \A d \in Docs : stamp[d] \in Nat /\ stamp[d] <= latest
    BY BoundsAssumption DEF Refresh, TypeOK
<1>3. Present' = Present \cup landed /\ Expired' = Expired \ landed
    BY <1>1, <1>2 DEF Present, Expired
<1>4. \A q \in Runs : hits'[q] = hits[q] \ landed /\ due'[q] = due[q] \ landed
    BY <1>1 DEF Rewritten
<1>5. Sought' = Sought \ landed
    BY <1>4 DEF Sought
<1>6. /\ Present \in SUBSET Docs /\ Present' \in SUBSET Docs /\ Sought \in SUBSET Present
      /\ Expired \in SUBSET Present /\ \A q \in Runs : hits[q] \in SUBSET Present
    BY <1>3, Sets
<1>7. TypeOK'
  <2>1. stamp' \in [Docs -> 0..latest']
    BY <1>1, <1>2
  <2>2. heartbeat' \in 0..Cardinality(Docs)
    <3>1. /\ Cardinality(feed) \in Nat /\ Cardinality(Docs) \in Nat
          /\ Cardinality(feed) <= Cardinality(Docs)
      BY Counting, Docs \in SUBSET Docs
    <3>2. heartbeat' = Cardinality(feed) \/ heartbeat' = heartbeat
      BY <1>1
    <3>3. QED
      BY <3>1, <3>2 DEF TypeOK
  <2>3. amiss' \in BOOLEAN
    BY <1>1 DEF TypeOK
  <2>4. hits' \in [Runs -> SUBSET Docs] /\ due' \in [Runs -> SUBSET Docs]
    BY <1>1 DEF Rewritten, TypeOK
  <2>5. \A q \in Runs : hits'[q] \subseteq Present' /\ due'[q] \subseteq Expired'
    BY <1>3, <1>4 DEF TypeOK
  <2>6. excused' \subseteq Runs
    BY <1>1 DEF Overtaken, CountingRuns, TypeOK
  <2>7. QED
    BY <1>2, <1>4, <2>1, <2>2, <2>3, <2>4, <2>5, <2>6 DEF Refresh, TypeOK, client, sampler
<1>8. Phases' /\ WorkLeft' /\ CleanRunMeansDone' /\ GuardHolds'
    BY <1>1, <1>4 DEF Refresh, Overtaken, Phases, WorkLeft, CleanRunMeansDone, GuardHolds, client
<1>9. HitsAreOld'
    BY <1>1, <1>2, <1>3, <1>4, <1>6 DEF Refresh, HitsAreOld
<1>10. Margin'
  <2>1. /\ Cardinality(Sought') <= Cardinality(Sought)
        /\ Cardinality(Sought') \in Nat /\ Cardinality(Sought) \in Nat
    BY <1>5, <1>6, Counting
  <2>2. Present \ Sought \in SUBSET (Present' \ Sought') /\ Present' \ Sought' \in SUBSET Docs
    BY <1>3, <1>5, <1>6
  <2>3. /\ Cardinality(Present \ Sought) <= Cardinality(Present' \ Sought')
        /\ Cardinality(Present \ Sought) \in Nat /\ Cardinality(Present' \ Sought') \in Nat
    BY <2>2, Counting
  <2>4. wild' = wild
    BY DEF Refresh
  <2>5. QED
    BY <2>1, <2>3, <2>4 DEF Margin
<1>11. HeartbeatKept'
  <2>1. CASE amiss'
    BY <2>1 DEF HeartbeatKept
  <2>2. CASE ~amiss'
    <3>1. heartbeat' = Cardinality(feed) /\ landed = feed
      BY <2>2, <1>1
    <3>2. Newest' = landed
      BY <1>1, <1>2, <1>3, <1>6 DEF Newest
    <3>3. Cardinality(feed) \in Nat
      BY Counting
    <3>4. QED
      BY <3>1, <3>2, <3>3 DEF HeartbeatKept
  <2>3. QED
    BY <2>1, <2>2
<1>12. BaselineKept'
  <2>1. /\ Cardinality(Present) <= Cardinality(Present')
        /\ Cardinality(Present) \in Nat /\ Cardinality(Present') \in Nat
    BY <1>3, <1>6, Counting
  <2>2. ASSUME NEW q \in Runs
        PROVE  /\ Cardinality(Present \ hits[q]) <= Cardinality(Present' \ hits'[q])
               /\ Cardinality(Present \ hits[q]) \in Nat
               /\ Cardinality(Present' \ hits'[q]) \in Nat
    <3>1. /\ Present \ hits[q] \in SUBSET (Present' \ hits'[q])
          /\ Present' \ hits'[q] \in SUBSET Docs
      BY <1>3, <1>4, <1>6
    <3>2. QED
      BY <3>1, Counting
  <2>3. wild' = wild /\ culprits' = culprits /\ baseline' = baseline /\ baseline \in Nat
    BY FS_CardinalityType, FinitenessAssumption DEF Refresh, sampler, TypeOK
  <2>4. culprits = {} /\ wild = {} => baseline <= Cardinality(Present')
    BY <2>1, <2>3 DEF BaselineKept
  <2>5. ASSUME NEW q \in Runs, culprits = {q}, wild = {}
        PROVE  baseline <= 2 * Cardinality(Present' \ hits'[q])
    <3>1. baseline <= 2 * Cardinality(Present \ hits[q])
      BY <2>5 DEF BaselineKept
    <3>2. /\ Cardinality(Present \ hits[q]) <= Cardinality(Present' \ hits'[q])
          /\ Cardinality(Present \ hits[q]) \in Nat
          /\ Cardinality(Present' \ hits'[q]) \in Nat
      BY <2>2
    <3>3. QED
      BY <3>1, <3>2, <2>3
  <2>6. QED
    BY <2>3, <2>4, <2>5 DEF BaselineKept
<1>13. GuardCounts'
  <2> SUFFICES ASSUME NEW q \in Runs \ excused', pc[q] \in {"guard", "kickoff"}
               PROVE  /\ pc[q] = "guard" => Cardinality(Expired') <= matched[q]
                      /\ pc[q] = "kickoff" => \/ Cardinality(Expired') <= Cardinality(Live')
                                              \/ Total' < MinDocs
    BY DEF GuardCounts, Refresh, client
  <2>1. landed \subseteq Present /\ q \notin excused
    BY <1>1 DEF Overtaken, CountingRuns
  <2>2. Present' = Present /\ Live \in SUBSET (Live') /\ Live' \in SUBSET Docs
    BY <2>1, <1>3, <1>6 DEF Live
  <2>3. /\ Cardinality(Expired') <= Cardinality(Expired)
        /\ Cardinality(Expired') \in Nat /\ Cardinality(Expired) \in Nat
    BY <1>3, <1>6, Counting
  <2>4. /\ Cardinality(Live) <= Cardinality(Live')
        /\ Cardinality(Live) \in Nat /\ Cardinality(Live') \in Nat
    BY <2>2, Counting
  <2>5. matched[q] \in Nat
    BY FS_CardinalityType, FinitenessAssumption DEF TypeOK
  <2>6. QED
    BY <2>1, <2>2, <2>3, <2>4, <2>5 DEF GuardCounts
<1>14. QED
    BY <1>7, <1>8, <1>9, <1>10, <1>11, <1>12, <1>13


\* The kickoff of a task: what all tasks may delete is then what is expired,
\* and unless the task goes past the guard that is at most what will remain.
LEMMA StartHolds ==
    ASSUME IInv, NEW r \in Runs, pc[r] = "kickoff", StartTask(r),
           UNCHANGED <<index, sampler, culprits>>
    PROVE  /\ DocsInv' /\ GuardHolds'
           /\ Expired' = Expired /\ Live' = Live /\ Present' = Present
<1> USE DEF IInv, index
<1>1. Expired' = Expired /\ Live' = Live /\ Present' = Present /\ Newest' = Newest
    BY DEF Expired, Live, Present, Newest
<1>2. task[r] = "none" /\ hits[r] = {} /\ r \notin culprits /\ r \notin wild
    BY DEF Phases
<1>3. /\ hits' = [hits EXCEPT ![r] = Expired] /\ wild' \in {wild, wild \cup {r}}
      /\ hits \in [Runs -> SUBSET Docs]
    BY DEF StartTask, TypeOK
<1>4. /\ Cardinality(Expired) \in Nat /\ Cardinality(Live) \in Nat
      /\ Total = Cardinality(Expired) + Cardinality(Live)
  <2>1. Expired \in SUBSET Present /\ Present \in SUBSET Docs
    BY Sets
  <2>2. QED
    BY <2>1, Counting DEF Live
<1>5. wild' = {} => wild = {} /\ Cardinality(Expired) <= Cardinality(Live)
    BY <1>3, <1>4 DEF StartTask
<1>6. Sought' = Expired
  <2>1. \A q \in Runs : hits'[q] \subseteq Expired /\ hits'[r] = Expired
    BY <1>3 DEF HitsAreOld
  <2>2. Expired \subseteq Docs
    BY Sets
  <2>3. QED
    BY <2>1, <2>2 DEF Sought
<1>7. HitsAreOld'
  <2>1. \A q \in Runs : hits'[q] \subseteq Expired'
    BY <1>1, <1>3 DEF HitsAreOld
  <2>2. ASSUME wild' = {}, NEW d \in Expired PROVE stamp[d] < latest
    <3>1. stamp[d] <= cutoff /\ cutoff <= latest /\ stamp[d] \in Nat /\ cutoff \in Nat
          /\ latest \in Nat
      BY BoundsAssumption DEF TypeOK, Expired, Present
    <3>2. CASE cutoff = latest
      <4>1. Expired = Present
        BY <3>2, BoundsAssumption DEF TypeOK, Expired, Present
      <4>2. Live = {} /\ Expired # {}
        BY <4>1 DEF Live
      <4>3. Cardinality(Live) = 0 /\ Cardinality(Expired) # 0
        <5>1. IsFiniteSet(Expired)
          BY Sets, FS_Subset, FinitenessAssumption
        <5>2. QED
          BY <5>1, <4>2, FS_EmptySet
      <4>4. QED
        BY <4>3, <1>4, <1>5, <2>2
    <3>3. QED
      BY <3>1, <3>2
  <2>3. \A q \in Runs : wild' = {} => \A d \in hits'[q] : stamp[d] < latest
    BY <2>2, <1>3, <1>5 DEF HitsAreOld
  <2>4. QED
    BY <2>1, <2>3 DEF HitsAreOld
<1>8. Margin'
    BY <1>1, <1>5, <1>6 DEF Margin, Live
<1>9. HeartbeatKept'
    BY <1>1, <1>5 DEF HeartbeatKept
<1>10. BaselineKept'
    BY <1>1, <1>2, <1>3, <1>5 DEF BaselineKept, sampler
<1>11. GuardHolds'
  <2>1. CASE 2 * Cardinality(Expired) > Total
    <3>1. Total < MinDocs \/ r \in excused
      BY <2>1, <1>4, BoundsAssumption DEF GuardCounts
    <3>2. QED
      BY <2>1, <3>1 DEF StartTask, GuardHolds
  <2>2. CASE ~(2 * Cardinality(Expired) > Total)
    BY <2>2, <1>2 DEF StartTask, GuardHolds
  <2>3. QED
    BY <2>1, <2>2
<1>12. QED
    BY <1>1, <1>7, <1>8, <1>9, <1>10, <1>11 DEF DocsInv

LEMMA KickoffHolds ==
    ASSUME IInv, NEW r \in Runs, Kickoff(r) PROVE IInv'
<1> USE DEF IInv
<1>1. pc[r] = "kickoff" /\ UNCHANGED <<index, sampler, culprits>>
    BY DEF Kickoff, Goes, Ends, Goto
<1>2. /\ DocsInv' /\ GuardHolds'
      /\ Expired' = Expired /\ Live' = Live /\ Present' = Present
  <2>1. CASE StartTask(r)
    BY <1>1, <2>1, StartHolds
  <2>2. CASE NoTask(r)
    <3>1. r \notin wild
      BY <1>1 DEF Phases
    <3>2. QED
      BY <1>1, <2>2, <3>1, ClientFrame DEF NoTask, GuardHolds, server
  <2>3. QED
    BY <2>1, <2>2 DEF Kickoff
<1>3. /\ pc' \in [Runs -> {"idle", "guard", "kickoff", "poll", "ended"}]
      /\ verdict' \in [Runs -> {"none", "clean", "failed"}]
      /\ pc'[r] \in {"poll", "ended"} /\ (pc'[r] = "poll" => StartTask(r))
      /\ \A q \in Runs : q # r => pc'[q] = pc[q] /\ verdict'[q] = verdict[q]
      /\ verdict'[r] = "clean" => verdict[r] = "clean"
    BY <1>1 DEF Kickoff, Goes, Ends, Goto, TypeOK
<1>4. /\ due' \in [Runs -> SUBSET Docs]
      /\ \A q \in Runs : q # r => due'[q] = due[q]
      /\ due'[r] \in {{}, due[r]}
    BY DEF Kickoff, Goes, Ends, TypeOK
<1>5. /\ task' \in [Runs -> {"none", "running", "clean", "dirty", "broken"}]
      /\ hits' \in [Runs -> SUBSET Docs]
      /\ \A q \in Runs : q # r => task'[q] = task[q] /\ hits'[q] = hits[q]
      /\ \/ StartTask(r) /\ task'[r] = "running" /\ hits'[r] = Expired
         \/ NoTask(r) /\ task'[r] = task[r] /\ hits'[r] = hits[r]
      /\ StartTask(r) => task'[r] = "running"
      /\ wild' \in {wild, wild \cup {r}}
  <2>1. Expired \in SUBSET Docs
    BY Sets
  <2>2. QED
    BY <2>1 DEF Kickoff, StartTask, NoTask, TypeOK, server
<1>6. /\ excused' \in {excused, excused \ {r}, excused \cup {r}}
      /\ matched' = [matched EXCEPT ![r] = 0]
    BY DEF Kickoff, StartTask, NoTask
<1>7. TypeOK'
  <2>1. matched' \in [Runs -> 0..Cardinality(Docs)]
    BY <1>6, FS_CardinalityType, FinitenessAssumption DEF TypeOK
  <2>2. \A q \in Runs : hits'[q] \subseteq Present /\ due'[q] \subseteq Expired
    BY <1>4, <1>5, Sets DEF TypeOK
  <2>3. \A q \in Runs : /\ task'[q] # "running" => hits'[q] = {}
                        /\ pc'[q] = "poll" => task'[q] # "none"
    BY <1>3, <1>5 DEF TypeOK
  <2>4. QED
    BY <1>1, <1>2, <1>3, <1>4, <1>5, <1>6, <2>1, <2>2, <2>3 DEF TypeOK, index, sampler
<1>8. Phases'
    BY <1>1, <1>3, <1>5 DEF Phases
<1>9. WorkLeft'
  <2>1. pc'[r] = "poll" => due'[r] \subseteq hits'[r] /\ task'[r] = "running"
    BY <1>3, <1>4, <1>5 DEF TypeOK, StartTask
  <2>2. verdict[r] # "clean"
    BY <1>1 DEF WorkLeft
  <2>3. QED
    BY <1>3, <1>4, <1>5, <2>1, <2>2 DEF WorkLeft
<1>10. CleanRunMeansDone'
    BY <1>3, <1>4 DEF CleanRunMeansDone
<1>11. GuardCounts'
    BY <1>1, <1>2, <1>3, <1>6 DEF GuardCounts, TypeOK
<1>12. QED
    BY <1>2, <1>7, <1>8, <1>9, <1>10, <1>11 DEF DocsInv


\* A deletion takes the same document from what there is and from what is
\* still to be deleted.
LEMMA DeleteDocHolds ==
    ASSUME IInv, NEW r \in Runs, DeleteDoc(r) PROVE IInv'
<1> USE DEF IInv
<1>1. PICK d \in hits[r] : stamp' = [stamp EXCEPT ![d] = 0] /\ Rewritten({d})
    BY DEF DeleteDoc
<1>2. /\ hits[r] \in SUBSET Sought /\ Sought \in SUBSET Expired
      /\ Expired \in SUBSET Present /\ Present \in SUBSET Docs /\ d \in Docs
      /\ \A q \in Runs : hits[q] \in SUBSET Present
    BY <1>1, Sets
<1>3. /\ UNCHANGED <<latest, cutoff, heartbeat, amiss, pc, matched, verdict, task, wild,
                     excused, flagged, baseline>>
      /\ culprits' = culprits \cup {r} /\ task[r] = "running"
    BY DEF DeleteDoc, client, sampler
<1>4. Present' = Present \ {d} /\ Expired' = Expired \ {d} /\ Live' = Live
  <2>1. Present' = Present \ {d}
    BY <1>1, <1>2 DEF Present, TypeOK
  <2>2. Expired' = Expired \ {d}
    BY <2>1, <1>1, <1>2, <1>3 DEF Expired, TypeOK
  <2>3. QED
    BY <2>1, <2>2, <1>1, <1>2 DEF Live
<1>5. \A q \in Runs : hits'[q] = hits[q] \ {d} /\ due'[q] = due[q] \ {d}
    BY <1>1 DEF Rewritten
<1>6. Sought' = Sought \ {d}
    BY <1>5 DEF Sought
<1>7. TypeOK'
  <2>1. stamp' \in [Docs -> 0..latest]
    BY <1>1, <1>2, BoundsAssumption DEF TypeOK
  <2>2. hits' \in [Runs -> SUBSET Docs] /\ due' \in [Runs -> SUBSET Docs]
    BY <1>1 DEF Rewritten, TypeOK
  <2>3. \A q \in Runs : hits'[q] \subseteq Present' /\ due'[q] \subseteq Expired'
    BY <1>4, <1>5 DEF TypeOK
  <2>4. QED
    BY <1>3, <1>5, <2>1, <2>2, <2>3 DEF TypeOK
<1>8. Phases' /\ WorkLeft' /\ CleanRunMeansDone' /\ GuardHolds'
    BY <1>3, <1>5 DEF Phases, WorkLeft, CleanRunMeansDone, GuardHolds
<1>9. HitsAreOld'
    BY <1>1, <1>2, <1>3, <1>4, <1>5 DEF HitsAreOld, TypeOK
<1>10. Margin'
  <2>1. Present' \ Sought' = Present \ Sought
    BY <1>1, <1>2, <1>4, <1>6
  <2>2. /\ Cardinality(Sought') <= Cardinality(Sought)
        /\ Cardinality(Sought') \in Nat /\ Cardinality(Sought) \in Nat
    BY <1>2, <1>6, Counting
  <2>3. Cardinality(Present \ Sought) \in Nat
    BY <1>2, Counting
  <2>4. QED
    BY <2>1, <2>2, <2>3, <1>3 DEF Margin
<1>11. HeartbeatKept'
  <2>1. CASE wild = {}
    <3>1. stamp[d] < latest
      BY <2>1, <1>1 DEF HitsAreOld
    <3>2. stamp[d] \in Nat /\ latest \in Nat
      BY <1>2 DEF TypeOK
    <3>3. Newest' = Newest
      BY <3>1, <3>2, <1>1, <1>2, <1>3, <1>4 DEF Newest, TypeOK
    <3>4. QED
      BY <3>3, <1>3 DEF HeartbeatKept
  <2>2. QED
    BY <2>1, <1>3 DEF HeartbeatKept
<1>12. BaselineKept'
  <2> SUFFICES ASSUME wild = {}, culprits' = {r}
               PROVE  baseline <= 2 * Cardinality(Present' \ hits'[r])
    BY <1>3 DEF BaselineKept
  <2>1. Present' \ hits'[r] = Present \ hits[r]
    BY <1>1, <1>4, <1>5
  <2>2. CASE culprits = {}
    <3>1. baseline <= Total
      BY <2>2 DEF BaselineKept
    <3>2. Total <= 2 * Cardinality(Present \ hits[r])
      BY OneTaskLeavesHalf
    <3>3. /\ Cardinality(Present) \in Nat /\ Cardinality(Present \ hits[r]) \in Nat
      BY <1>2, Counting
    <3>4. baseline \in Nat
      BY FS_CardinalityType, FinitenessAssumption DEF TypeOK
    <3>5. baseline <= 2 * Cardinality(Present \ hits[r])
      BY <3>1, <3>2, <3>3, <3>4
    <3>6. QED
      BY <2>1, <3>5
  <2>3. CASE culprits = {r}
    BY <2>1, <2>3 DEF BaselineKept
  <2>4. QED
    BY <2>2, <2>3, <1>3
<1>13. GuardCounts'
  <2> SUFFICES ASSUME NEW q \in Runs \ excused
               PROVE  /\ pc[q] = "guard" => Cardinality(Expired') <= matched[q]
                      /\ pc[q] = "kickoff" => \/ Cardinality(Expired') <= Cardinality(Live)
                                              \/ Total' < MinDocs
    BY <1>3, <1>4 DEF GuardCounts
  <2>1. /\ Cardinality(Expired') <= Cardinality(Expired)
        /\ Cardinality(Expired') \in Nat /\ Cardinality(Expired) \in Nat
    BY <1>2, <1>4, Counting
  <2>2. /\ Cardinality(Present') <= Cardinality(Present)
        /\ Cardinality(Present') \in Nat /\ Cardinality(Present) \in Nat
    BY <1>2, <1>4, Counting
  <2>3. Cardinality(Live) \in Nat
    BY <1>2, Counting DEF Live
  <2>4. matched[q] \in Nat
    BY FS_CardinalityType, FinitenessAssumption DEF TypeOK
  <2>5. QED
    BY <2>1, <2>2, <2>3, <2>4, BoundsAssumption DEF GuardCounts
<1>14. QED
    BY <1>7, <1>8, <1>9, <1>10, <1>11, <1>12, <1>13

\* The end of a task releases what it had still to delete.
LEMMA TaskEndsHolds ==
    ASSUME IInv, NEW r \in Runs, TaskEnds(r) PROVE IInv'
<1> USE DEF IInv
<1>1. PICK fate \in {"clean", "dirty", "broken"} :
          /\ fate = "clean" => hits[r] = {}
          /\ task' = [task EXCEPT ![r] = fate]
    BY DEF TaskEnds
<1>2. /\ UNCHANGED <<index, client, wild, sampler, history>>
      /\ hits' = [hits EXCEPT ![r] = {}] /\ task[r] = "running"
    BY DEF TaskEnds
<1>3. Present' = Present /\ Expired' = Expired /\ Live' = Live /\ Newest' = Newest
    BY <1>2 DEF Present, Expired, Live, Newest, index
<1>4. /\ \A q \in Runs : hits'[q] \subseteq hits[q]
      /\ Sought' \in SUBSET Sought
      /\ hits' \in [Runs -> SUBSET Docs]
    BY <1>2 DEF TypeOK, Sought
<1>5. TypeOK'
    BY <1>1, <1>2, <1>3, <1>4 DEF TypeOK, index, client, sampler, history
<1>6. Phases' /\ WorkLeft' /\ CleanRunMeansDone' /\ GuardHolds'
    BY <1>1, <1>2, <1>4 DEF Phases, WorkLeft, CleanRunMeansDone, GuardHolds, TypeOK,
                            client, history
<1>7. HitsAreOld' /\ HeartbeatKept' /\ GuardCounts'
    BY <1>2, <1>3, <1>4 DEF HitsAreOld, HeartbeatKept, GuardCounts,
                            index, client, sampler, history
<1>8. Margin'
  <2>1. Sought \in SUBSET Docs /\ Present \in SUBSET Docs
    BY Sets
  <2>2. /\ Cardinality(Sought') <= Cardinality(Sought)
        /\ Cardinality(Sought') \in Nat /\ Cardinality(Sought) \in Nat
    BY <2>1, <1>4, Counting
  <2>3. Present \ Sought \in SUBSET (Present \ Sought') /\ Present \ Sought' \in SUBSET Docs
    BY <2>1, <1>4
  <2>4. /\ Cardinality(Present \ Sought) <= Cardinality(Present \ Sought')
        /\ Cardinality(Present \ Sought) \in Nat /\ Cardinality(Present \ Sought') \in Nat
    BY <2>3, Counting
  <2>5. QED
    BY <2>2, <2>4, <1>2, <1>3 DEF Margin
<1>9. BaselineKept'
  <2> SUFFICES ASSUME NEW q \in Runs, wild = {}, culprits = {q}
               PROVE  baseline <= 2 * Cardinality(Present \ hits'[q])
    BY <1>2, <1>3 DEF BaselineKept, sampler, history
  <2>1. Present \ hits[q] \in SUBSET (Present \ hits'[q]) /\ Present \ hits'[q] \in SUBSET Docs
    BY <1>4, Sets
  <2>2. /\ Cardinality(Present \ hits[q]) <= Cardinality(Present \ hits'[q])
        /\ Cardinality(Present \ hits[q]) \in Nat /\ Cardinality(Present \ hits'[q]) \in Nat
    BY <2>1, Counting
  <2>3. baseline <= 2 * Cardinality(Present \ hits[q]) /\ baseline \in Nat
    BY FS_CardinalityType, FinitenessAssumption DEF BaselineKept, TypeOK
  <2>4. QED
    BY <2>2, <2>3
<1>10. QED
    BY <1>5, <1>6, <1>7, <1>8, <1>9


LEMMA MeasureDropHolds ==
    ASSUME IInv, MeasureDrop PROVE IInv'
<1> USE DEF IInv
<1>1. UNCHANGED <<index, client, server, baseline, history>>
    BY DEF MeasureDrop
<1>2. Present' = Present /\ Expired' = Expired /\ Live' = Live /\ Newest' = Newest
      /\ Sought' = Sought
    BY <1>1 DEF Present, Expired, Live, Newest, Sought, index, server
<1>3. flagged' \in {"no", "drop", "error"}
    BY DEF MeasureDrop
<1>4. TypeOK'
    BY <1>1, <1>2, <1>3 DEF TypeOK, index, client, server, history
<1>5. /\ Phases' /\ HitsAreOld' /\ WorkLeft' /\ CleanRunMeansDone' /\ GuardHolds'
      /\ GuardCounts' /\ Margin' /\ HeartbeatKept' /\ BaselineKept'
    BY <1>1, <1>2 DEF Phases, HitsAreOld, WorkLeft, CleanRunMeansDone, GuardHolds, GuardCounts,
           Margin, HeartbeatKept, BaselineKept, index, client, server, history
<1>6. QED
    BY <1>4, <1>5

\* The alarm goes by the newest refresh, which is all there, or by the last
\* sample, of which a single task leaves half.
LEMMA AlarmExplained ==
    ASSUME IInv, MeasureDrop, flagged' = "drop"
    PROVE  amiss \/ wild # {} \/ Cardinality(culprits) > 1
<1> SUFFICES ASSUME ~amiss, wild = {}, ~(Cardinality(culprits) > 1) PROVE FALSE
    OBVIOUS
<1> USE DEF IInv
<1>1. PICK prior \in {baseline, 0} : Drop(prior)
  BY DEF MeasureDrop
<1>2. /\ Cardinality(Newest) <= Total
      /\ Cardinality(Newest) \in Nat /\ Total \in Nat
  BY Sets, Counting
<1>3. heartbeat \in Nat /\ baseline \in Nat
  BY FS_CardinalityType, FinitenessAssumption DEF TypeOK
<1>4. ~Halved(heartbeat, Total)
  BY <1>2, <1>3 DEF HeartbeatKept, Halved
<1>5. ~Halved(baseline, Total)
  <2>1. CASE culprits = {}
    BY <2>1, <1>2, <1>3 DEF BaselineKept, Halved
  <2>2. ASSUME NEW r \in Runs, culprits = {r}
        PROVE  ~Halved(baseline, Total)
    <3>1. baseline <= 2 * Cardinality(Present \ hits[r])
      BY <2>2 DEF BaselineKept
    <3>2. /\ Cardinality(Present \ hits[r]) <= Total
          /\ Cardinality(Present \ hits[r]) \in Nat
      <4>1. Present \ hits[r] \in SUBSET Present /\ Present \in SUBSET Docs
        BY Sets
      <4>2. QED
        BY <4>1, Counting
    <3>3. QED
      BY <3>1, <3>2, <1>2, <1>3 DEF Halved
  <2>3. culprits = {} \/ \E r \in Runs : culprits = {r}
    BY FewCulprits DEF TypeOK
  <2>4. QED
    BY <2>1, <2>2, <2>3
<1>6. QED
  BY <1>1, <1>4, <1>5 DEF Drop, Halved

LEMMA IndexSampleHolds ==
    ASSUME IInv, IndexSample PROVE IInv'
<1> USE DEF IInv
<1>1. UNCHANGED <<index, client, server, due, excused>> /\ flagged' = "idle"
    BY DEF IndexSample
<1>2. \/ baseline' = Total /\ culprits' = {}
      \/ baseline' = baseline /\ culprits' = culprits
    BY DEF IndexSample
<1>3. Present' = Present /\ Expired' = Expired /\ Live' = Live /\ Newest' = Newest
      /\ Sought' = Sought
    BY <1>1 DEF Present, Expired, Live, Newest, Sought, index, server
<1>4. /\ Total \in Nat /\ Cardinality(Docs) \in Nat /\ Total <= Cardinality(Docs)
    BY Sets, Counting, Docs \in SUBSET Docs
<1>5. TypeOK'
  <2>1. baseline' \in 0..Cardinality(Docs) /\ culprits' \subseteq Runs
    BY <1>2, <1>4 DEF TypeOK
  <2>2. QED
    BY <1>1, <1>3, <2>1 DEF TypeOK, index, client, server
<1>6. /\ Phases' /\ HitsAreOld' /\ WorkLeft' /\ CleanRunMeansDone' /\ GuardHolds'
      /\ GuardCounts' /\ Margin' /\ HeartbeatKept'
    BY <1>1, <1>2, <1>3 DEF Phases, HitsAreOld, WorkLeft, CleanRunMeansDone, GuardHolds,
           GuardCounts, Margin, HeartbeatKept, index, client, server
<1>7. BaselineKept'
  <2>1. CASE baseline' = Total /\ culprits' = {}
    BY <2>1, <1>3, <1>4 DEF BaselineKept
  <2>2. CASE baseline' = baseline /\ culprits' = culprits
    BY <2>2, <1>1, <1>3 DEF BaselineKept, server
  <2>3. QED
    BY <1>2, <2>1, <2>2
<1>8. QED
    BY <1>5, <1>6, <1>7

\* The invariant is inductive.
LEMMA StepHolds == IInv /\ [Next]_vars => IInv'
<1> SUFFICES ASSUME IInv, [Next]_vars PROVE IInv'
    OBVIOUS
<1>1. CASE Refresh
    BY <1>1, RefreshHolds
<1>2. CASE AgeOut
    BY <1>2, AgeOutHolds
<1>3. CASE SamplerStep
    BY <1>3, MeasureDropHolds, IndexSampleHolds DEF SamplerStep
<1>4. ASSUME NEW r \in Runs, RunStep(r) \/ RunDies(r) \/ DeleteDoc(r) \/ TaskEnds(r)
      PROVE  IInv'
    BY <1>4, CountMatchedHolds, CountTotalHolds, KickoffHolds, LateStepHolds, DeleteDocHolds,
       TaskEndsHolds DEF RunStep
<1>5. CASE UNCHANGED vars
    BY <1>5 DEF IInv, TypeOK, Phases, HitsAreOld, WorkLeft, CleanRunMeansDone, GuardHolds,
           GuardCounts, Margin, HeartbeatKept, BaselineKept, Present, Expired,
           Live, Sought, Newest, vars, index, client, server, sampler, history
<1>6. QED
    BY <1>1, <1>2, <1>3, <1>4, <1>5 DEF Next

LEMMA Invariance == Spec => []IInv
BY InitHolds, StepHolds, PTL DEF Spec

-----------------------------------------------------------------------------
(* The theorems.                                                           *)

\* The variables have their types (IntelRetention as a whole).
THEOREM TypeCorrect == Spec => []TypeOK
BY Invariance, PTL DEF IInv

\* A run that compact_index ends without an exception has deleted, or seen
\* written again, everything that was expired when it counted.
THEOREM CleanIsDone == Spec => []CleanRunMeansDone
BY Invariance, PTL DEF IInv

\* The blast-radius guard binds the task that is started after it, unless the
\* run was forced or the index changed under it.
THEOREM GuardBinds == Spec => []GuardHolds
BY Invariance, PTL DEF IInv

\* When slo_metrics.py raises the drop alarm, the newest refresh is not all there
\* or has no heartbeat, some task deletes more than half of the index, or more than
\* one task has deleted since the last sample.
THEOREM DropExplained == Spec => DropHasCause
<1>1. ASSUME IInv, [Next]_vars, flagged # "drop", flagged' = "drop"
      PROVE  amiss \/ wild # {} \/ Cardinality(culprits) > 1
  <2>1. CASE MeasureDrop
    BY <2>1, <1>1, AlarmExplained
  <2>2. MeasureDrop \/ IndexSample \/ UNCHANGED flagged
    BY <1>1 DEF Next, SamplerStep, RunStep, CountMatched, CountTotal, Kickoff, PollTask,
           RunDies, DeleteDoc, TaskEnds, Refresh, AgeOut, sampler, vars
  <2>3. QED
    BY <2>1, <2>2, <1>1 DEF IndexSample
<1>2. IInv /\ [Next]_vars =>
          [flagged # "drop" /\ flagged' = "drop" => \/ amiss
                                                   \/ wild # {}
                                                   \/ Cardinality(culprits) > 1]_vars
    BY <1>1
<1>3. QED
    BY <1>2, Invariance, PTL DEF Spec, DropHasCause

\* No task deletes a document that is not expired when it is deleted, however
\* long it outlives its run and whatever was written in the meantime.
THEOREM LiveSurvive == Spec => LiveDocsSurvive
<1>1. ASSUME IInv, [Next]_vars, NEW d \in Present, stamp'[d] = 0 PROVE stamp[d] <= cutoff
  <2>1. d \in Docs /\ stamp[d] # 0 /\ stamp \in [Docs -> 0..latest] /\ latest \in Nat
    BY <1>1, BoundsAssumption DEF Present, IInv, TypeOK
  <2>2. CASE Refresh
    BY <2>1, <2>2, <1>1 DEF Refresh
  <2>3. ASSUME NEW r \in Runs, DeleteDoc(r) PROVE stamp[d] <= cutoff
    <3>1. PICK e \in hits[r] : stamp' = [stamp EXCEPT ![e] = 0]
      BY <2>3 DEF DeleteDoc
    <3>2. e = d
      BY <2>1, <3>1, <1>1
    <3>3. QED
      BY <3>1, <3>2, <1>1 DEF IInv, HitsAreOld, Expired
  <2>4. CASE UNCHANGED stamp
    BY <2>1, <2>4, <1>1
  <2>5. Refresh \/ (\E r \in Runs : DeleteDoc(r)) \/ UNCHANGED stamp
    BY <1>1 DEF Next, RunStep, CountMatched, CountTotal, Kickoff, PollTask, RunDies, TaskEnds,
           AgeOut, SamplerStep, MeasureDrop, IndexSample, index, vars
  <2>6. QED
    BY <2>2, <2>3, <2>4, <2>5
<1>2. IInv /\ [Next]_vars => [\A d \in Present : stamp'[d] = 0 => stamp[d] <= cutoff]_vars
    BY <1>1
<1>3. QED
    BY <1>2, Invariance, PTL DEF Spec, LiveDocsSurvive
=============================================================================
