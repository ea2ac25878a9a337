------------------------ MODULE SuppressionWindow_proofs ------------------------
(***************************************************************************)
(* For every set of firings, both window lengths and every fault: silence  *)
(* is earned and a first critical firing is heard, although reads and      *)
(* writes of the suppression document are not atomic.                      *)
(***************************************************************************)
EXTENDS SuppressionWindow, TLAPS

Passing == {"alert", "lost"}

\* The firing that opened burst b was let through, and one that was critical
\* if the burst claims to have seen one.
Opened(b) ==
    /\ b.present => \E g \in Firings : verdict[g] \in Passing /\ now[g] = b.first
    /\ b.present /\ b.critical =>
          \E g \in Critical : verdict[g] \in Passing /\ now[g] = b.first

\* What a firing between its read and its write is about to write: a burst seen
\* again, young enough and critical if it is, or a fresh one of its own.
PlanIsSound ==
    \A f \in Firings : fpc[f] = "put" =>
        /\ plan[f].present
        /\ quiet[f] => /\ Opened(plan[f])
                       /\ now[f] - plan[f].first < MaxDuration
                       /\ f \in Critical => plan[f].critical
        /\ ~quiet[f] => plan[f].first = now[f] /\ (plan[f].critical => f \in Critical)

\* A firing is judged after it has read the time, and keeps that time.
JudgedHasRead == \A f \in Firings : verdict[f] # "none" => fpc[f] \notin {"idle", "put"}

IInv == /\ TypeOK
        /\ Opened(burst)
        /\ PlanIsSound
        /\ JudgedHasRead
        /\ SilenceIsEarned
        /\ CriticalIsHeard

\* No document at first.
LEMMA InitHolds == Init => IInv
BY CriticalAssumption
   DEFS Init, IInv, TypeOK, Opened, Passing, PlanIsSound, JudgedHasRead, SilenceIsEarned,
        CriticalIsHeard, NoBurst, Bursts

\* A verdict once given stays, with the time it was given for.
VerdictsStay == \A g \in Firings : verdict[g] # "none" =>
                   verdict'[g] = verdict[g] /\ now'[g] = now[g]

\* Whatever was opened stays so, and earlier silence stays earned.
LEMMA VerdictsKeep ==
  ASSUME IInv, VerdictsStay
  PROVE  /\ \A b \in Bursts : Opened(b) => Opened(b)'
         /\ \A f \in Firings : verdict[f] = "suppressed" =>
               /\ \E g \in Firings : LetThrough(g, now[f])'
               /\ f \in Critical => \E g \in Critical : LetThrough(g, now[f])'
BY CriticalAssumption
   DEFS IInv, VerdictsStay, Opened, Passing, LetThrough, SilenceIsEarned, CriticalIsHeard

\* The GET sees a burst that was opened, and plans to see it again or to open one.
LEMMA ReadBurstKeeps ==
  ASSUME IInv, NEW f \in Firings, ReadBurst(f)
  PROVE  IInv'
<1> USE CriticalAssumption, WindowsAssumption
<1>1. VerdictsStay
  BY DEFS IInv, TypeOK, JudgedHasRead, ReadBurst, Decided, Concluded, VerdictsStay
<1>2. TypeOK' /\ JudgedHasRead'
  <2>1. Suppresses(f, clock) \in BOOLEAN
    BY DEF Suppresses
  <2>2. burst.first \in Nat /\ burst.critical \in BOOLEAN /\ clock \in Nat
    BY DEFS IInv, TypeOK, Bursts
  <2>3. Seen(f, clock) \in Bursts
    <3>1. CASE Suppresses(f, clock)
      BY <3>1, <2>2 DEFS Seen, Bursts
    <3>2. CASE ~Suppresses(f, clock)
      BY <3>2, <2>2 DEFS Seen, Bursts
    <3>3. QED  BY <3>1, <3>2
  <2>4. QED  BY <2>1, <2>3 DEFS IInv, TypeOK, JudgedHasRead, ReadBurst, Decided, Concluded
<1>3. Opened(burst)'
  BY <1>1, VerdictsKeep DEFS IInv, TypeOK, ReadBurst, Opened, Passing
<1>4. PlanIsSound'
  <2> SUFFICES ASSUME NEW e \in Firings, fpc'[e] = "put"
               PROVE  /\ plan'[e].present
                      /\ quiet'[e] => /\ Opened(plan[e])'
                                      /\ now'[e] - plan'[e].first < MaxDuration
                                      /\ e \in Critical => plan'[e].critical
                      /\ ~quiet'[e] => /\ plan'[e].first = now'[e]
                                       /\ plan'[e].critical => e \in Critical
    BY DEF PlanIsSound
  <2>1. CASE e # f
    <3>1. fpc[e] = "put" /\ plan'[e] = plan[e] /\ quiet'[e] = quiet[e] /\ now'[e] = now[e]
      BY <2>1 DEFS IInv, TypeOK, ReadBurst, Decided, Concluded
    <3>2. Opened(plan[e]) => Opened(plan[e])'
      BY <3>1, <1>1, VerdictsKeep DEFS IInv, TypeOK, Opened, Passing
    <3>3. QED  BY <3>1, <3>2 DEFS IInv, PlanIsSound
  <2>2. CASE e = f
    <3>1. /\ now'[f] = clock /\ plan'[f] = Seen(f, clock) /\ quiet'[f] = Suppresses(f, clock)
          /\ UNCHANGED burst
      BY <2>2 DEFS IInv, TypeOK, ReadBurst, Decided, Concluded
    <3>2. CASE Suppresses(f, clock)
      <4>1. plan'[f].present /\ plan'[f].first = burst.first /\ plan'[f].critical = burst.critical
        BY <3>1, <3>2 DEF Seen
      <4>2. burst.present /\ burst.critical \in BOOLEAN
        BY <3>2 DEFS IInv, TypeOK, Bursts, Suppresses
      <4>3. Opened(plan[f])'
        BY <4>1, <4>2, <1>3, <3>1 DEFS Opened, Passing
      <4>4. QED  BY <2>2, <3>1, <3>2, <4>1, <4>2, <4>3 DEF Suppresses
    <3>3. CASE ~Suppresses(f, clock)
      <4>1. plan'[f].present /\ plan'[f].first = clock /\ plan'[f].critical = (f \in Critical)
        BY <3>1, <3>3 DEF Seen
      <4>2. ~quiet'[f]
        BY <3>1, <3>3
      <4>3. QED  BY <2>2, <3>1, <4>1, <4>2
    <3>4. QED  BY <3>2, <3>3
  <2>3. QED  BY <2>1, <2>2
<1>5. SilenceIsEarned' /\ CriticalIsHeard'
  <2>1. \A e \in Firings : verdict'[e] = "suppressed" =>
           verdict[e] = "suppressed" /\ now'[e] = now[e]
    BY <1>1 DEFS IInv, TypeOK, ReadBurst, Decided, Concluded, VerdictsStay
  <2>2. QED
    BY <2>1, <1>1, VerdictsKeep DEFS SilenceIsEarned, CriticalIsHeard, LetThrough
<1>6. QED  BY <1>2, <1>3, <1>4, <1>5 DEF IInv

\* The PUT, or the process that dies after it, writes a sound plan and
\* gives the verdict in the same step.
LEMMA WriteBurstKeeps ==
  ASSUME IInv, NEW f \in Firings, WriteBurst(f) \/ Dies(f)
  PROVE  IInv'
<1> USE CriticalAssumption, WindowsAssumption
<1>1. VerdictsStay
  BY DEFS IInv, TypeOK, JudgedHasRead, WriteBurst, Dies, Decided, Concluded, VerdictsStay
<1>2. TypeOK' /\ JudgedHasRead'
  BY DEFS IInv, TypeOK, JudgedHasRead, WriteBurst, Dies, Decided, Concluded
<1>3. /\ verdict'[f] \in Passing \cup {"suppressed"}
      /\ verdict'[f] = "suppressed" => quiet[f] /\ burst' = plan[f]
      /\ burst' = plan[f] /\ ~quiet[f] => verdict'[f] \in Passing
      /\ burst' = burst \/ burst' = plan[f]
      /\ fpc[f] = "put" /\ UNCHANGED <<now, plan, quiet>>
      /\ plan[f] \in Bursts /\ burst \in Bursts
  BY DEFS IInv, TypeOK, WriteBurst, Dies, Decided, Concluded, Passing
<1>4. Opened(burst)'
  <2>1. CASE burst' = burst
    BY <2>1, <1>1, <1>3, VerdictsKeep DEFS IInv, Opened, Passing
  <2>2. CASE burst' = plan[f] /\ quiet[f]
    BY <2>2, <1>1, <1>3, VerdictsKeep DEFS IInv, PlanIsSound, Opened, Passing
  <2>3. CASE burst' = plan[f] /\ ~quiet[f]
    BY <2>3, <1>3 DEFS IInv, PlanIsSound, Opened, Passing
  <2>4. QED  BY <2>1, <2>2, <2>3, <1>3
<1>5. PlanIsSound'
  <2> SUFFICES ASSUME NEW e \in Firings, fpc'[e] = "put"
               PROVE  /\ plan'[e].present
                      /\ quiet'[e] => /\ Opened(plan[e])'
                                      /\ now'[e] - plan'[e].first < MaxDuration
                                      /\ e \in Critical => plan'[e].critical
                      /\ ~quiet'[e] => /\ plan'[e].first = now'[e]
                                       /\ plan'[e].critical => e \in Critical
    BY DEF PlanIsSound
  <2>1. fpc[e] = "put" /\ plan'[e] = plan[e] /\ quiet'[e] = quiet[e] /\ now'[e] = now[e]
    BY DEFS IInv, TypeOK, WriteBurst, Dies, Decided, Concluded
  <2>2. Opened(plan[e]) => Opened(plan[e])'
    BY <2>1, <1>1, VerdictsKeep DEFS IInv, TypeOK, Opened, Passing
  <2>3. QED  BY <2>1, <2>2 DEFS IInv, PlanIsSound
<1>6. ASSUME verdict'[f] = "suppressed"
      PROVE  /\ \E g \in Firings : LetThrough(g, now[f])'
             /\ f \in Critical => \E g \in Critical : LetThrough(g, now[f])'
  <2>1. /\ plan[f].present /\ now[f] - plan[f].first < MaxDuration
        /\ f \in Critical => plan[f].critical
        /\ Opened(plan[f])
    BY <1>3, <1>6 DEFS IInv, PlanIsSound
  <2>2. plan[f].first \in Nat /\ now[f] \in Nat
    BY <1>3 DEFS IInv, TypeOK, Bursts
  <2>3. \A g \in Firings : verdict[g] \in Passing /\ now[g] = plan[f].first
                            => LetThrough(g, now[f])'
    BY <2>1, <2>2, <1>1, <1>3 DEFS VerdictsStay, LetThrough, Passing
  <2>4. QED  BY <2>1, <2>3 DEFS Opened, Passing
<1>7. \A e \in Firings : e # f => verdict'[e] = verdict[e]
  BY DEFS IInv, TypeOK, WriteBurst, Dies, Decided, Concluded
<1>8. SilenceIsEarned' /\ CriticalIsHeard'
  <2> SUFFICES ASSUME NEW e \in Firings, verdict'[e] = "suppressed"
               PROVE  /\ \E g \in Firings : LetThrough(g, now[e])'
                      /\ e \in Critical => \E g \in Critical : LetThrough(g, now[e])'
    BY DEFS SilenceIsEarned, CriticalIsHeard
  <2>1. CASE e = f
    BY <2>1, <1>6
  <2>2. CASE e # f
    BY <2>2, <1>1, <1>7, VerdictsKeep
  <2>3. QED  BY <2>1, <2>2
<1>9. QED  BY <1>2, <1>4, <1>5, <1>8 DEF IInv

\* Time changes no verdict.
LEMMA RestKeeps ==
  ASSUME IInv, Tick \/ UNCHANGED vars
  PROVE  IInv'
<1>1. UNCHANGED <<burst, now, plan, quiet, verdict>>
  BY DEFS Tick, vars
<1>2. TypeOK' /\ JudgedHasRead' /\ \A f \in Firings : fpc'[f] = "put" => fpc[f] = "put"
  BY DEFS IInv, TypeOK, JudgedHasRead, Tick, vars
<1>3. Opened(burst)' /\ PlanIsSound' /\ SilenceIsEarned' /\ CriticalIsHeard'
  BY <1>1, <1>2 DEFS IInv, Opened, Passing, PlanIsSound, SilenceIsEarned, CriticalIsHeard, LetThrough
<1>4. QED  BY <1>2, <1>3 DEF IInv

\* The invariant holds of every behaviour.
THEOREM Invariance == Spec => []IInv
<1>1. IInv /\ [Next]_vars => IInv'
  BY ReadBurstKeeps, WriteBurstKeeps, RestKeeps DEF Next
<1>2. QED  BY InitHolds, <1>1, PTL DEF Spec

\* should_suppress_technique never silences a host for longer than the maximal
\* duration, whatever races and failures there are.
THEOREM Earned == Spec => []SilenceIsEarned
<1>1. IInv => SilenceIsEarned
  BY DEF IInv
<1>2. QED  BY <1>1, Invariance, PTL

\* should_suppress_technique only silences a critical firing after a critical
\* one.
THEOREM Heard == Spec => []CriticalIsHeard
<1>1. IInv => CriticalIsHeard
  BY DEF IInv
<1>2. QED  BY <1>1, Invariance, PTL
=============================================================================
