--------------------------- MODULE SuppressionWindow ---------------------------
(***************************************************************************)
(* The suppression of repeated firings of one technique against one host   *)
(* (should_suppress_technique): a document holds when the present burst    *)
(* began and was last seen and the severity it was raised for; a firing    *)
(* reads it, decides, and writes it back, with nothing to keep two         *)
(* firings apart.  A firing that is not suppressed goes on to be drafted.  *)
(*                                                                         *)
(* An operator named Definition_Change is Definition with one mistake; it  *)
(* is used nowhere and stands there to show that a property notices it.    *)
(***************************************************************************)
EXTENDS Integers

CONSTANTS
    Firings,       \* the deliveries for the host and technique
    Critical,      \* those of severity "critical"
    Window,        \* window_seconds
    MaxDuration,   \* max_duration_seconds
    Faults,        \* what may fail: a subset of FaultKinds
    Horizon        \* where the clock stops: a bound for TLC

FaultKinds == {"es", "crash"}  \* an Elasticsearch call fails, applied or not;
                               \* the agent dies before a firing is drafted

ASSUME CriticalAssumption == Critical \subseteq Firings
ASSUME WindowsAssumption == Window \in Nat /\ MaxDuration \in Nat
ASSUME FaultsAssumption == Faults \subseteq FaultKinds
ASSUME HorizonAssumption == Horizon \in Nat

VARIABLES
    clock,     \* the time
    burst,     \* the document, NoBurst when absent
    fpc,       \* where each firing is
    now,       \* the time a firing read
    plan,      \* what it is about to write
    quiet,     \* whether it has decided to be suppressed
    verdict    \* what run() was told; "lost": let through, and never drafted

vars == <<clock, burst, fpc, now, plan, quiet, verdict>>

NoBurst == [present |-> FALSE, first |-> 0, last |-> 0, critical |-> FALSE]
Bursts == [present : BOOLEAN, first : Nat, last : Nat, critical : BOOLEAN]

TypeOK ==
    /\ clock \in Nat
    /\ burst \in Bursts
    /\ fpc \in [Firings -> {"idle", "put", "done"}]
    /\ now \in [Firings -> Nat]
    /\ plan \in [Firings -> Bursts]
    /\ quiet \in [Firings -> BOOLEAN]
    /\ verdict \in [Firings -> {"none", "alert", "suppressed", "lost"}]

Init ==
    /\ clock = 0
    /\ burst = NoBurst
    /\ fpc = [f \in Firings |-> "idle"]
    /\ now = [f \in Firings |-> 0]
    /\ plan = [f \in Firings |-> NoBurst]
    /\ quiet = [f \in Firings |-> FALSE]
    /\ verdict = [f \in Firings |-> "none"]

\* The window slides with every firing, but not past its maximal duration, and
\* a first critical firing breaks through it.
Suppresses_NoCeiling(f, t) ==
    /\ burst.present
    /\ t - burst.last < Window
    /\ ~(f \in Critical /\ ~burst.critical)
Suppresses_NoEscalation(f, t) ==
    /\ burst.present
    /\ t - burst.last < Window
    /\ t - burst.first < MaxDuration
Suppresses(f, t) ==
    /\ burst.present
    /\ t - burst.last < Window
    /\ t - burst.first < MaxDuration
    /\ ~(f \in Critical /\ ~burst.critical)

\* What the firing writes back: the same burst seen again, or a fresh one.
Seen(f, t) ==
    LET again == Suppresses(f, t)
    IN  [present  |-> TRUE,
         first    |-> IF again THEN burst.first ELSE t,
         last     |-> t,
         critical |-> IF again THEN burst.critical ELSE f \in Critical]

\* The firing is over for this module: suppressed, or on its way to a draft.
Concluded(f, word) == /\ verdict' = [verdict EXCEPT ![f] = word]
                      /\ fpc' = [fpc EXCEPT ![f] = "done"]
Decided(f, suppressed) == Concluded(f, IF suppressed THEN "suppressed" ELSE "alert")

\* The GET.  run() lets a firing through when it fails.
ReadBurst(f) ==
    /\ fpc[f] = "idle"
    /\ now' = [now EXCEPT ![f] = clock]
    /\ \/ /\ quiet' = [quiet EXCEPT ![f] = Suppresses(f, clock)]
          /\ plan' = [plan EXCEPT ![f] = Seen(f, clock)]
          /\ fpc' = [fpc EXCEPT ![f] = "put"]
          /\ UNCHANGED verdict
       \/ /\ "es" \in Faults
          /\ Decided(f, FALSE)
          /\ UNCHANGED <<plan, quiet>>
    /\ UNCHANGED <<clock, burst>>

\* The PUT, unconditional; a failed one lets the firing through as well,
\* whatever it had decided and whether or not the write took place.
WriteBurst(f) ==
    /\ fpc[f] = "put"
    /\ \/ burst' = plan[f] /\ Decided(f, quiet[f])
       \/ "es" \in Faults /\ burst' = plan[f] /\ Decided(f, FALSE)
       \/ "es" \in Faults /\ UNCHANGED burst /\ Decided(f, FALSE)
    /\ UNCHANGED <<clock, now, plan, quiet>>

\* The agent dies with the burst on record, before it drafts the alert that the
\* burst now stands for.
Dies(f) ==
    /\ "crash" \in Faults /\ fpc[f] = "put"
    /\ burst' = plan[f]
    /\ Concluded(f, IF quiet[f] THEN "suppressed" ELSE "lost")
    /\ UNCHANGED <<clock, now, plan, quiet>>

Tick == /\ clock < Horizon
        /\ clock' = clock + 1
        /\ UNCHANGED <<burst, fpc, now, plan, quiet, verdict>>

Next == \/ \E f \in Firings : ReadBurst(f) \/ WriteBurst(f) \/ Dies(f)
        \/ Tick

Spec == Init /\ [][Next]_vars

-----------------------------------------------------------------------------
(* Properties.                                                             *)

\* Firing g was let through within MaxDuration before time t, or since, whether
\* or not the agent lived to draft it.
LetThrough(g, t) == verdict[g] \in {"alert", "lost"} /\ now[g] > t - MaxDuration

\* Silence has a reason: whenever a firing is suppressed, another one of the
\* last MaxDuration seconds was let through, no matter how the reads and writes
\* of firings interleave or fail (a window cannot keep itself alive "forever").
\* So an alert lost with the process that recorded its burst silences its host
\* for less than MaxDuration.
SilenceIsEarned ==
    \A f \in Firings : verdict[f] = "suppressed" => \E g \in Firings : LetThrough(g, now[f])

\* A critical firing is only suppressed after a critical one was let through:
\* "a critical firing always breaks through a window that hasn't seen critical
\* yet".
CriticalIsHeard ==
    \A f \in Critical : verdict[f] = "suppressed" => \E g \in Critical : LetThrough(g, now[f])
=============================================================================
