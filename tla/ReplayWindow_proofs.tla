-------------------------- MODULE ReplayWindow_proofs --------------------------
(***************************************************************************)
(* For every number of copies, window, clock and restart: a second copy of *)
(* a message is accepted by one process only after a verification at least *)
(* as slow as the first copy's journey, and what is called a replay is     *)
(* one.  Nothing is assumed of how long a message travels or a             *)
(* verification takes.                                                     *)
(***************************************************************************)
EXTENDS ReplayWindow, TLAPS

\* The time a copy was checked against lies in the past and in the window.
TimesAreSound ==
    \A c \in Copies :
        /\ vpc[c] \in {"match", "nonce"} => now[c] <= clock /\ now[c] <= stamp + Window
        /\ verdict[c] = "accepted" => /\ now[c] <= at[c] /\ at[c] <= clock
                                      /\ now[c] <= stamp + Window

\* The cache entry for a copy this process has accepted lasts for a window from
\* the time that copy was checked against, if not beyond.
EntryLasts ==
    \A b \in Copies : verdict[b] = "accepted" /\ server[b] = life =>
        \/ clock >= now[b] + Window
        \/ expiry # Uncached /\ expiry >= now[b] + Window

ServedBefore == \A c \in Copies : server[c] <= life

OnlyDoneHasVerdict == \A c \in Copies : verdict[c] # "none" => vpc[c] = "done"

IInv == /\ TypeOK /\ ServedBefore /\ OnlyDoneHasVerdict
        /\ TimesAreSound /\ EntryLasts /\ SecondNeedsDelay

\* An empty cache and no request in hand satisfy the invariant.
LEMMA InitHolds == Init => IInv
BY HorizonAssumption DEF Init, IInv, TypeOK, TimesAreSound, EntryLasts,
     OnlyDoneHasVerdict, ServedBefore, SecondNeedsDelay, SecondCopy, Uncached, Verdicts

\* Reading the time starts a verification in the window.
LEMMA CheckTimestampKeeps ==
  ASSUME IInv, NEW c \in Copies, CheckTimestamp(c)
  PROVE  IInv'
BY WindowAssumption
   DEF IInv, TypeOK, TimesAreSound, EntryLasts, OnlyDoneHasVerdict, ServedBefore,
       SecondNeedsDelay, SecondCopy, Uncached, Verdicts, CheckTimestamp, InWindow, Conclude

\* Comparing the signature leaves the cache alone.
LEMMA CompareSignatureKeeps ==
  ASSUME IInv, NEW c \in Copies, CompareSignature(c)
  PROVE  IInv'
BY WindowAssumption
   DEF IInv, TypeOK, TimesAreSound, EntryLasts, OnlyDoneHasVerdict, ServedBefore,
       SecondNeedsDelay, SecondCopy, Uncached, Verdicts, CompareSignature, Conclude

\* An acceptance finds every earlier copy's window over, by the clock if not by
\* the time it has read.
LEMMA ConsultCacheKeeps ==
  ASSUME IInv, NEW c \in Copies, ConsultCache(c)
  PROVE  IInv'
<1> USE WindowAssumption
<1>1. TypeOK' /\ OnlyDoneHasVerdict' /\ ServedBefore'
  BY DEF IInv, TypeOK, OnlyDoneHasVerdict, ServedBefore, Verdicts, ConsultCache,
         Conclude, Uncached
<1>2. now[c] <= clock /\ now[c] <= stamp + Window
  BY DEF IInv, TimesAreSound, ConsultCache
<1>3. TimesAreSound'
  BY <1>2 DEF IInv, TypeOK, TimesAreSound, ConsultCache, Conclude
<1>4. CASE Cached(now[c])
  BY <1>1, <1>3, <1>4
     DEF IInv, TypeOK, EntryLasts, SecondNeedsDelay, SecondCopy, ConsultCache, Conclude
<1>5. CASE ~Cached(now[c])
  <2>1. \A b \in Copies : verdict[b] = "accepted" /\ server[b] = life =>
                              clock >= now[b] + Window
    BY <1>2, <1>5 DEF IInv, TypeOK, EntryLasts, Cached, Uncached
  <2>2. EntryLasts'
    BY <2>1, <1>2, <1>5 DEF IInv, TypeOK, EntryLasts, ConsultCache, Conclude, Uncached
  <2>3. SecondNeedsDelay'
    <3> SUFFICES ASSUME NEW b \in Copies, NEW d \in Copies, SecondCopy(b, d)'
                 PROVE  at'[d] - now'[d] >= now'[b] - stamp'
      BY DEF SecondNeedsDelay
    <3>1. CASE d = c
      BY <3>1, <2>1, <1>2, <1>5 DEF IInv, TypeOK, SecondCopy, ConsultCache, Conclude
    <3>2. CASE b = c
      <4>1. at[d] = clock /\ clock >= now[d] + Window
        BY <3>2, <2>1, <1>5
           DEF IInv, TypeOK, TimesAreSound, SecondCopy, ConsultCache, Conclude
      <4>2. QED
        BY <4>1, <3>2, <1>2, <1>5 DEF IInv, TypeOK, SecondCopy, ConsultCache, Conclude
    <3>3. CASE b # c /\ d # c
      BY <3>3, <1>5 DEF IInv, TypeOK, SecondNeedsDelay, SecondCopy, ConsultCache, Conclude
    <3>4. QED  BY <3>1, <3>2, <3>3
  <2>4. QED  BY <1>1, <1>3, <2>2, <2>3 DEF IInv
<1>6. QED  BY <1>4, <1>5

\* Pruning removes an entry only when its time is over.
LEMMA VerifyOtherKeeps ==
  ASSUME IInv, VerifyOther
  PROVE  IInv'
BY WindowAssumption
   DEF IInv, TypeOK, TimesAreSound, EntryLasts, OnlyDoneHasVerdict, ServedBefore,
       SecondNeedsDelay, SecondCopy, Uncached, Cached, VerifyOther

\* A new process has accepted nothing.
LEMMA RestartKeeps ==
  ASSUME IInv, Restart
  PROVE  IInv'
BY DEF IInv, TypeOK, TimesAreSound, EntryLasts, OnlyDoneHasVerdict, ServedBefore,
       SecondNeedsDelay, SecondCopy, Uncached, Restart

\* Time passes, whatever is under way.
LEMMA TickKeeps ==
  ASSUME IInv, Tick
  PROVE  IInv'
BY WindowAssumption
   DEF IInv, TypeOK, TimesAreSound, EntryLasts, OnlyDoneHasVerdict, ServedBefore,
       SecondNeedsDelay, SecondCopy, Uncached, Tick

\* A step that changes nothing of the model keeps the invariant.
LEMMA StutterKeeps ==
  ASSUME IInv, UNCHANGED vars
  PROVE  IInv'
BY DEF IInv, TypeOK, TimesAreSound, EntryLasts, OnlyDoneHasVerdict, ServedBefore,
       SecondNeedsDelay, SecondCopy, vars

\* SecondNeedsDelay of verify_signature and _verify: a second copy of a message
\* is accepted in the life of a process only when its verification took at least
\* as long as the first copy's journey from the sender's timestamp.
THEOREM SecondIsDelayed == Spec => []SecondNeedsDelay
<1>1. IInv /\ [Next]_vars => IInv'
  BY CheckTimestampKeeps, CompareSignatureKeeps, ConsultCacheKeeps,
     VerifyOtherKeeps, RestartKeeps, TickKeeps, StutterKeeps DEF Next
<1>2. IInv => SecondNeedsDelay
  BY DEF IInv
<1>3. QED  BY InitHolds, <1>1, <1>2, PTL DEF Spec

-----------------------------------------------------------------------------

\* An entry in the cache was recorded by this process for a copy it accepted.
EntryHasReason ==
    expiry # Uncached => \E b \in Copies : verdict[b] = "accepted" /\ server[b] = life

RInv == TypeOK /\ OnlyDoneHasVerdict /\ EntryHasReason /\ ReplaysAreReplays

\* A verdict once given stays, with the process that gave it.
LEMMA VerdictsStay ==
  ASSUME RInv, [Next]_vars
  PROVE  \A b \in Copies : verdict[b] # "none" =>
            verdict'[b] = verdict[b] /\ server'[b] = server[b]
BY DEF RInv, TypeOK, OnlyDoneHasVerdict, Next, vars, CheckTimestamp, CompareSignature,
       ConsultCache, Conclude, VerifyOther, Restart, Tick

\* Every step keeps the types, and verdicts to verifications that have ended.
LEMMA TypesKeep ==
  ASSUME RInv, [Next]_vars
  PROVE  TypeOK' /\ OnlyDoneHasVerdict'
<1> USE WindowAssumption DEF RInv, TypeOK, OnlyDoneHasVerdict, Verdicts, Uncached
<1>1. ASSUME NEW c \in Copies, CheckTimestamp(c) \/ CompareSignature(c) \/ ConsultCache(c)
      PROVE  TypeOK' /\ OnlyDoneHasVerdict'
  BY <1>1 DEF CheckTimestamp, CompareSignature, ConsultCache, Conclude
<1>2. CASE VerifyOther \/ Restart \/ Tick \/ UNCHANGED vars
  BY <1>2 DEF VerifyOther, Restart, Tick, vars
<1>3. QED  BY <1>1, <1>2 DEF Next

\* Only an acceptance makes an entry, and only an entry makes a replay.
LEMMA ReasonsKeep ==
  ASSUME RInv, [Next]_vars
  PROVE  EntryHasReason' /\ ReplaysAreReplays'
<1> USE VerdictsStay
<1>1. ASSUME NEW c \in Copies, ConsultCache(c)
      PROVE  EntryHasReason' /\ ReplaysAreReplays'
  <2>1. CASE Cached(now[c])
    BY <1>1, <2>1 DEF RInv, TypeOK, ConsultCache, Conclude, Cached, EntryHasReason, ReplaysAreReplays
  <2>2. CASE ~Cached(now[c])
    BY <1>1, <2>2 DEF RInv, TypeOK, ConsultCache, Conclude, EntryHasReason, ReplaysAreReplays
  <2>3. QED  BY <2>1, <2>2
<1>2. ASSUME NEW c \in Copies, CheckTimestamp(c) \/ CompareSignature(c)
      PROVE  EntryHasReason' /\ ReplaysAreReplays'
  BY <1>2 DEF RInv, TypeOK, OnlyDoneHasVerdict, CheckTimestamp, CompareSignature, Conclude,
              EntryHasReason, ReplaysAreReplays
<1>3. CASE VerifyOther \/ Restart \/ Tick \/ UNCHANGED vars
  BY <1>3 DEF RInv, VerifyOther, Restart, Tick, vars, EntryHasReason, ReplaysAreReplays
<1>4. QED  BY <1>1, <1>2, <1>3 DEF Next

\* ReplaysAreReplays of _nonce_is_fresh, under any clock and latency: nothing is
\* refused as a replay but a copy of what the same process has accepted.
THEOREM OnlyReplaysRefused == Spec => []ReplaysAreReplays
<1>1. Init => RInv
  BY HorizonAssumption DEF Init, RInv, TypeOK, OnlyDoneHasVerdict, EntryHasReason,
     ReplaysAreReplays, Uncached, Verdicts
<1>2. RInv /\ [Next]_vars => RInv'
  BY TypesKeep, ReasonsKeep DEF RInv
<1>3. RInv => ReplaysAreReplays
  BY DEF RInv
<1>4. QED  BY <1>1, <1>2, <1>3, PTL DEF Spec
=============================================================================
