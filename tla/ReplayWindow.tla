----------------------------- MODULE ReplayWindow -----------------------------
(***************************************************************************)
(* At-most-once acceptance of a signed message by the agent                *)
(* (verify_signature) and by the broker (_verify), which use one scheme: a *)
(* timestamp within +/- Window seconds of now, then a cache of the         *)
(* signatures accepted during the last Window seconds.                     *)
(*                                                                         *)
(* Several copies of one message arrive, some damaged on the way.  Other   *)
(* messages matter only in that verifying them prunes the cache.  Time is  *)
(* in whole seconds, as int(time.time()) is.  Nothing bounds how long a    *)
(* message travels, how far the sender's clock is ahead, or how long a     *)
(* verification takes.  The cache lives in memory: a restarted process has *)
(* forgotten it.                                                           *)
(*                                                                         *)
(* CompareSignature_RecordsFirst and InWindow_OneLonger are mistaken forms *)
(* of the definitions they name, used nowhere.                             *)
(***************************************************************************)
EXTENDS Integers

CONSTANTS
    Copies,       \* the deliveries of the message
    Window,       \* HMAC_REPLAY_WINDOW
    Restarts,     \* bound: how often the process is restarted
    Horizon       \* where the clock stops: a bound for TLC

ASSUME WindowAssumption == Window \in Nat
ASSUME RestartsAssumption == Restarts \in Nat
ASSUME HorizonAssumption == Horizon \in Nat

VARIABLES
    clock,      \* the verifier's clock
    stamp,      \* the message's timestamp
    expiry,     \* when its cache entry expires, Uncached without an entry
    vpc,        \* where each copy's verification is
    now,        \* the time a verification read
    verdict,    \* what it concluded
    life,       \* the restarts so far
    server,     \* the life of the process that concluded it
    at          \* when it did (history)

vars == <<clock, stamp, expiry, vpc, now, verdict, life, server, at>>

Uncached == -1
Verdicts == {"none", "outside_window", "bad_signature", "replayed", "accepted"}

TypeOK ==
    /\ clock \in Nat /\ stamp \in Nat
    /\ expiry \in Nat \cup {Uncached}
    /\ vpc \in [Copies -> {"idle", "match", "nonce", "done"}]
    /\ now \in [Copies -> Nat]
    /\ verdict \in [Copies -> Verdicts]
    /\ life \in Nat /\ server \in [Copies -> Nat] /\ at \in [Copies -> Nat]

Init == /\ clock = 0
        /\ stamp \in 0..Horizon
        /\ expiry = Uncached
        /\ vpc = [c \in Copies |-> "idle"]
        /\ now = [c \in Copies |-> 0]
        /\ verdict = [c \in Copies |-> "none"]
        /\ life = 0 /\ server = [c \in Copies |-> 0]
        /\ at = [c \in Copies |-> 0]

Conclude(c, word) == /\ vpc' = [vpc EXCEPT ![c] = "done"]
                     /\ verdict' = [verdict EXCEPT ![c] = word]
                     /\ server' = [server EXCEPT ![c] = life]
                     /\ at' = [at EXCEPT ![c] = clock]

\* The copy arrives and its timestamp is compared with the time read now.
InWindow_OneLonger(t) == t - stamp <= Window + 1 /\ stamp - t <= Window
InWindow(t) == t - stamp <= Window /\ stamp - t <= Window

CheckTimestamp(c) ==
    /\ vpc[c] = "idle"
    /\ now' = [now EXCEPT ![c] = clock]
    /\ \/ /\ InWindow(clock)
          /\ vpc' = [vpc EXCEPT ![c] = "match"]
          /\ UNCHANGED <<verdict, server, at>>
       \/ ~InWindow(clock) /\ Conclude(c, "outside_window")
    /\ UNCHANGED <<clock, stamp, expiry, life>>

\* The HMAC over the body, which the broker has yet to receive: a damaged
\* copy goes no further and leaves no trace in the cache.
CompareSignature_RecordsFirst(c) ==
    /\ vpc[c] = "match"
    /\ expiry' = now[c] + Window
    /\ \/ vpc' = [vpc EXCEPT ![c] = "nonce"] /\ UNCHANGED <<verdict, server, at>>
       \/ Conclude(c, "bad_signature")
    /\ UNCHANGED <<clock, stamp, now, life>>

CompareSignature(c) ==
    /\ vpc[c] = "match"
    /\ \/ vpc' = [vpc EXCEPT ![c] = "nonce"] /\ UNCHANGED <<verdict, server, at>>
       \/ Conclude(c, "bad_signature")
    /\ UNCHANGED <<clock, stamp, expiry, now, life>>

\* _nonce_is_fresh, under its lock: prune what has expired by the time read
\* earlier, then accept and record the signature unless it is still there.
Cached(t) == expiry # Uncached /\ expiry > t

ConsultCache(c) ==
    /\ vpc[c] = "nonce"
    /\ \/ Cached(now[c]) /\ Conclude(c, "replayed") /\ UNCHANGED expiry
       \/ ~Cached(now[c]) /\ Conclude(c, "accepted") /\ expiry' = now[c] + Window
    /\ UNCHANGED <<clock, stamp, now, life>>

\* The verification of some other message prunes the cache.
VerifyOther == /\ expiry # Uncached /\ ~Cached(clock)
               /\ expiry' = Uncached
               /\ UNCHANGED <<clock, stamp, vpc, now, verdict, life, server, at>>

\* The process and the verifications in it end; the next one starts with an
\* empty cache.
Restart == /\ life < Restarts
           /\ life' = life + 1
           /\ expiry' = Uncached
           /\ vpc' = [c \in Copies |-> IF vpc[c] = "idle" THEN "idle" ELSE "done"]
           /\ UNCHANGED <<clock, stamp, now, verdict, server, at>>

Tick == /\ clock < Horizon
        /\ clock' = clock + 1
        /\ UNCHANGED <<stamp, expiry, vpc, now, verdict, life, server, at>>

Next == \/ \E c \in Copies : CheckTimestamp(c) \/ CompareSignature(c) \/ ConsultCache(c)
        \/ VerifyOther \/ Restart
        \/ Tick

Spec == Init /\ [][Next]_vars

-----------------------------------------------------------------------------
(* Properties.                                                             *)

SecondCopy(b, c) == /\ b # c /\ server[b] = server[c] /\ at[b] <= at[c]
                    /\ verdict[b] = "accepted" /\ verdict[c] = "accepted"

\* "A captured signed request cannot be replayed": one signed message is accepted
\* at most once by one run of the process.  The code does not keep this word.
AcceptedOnce == \A b, c \in Copies : ~SecondCopy(b, c)

\* What it keeps: a second copy gets through only if its verification took at
\* least as long, from reading the clock to consulting the cache, as the first
\* copy had taken to arrive.  A message that arrives in a later second than its
\* timestamp's is safe from prompt verifications, one of the same second is not.
SecondNeedsDelay ==
    \A b, c \in Copies : SecondCopy(b, c) => at[c] - now[c] >= now[b] - stamp

\* No message is lost to the cache: a copy is refused as a replay only when the
\* same process accepted another one before it, and not because it saw a damaged
\* copy or because an earlier process accepted one.
ReplaysAreReplays ==
    \A c \in Copies : verdict[c] = "replayed" =>
        \E b \in Copies : verdict[b] = "accepted" /\ server[b] = server[c]
=============================================================================
