----------------------------- MODULE RateLimit ------------------------------
(***************************************************************************)
(* runtime/ratelimit: the fixed-window limiter over its in-memory store    *)
(* and over the Redis script, with concurrent requests.                    *)
(*                                                                         *)
(* AllowRequest reads the clock, then waits for the store's lock (or for   *)
(* Redis): a Take counts with a time that may be late, and Takes reach the *)
(* store in another order than their times.                                *)
(***************************************************************************)
EXTENDS Integers, FiniteSets

CONSTANTS
  RateKeys, RateKey,   \* the keys, and the one whose requests are counted
  RateMax, RateWindow, RateCleanup,   \* Limit, Window, CleanupInterval
  RateLag,        \* bound: how late a request's time may be when it is counted
  RateCalls,      \* bound: how many requests wait for the store at once
  MaxRateTakes,   \* bound: how many requests come
  MaxRateClock    \* bound: the last tick

ASSUME RateAssumption ==
  /\ RateKey \in RateKeys
  /\ RateMax \in Nat \ {0} /\ RateWindow \in Nat \ {0} /\ RateCleanup \in Nat \ {0}
  /\ RateLag \in 0 .. RateWindow - 1
  /\ MaxRateTakes \in Nat /\ MaxRateClock \in Nat \ {0}

VARIABLES
  rateRedis,      \* the limiter's store is Redis
  rateClock,
  rateEntries,    \* key -> its counter; count 0: no entry
  rateNext,       \* nextCleanup; 0 is the zero time
  rateCalls,      \* how many requests came
  rateWaiting,    \* those that have read the clock: [id, key, now]
  rateAllowed     \* history: the allowed requests of RateKey: [id, tick, reset]

rateVars == <<rateRedis, rateClock, rateEntries, rateNext, rateCalls, rateWaiting,
              rateAllowed>>

Ticks == 1 .. MaxRateClock
NoEntry == [count |-> 0, reset |-> 0]

RateTypeOK ==
  /\ rateRedis \in BOOLEAN
  /\ rateClock \in Ticks
  /\ rateEntries \in [RateKeys -> [count : Nat, reset : Nat]]
  /\ rateNext \in Nat
  /\ rateCalls \in 0 .. MaxRateTakes
  /\ rateWaiting \subseteq [id : 1 .. MaxRateTakes, key : RateKeys, now : Ticks]
  /\ rateAllowed \subseteq [id : 1 .. MaxRateTakes, tick : Ticks, reset : Nat]

RateInit ==
  /\ rateRedis \in BOOLEAN
  /\ rateClock = 1
  /\ rateEntries = [k \in RateKeys |-> NoEntry]
  /\ rateNext = 0
  /\ rateCalls = 0
  /\ rateWaiting = {}
  /\ rateAllowed = {}

-----------------------------------------------------------------------------
\* Time passes; no waiting request gets later than RateLag.
RateTick ==
  /\ rateClock < MaxRateClock
  /\ \A c \in rateWaiting : rateClock + 1 - c.now <= RateLag
  /\ rateClock' = rateClock + 1
  /\ UNCHANGED <<rateRedis, rateEntries, rateNext, rateCalls, rateWaiting, rateAllowed>>

\* AllowRequest reads the clock and calls the store.
AllowRequest ==
  /\ rateCalls < MaxRateTakes /\ Cardinality(rateWaiting) < RateCalls
  /\ rateCalls' = rateCalls + 1
  /\ \E k \in RateKeys :
       rateWaiting' = rateWaiting \cup {[id |-> rateCalls', key |-> k, now |-> rateClock]}
  /\ UNCHANGED <<rateRedis, rateClock, rateEntries, rateNext, rateAllowed>>

\* The entry a Take of key k with time now counts in: a new window at its
\* reset.  Redis compares its own clock.
Counted(entry, at, now) ==
  IF entry.count = 0 \/ at >= entry.reset
    THEN [count |-> 1, reset |-> now + RateWindow]
    ELSE [entry EXCEPT !.count = @ + 1]

\* A cleanup that takes every entry.
CleanupAll(entries, now) ==
  IF rateNext = 0 \/ now >= rateNext THEN [k \in RateKeys |-> NoEntry] ELSE entries

\* cleanupExpired: when it is due, the entries that are over at now go.
CleanupExpired(entries, now) ==
  IF rateNext = 0 \/ now >= rateNext
    THEN [k \in RateKeys |-> IF now >= entries[k].reset THEN NoEntry ELSE entries[k]]
    ELSE entries

\* The request is answered: it is allowed when the count is within the limit.
Admit(c, entry) ==
  /\ rateAllowed' = IF entry.count <= RateMax /\ c.key = RateKey
                      THEN rateAllowed \cup
                             {[id |-> c.id, tick |-> rateClock, reset |-> entry.reset]}
                      ELSE rateAllowed
  /\ rateWaiting' = rateWaiting \ {c}

\* InMemoryStore.Take, under the store's lock.
TakeInMemory(c) ==
  LET entry == Counted(rateEntries[c.key], c.now, c.now)
  IN  /\ ~rateRedis
      /\ rateEntries' = CleanupExpired([rateEntries EXCEPT ![c.key] = entry], c.now)
      /\ rateNext' = IF rateNext = 0 \/ c.now >= rateNext THEN c.now + RateCleanup ELSE rateNext
      /\ Admit(c, entry)
      /\ UNCHANGED <<rateRedis, rateClock, rateCalls>>

\* RedisStore.Take: one run of the script; the expiry is the caller's time
\* plus the window, on the clock of Redis.
TakeInRedis(c) ==
  LET entry == Counted(rateEntries[c.key], rateClock, c.now)
  IN  /\ rateRedis
      /\ rateEntries' = [rateEntries EXCEPT ![c.key] = entry]
      /\ Admit(c, entry)
      /\ UNCHANGED <<rateRedis, rateClock, rateNext, rateCalls>>

\* The context of the request ends, or Redis fails: nothing is counted, or
\* Redis has counted and the answer is lost.
TakeFails(c) ==
  /\ rateWaiting' = rateWaiting \ {c}
  /\ \/ UNCHANGED rateEntries
     \/ /\ rateRedis
        /\ rateEntries' = [rateEntries EXCEPT ![c.key] =
                              Counted(rateEntries[c.key], rateClock, c.now)]
  /\ UNCHANGED <<rateRedis, rateClock, rateNext, rateCalls, rateAllowed>>

RateNextStep ==
  \/ RateTick \/ AllowRequest
  \/ \E c \in rateWaiting : TakeInMemory(c) \/ TakeInRedis(c) \/ TakeFails(c)

RateSpec == RateInit /\ [][RateNextStep]_rateVars

-----------------------------------------------------------------------------
(* Properties.                                                             *)

\* The requests of the key allowed at the ticks from .. to.
AllowedIn(from, to) == Cardinality({a \in rateAllowed : a.tick \in from .. to})

\* Whatever the order in which late requests are counted, and whatever the
\* cleanup that another key's request triggers removes, no stretch of the
\* window's length less the lag lets more than two limits of one key through:
\* two windows of a key never begin closer together.
RateHolds ==
  \A t \in Ticks :
    t + RateWindow - RateLag - 1 <= MaxRateClock =>
      AllowedIn(t, t + RateWindow - RateLag - 1) <= 2 * RateMax
=============================================================================
