------------------------------- MODULE Sessions -----------------------------
(***************************************************************************)
(* addons/auth/session.go and session_store.go: revocable sessions of one  *)
(* principal in the in-memory store, the requests that present their       *)
(* cookies, and the calls that revoke, change and rotate them meanwhile.   *)
(*                                                                         *)
(* A store call is one step, under the store's lock; a request looks the   *)
(* record up, decides on its copy at a time read after the lookup, and     *)
(* touches the record.  The clock has SesSecond ticks to a second; expiry  *)
(* times are whole seconds, so that the cookie's Unix time and the         *)
(* record's time agree.                                                    *)
(***************************************************************************)
EXTENDS Naturals

CONSTANTS
  SesIds,        \* bound: how many sessions are issued
  SesRequests,   \* bound: how many requests are served at once
  SesTTL, SesIdleTTL, SesSecond,
  MaxSesClock    \* bound: the last tick

ASSUME SesAssumption ==
  /\ SesIds \in Nat /\ SesRequests \in Nat /\ MaxSesClock \in Nat
  /\ SesTTL \in Nat \ {0} /\ SesIdleTTL \in Nat \ {0} /\ SesSecond \in Nat \ {0}

VARIABLES
  sesClock,
  sesIssued,     \* how many sessions were issued; session n is the n-th
  sesAt,         \* session -> CreatedAt
  sesRevoked,    \* the records with Revoked
  sesChanged,    \* the records whose version is not the cookie's any more
  sesIdle,       \* session -> IdleExpiresAt
  sesRotating,   \* the session Rotate has revoked; 0: none
  sesFrom,       \* history: session -> the one it was rotated from
  sesPc,         \* request -> where it is
  sesId,         \* request -> the session its cookie names
  sesCopy,       \* request -> the record it looked up
  sesNow,        \* request -> the time it decided at
  sesDead,       \* history: request -> it came after a revocation or a change
  sesEnded,      \* history: the sessions that were revoked or changed
  sesActive      \* history: session -> when a request last passed the checks

sesStore == <<sesIssued, sesAt, sesRevoked, sesChanged, sesIdle>>
sesRequest == <<sesPc, sesId, sesCopy, sesNow, sesDead>>
sesVars == <<sesClock, sesStore, sesRotating, sesFrom, sesRequest, sesEnded, sesActive>>

SessionIds == 1 .. SesIds
Requests == 1 .. SesRequests

\* sessionExpiry: rounded up to a whole second.
SessionExpiry(now, ttl) == ((now + ttl + SesSecond - 1) \div SesSecond) * SesSecond

SesTypeOK ==
  /\ sesClock \in 0 .. MaxSesClock
  /\ sesIssued \in 0 .. SesIds
  /\ sesAt \in [SessionIds -> 0 .. MaxSesClock]
  /\ sesRevoked \subseteq 1 .. sesIssued /\ sesChanged \subseteq 1 .. sesIssued
  /\ sesEnded \subseteq 1 .. sesIssued
  /\ sesIdle \in [SessionIds -> Nat]
  /\ sesRotating \in 0 .. sesIssued
  /\ sesFrom \in [SessionIds -> 0 .. SesIds]
  /\ sesPc \in [Requests -> {"none", "verified", "found", "passed"}]
  /\ sesId \in [Requests -> 0 .. SesIds]
  /\ sesCopy \in [Requests -> [revoked : BOOLEAN, changed : BOOLEAN, idle : Nat]]
  /\ sesNow \in [Requests -> 0 .. MaxSesClock]
  /\ sesDead \in [Requests -> BOOLEAN]
  /\ sesActive \in [SessionIds -> 0 .. MaxSesClock]

NoCopy == [revoked |-> FALSE, changed |-> FALSE, idle |-> 0]

SesInit ==
  /\ sesClock = 0
  /\ sesIssued = 0
  /\ sesAt = [s \in SessionIds |-> 0]
  /\ sesRevoked = {} /\ sesChanged = {} /\ sesEnded = {}
  /\ sesIdle = [s \in SessionIds |-> 0]
  /\ sesRotating = 0
  /\ sesFrom = [s \in SessionIds |-> 0]
  /\ sesPc = [r \in Requests |-> "none"]
  /\ sesId = [r \in Requests |-> 0]
  /\ sesCopy = [r \in Requests |-> NoCopy]
  /\ sesNow = [r \in Requests |-> 0]
  /\ sesDead = [r \in Requests |-> FALSE]
  /\ sesActive = [s \in SessionIds |-> 0]

SesTick ==
  /\ sesClock < MaxSesClock
  /\ sesClock' = sesClock + 1
  /\ UNCHANGED <<sesStore, sesRotating, sesFrom, sesRequest, sesActive, sesEnded>>

-----------------------------------------------------------------------------
(* Issue, Rotate, Revoke, RevokePrincipal, UpdateSession.                  *)

\* CreateSession of the next session.
Create(from) ==
  /\ sesIssued < SesIds
  /\ sesIssued' = sesIssued + 1
  /\ sesAt' = [sesAt EXCEPT ![sesIssued + 1] = sesClock]
  /\ sesIdle' = [sesIdle EXCEPT ![sesIssued + 1] = SessionExpiry(sesClock, SesIdleTTL)]
  /\ sesActive' = [sesActive EXCEPT ![sesIssued + 1] = sesClock]
  /\ sesFrom' = [sesFrom EXCEPT ![sesIssued + 1] = from]

Issue ==
  /\ sesRotating = 0
  /\ Create(0)
  /\ UNCHANGED <<sesClock, sesRevoked, sesChanged, sesRotating, sesRequest, sesEnded>>

\* Rotate: the session of the request is revoked ...
RotateRevokes ==
  /\ sesRotating = 0
  /\ \E s \in 1 .. sesIssued :
       /\ sesRotating' = s
       /\ sesRevoked' = sesRevoked \cup {s}
       /\ sesEnded' = sesEnded \cup {s}
  /\ UNCHANGED <<sesClock, sesIssued, sesAt, sesChanged, sesIdle, sesFrom, sesRequest, sesActive>>

\* ... and a new one is issued, or cannot be.
RotateIssues ==
  /\ sesRotating # 0
  /\ \/ Create(sesRotating)
     \/ UNCHANGED <<sesIssued, sesAt, sesIdle, sesActive, sesFrom>>
  /\ sesRotating' = 0
  /\ UNCHANGED <<sesClock, sesRevoked, sesChanged, sesRequest, sesEnded>>

RevokeSession ==
  /\ \E s \in 1 .. sesIssued :
       sesRevoked' = sesRevoked \cup {s} /\ sesEnded' = sesEnded \cup {s}
  /\ UNCHANGED <<sesClock, sesIssued, sesAt, sesChanged, sesIdle, sesRotating, sesFrom, sesRequest,
                 sesActive>>

RevokePrincipal ==
  /\ sesRevoked' = 1 .. sesIssued
  /\ sesEnded' = 1 .. sesIssued
  /\ UNCHANGED <<sesClock, sesIssued, sesAt, sesChanged, sesIdle, sesRotating, sesFrom, sesRequest,
                 sesActive>>

\* UpdateSession gives the record another authorization version.
UpdateSession ==
  /\ \E s \in 1 .. sesIssued :
       sesChanged' = sesChanged \cup {s} /\ sesEnded' = sesEnded \cup {s}
  /\ UNCHANGED <<sesClock, sesIssued, sesAt, sesRevoked, sesIdle, sesRotating, sesFrom, sesRequest,
                 sesActive>>

-----------------------------------------------------------------------------
(* Principal and revocablePrincipal.                                       *)

\* The request is answered; the worker that served it is free for another.
Answered(r) ==
  /\ sesPc' = [sesPc EXCEPT ![r] = "none"]
  /\ sesId' = [sesId EXCEPT ![r] = 0]
  /\ sesCopy' = [sesCopy EXCEPT ![r] = NoCopy]
  /\ sesNow' = [sesNow EXCEPT ![r] = 0]
  /\ sesDead' = [sesDead EXCEPT ![r] = FALSE]

Expires(s) == SessionExpiry(sesAt[s], SesTTL)

\* The cookie is verified and has not expired; any other is answered at once.
Present(r) ==
  /\ sesPc[r] = "none"
  /\ \E s \in 1 .. sesIssued :
       /\ sesClock < Expires(s)
       /\ sesId' = [sesId EXCEPT ![r] = s]
       /\ sesPc' = [sesPc EXCEPT ![r] = "verified"]
       /\ sesDead' = [sesDead EXCEPT ![r] = s \in sesEnded]
  /\ UNCHANGED <<sesClock, sesStore, sesRotating, sesFrom, sesCopy, sesNow, sesActive, sesEnded>>

LookupSession(r) ==
  /\ sesPc[r] = "verified"
  /\ sesCopy' = [sesCopy EXCEPT ![r] = [revoked |-> sesId[r] \in sesRevoked,
                                        changed |-> sesId[r] \in sesChanged,
                                        idle |-> sesIdle[sesId[r]]]]
  /\ sesPc' = [sesPc EXCEPT ![r] = "found"]
  /\ UNCHANGED <<sesClock, sesStore, sesRotating, sesFrom, sesId, sesNow, sesDead, sesActive,
                 sesEnded>>

\* The copy is neither revoked nor expired, and its version is the cookie's.
Passes(r) ==
  /\ ~sesCopy[r].revoked /\ ~sesCopy[r].changed
  /\ sesClock < Expires(sesId[r]) /\ sesClock < sesCopy[r].idle

Decide(r) ==
  /\ sesPc[r] = "found"
  /\ IF Passes(r)
       THEN /\ sesPc' = [sesPc EXCEPT ![r] = "passed"]
            /\ sesNow' = [sesNow EXCEPT ![r] = sesClock]
            /\ sesActive' = [sesActive EXCEPT ![sesId[r]] = sesClock]
            /\ UNCHANGED <<sesId, sesCopy, sesDead>>
       ELSE Answered(r) /\ UNCHANGED sesActive
  /\ UNCHANGED <<sesClock, sesStore, sesRotating, sesFrom, sesEnded>>

\* A touch that writes the principal of the copy back.
TouchWritesBack(r) ==
  /\ sesPc[r] = "passed"
  /\ sesIdle' = [sesIdle EXCEPT ![sesId[r]] = SessionExpiry(sesNow[r], SesIdleTTL)]
  /\ sesChanged' = sesChanged \ {sesId[r]}
  /\ Answered(r)
  /\ UNCHANGED <<sesClock, sesIssued, sesAt, sesRevoked, sesRotating, sesFrom, sesActive, sesEnded>>

\* A touch with a time of its own.
TouchNow(r) ==
  /\ sesPc[r] = "passed"
  /\ sesIdle' = [sesIdle EXCEPT ![sesId[r]] = SessionExpiry(sesClock, SesIdleTTL)]
  /\ Answered(r)
  /\ UNCHANGED <<sesClock, sesIssued, sesAt, sesRevoked, sesChanged, sesRotating, sesFrom,
                 sesActive, sesEnded>>

\* TouchSession with the time of the decision, and the principal is returned.
TouchSession(r) ==
  /\ sesPc[r] = "passed"
  /\ sesIdle' = [sesIdle EXCEPT ![sesId[r]] = SessionExpiry(sesNow[r], SesIdleTTL)]
  /\ Answered(r)
  /\ UNCHANGED <<sesClock, sesIssued, sesAt, sesRevoked, sesChanged, sesRotating, sesFrom,
                 sesActive, sesEnded>>

-----------------------------------------------------------------------------
SesNext ==
  \/ SesTick \/ Issue \/ RotateRevokes \/ RotateIssues \/ RevokeSession \/ RevokePrincipal
  \/ UpdateSession
  \/ \E r \in Requests : Present(r) \/ LookupSession(r) \/ Decide(r) \/ TouchSession(r)

SesSpec == SesInit /\ [][SesNext]_sesVars

-----------------------------------------------------------------------------
(* Properties.                                                             *)

\* A request that comes after its session was revoked, or its principal's
\* sessions, or the session's authorization changed, gets no principal: no
\* request that was looked up before undoes the revocation with its touch.
\* A session that Rotate issued never coexists with the one it replaces.
RevocationHolds ==
  /\ \A r \in Requests : sesPc[r] = "passed" => ~sesDead[r]
  /\ \A s \in 1 .. sesIssued : sesFrom[s] # 0 => sesFrom[s] \in sesRevoked

\* No session outlives its times by a second or more: a request that gets a
\* principal was decided on before the session's TTL and a second had passed,
\* and the idle expiry, touched by requests in any order, is never later than
\* the last request that passed the checks allows.
SessionsTimely ==
  /\ \A r \in Requests :
       sesPc[r] = "passed" => sesNow[r] < sesAt[sesId[r]] + SesTTL + SesSecond
  /\ \A s \in 1 .. sesIssued : sesIdle[s] < sesActive[s] + SesIdleTTL + SesSecond
=============================================================================
