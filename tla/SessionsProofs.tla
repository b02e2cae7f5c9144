--------------------------- MODULE SessionsProofs ---------------------------
(***************************************************************************)
(* Theorems about Sessions, for any number of sessions and of requests at  *)
(* once, any TTLs and any length of a second, and about RateLimit, for any *)
(* keys, limit, window, lag and sweep interval.                            *)
(***************************************************************************)
EXTENDS Sessions, RateLimit, FiniteSetTheorems, TLAPS

(***************************************************************************)
(* The inductive invariant.  A request that came too late names an ended   *)
(* session, and its copy, taken after that, says so; the time a request    *)
(* was decided at is never later than the session's last activity.         *)
(***************************************************************************)
CookieInv == \A r \in Requests : sesPc[r] # "none" => sesId[r] \in 1 .. sesIssued

DeadInv ==
  /\ sesEnded = sesRevoked \cup sesChanged
  /\ \A r \in Requests : sesPc[r] = "verified" /\ sesDead[r] => sesId[r] \in sesEnded
  /\ \A r \in Requests :
       sesPc[r] = "found" /\ sesDead[r] => sesCopy[r].revoked \/ sesCopy[r].changed

RotateInv == sesRotating # 0 => sesRotating \in sesRevoked

TimeInv ==
  /\ \A s \in SessionIds : sesActive[s] <= sesClock
  /\ \A r \in Requests : sesPc[r] = "passed" => sesNow[r] <= sesActive[sesId[r]]

SesInv ==
  SesTypeOK /\ CookieInv /\ DeadInv /\ RotateInv /\ TimeInv /\ RevocationHolds /\ SessionsTimely

\* An expiry time is less than a second later than the time and the TTL give.
LEMMA ExpiryBound ==
  ASSUME NEW now \in Nat, NEW ttl \in Nat
  PROVE  /\ SessionExpiry(now, ttl) \in Nat
         /\ SessionExpiry(now, ttl) < now + ttl + SesSecond
<1> DEFINE a == now + ttl + SesSecond - 1
<1>1. a \in Nat /\ SesSecond \in Nat \ {0}
  BY SesAssumption
<1>2. SessionExpiry(now, ttl) = (a \div SesSecond) * SesSecond
  BY DEF SessionExpiry
<1>3. a \div SesSecond \in Nat /\ (a \div SesSecond) * SesSecond <= a
  <2> HIDE DEF a
  <2> QED BY <1>1, SMT
<1>4. (a \div SesSecond) * SesSecond \in Nat
  BY <1>1, <1>3
<1> QED BY <1>1, <1>2, <1>3, <1>4

\* The invariant holds at the start.
LEMMA SesInvInit == SesInit => SesInv
  BY SesAssumption
  DEF SesInit, SesInv, SesTypeOK, CookieInv, DeadInv, RotateInv, TimeInv, RevocationHolds,
      SessionsTimely, NoCopy, SessionIds, Requests

\* The request is answered: nothing of the invariant is about it any more.
LEMMA AnsweredKeeps ==
  ASSUME SesInv, NEW r \in Requests, Answered(r)
  PROVE  /\ sesPc' \in [Requests -> {"none", "verified", "found", "passed"}]
         /\ sesId' \in [Requests -> 0 .. SesIds]
         /\ sesCopy' \in [Requests -> [revoked : BOOLEAN, changed : BOOLEAN, idle : Nat]]
         /\ sesNow' \in [Requests -> 0 .. MaxSesClock]
         /\ sesDead' \in [Requests -> BOOLEAN]
         /\ sesPc'[r] = "none"
         /\ \A q \in Requests : q # r =>
              /\ sesPc'[q] = sesPc[q] /\ sesId'[q] = sesId[q] /\ sesCopy'[q] = sesCopy[q]
              /\ sesNow'[q] = sesNow[q] /\ sesDead'[q] = sesDead[q]
  BY SesAssumption DEF SesInv, SesTypeOK, Answered, NoCopy

\* Every step keeps the invariant.
LEMMA SesInvStep == SesInv /\ [SesNext]_sesVars => SesInv'
<1> SUFFICES ASSUME SesInv, [SesNext]_sesVars PROVE SesInv'
  OBVIOUS
<1> USE DEF SessionIds, sesStore, sesRequest
<1>c. /\ SesIds \in Nat /\ MaxSesClock \in Nat /\ SesTTL \in Nat /\ SesIdleTTL \in Nat
      /\ SesSecond \in Nat
  BY SesAssumption
<1>t. SesTypeOK
  BY DEF SesInv
<1>x. \A n \in Nat : \A t \in Nat :
        SessionExpiry(n, t) \in Nat /\ SessionExpiry(n, t) < n + t + SesSecond
  BY ExpiryBound
<1>n. /\ sesClock \in Nat /\ sesClock <= MaxSesClock
      /\ sesIssued \in Nat /\ sesIssued <= SesIds
      /\ \A s \in SessionIds : /\ sesAt[s] \in Nat /\ sesIdle[s] \in Nat
                               /\ sesActive[s] \in Nat /\ sesActive[s] <= MaxSesClock
      /\ \A r \in Requests : sesNow[r] \in Nat /\ sesNow[r] <= MaxSesClock
      /\ \A s \in 1 .. sesIssued : s \in SessionIds
  BY <1>t, <1>c DEF SesTypeOK
<1>1. CASE UNCHANGED sesVars
  BY <1>1 DEF sesVars, SesInv, SesTypeOK, CookieInv, DeadInv, RotateInv, TimeInv,
              RevocationHolds, SessionsTimely
<1>2. CASE SesTick
  <2>1. /\ sesClock' = sesClock + 1 /\ sesClock < MaxSesClock
        /\ UNCHANGED <<sesStore, sesRotating, sesFrom, sesRequest, sesActive, sesEnded>>
    BY <1>2 DEF SesTick
  <2>2. sesClock' \in 0 .. MaxSesClock
    BY <1>c, <1>n, <2>1
  <2>3. SesTypeOK'
    BY <1>t, <2>1, <2>2 DEF SesTypeOK
  <2>4. CookieInv' /\ DeadInv' /\ RotateInv' /\ RevocationHolds' /\ SessionsTimely'
    BY <2>1 DEF SesInv, CookieInv, DeadInv, RotateInv, RevocationHolds, SessionsTimely
  <2>5. TimeInv'
    BY <1>n, <2>1 DEF SesInv, TimeInv
  <2> QED BY <2>3, <2>4, <2>5 DEF SesInv
<1>3. ASSUME NEW from \in 0 .. sesIssued, Create(from), from # 0 => from \in sesRevoked,
             sesRotating' \in {0, sesRotating},
             UNCHANGED <<sesClock, sesRevoked, sesChanged, sesRequest, sesEnded>>
      PROVE  SesInv'
  <2> DEFINE n == sesIssued + 1
  <2>1. n \in SessionIds /\ sesIssued \in Nat /\ sesIssued' = n /\ from \in 0 .. SesIds
    BY <1>3, <1>c DEF Create, SesInv, SesTypeOK
  <2>2. SesTypeOK'
    <3>1. /\ sesAt' \in [SessionIds -> 0 .. MaxSesClock]
          /\ sesActive' \in [SessionIds -> 0 .. MaxSesClock]
          /\ sesFrom' \in [SessionIds -> 0 .. SesIds]
      BY <1>3, <1>t, <2>1 DEF Create, SesTypeOK
    <3>2. sesIdle' \in [SessionIds -> Nat]
      BY <1>3, <1>t, <1>c, <1>n, <1>x, <2>1 DEF Create, SesTypeOK
    <3>3. 1 .. sesIssued \subseteq 1 .. sesIssued' /\ sesIssued' \in 0 .. SesIds
      BY <1>c, <1>n, <2>1
    <3>4. sesRotating' \in 0 .. sesIssued'
      BY <1>3, <1>t, <2>1 DEF SesTypeOK
    <3> QED BY <1>3, <1>t, <3>1, <3>2, <3>3, <3>4 DEF SesTypeOK
  <2>3. \A s \in 1 .. sesIssued : /\ sesAt'[s] = sesAt[s] /\ sesIdle'[s] = sesIdle[s]
                                  /\ sesActive'[s] = sesActive[s] /\ sesFrom'[s] = sesFrom[s]
    BY <1>3, <2>1 DEF Create, SesInv, SesTypeOK
  <2>4. /\ sesIdle'[n] < sesActive'[n] + SesIdleTTL + SesSecond
        /\ sesActive'[n] = sesClock /\ sesFrom'[n] = from
    BY <1>3, <1>c, <1>x, <2>1 DEF Create, SesInv, SesTypeOK
  <2>5. \A s \in 1 .. sesIssued' : s \in 1 .. sesIssued \/ s = n
    BY <2>1
  <2>6. \A s \in SessionIds : sesActive'[s] = IF s = n THEN sesClock ELSE sesActive[s]
    BY <1>3, <2>1 DEF Create, SesInv, SesTypeOK
  <2>7. CookieInv' /\ DeadInv' /\ RotateInv'
    BY <1>3, <2>1 DEF SesInv, CookieInv, DeadInv, RotateInv
  <2>8. TimeInv'
    <3>1. \A s \in SessionIds : sesActive'[s] <= sesClock'
      BY <1>3, <1>n, <2>6 DEF SesInv, TimeInv
    <3>2. \A r \in Requests : sesPc'[r] = "passed" => sesNow'[r] <= sesActive'[sesId'[r]]
      BY <1>3, <2>3 DEF SesInv, CookieInv, TimeInv
    <3> QED BY <3>1, <3>2 DEF TimeInv
  <2>9. RevocationHolds'
    BY <1>3, <2>3, <2>4, <2>5 DEF SesInv, RevocationHolds
  <2>10. SessionsTimely'
    BY <1>3, <2>3, <2>4, <2>5 DEF SesInv, CookieInv, SessionsTimely
  <2> QED BY <2>2, <2>7, <2>8, <2>9, <2>10 DEF SesInv
<1>4. CASE Issue
  BY <1>3, <1>4, <1>t DEF Issue, SesTypeOK
<1>5. CASE RotateRevokes
  BY <1>5, <1>c DEF RotateRevokes, SesInv, SesTypeOK, CookieInv, DeadInv, RotateInv, TimeInv,
              RevocationHolds, SessionsTimely
<1>6. CASE RotateIssues
  <2>1. CASE Create(sesRotating)
    BY <1>3, <1>6, <1>t, <2>1 DEF RotateIssues, SesInv, SesTypeOK, RotateInv
  <2>2. CASE UNCHANGED <<sesIssued, sesAt, sesIdle, sesActive, sesFrom>>
    <3>1. /\ sesRotating' = 0
          /\ UNCHANGED <<sesClock, sesStore, sesFrom, sesRequest, sesActive, sesEnded>>
      BY <1>6, <2>2 DEF RotateIssues
    <3>2. SesTypeOK'
      <4>1. sesRotating' \in 0 .. sesIssued'
        BY <1>n, <3>1
      <4> QED BY <1>t, <3>1, <4>1 DEF SesTypeOK
    <3>3. CookieInv' /\ DeadInv' /\ RotateInv' /\ TimeInv' /\ RevocationHolds' /\ SessionsTimely'
      BY <3>1 DEF SesInv, CookieInv, DeadInv, RotateInv, TimeInv, RevocationHolds, SessionsTimely
    <3> QED BY <3>2, <3>3 DEF SesInv
  <2> QED BY <1>6, <2>1, <2>2 DEF RotateIssues
<1>7. CASE RevokeSession
  BY <1>7, <1>c DEF RevokeSession, SesInv, SesTypeOK, CookieInv, DeadInv, RotateInv, TimeInv,
              RevocationHolds, SessionsTimely
<1>8. CASE RevokePrincipal
  BY <1>8, <1>c DEF RevokePrincipal, SesInv, SesTypeOK, CookieInv, DeadInv, RotateInv, TimeInv,
              RevocationHolds, SessionsTimely
<1>9. CASE UpdateSession
  BY <1>9, <1>c DEF UpdateSession, SesInv, SesTypeOK, CookieInv, DeadInv, RotateInv, TimeInv,
              RevocationHolds, SessionsTimely
<1>10. ASSUME NEW r \in Requests, Present(r) PROVE SesInv'
  <2>1. PICK s \in 1 .. sesIssued : /\ sesId' = [sesId EXCEPT ![r] = s]
                                     /\ sesPc' = [sesPc EXCEPT ![r] = "verified"]
                                     /\ sesDead' = [sesDead EXCEPT ![r] = s \in sesEnded]
    BY <1>10 DEF Present
  <2>2. UNCHANGED <<sesClock, sesStore, sesRotating, sesFrom, sesCopy, sesNow, sesActive, sesEnded>>
    BY <1>10 DEF Present
  <2>3. s \in 0 .. SesIds
    BY <1>c, <1>n
  <2>4. SesTypeOK'
    BY <1>t, <2>1, <2>2, <2>3 DEF SesTypeOK
  <2>5. CookieInv' /\ DeadInv' /\ RotateInv'
    BY <1>t, <2>1, <2>2 DEF SesInv, SesTypeOK, CookieInv, DeadInv, RotateInv
  <2>6. TimeInv' /\ RevocationHolds' /\ SessionsTimely'
    BY <1>t, <2>1, <2>2 DEF SesInv, SesTypeOK, TimeInv, RevocationHolds, SessionsTimely
  <2> QED BY <2>4, <2>5, <2>6 DEF SesInv
<1>11. ASSUME NEW r \in Requests, LookupSession(r) PROVE SesInv'
  <2>1. sesId[r] \in 1 .. sesIssued /\ sesId[r] \in SessionIds
    BY <1>11, <1>c DEF LookupSession, SesInv, SesTypeOK, CookieInv
  <2>2. SesTypeOK'
    <3>1. sesIdle[sesId[r]] \in Nat
      BY <1>n, <2>1
    <3> QED BY <1>11, <1>t, <3>1 DEF LookupSession, SesTypeOK
  <2>3. CookieInv' /\ DeadInv' /\ RotateInv' /\ TimeInv' /\ RevocationHolds' /\ SessionsTimely'
    BY <1>11, <2>1 DEF LookupSession, SesInv, SesTypeOK, CookieInv, DeadInv, RotateInv, TimeInv,
              RevocationHolds, SessionsTimely
  <2> QED BY <2>2, <2>3 DEF SesInv
<1>12. ASSUME NEW r \in Requests, Decide(r) PROVE SesInv'
  <2>1. /\ sesId[r] \in 1 .. sesIssued /\ sesId[r] \in SessionIds
        /\ sesPc[r] = "found" /\ sesClock \in Nat
    BY <1>12, <1>n DEF Decide, SesInv, CookieInv
  <2>2. CASE Passes(r)
    <3>a. /\ sesPc' = [sesPc EXCEPT ![r] = "passed"]
          /\ sesNow' = [sesNow EXCEPT ![r] = sesClock]
          /\ sesActive' = [sesActive EXCEPT ![sesId[r]] = sesClock]
          /\ UNCHANGED <<sesId, sesCopy, sesDead, sesClock, sesStore, sesRotating, sesFrom,
                         sesEnded>>
      BY <1>12, <2>2 DEF Decide
    <3>1. SesTypeOK'
      BY <1>t, <2>1, <3>a DEF SesTypeOK
    <3>2. CookieInv' /\ DeadInv' /\ RotateInv'
      BY <1>t, <2>1, <3>a DEF SesInv, SesTypeOK, CookieInv, DeadInv, RotateInv
    <3>6. /\ \A s \in SessionIds : /\ sesActive[s] <= sesActive'[s] /\ sesActive'[s] \in Nat
                                   /\ sesActive'[s] <= sesClock
          /\ sesActive'[sesId[r]] = sesClock
      BY <1>t, <1>n, <2>1, <3>a DEF SesInv, SesTypeOK, TimeInv
    <3>8. \A q \in Requests : sesNow'[q] = IF q = r THEN sesClock ELSE sesNow[q]
      BY <1>t, <3>a DEF SesTypeOK
    <3>9. \A q \in Requests : sesPc'[q] = IF q = r THEN "passed" ELSE sesPc[q]
      BY <1>t, <3>a DEF SesTypeOK
    <3>3. TimeInv'
      <4>1. \A q \in Requests : sesPc'[q] = "passed" => sesNow'[q] <= sesActive'[sesId[q]]
        <5> SUFFICES ASSUME NEW q \in Requests, sesPc'[q] = "passed"
                     PROVE  sesNow'[q] <= sesActive'[sesId[q]]
          OBVIOUS
        <5>1. CASE q = r
          BY <2>1, <3>6, <3>8, <5>1
        <5>2. CASE q # r
          <6>1. sesId[q] \in SessionIds /\ sesNow[q] <= sesActive[sesId[q]]
            BY <1>n, <3>9, <5>2 DEF SesInv, CookieInv, TimeInv
          <6> QED BY <1>n, <3>6, <3>8, <5>2, <6>1
        <5> QED BY <5>1, <5>2
      <4> QED BY <3>6, <3>a, <4>1 DEF TimeInv
    <3>4. RevocationHolds'
      BY <2>1, <2>2, <3>9, <3>a DEF Passes, SesInv, DeadInv, RevocationHolds
    <3>5. sesClock < sesAt[sesId[r]] + SesTTL + SesSecond
      <4>1. sesAt[sesId[r]] \in Nat /\ sesClock < SessionExpiry(sesAt[sesId[r]], SesTTL)
        BY <1>n, <2>1, <2>2 DEF Passes, Expires
      <4> QED BY <1>c, <1>n, <1>x, <4>1
    <3>7. SessionsTimely'
      <4>1. \A q \in Requests :
              sesPc'[q] = "passed" => sesNow'[q] < sesAt[sesId[q]] + SesTTL + SesSecond
        BY <3>5, <3>8, <3>9 DEF SesInv, SessionsTimely
      <4>2. \A s \in 1 .. sesIssued : sesIdle[s] < sesActive'[s] + SesIdleTTL + SesSecond
        BY <1>c, <1>n, <3>6 DEF SesInv, SessionsTimely
      <4> QED BY <3>a, <4>1, <4>2 DEF SessionsTimely
    <3> QED BY <3>1, <3>2, <3>3, <3>4, <3>7 DEF SesInv
  <2>3. CASE ~Passes(r)
    <3>1. Answered(r) /\ UNCHANGED <<sesActive, sesClock, sesStore, sesRotating, sesFrom, sesEnded>>
      BY <1>12, <2>3 DEF Decide
    <3> QED BY <3>1, AnsweredKeeps DEF SesInv, SesTypeOK, CookieInv, DeadInv, RotateInv, TimeInv,
              RevocationHolds, SessionsTimely
  <2> QED BY <2>2, <2>3
<1>13. ASSUME NEW r \in Requests, TouchSession(r) PROVE SesInv'
  <2>1. /\ sesId[r] \in 1 .. sesIssued /\ sesId[r] \in SessionIds /\ sesPc[r] = "passed"
        /\ sesNow[r] \in Nat /\ sesNow[r] <= sesActive[sesId[r]]
    BY <1>13, <1>c DEF TouchSession, SesInv, SesTypeOK, CookieInv, TimeInv
  <2>2. /\ sesIdle' \in [SessionIds -> Nat]
        /\ \A s \in SessionIds : s # sesId[r] => sesIdle'[s] = sesIdle[s]
        /\ sesIdle'[sesId[r]] < sesActive[sesId[r]] + SesIdleTTL + SesSecond
    <3>1. /\ SessionExpiry(sesNow[r], SesIdleTTL) \in Nat
          /\ SessionExpiry(sesNow[r], SesIdleTTL) < sesActive[sesId[r]] + SesIdleTTL + SesSecond
      <4>1. sesActive[sesId[r]] \in Nat
        BY <1>n, <2>1
      <4>2. /\ SessionExpiry(sesNow[r], SesIdleTTL) \in Nat
            /\ SessionExpiry(sesNow[r], SesIdleTTL) < sesNow[r] + SesIdleTTL + SesSecond
        BY <1>c, <1>x, <2>1
      <4> QED BY <1>c, <2>1, <4>1, <4>2
    <3> QED BY <1>13, <1>t, <2>1, <3>1 DEF TouchSession, SesTypeOK
  <2>3. Answered(r) /\ UNCHANGED <<sesClock, sesIssued, sesAt, sesRevoked, sesChanged,
                                   sesRotating, sesFrom, sesActive, sesEnded>>
    BY <1>13 DEF TouchSession
  <2>4. \A s \in 1 .. sesIssued : s \in SessionIds
    BY <1>c DEF SesInv, SesTypeOK
  <2>5. SesTypeOK' /\ CookieInv' /\ DeadInv' /\ RotateInv' /\ TimeInv' /\ RevocationHolds'
    <3>1. SesTypeOK'
      BY <2>2, <2>3, AnsweredKeeps DEF SesInv, SesTypeOK
    <3>2. CookieInv' /\ RotateInv' /\ RevocationHolds'
      BY <2>3, AnsweredKeeps DEF SesInv, CookieInv, RotateInv, RevocationHolds
    <3>3. DeadInv' /\ TimeInv'
      BY <2>3, AnsweredKeeps DEF SesInv, DeadInv, TimeInv
    <3> QED BY <3>1, <3>2, <3>3
  <2>6. SessionsTimely'
    BY <2>1, <2>2, <2>3, <2>4, AnsweredKeeps DEF SesInv, SessionsTimely
  <2> QED BY <2>5, <2>6 DEF SesInv
<1> QED
  BY <1>1, <1>2, <1>4, <1>5, <1>6, <1>7, <1>8, <1>9, <1>10, <1>11, <1>12, <1>13 DEF SesNext

\* The inductive invariant holds throughout.
THEOREM SesInvariant == SesSpec => []SesInv
<1> QED BY SesInvInit, SesInvStep, PTL DEF SesSpec

\* Every variable of the store and of the requests has its type.
THEOREM SessionTypes == SesSpec => []SesTypeOK
<1>1. SesInv => SesTypeOK
  BY DEF SesInv
<1> QED BY <1>1, SesInvariant, PTL

\* No request that comes after a revocation or a change of its session gets a
\* principal, and a rotated session is revoked before its successor exists.
THEOREM RevocationIsFinal == SesSpec => []RevocationHolds
<1>1. SesInv => RevocationHolds
  BY DEF SesInv
<1> QED BY <1>1, SesInvariant, PTL

\* No principal is given, and no idle expiry set, a second or more after the
\* TTLs allow, in whatever order the requests touch the session.
THEOREM SessionsEnd == SesSpec => []SessionsTimely
<1>1. SesInv => SessionsTimely
  BY DEF SesInv
<1> QED BY <1>1, SesInvariant, PTL

-----------------------------------------------------------------------------
(* The rate limiter.  Windows of the key are told apart by their resets.   *)
(* A new one begins when the last is over, on the clock, and its reset is  *)
(* at least the window's length less the lag after the present: so what    *)
(* earlier windows let through lies that far before it.                    *)

RateEntry == rateEntries[RateKey]
GrantsOf(reset) == {a \in rateAllowed : a.reset = reset}

\* A request's time is at most RateLag late, and its grant is not in the future.
TimesOK ==
  /\ \A c \in rateWaiting : c.now <= rateClock /\ rateClock <= c.now + RateLag
  /\ \A a \in rateAllowed : a.tick <= rateClock

\* What a window lets through comes RateWindow - RateLag before the reset of
\* any later window, which lets nothing through before the first is over.
WindowsApart ==
  \A a, b \in rateAllowed : a.reset < b.reset =>
    a.tick + RateWindow - RateLag <= b.reset /\ a.reset <= b.tick

\* The window of the entry is the last one; without an entry all are over.
LastWindow ==
  /\ RateEntry.count > 0 => \A a \in rateAllowed :
       /\ a.reset <= RateEntry.reset
       /\ a.reset < RateEntry.reset =>
            a.tick + RateWindow - RateLag <= RateEntry.reset /\ a.reset <= rateClock
  /\ RateEntry.count = 0 => \A a \in rateAllowed : a.reset <= rateClock

\* No window lets more than the limit through, nor more than it has counted.
WithinLimit ==
  /\ IsFiniteSet(rateAllowed)
  /\ \A reset \in Nat : Cardinality(GrantsOf(reset)) <= RateMax
  /\ RateEntry.count > 0 => Cardinality(GrantsOf(RateEntry.reset)) <= RateEntry.count

RateInv == RateTypeOK /\ TimesOK /\ WindowsApart /\ LastWindow /\ WithinLimit

\* The lag and the window, as the provers need them.
LEMMA RateFacts ==
  ASSUME RateTypeOK
  PROVE  /\ RateWindow \in Nat /\ RateLag \in Nat /\ RateMax \in Nat /\ 1 <= RateMax
         /\ RateLag < RateWindow /\ RateKey \in RateKeys
         /\ rateClock \in Nat /\ RateEntry.count \in Nat /\ RateEntry.reset \in Nat
         /\ \A c \in rateWaiting : c.now \in Nat /\ c.key \in RateKeys
         /\ \A a \in rateAllowed : a.tick \in Nat /\ a.reset \in Nat
  BY RateAssumption DEF RateTypeOK, RateEntry, Ticks

\* What can happen to the key's entry: nothing; it is removed, its window
\* being over; a request begins a window; a request is counted in the last.
EntryStays == RateEntry' = RateEntry /\ UNCHANGED rateAllowed /\ rateClock <= rateClock'

EntryGoes ==
  /\ RateEntry.count > 0 => RateEntry.reset <= rateClock
  /\ RateEntry'.count = 0 /\ UNCHANGED <<rateAllowed, rateClock>>

WindowBegins ==
  /\ RateEntry.count > 0 => RateEntry.reset <= rateClock
  /\ RateEntry'.count = 1 /\ rateClock + RateWindow - RateLag <= RateEntry'.reset
  /\ UNCHANGED rateClock

WindowCounts ==
  /\ RateEntry.count > 0 /\ RateEntry'.count = RateEntry.count + 1
  /\ RateEntry'.reset = RateEntry.reset /\ UNCHANGED rateClock

\* At most the request is granted, in the entry's window, within the limit.
GrantOf(g) ==
  /\ g.tick = rateClock /\ g.reset = RateEntry'.reset /\ RateEntry'.count <= RateMax
  /\ rateAllowed' = rateAllowed \cup {g}

EntryMove ==
  \/ EntryStays \/ EntryGoes
  \/ (WindowBegins \/ WindowCounts) /\ (UNCHANGED rateAllowed \/ \E g : GrantOf(g))

\* A grant more is one more for its window, and none for the others.
LEMMA GrantCounts ==
  ASSUME IsFiniteSet(rateAllowed), NEW g, rateAllowed' = rateAllowed \cup {g}
  PROVE  /\ IsFiniteSet(rateAllowed')
         /\ \A reset : Cardinality(GrantsOf(reset)) \in Nat
         /\ \A reset : reset # g.reset => GrantsOf(reset)' = GrantsOf(reset)
         /\ \A reset : /\ Cardinality(GrantsOf(reset)') \in Nat
                       /\ Cardinality(GrantsOf(reset)') <= Cardinality(GrantsOf(reset)) + 1
<1>1. IsFiniteSet(rateAllowed')
  BY FS_AddElement
<1>2. ASSUME NEW reset
      PROVE IsFiniteSet(GrantsOf(reset)) /\ Cardinality(GrantsOf(reset)) \in Nat
  <2>1. GrantsOf(reset) \in SUBSET rateAllowed
    BY DEF GrantsOf
  <2> QED BY <2>1, FS_Subset, FS_CardinalityType
<1>3. \A reset : reset # g.reset => GrantsOf(reset)' = GrantsOf(reset)
  BY DEF GrantsOf
<1>4. ASSUME NEW reset
      PROVE GrantsOf(reset)' = GrantsOf(reset) \/ GrantsOf(reset)' = GrantsOf(reset) \cup {g}
  BY DEF GrantsOf
<1>5. ASSUME NEW reset
      PROVE /\ Cardinality(GrantsOf(reset) \cup {g}) \in Nat
            /\ Cardinality(GrantsOf(reset) \cup {g}) <= Cardinality(GrantsOf(reset)) + 1
  <2>1. IsFiniteSet(GrantsOf(reset)) /\ Cardinality(GrantsOf(reset)) \in Nat
    BY <1>2
  <2>2. /\ IsFiniteSet(GrantsOf(reset) \cup {g})
        /\ \/ Cardinality(GrantsOf(reset) \cup {g}) = Cardinality(GrantsOf(reset))
           \/ Cardinality(GrantsOf(reset) \cup {g}) = Cardinality(GrantsOf(reset)) + 1
    BY <2>1, FS_AddElement
  <2> QED BY <2>1, <2>2
<1>6. \A reset : /\ Cardinality(GrantsOf(reset)') \in Nat
                 /\ Cardinality(GrantsOf(reset)') <= Cardinality(GrantsOf(reset)) + 1
  BY <1>2, <1>4, <1>5
<1> QED BY <1>1, <1>2, <1>3, <1>6

\* Nothing was granted in a window that begins: its reset is a new one.
LEMMA NoGrantsAhead ==
  ASSUME RateInv, NEW reset \in Nat, \A a \in rateAllowed : a.reset < reset
  PROVE  Cardinality(GrantsOf(reset)) = 0
<1>1. GrantsOf(reset) = {}
  BY RateFacts DEF GrantsOf, RateInv
<1> QED BY <1>1, FS_EmptySet

\* Whatever happens to the entry, the windows of the key stay apart.
LEMMA WindowsStep ==
  ASSUME RateInv, RateTypeOK', EntryMove
  PROVE  WindowsApart' /\ LastWindow' /\ WithinLimit'
<1>f. /\ RateWindow \in Nat /\ RateLag \in Nat /\ RateMax \in Nat /\ 1 <= RateMax
      /\ RateLag < RateWindow
      /\ rateClock \in Nat /\ RateEntry.count \in Nat /\ RateEntry.reset \in Nat
      /\ \A a \in rateAllowed : a.tick \in Nat /\ a.reset \in Nat
  BY RateFacts DEF RateInv
<1>g. /\ rateClock' \in Nat /\ RateEntry'.count \in Nat /\ RateEntry'.reset \in Nat
      /\ \A a \in rateAllowed' : a.tick \in Nat /\ a.reset \in Nat
  BY RateAssumption DEF RateTypeOK, RateEntry, Ticks
<1>i. TimesOK /\ WindowsApart /\ LastWindow /\ WithinLimit
  BY DEF RateInv
<1>c. \A reset : Cardinality(GrantsOf(reset)) \in Nat
  <2>1. \A reset : GrantsOf(reset) \in SUBSET rateAllowed
    BY DEF GrantsOf
  <2> QED BY <2>1, <1>i, FS_Subset, FS_CardinalityType DEF WithinLimit
<1>1. CASE EntryStays
  <2>1. \A reset : GrantsOf(reset)' = GrantsOf(reset)
    BY <1>1 DEF EntryStays, GrantsOf
  <2>2. WithinLimit'
    BY <1>1, <1>i, <2>1 DEF EntryStays, WithinLimit
  <2>3. WindowsApart' /\ LastWindow'
    BY <1>1, <1>i, <1>f, <1>g DEF EntryStays, WindowsApart, LastWindow
  <2> QED BY <2>2, <2>3
<1>2. CASE EntryGoes
  <2>1. \A reset : GrantsOf(reset)' = GrantsOf(reset)
    BY <1>2 DEF EntryGoes, GrantsOf
  <2>2. WithinLimit'
    BY <1>2, <1>i, <2>1 DEF EntryGoes, WithinLimit
  <2>3. WindowsApart' /\ LastWindow'
    BY <1>2, <1>i, <1>f, <1>g DEF EntryGoes, WindowsApart, LastWindow
  <2> QED BY <2>2, <2>3
<1>3. CASE WindowBegins
  <2>1. \A a \in rateAllowed : /\ a.reset <= rateClock /\ a.reset < RateEntry'.reset
                               /\ a.tick + RateWindow - RateLag <= RateEntry'.reset
    BY <1>3, <1>i, <1>f, <1>g DEF WindowBegins, LastWindow, TimesOK
  <2>2. Cardinality(GrantsOf(RateEntry'.reset)) = 0
    BY <2>1, <1>g, NoGrantsAhead
  <2>3. CASE UNCHANGED rateAllowed
    <3>1. \A reset : GrantsOf(reset)' = GrantsOf(reset)
      BY <2>3 DEF GrantsOf
    <3>2. WithinLimit'
      BY <1>3, <2>2, <2>3, <3>1, <1>i, <1>f DEF WindowBegins, WithinLimit
    <3>3. WindowsApart' /\ LastWindow'
      BY <1>3, <2>1, <2>3, <1>i, <1>f, <1>g DEF WindowBegins, WindowsApart, LastWindow
    <3> QED BY <3>2, <3>3
  <2>4. ASSUME NEW g, GrantOf(g) PROVE WindowsApart' /\ LastWindow' /\ WithinLimit'
    <3>1. /\ IsFiniteSet(rateAllowed')
          /\ \A reset : reset # g.reset => GrantsOf(reset)' = GrantsOf(reset)
          /\ \A reset : /\ Cardinality(GrantsOf(reset)') \in Nat
                        /\ Cardinality(GrantsOf(reset)') <= Cardinality(GrantsOf(reset)) + 1
      BY <2>4, <1>i, GrantCounts DEF GrantOf, WithinLimit
    <3>2. Cardinality(GrantsOf(g.reset)') <= 1
      BY <3>1, <2>2, <2>4 DEF GrantOf
    <3>3. WithinLimit'
      BY <1>3, <2>4, <3>1, <3>2, <1>i, <1>f DEF WindowBegins, WithinLimit, GrantOf
    <3>4. WindowsApart' /\ LastWindow'
      BY <1>3, <2>1, <2>4, <1>i, <1>f, <1>g
         DEF WindowBegins, WindowsApart, LastWindow, GrantOf
    <3> QED BY <3>3, <3>4
  <2> QED BY <1>3, <2>3, <2>4 DEF EntryMove, EntryStays, EntryGoes
<1>4. CASE WindowCounts
  <2>1. CASE UNCHANGED rateAllowed
    <3>1. \A reset : GrantsOf(reset)' = GrantsOf(reset)
      BY <2>1 DEF GrantsOf
    <3>2. WithinLimit'
      BY <1>4, <2>1, <3>1, <1>i, <1>f, <1>c DEF WindowCounts, WithinLimit
    <3>3. WindowsApart' /\ LastWindow'
      BY <1>4, <2>1, <1>i, <1>f, <1>g DEF WindowCounts, WindowsApart, LastWindow
    <3> QED BY <3>2, <3>3
  <2>2. ASSUME NEW g, GrantOf(g) PROVE WindowsApart' /\ LastWindow' /\ WithinLimit'
    <3>1. /\ IsFiniteSet(rateAllowed')
          /\ \A reset : reset # g.reset => GrantsOf(reset)' = GrantsOf(reset)
          /\ \A reset : /\ Cardinality(GrantsOf(reset)') \in Nat
                        /\ Cardinality(GrantsOf(reset)') <= Cardinality(GrantsOf(reset)) + 1
      BY <2>2, <1>i, GrantCounts DEF GrantOf, WithinLimit
    <3>2. /\ Cardinality(GrantsOf(g.reset)') <= RateEntry'.count /\ RateEntry'.count <= RateMax
          /\ g.reset = RateEntry'.reset
      BY <1>4, <2>2, <3>1, <1>i, <1>f, <1>c DEF WindowCounts, GrantOf, WithinLimit
    <3>3. WithinLimit'
      BY <3>1, <3>2, <1>i, <1>f, <1>g DEF WithinLimit
    <3>4. WindowsApart' /\ LastWindow'
      BY <1>4, <2>2, <1>i, <1>f, <1>g
         DEF WindowCounts, WindowsApart, LastWindow, TimesOK, GrantOf
    <3> QED BY <3>3, <3>4
  <2> QED BY <1>4, <2>1, <2>2 DEF EntryMove, EntryStays, EntryGoes
<1> QED BY <1>1, <1>2, <1>3, <1>4 DEF EntryMove

\* Counting a request with time now, against the clock at or the request's own
\* time, is one of these moves.
LEMMA CountedMoves ==
  ASSUME RateInv, NEW c \in rateWaiting, c.key = RateKey,
         NEW at \in {c.now, rateClock}, RateEntry' = Counted(RateEntry, at, c.now),
         UNCHANGED rateClock
  PROVE  WindowBegins \/ WindowCounts
<1>f. /\ RateWindow \in Nat /\ RateLag \in Nat /\ rateClock \in Nat
      /\ RateEntry.count \in Nat /\ RateEntry.reset \in Nat /\ c.now \in Nat
      /\ c.now <= rateClock /\ rateClock <= c.now + RateLag
  BY RateFacts DEF RateInv, TimesOK
<1>1. CASE RateEntry.count = 0 \/ at >= RateEntry.reset
  <2>1. RateEntry' = [count |-> 1, reset |-> c.now + RateWindow]
    BY <1>1 DEF Counted
  <2>2. RateEntry'.count = 1 /\ RateEntry'.reset = c.now + RateWindow
    BY <2>1
  <2> QED BY <1>1, <2>2, <1>f DEF WindowBegins
<1>2. CASE ~(RateEntry.count = 0 \/ at >= RateEntry.reset)
  <2>1. RateEntry \in [count : Nat, reset : Nat]
    BY RateAssumption DEF RateInv, RateTypeOK, RateEntry
  <2>2. RateEntry' = [RateEntry EXCEPT !.count = @ + 1]
    BY <1>2 DEF Counted
  <2>3. RateEntry'.count = RateEntry.count + 1 /\ RateEntry'.reset = RateEntry.reset
    BY <2>1, <2>2
  <2> QED BY <1>2, <2>3, <1>f DEF WindowCounts
<1> QED BY <1>1, <1>2

\* A count is an entry.
LEMMA CountedType ==
  ASSUME RateTypeOK, NEW c \in rateWaiting, NEW at
  PROVE  Counted(rateEntries[c.key], at, c.now) \in [count : Nat, reset : Nat]
<1>1. rateEntries[c.key] \in [count : Nat, reset : Nat]
  BY DEF RateTypeOK
<1> QED BY <1>1, RateFacts DEF Counted

\* An answered request leaves; its grant is one of the key's.
LEMMA AdmitMoves ==
  ASSUME RateTypeOK, NEW c \in rateWaiting, NEW entry \in [count : Nat, reset : Nat],
         Admit(c, entry)
  PROVE  /\ rateAllowed' \subseteq [id : 1 .. MaxRateTakes, tick : Ticks, reset : Nat]
         /\ rateWaiting' \subseteq rateWaiting
         /\ c.key # RateKey => UNCHANGED rateAllowed
         /\ RateEntry' = entry => UNCHANGED rateAllowed \/ \E g : GrantOf(g)
         /\ rateAllowed' = rateAllowed
            \/ rateAllowed' = rateAllowed \cup
                 {[id |-> c.id, tick |-> rateClock, reset |-> entry.reset]}
<1> DEFINE g == [id |-> c.id, tick |-> rateClock, reset |-> entry.reset]
<1>1. /\ \/ rateAllowed' = rateAllowed
         \/ rateAllowed' = rateAllowed \cup {g} /\ entry.count <= RateMax /\ c.key = RateKey
      /\ rateWaiting' = rateWaiting \ {c}
  BY DEF Admit
<1>2. g \in [id : 1 .. MaxRateTakes, tick : Ticks, reset : Nat]
  BY DEF RateTypeOK
<1>3. g.tick = rateClock /\ g.reset = entry.reset
  OBVIOUS
<1> HIDE DEF g
<1>4. rateAllowed' = rateAllowed \cup {g} /\ entry.count <= RateMax /\ RateEntry' = entry
        => GrantOf(g)
  BY <1>3 DEF GrantOf
<1>5. rateAllowed' \subseteq [id : 1 .. MaxRateTakes, tick : Ticks, reset : Nat]
  BY <1>1, <1>2 DEF RateTypeOK
<1> QED BY <1>1, <1>4, <1>5 DEF g

\* Every step moves the entry in one of those ways, and keeps types and times.
LEMMA RateMoves ==
  ASSUME RateInv, [RateNextStep]_rateVars
  PROVE  RateTypeOK' /\ TimesOK' /\ EntryMove
<1>t. RateTypeOK /\ TimesOK
  BY DEF RateInv
<1>f. /\ RateWindow \in Nat /\ RateLag \in Nat /\ RateKey \in RateKeys
      /\ rateClock \in Nat /\ RateEntry.count \in Nat /\ RateEntry.reset \in Nat
      /\ \A c \in rateWaiting : c.now \in Nat /\ c.key \in RateKeys
  BY <1>t, RateFacts
<1>1. CASE RateTick
  <2>1. rateClock' \in Ticks /\ rateClock' = rateClock + 1
    BY <1>1, <1>t, RateAssumption DEF RateTick, RateTypeOK, Ticks
  <2>2. RateTypeOK'
    BY <1>1, <2>1, <1>t DEF RateTick, RateTypeOK
  <2>3. TimesOK'
    BY <1>1, <1>t, <1>f, RateFacts DEF RateTick, TimesOK
  <2>4. EntryStays
    BY <1>1, <1>f DEF RateTick, EntryStays, RateEntry
  <2> QED BY <2>2, <2>3, <2>4 DEF EntryMove
<1>2. CASE AllowRequest
  <2>1. PICK k \in RateKeys :
          rateWaiting' = rateWaiting \cup {[id |-> rateCalls', key |-> k, now |-> rateClock]}
    BY <1>2 DEF AllowRequest
  <2>2. rateCalls' \in 1 .. MaxRateTakes
    BY <1>2, <1>t, RateAssumption DEF AllowRequest, RateTypeOK
  <2>3. RateTypeOK'
    BY <1>2, <1>t, <2>1, <2>2 DEF AllowRequest, RateTypeOK
  <2>4. TimesOK'
    BY <1>2, <1>t, <1>f, <2>1 DEF AllowRequest, TimesOK
  <2>5. EntryStays
    BY <1>2, <1>f DEF AllowRequest, EntryStays, RateEntry
  <2> QED BY <2>3, <2>4, <2>5 DEF EntryMove
<1>3. ASSUME NEW c \in rateWaiting, TakeInMemory(c)
      PROVE RateTypeOK' /\ TimesOK' /\ EntryMove
  <2> DEFINE entry == Counted(rateEntries[c.key], c.now, c.now)
             with == [rateEntries EXCEPT ![c.key] = entry]
  <2>1. entry \in [count : Nat, reset : Nat]
    BY <1>t, CountedType
  <2>2. /\ rateEntries' = CleanupExpired(with, c.now) /\ Admit(c, entry)
        /\ rateNext' = IF rateNext = 0 \/ c.now >= rateNext THEN c.now + RateCleanup ELSE rateNext
        /\ UNCHANGED <<rateRedis, rateClock, rateCalls>>
    BY <1>3 DEF TakeInMemory
  <2>3. entry.reset > c.now /\ entry.count > 0
    <3>1. rateEntries[c.key] \in [count : Nat, reset : Nat]
      BY <1>t DEF RateTypeOK
    <3> QED BY <3>1, <1>f, RateAssumption DEF Counted
  <2>w. with \in [RateKeys -> [count : Nat, reset : Nat]] /\ with[c.key] = entry
        /\ \A k \in RateKeys \ {c.key} : with[k] = rateEntries[k]
    BY <2>1, <1>t, <1>f DEF RateTypeOK
  <2> HIDE DEF entry, with
  <2>4. \A k \in RateKeys : /\ rateEntries'[k] \in {with[k], NoEntry}
                            /\ rateEntries'[k] # with[k] => c.now >= with[k].reset
    BY <2>2, <2>w DEF CleanupExpired
  <2>5. rateEntries' \in [RateKeys -> [count : Nat, reset : Nat]]
    BY <2>2, <2>w DEF CleanupExpired, NoEntry
  <2>6. RateTypeOK'
    <3>1. rateNext' \in Nat
      BY <2>2, <1>t, <1>f, RateAssumption DEF RateTypeOK
    <3>2. /\ rateAllowed' \subseteq [id : 1 .. MaxRateTakes, tick : Ticks, reset : Nat]
          /\ rateWaiting' \subseteq rateWaiting
      BY <2>1, <2>2, <1>t, AdmitMoves
    <3> QED BY <3>1, <3>2, <2>2, <2>5, <1>t DEF RateTypeOK
  <2>7. TimesOK'
    BY <2>1, <2>2, <1>t, <1>f, AdmitMoves DEF TimesOK
  <2>8. EntryMove
    <3>1. CASE c.key = RateKey
      <4>1. RateEntry' = entry
        BY <3>1, <2>3, <2>4, <2>w, <2>1, <1>f DEF RateEntry
      <4>2. WindowBegins \/ WindowCounts
        BY <4>1, <3>1, <2>2, CountedMoves DEF entry, RateEntry
      <4>3. UNCHANGED rateAllowed \/ \E g : GrantOf(g)
        BY <4>1, <2>1, <2>2, <1>t, AdmitMoves
      <4> QED BY <4>2, <4>3 DEF EntryMove
    <3>2. CASE c.key # RateKey
      <4>1. UNCHANGED <<rateAllowed, rateClock>>
        BY <3>2, <2>1, <2>2, <1>t, AdmitMoves
      <4>2. \/ RateEntry' = RateEntry
            \/ RateEntry' = NoEntry /\ c.now >= RateEntry.reset
        BY <3>2, <2>4, <2>w, <1>f DEF RateEntry
      <4>3. c.now >= RateEntry.reset => RateEntry.reset <= rateClock
        BY <1>f, <1>t DEF TimesOK
      <4> QED BY <4>1, <4>2, <4>3, <1>f DEF EntryMove, EntryStays, EntryGoes, NoEntry
    <3> QED BY <3>1, <3>2
  <2> QED BY <2>6, <2>7, <2>8
<1>4. ASSUME NEW c \in rateWaiting, TakeInRedis(c)
      PROVE RateTypeOK' /\ TimesOK' /\ EntryMove
  <2> DEFINE entry == Counted(rateEntries[c.key], rateClock, c.now)
  <2>1. entry \in [count : Nat, reset : Nat]
    BY <1>t, CountedType
  <2>2. /\ rateEntries' = [rateEntries EXCEPT ![c.key] = entry] /\ Admit(c, entry)
        /\ UNCHANGED <<rateRedis, rateClock, rateNext, rateCalls>>
    BY <1>4 DEF TakeInRedis
  <2>3. entry = Counted(rateEntries[c.key], rateClock, c.now)
    OBVIOUS
  <2> HIDE DEF entry
  <2>4. RateTypeOK'
    BY <2>1, <2>2, <1>t, AdmitMoves DEF RateTypeOK
  <2>5. TimesOK'
    BY <2>1, <2>2, <1>t, <1>f, AdmitMoves DEF TimesOK
  <2>6. EntryMove
    <3>1. CASE c.key = RateKey
      <4>1. RateEntry' = entry
        BY <3>1, <2>2, <1>t, <1>f DEF RateEntry, RateTypeOK
      <4>2. WindowBegins \/ WindowCounts
        BY <4>1, <3>1, <2>2, <2>3, CountedMoves DEF RateEntry
      <4>3. UNCHANGED rateAllowed \/ \E g : GrantOf(g)
        BY <4>1, <2>1, <2>2, <1>t, AdmitMoves
      <4> QED BY <4>2, <4>3 DEF EntryMove
    <3>2. CASE c.key # RateKey
      <4>1. UNCHANGED <<rateAllowed, rateClock>> /\ RateEntry' = RateEntry
        BY <3>2, <2>1, <2>2, <1>t, <1>f, AdmitMoves DEF RateEntry, RateTypeOK
      <4> QED BY <4>1, <1>f DEF EntryMove, EntryStays
    <3> QED BY <3>1, <3>2
  <2> QED BY <2>4, <2>5, <2>6
<1>5. ASSUME NEW c \in rateWaiting, TakeFails(c)
      PROVE RateTypeOK' /\ TimesOK' /\ EntryMove
  <2> DEFINE entry == Counted(rateEntries[c.key], rateClock, c.now)
  <2>1. entry \in [count : Nat, reset : Nat]
    BY <1>t, CountedType
  <2>2. /\ rateWaiting' = rateWaiting \ {c}
        /\ UNCHANGED rateEntries \/ rateEntries' = [rateEntries EXCEPT ![c.key] = entry]
        /\ UNCHANGED <<rateRedis, rateClock, rateNext, rateCalls, rateAllowed>>
    BY <1>5 DEF TakeFails
  <2>3. entry = Counted(rateEntries[c.key], rateClock, c.now)
    OBVIOUS
  <2> HIDE DEF entry
  <2>4. RateTypeOK'
    BY <2>1, <2>2, <1>t DEF RateTypeOK
  <2>5. TimesOK'
    BY <2>2, <1>t DEF TimesOK
  <2>6. EntryMove
    <3>1. CASE c.key = RateKey /\ rateEntries' = [rateEntries EXCEPT ![c.key] = entry]
      <4>1. RateEntry' = entry
        BY <3>1, <1>t, <1>f DEF RateEntry, RateTypeOK
      <4>2. WindowBegins \/ WindowCounts
        BY <4>1, <3>1, <2>2, <2>3, CountedMoves DEF RateEntry
      <4> QED BY <4>2, <2>2 DEF EntryMove
    <3>2. CASE c.key # RateKey \/ UNCHANGED rateEntries
      <4>1. RateEntry' = RateEntry
        BY <3>2, <2>2, <1>t, <1>f DEF RateEntry, RateTypeOK
      <4> QED BY <4>1, <2>2, <1>f DEF EntryMove, EntryStays
    <3> QED BY <3>1, <3>2, <2>2
  <2> QED BY <2>4, <2>5, <2>6
<1>6. CASE UNCHANGED rateVars
  <2>1. RateTypeOK' /\ TimesOK'
    BY <1>6, <1>t DEF rateVars, RateTypeOK, TimesOK
  <2>2. EntryStays
    BY <1>6, <1>f DEF rateVars, EntryStays, RateEntry
  <2> QED BY <2>1, <2>2 DEF EntryMove
<1> QED BY <1>1, <1>2, <1>3, <1>4, <1>5, <1>6 DEF RateNextStep

\* The invariant holds in every reachable state, in memory and in Redis.
THEOREM RateInvariant == RateSpec => []RateInv
<1>1. RateInit => RateInv
  <2> SUFFICES ASSUME RateInit PROVE RateInv
    OBVIOUS
  <2>1. RateTypeOK
    BY RateAssumption DEF RateInit, RateTypeOK, Ticks, NoEntry
  <2>2. TimesOK /\ WindowsApart /\ LastWindow
    BY DEF RateInit, TimesOK, WindowsApart, LastWindow
  <2>3. \A reset : GrantsOf(reset) = {}
    BY DEF RateInit, GrantsOf
  <2>4. RateEntry.count = 0
    BY RateAssumption DEF RateInit, RateEntry, NoEntry
  <2>5. WithinLimit
    BY <2>3, <2>4, FS_EmptySet, RateAssumption DEF RateInit, WithinLimit
  <2> QED BY <2>1, <2>2, <2>5 DEF RateInv
<1>2. RateInv /\ [RateNextStep]_rateVars => RateInv'
  BY RateMoves, WindowsStep DEF RateInv
<1> QED BY <1>1, <1>2, PTL DEF RateSpec

\* The limiter, for any limit, window, lag and sweep interval, with requests
\* that reach the store late and out of order: no stretch of the window less
\* the lag lets more than two limits of one key through.
THEOREM RateIsLimited == RateSpec => []RateHolds
<1>1. RateInv => RateHolds
  <2> SUFFICES ASSUME RateInv, NEW t \in Ticks
               PROVE AllowedIn(t, t + RateWindow - RateLag - 1) <= 2 * RateMax
    BY DEF RateHolds
  <2> DEFINE to == t + RateWindow - RateLag - 1
             in == {a \in rateAllowed : a.tick \in t .. to}
  <2>f. /\ RateWindow \in Nat /\ RateLag \in Nat /\ RateMax \in Nat /\ t \in Nat
        /\ \A a \in rateAllowed : a.tick \in Nat /\ a.reset \in Nat
    BY RateFacts DEF RateInv, Ticks
  <2>g. \A reset \in Nat : /\ IsFiniteSet(GrantsOf(reset))
                           /\ Cardinality(GrantsOf(reset)) \in Nat
                           /\ Cardinality(GrantsOf(reset)) <= RateMax
    <3>1. \A reset : GrantsOf(reset) \in SUBSET rateAllowed
      BY DEF GrantsOf
    <3>2. IsFiniteSet(rateAllowed)
      BY DEF RateInv, WithinLimit
    <3> QED BY <3>1, <3>2, FS_Subset, FS_CardinalityType DEF RateInv, WithinLimit
  <2>1. \A a, b, c \in in : ~(a.reset < b.reset /\ b.reset < c.reset)
    BY <2>f DEF RateInv, WindowsApart
  <2>2. PICK r \in Nat : \E s \in Nat : in \subseteq GrantsOf(r) \cup GrantsOf(s)
    <3>1. CASE \E a, b \in in : a.reset < b.reset
      <4>1. PICK a \in in : \E b \in in : a.reset < b.reset
        BY <3>1
      <4>2. PICK b \in in : a.reset < b.reset
        BY <4>1
      <4>3. \A c \in in : c.reset = a.reset \/ c.reset = b.reset
        BY <2>1, <2>f, <4>2
      <4>4. in \subseteq GrantsOf(a.reset) \cup GrantsOf(b.reset)
        BY <4>3 DEF GrantsOf
      <4>5. a.reset \in Nat /\ b.reset \in Nat
        BY <2>f
      <4> QED BY <4>4, <4>5
    <3>2. CASE ~ \E a, b \in in : a.reset < b.reset
      <4>1. CASE in = {}
        BY <4>1
      <4>2. CASE in # {}
        <5>1. PICK a \in in : TRUE
          BY <4>2
        <5>2. \A c \in in : c.reset = a.reset
          BY <3>2, <2>f
        <5>3. in \subseteq GrantsOf(a.reset) \cup GrantsOf(a.reset)
          BY <5>2 DEF GrantsOf
        <5> QED BY <5>3, <2>f
      <4> QED BY <4>1, <4>2
    <3> QED BY <3>1, <3>2
  <2>3. PICK s \in Nat : in \subseteq GrantsOf(r) \cup GrantsOf(s)
    BY <2>2
  <2> HIDE DEF in, to
  <2>4. /\ IsFiniteSet(GrantsOf(r) \cup GrantsOf(s))
        /\ Cardinality(GrantsOf(r) \cup GrantsOf(s)) <= 2 * RateMax
    <3>1. /\ IsFiniteSet(GrantsOf(r) \cup GrantsOf(s))
          /\ Cardinality(GrantsOf(r) \cup GrantsOf(s)) =
               Cardinality(GrantsOf(r)) + Cardinality(GrantsOf(s))
                 - Cardinality(GrantsOf(r) \cap GrantsOf(s))
      BY <2>g, FS_Union
    <3>2. Cardinality(GrantsOf(r) \cap GrantsOf(s)) \in Nat
      BY <2>g, FS_Intersection, FS_CardinalityType
    <3> QED BY <3>1, <3>2, <2>g, <2>f
  <2>5. IsFiniteSet(in) /\ Cardinality(in) <= Cardinality(GrantsOf(r) \cup GrantsOf(s))
    BY <2>3, <2>4, FS_Subset
  <2>6. Cardinality(in) \in Nat /\ Cardinality(GrantsOf(r) \cup GrantsOf(s)) \in Nat
    BY <2>4, <2>5, FS_CardinalityType
  <2>7. Cardinality(in) <= 2 * RateMax
    BY <2>4, <2>5, <2>6, <2>f
  <2> QED BY <2>7 DEF in, to, AllowedIn
<1> QED BY <1>1, RateInvariant, PTL
=============================================================================
