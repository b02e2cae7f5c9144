---------------------------- MODULE SSEHubProofs ----------------------------
(***************************************************************************)
(* Theorems about SSEHub, for any number of browsers, labels and messages, *)
(* any buffer size and any replay limit.                                   *)
(***************************************************************************)
EXTENDS SSEHub, FiniteSetTheorems, TLAPS

USE DEF Messages

\* What waits to be written was sent, and so was the last message received.
SentBefore ==
  \A b \in Browsers :
    /\ last[b] <= sent
    /\ toReplay[b] \cup queue[b] \subseteq 1 .. sent

\* The inductive invariant: order and completeness need only that nothing
\* waits before it was sent.
HubInv == ShapeOK /\ SentBefore /\ InOrder /\ OnlyItsAudience /\ StreamLacksNothing

\* The replay is part of the window: sent, and later than the last message.
LEMMA ReplayIsLater ==
  ASSUME ShapeOK, NEW b \in Browsers, NEW audience \in SUBSET Labels
  PROVE  /\ ReplayAfter(b, audience) \subseteq 1 .. sent
         /\ ReplayAfter(b, audience) \subseteq Messages
         /\ \A n \in ReplayAfter(b, audience) :
              last[b] < n /\ AudienceMatches(aud[n], audience)
  BY HubAssumption DEF ReplayAfter, ReplayWindow, ShapeOK

\* The replay holds every message for the audience since a last message the
\* hub knows.
LEMMA ReplayLacksNothing ==
  ASSUME ShapeOK, NEW b \in Browsers, NEW audience \in SUBSET Labels, Known(b),
         NEW n \in 1 .. sent, last[b] < n, AudienceMatches(aud[n], audience)
  PROVE  n \in ReplayAfter(b, audience)
  BY HubAssumption DEF ReplayAfter, ReplayWindow, Known, ShapeOK

\* A new stream.
LEMMA ConnectStep ==
  ASSUME HubInv, NEW b \in Browsers, Connect(b) PROVE HubInv'
<1>1. PICK audience \in ClientAudiences :
        /\ who' = [who EXCEPT ![b] = audience]
        /\ toReplay' = [toReplay EXCEPT ![b] = ReplayAfter(b, audience)]
  BY DEF Connect
<1>2. audience \in SUBSET Labels
  BY HubAssumption
<1>s. ShapeOK /\ sent \in Nat /\ MaxMessages \in Nat
  BY HubAssumption DEF HubInv, ShapeOK
<1>f. /\ sent' = sent /\ aud' = aud /\ last' = last /\ got' = got
      /\ conn' = [conn EXCEPT ![b] = "stream"] /\ queue' = [queue EXCEPT ![b] = {}]
      /\ condemned' = [condemned EXCEPT ![b] = FALSE]
      /\ dropped' = [dropped EXCEPT ![b] = FALSE]
      /\ from' = [from EXCEPT ![b] = IF Known(b) THEN last[b] ELSE sent]
  BY DEF Connect
<1>3. ShapeOK'
  BY <1>1, <1>2, <1>s, <1>f, ReplayIsLater DEF ShapeOK
<1>4. SentBefore'
  BY <1>1, <1>2, <1>s, <1>f, ReplayIsLater DEF ShapeOK, SentBefore, HubInv
<1>5. InOrder'
  BY <1>1, <1>2, <1>s, <1>f, ReplayIsLater DEF ShapeOK, InOrder, HubInv
<1>6. OnlyItsAudience'
  BY <1>1, <1>2, <1>s, <1>f, ReplayIsLater DEF ShapeOK, OnlyItsAudience, HubInv
<1>7. StreamLacksNothing'
  <2> SUFFICES ASSUME NEW v \in Browsers, (conn[v] = "stream" /\ ~condemned[v] /\ ~dropped[v])',
                      NEW n \in 1 .. sent, from'[v] < n, AudienceMatches(aud[n], who'[v])
               PROVE n \in got'[v] \cup toReplay'[v] \cup queue'[v]
    BY <1>f DEF StreamLacksNothing
  <2>1. CASE v = b
    <3>1. Known(b) /\ last[b] < n
      BY <2>1, <1>f, <1>s DEF ShapeOK
    <3>2. AudienceMatches(aud[n], audience)
      BY <2>1, <1>1, <1>s DEF ShapeOK
    <3>3. n \in ReplayAfter(b, audience)
      BY <3>1, <3>2, <1>2, <1>s, ReplayLacksNothing
    <3> QED BY <2>1, <3>3, <1>1, <1>s DEF ShapeOK
  <2>2. CASE v # b
    BY <2>2, <1>1, <1>f, <1>s DEF ShapeOK, HubInv, StreamLacksNothing
  <2> QED BY <2>1, <2>2
<1> QED BY <1>3, <1>4, <1>5, <1>6, <1>7 DEF HubInv

\* A message is written.
LEMMA WriteStep ==
  ASSUME HubInv, NEW b \in Browsers, WriteReplay(b) \/ WriteQueued(b) PROVE HubInv'
<1>s. ShapeOK /\ sent \in Nat /\ MaxMessages \in Nat
  BY HubAssumption DEF HubInv, ShapeOK
<1>f. /\ sent' = sent /\ aud' = aud /\ conn' = conn /\ who' = who /\ from' = from
      /\ condemned' = condemned /\ dropped' = dropped
  BY DEF WriteReplay, WriteQueued, dropVars
<1>1. PICK n \in toReplay[b] \cup queue[b] :
        /\ last' = [last EXCEPT ![b] = n]
        /\ got' = [got EXCEPT ![b] = @ \cup {n}]
        /\ \/ /\ IsNext(n, toReplay[b]) /\ queue' = queue
              /\ toReplay' = [toReplay EXCEPT ![b] = @ \ {n}]
           \/ /\ IsNext(n, queue[b]) /\ toReplay[b] = {} /\ toReplay' = toReplay
              /\ queue' = [queue EXCEPT ![b] = @ \ {n}]
  BY DEF WriteReplay, WriteQueued, Receives
<1>2. n \in Messages /\ n <= sent
  BY <1>s DEF ShapeOK, HubInv, SentBefore
<1>3. ShapeOK'
  <2>1. last' \in [Browsers -> 0 .. MaxMessages] /\ got' \in [Browsers -> SUBSET Messages]
    BY <1>1, <1>2, <1>s DEF ShapeOK
  <2>2. toReplay' = toReplay \/ toReplay' = [toReplay EXCEPT ![b] = toReplay[b] \ {n}]
    BY <1>1
  <2>3. queue' = queue \/ queue' = [queue EXCEPT ![b] = queue[b] \ {n}]
    BY <1>1
  <2>4. toReplay \in [Browsers -> SUBSET Messages] /\ queue \in [Browsers -> SUBSET Messages]
    BY <1>s DEF ShapeOK
  <2>5. toReplay[b] \ {n} \in SUBSET Messages /\ queue[b] \ {n} \in SUBSET Messages
    BY <2>4
  <2>6. toReplay' \in [Browsers -> SUBSET Messages]
    BY <2>2, <2>4, <2>5
  <2>7. queue' \in [Browsers -> SUBSET Messages]
    BY <2>3, <2>4, <2>5
  <2> QED BY <2>1, <2>6, <2>7, <1>f, <1>s DEF ShapeOK
<1>4. /\ \A v \in Browsers : toReplay'[v] \subseteq toReplay[v] /\ queue'[v] \subseteq queue[v]
      /\ \A v \in Browsers \ {b} : last'[v] = last[v]
      /\ last'[b] = n
  <2>1. \A v \in Browsers : toReplay'[v] \subseteq toReplay[v]
    BY <1>1, <1>s DEF ShapeOK
  <2>2. \A v \in Browsers : queue'[v] \subseteq queue[v]
    BY <1>1, <1>s DEF ShapeOK
  <2>3. last'[b] = n /\ \A v \in Browsers \ {b} : last'[v] = last[v]
    BY <1>1, <1>s DEF ShapeOK
  <2> QED BY <2>1, <2>2, <2>3
<1>5. SentBefore'
  BY <1>2, <1>4, <1>f DEF HubInv, SentBefore
<1>6. InOrder'
  <2>1. \A m \in toReplay'[b] \cup queue'[b] : n < m
    <3> SUFFICES ASSUME NEW m \in toReplay'[b] \cup queue'[b] PROVE n < m
      OBVIOUS
    <3>1. m \in Nat /\ n \in Nat /\ m \in toReplay[b] \cup queue[b]
      BY <1>2, <1>4, <1>s DEF ShapeOK
    <3>2. CASE /\ IsNext(n, toReplay[b]) /\ queue' = queue
               /\ toReplay' = [toReplay EXCEPT ![b] = @ \ {n}]
      BY <3>1, <3>2, <1>s DEF IsNext, ShapeOK, HubInv, InOrder
    <3>3. CASE /\ IsNext(n, queue[b]) /\ toReplay[b] = {} /\ toReplay' = toReplay
               /\ queue' = [queue EXCEPT ![b] = @ \ {n}]
      BY <3>1, <3>3, <1>s DEF IsNext, ShapeOK
    <3> QED BY <3>2, <3>3, <1>1
  <2> QED BY <2>1, <1>4 DEF HubInv, InOrder
<1>7. OnlyItsAudience'
  BY <1>4, <1>f DEF HubInv, OnlyItsAudience
<1>8. StreamLacksNothing'
  <2>1. \A v \in Browsers : got[v] \cup toReplay[v] \cup queue[v]
                              \subseteq got'[v] \cup toReplay'[v] \cup queue'[v]
    BY <1>1, <1>s DEF ShapeOK
  <2> QED BY <2>1, <1>f DEF HubInv, StreamLacksNothing
<1> QED BY <1>3, <1>5, <1>6, <1>7, <1>8 DEF HubInv

\* A stream ends or is condemned: nothing is added to what waits.
LEMMA LeaveStep ==
  ASSUME HubInv, NEW b \in Browsers,
         SeeDisconnect(b) \/ Break(b) \/ Remove(b) \/ Drop(b)
  PROVE  HubInv'
<1>s. ShapeOK
  BY DEF HubInv
<1>f. sent' = sent /\ aud' = aud /\ who' = who /\ last' = last /\ got' = got /\ from' = from
  BY DEF SeeDisconnect, Break, Remove, Drop, browserVars, streamVars
<1>1. ShapeOK'
  BY <1>s DEF ShapeOK, SeeDisconnect, Break, Remove, Drop, browserVars, streamVars, dropVars
<1>2. \A v \in Browsers :
        /\ toReplay'[v] \subseteq toReplay[v] /\ queue'[v] \subseteq queue[v]
        /\ (conn[v] = "stream" /\ ~condemned[v] /\ ~dropped[v])' =>
             /\ conn[v] = "stream" /\ ~condemned[v] /\ ~dropped[v]
             /\ toReplay'[v] = toReplay[v] /\ queue'[v] = queue[v]
  BY <1>s DEF ShapeOK, SeeDisconnect, Break, Remove, Drop, browserVars, streamVars, dropVars
<1>3. SentBefore' /\ InOrder' /\ OnlyItsAudience'
  BY <1>2, <1>f DEF HubInv, SentBefore, InOrder, OnlyItsAudience
<1>4. StreamLacksNothing'
  BY <1>2, <1>f DEF HubInv, StreamLacksNothing
<1> QED BY <1>1, <1>3, <1>4 DEF HubInv

\* RevokeAudience only condemns.
LEMMA RevokeStep == ASSUME HubInv, Revoke PROVE HubInv'
<1>f. /\ sent' = sent /\ aud' = aud /\ who' = who /\ last' = last /\ got' = got /\ from' = from
      /\ conn' = conn /\ toReplay' = toReplay /\ queue' = queue /\ dropped' = dropped
  BY DEF Revoke, browserVars, streamVars
<1>1. \A v \in Browsers : condemned[v] => condemned'[v]
  BY DEF Revoke
<1>2. condemned' \in [Browsers -> BOOLEAN]
  BY DEF Revoke, HubInv, ShapeOK
<1>3. ShapeOK'
  BY <1>f, <1>2 DEF HubInv, ShapeOK
<1>4. SentBefore' /\ InOrder' /\ OnlyItsAudience'
  BY <1>f DEF HubInv, SentBefore, InOrder, OnlyItsAudience
<1>5. StreamLacksNothing'
  BY <1>f, <1>1 DEF HubInv, StreamLacksNothing
<1> QED BY <1>3, <1>4, <1>5 DEF HubInv

\* SendPresentationEvents: what a registered client does not get condemns it.
LEMMA SendStep == ASSUME HubInv, Send PROVE HubInv'
<1>0. PICK k \in 1 .. MaxBatch : \E as \in [sent + 1 .. sent + k -> EventAudiences] :
        /\ sent + k <= MaxMessages
        /\ sent' = sent + k
        /\ aud' = [n \in Messages |-> IF n \in sent + 1 .. sent + k THEN as[n] ELSE aud[n]]
        /\ queue' = [b \in Browsers |->
             IF Registered(b)
               THEN queue[b] \cup Queued(b, Matching(b, sent + 1 .. sent + k, as))
               ELSE queue[b]]
        /\ condemned' = Condemn(sent + 1 .. sent + k, as)
  BY DEF Send
<1>1. PICK as \in [sent + 1 .. sent + k -> EventAudiences] :
        /\ sent + k <= MaxMessages
        /\ sent' = sent + k
        /\ aud' = [n \in Messages |-> IF n \in sent + 1 .. sent + k THEN as[n] ELSE aud[n]]
        /\ queue' = [b \in Browsers |->
             IF Registered(b)
               THEN queue[b] \cup Queued(b, Matching(b, sent + 1 .. sent + k, as))
               ELSE queue[b]]
        /\ condemned' = Condemn(sent + 1 .. sent + k, as)
  BY <1>0
<1> DEFINE news == sent + 1 .. sent + k
<1>f. /\ who' = who /\ last' = last /\ got' = got /\ from' = from
      /\ conn' = conn /\ toReplay' = toReplay /\ dropped' = dropped
  BY DEF Send, browserVars
<1>k. k \in Nat /\ k > 0
  BY HubAssumption
<1>l. \A n \in news : as[n] \in SUBSET Labels
  BY HubAssumption
<1>s. ShapeOK /\ sent \in Nat /\ MaxMessages \in Nat
  BY HubAssumption DEF HubInv, ShapeOK
<1>n. /\ news \subseteq Messages /\ \A n \in news : n > sent /\ n <= sent'
      /\ \A n \in 1 .. sent : n \in Messages /\ n \notin news /\ n <= sent'
      /\ 1 .. sent' = (1 .. sent) \cup news
  BY <1>1, <1>k, <1>s
<1>a. /\ \A n \in 1 .. sent : aud'[n] = aud[n]
      /\ \A n \in news : aud'[n] = as[n]
  BY <1>1, <1>n
<1>q. \A v \in Browsers :
        /\ queue[v] \subseteq queue'[v]
        /\ \A n \in queue'[v] \ queue[v] : n \in news /\ AudienceMatches(as[n], who[v])
  BY <1>1 DEF Queued, Matching
<1>c. \A v \in Browsers : ~condemned'[v] =>
        /\ ~condemned[v]
        /\ Registered(v) => Matching(v, news, as) \subseteq queue'[v]
  BY <1>1 DEF Condemn, Queued
<1> HIDE DEF news
<1>2. ShapeOK'
  <2>1. sent' \in 0 .. MaxMessages
    BY <1>1, <1>k, <1>s
  <2>2. aud' \in [Messages -> SUBSET Labels]
    BY <1>1, <1>l, <1>s DEF ShapeOK, news
  <2>3. queue' \in [Browsers -> SUBSET Messages]
    <3>1. queue' = [v \in Browsers |-> queue'[v]]
      BY <1>1
    <3>2. \A v \in Browsers : queue'[v] \subseteq Messages
      BY <1>q, <1>n, <1>s DEF ShapeOK
    <3> QED BY <3>1, <3>2
  <2>4. condemned' \in [Browsers -> BOOLEAN]
    BY <1>1, <1>s DEF ShapeOK, Condemn
  <2> QED BY <2>1, <2>2, <2>3, <2>4, <1>f, <1>s DEF ShapeOK
<1>3. SentBefore'
  <2> SUFFICES ASSUME NEW v \in Browsers
               PROVE last[v] <= sent' /\ toReplay[v] \cup queue'[v] \subseteq 1 .. sent'
    BY <1>f DEF SentBefore
  <2>1. last[v] \in Nat /\ last[v] <= sent /\ toReplay[v] \cup queue[v] \subseteq 1 .. sent
    BY <1>s DEF HubInv, SentBefore, ShapeOK
  <2>2. last[v] <= sent'
    BY <2>1, <1>1, <1>k, <1>s
  <2>3. queue'[v] \subseteq queue[v] \cup news
    BY <1>q
  <2> QED BY <2>1, <2>2, <2>3, <1>n
<1>4. InOrder'
  <2> SUFFICES ASSUME NEW v \in Browsers
               PROVE /\ \A n \in toReplay[v] \cup queue'[v] : last[v] < n
                     /\ \A n \in toReplay[v], m \in queue'[v] : n < m
    BY <1>f DEF InOrder
  <2>1. /\ last[v] \in Nat /\ last[v] <= sent
        /\ \A n \in toReplay[v] : n \in Nat /\ n <= sent
        /\ \A m \in queue'[v] : m \in queue[v] \/ m \in news
        /\ \A m \in news : m \in Nat /\ m > sent
    <3>1. last[v] \in Nat /\ last[v] <= sent /\ toReplay[v] \subseteq 1 .. sent
      BY <1>s DEF HubInv, SentBefore, ShapeOK
    <3>2. \A m \in news : m \in Nat /\ m > sent
      BY <1>n
    <3>3. \A n \in toReplay[v] : n \in Nat /\ n <= sent
      BY <3>1, <1>s
    <3>4. \A m \in queue'[v] : m \in queue[v] \/ m \in news
      BY <1>q
    <3> QED BY <3>1, <3>2, <3>3, <3>4
  <2> QED BY <2>1, <1>s DEF HubInv, InOrder
<1>5. OnlyItsAudience'
  <2> SUFFICES ASSUME NEW v \in Browsers, NEW n \in toReplay[v] \cup queue'[v]
               PROVE AudienceMatches(aud'[n], who[v])
    BY <1>f DEF OnlyItsAudience, AudienceMatches
  <2>1. CASE n \in toReplay[v] \cup queue[v]
    BY <2>1, <1>a DEF HubInv, SentBefore, OnlyItsAudience
  <2>2. CASE n \in queue'[v] \ queue[v]
    BY <2>2, <1>q, <1>a
  <2> QED BY <2>1, <2>2
<1>6. StreamLacksNothing'
  <2> SUFFICES ASSUME NEW v \in Browsers, conn[v] = "stream", ~condemned'[v], ~dropped[v],
                      NEW n \in 1 .. sent', from[v] < n, AudienceMatches(aud'[n], who[v])
               PROVE n \in got[v] \cup toReplay[v] \cup queue'[v]
    BY <1>f DEF StreamLacksNothing, AudienceMatches
  <2>1. CASE n \in 1 .. sent
    BY <2>1, <1>a, <1>c, <1>q DEF HubInv, StreamLacksNothing
  <2>2. CASE n \in news
    <3>1. n \in Matching(v, news, as)
      BY <2>2, <1>a DEF Matching
    <3> QED BY <3>1, <1>c DEF Registered
  <2> QED BY <2>1, <2>2, <1>n
<1> QED BY <1>2, <1>3, <1>4, <1>5, <1>6 DEF HubInv

\* Every step of the hub keeps the invariant.
LEMMA HubInvStep == ASSUME HubInv, [Next]_vars PROVE HubInv'
<1>1. CASE UNCHANGED vars
  BY <1>1 DEF vars, streamVars, dropVars, browserVars, HubInv, ShapeOK, SentBefore,
              InOrder, OnlyItsAudience, StreamLacksNothing
<1>2. ASSUME NEW b \in Browsers, Connect(b) \/ Serve(b) \/ Break(b) \/ Drop(b)
      PROVE HubInv'
  BY <1>2, ConnectStep, WriteStep, LeaveStep DEF Serve
<1> QED BY <1>1, <1>2, SendStep, RevokeStep DEF Next

\* Every stream of the hub, at every moment: in order, for its audience and,
\* unless it is condemned, complete.
THEOREM HubInvariant == Spec => []HubInv
<1>1. Init => HubInv
  BY HubAssumption
     DEF Init, HubInv, ShapeOK, SentBefore, InOrder, OnlyItsAudience, StreamLacksNothing
<1>2. HubInv /\ [Next]_vars => HubInv'
  BY HubInvStep
<1> QED BY <1>1, <1>2, PTL DEF Spec

\* A browser receives messages in order and each of them once.
THEOREM StreamsAreOrdered == Spec => []InOrder
<1>1. HubInv => InOrder
  BY DEF HubInv
<1> QED BY <1>1, HubInvariant, PTL

\* A browser is only ever sent messages for its audience.
THEOREM AudiencesAreKept == Spec => []OnlyItsAudience
<1>1. HubInv => OnlyItsAudience
  BY DEF HubInv
<1> QED BY <1>1, HubInvariant, PTL

\* A stream that is not condemned lacks no message since where it resumed.
THEOREM StreamsAreComplete == Spec => []StreamLacksNothing
<1>1. HubInv => StreamLacksNothing
  BY DEF HubInv
<1> QED BY <1>1, HubInvariant, PTL
-----------------------------------------------------------------------------
(* The bound of the queues.                                                *)

\* The first messages of a batch, as many as there is room for, are no more
\* than the room: they have different ranks in the batch.
LEMMA FirstOnesFit ==
  ASSUME NEW M \in SUBSET Messages, NEW room \in Nat
  PROVE  LET F == {n \in M : Cardinality({m \in M : m < n}) < room}
         IN  IsFiniteSet(F) /\ Cardinality(F) <= room
<1> DEFINE Before(n) == {m \in M : m < n}
           F == {n \in M : Cardinality(Before(n)) < room}
           rank == [n \in F |-> Cardinality(Before(n))]
<1>m. IsFiniteSet(Messages) /\ Messages \subseteq Nat
  BY HubAssumption, FS_Interval
<1>1. \A n \in M : IsFiniteSet(Before(n)) /\ Cardinality(Before(n)) \in Nat
  BY <1>m, FS_Subset, FS_CardinalityType
<1>2. ASSUME NEW n \in M, NEW k \in M, n < k
      PROVE  Cardinality(Before(n)) < Cardinality(Before(k))
  <2>1. n \in Nat /\ k \in Nat /\ \A m \in M : m \in Nat
    BY <1>m
  <2>2. Before(n) \in SUBSET Before(k) /\ n \in Before(k) /\ n \notin Before(n)
    <3>1. \A m \in M : m < n => m < k
      BY <2>1, <1>2
    <3>2. ~(n < n)
      BY <2>1
    <3> QED BY <3>1, <3>2, <1>2
  <2>3. /\ IsFiniteSet(Before(k))
        /\ Cardinality(Before(n)) \in Nat /\ Cardinality(Before(k)) \in Nat
    BY <1>1
  <2> HIDE DEF Before
  <2>4. /\ Cardinality(Before(n)) <= Cardinality(Before(k))
        /\ Cardinality(Before(k)) = Cardinality(Before(n)) => Before(k) = Before(n)
    BY <2>2, <2>3, FS_Subset
  <2> QED BY <2>2, <2>3, <2>4
<1>3. \A n \in F : n \in M /\ n \in Nat /\ Cardinality(Before(n)) < room
  BY <1>m
<1> HIDE DEF Before
<1>4. \A n \in F : rank[n] \in 0 .. room - 1
  BY <1>1, <1>3
<1>5. \A n, k \in F : rank[n] = rank[k] => n = k
  <2> SUFFICES ASSUME NEW n \in F, NEW k \in F, n # k PROVE rank[n] # rank[k]
    OBVIOUS
  <2>1. n < k \/ k < n
    BY <1>3
  <2>2. /\ n \in M /\ k \in M
        /\ Cardinality(Before(n)) \in Nat /\ Cardinality(Before(k)) \in Nat
        /\ rank[n] = Cardinality(Before(n)) /\ rank[k] = Cardinality(Before(k))
    BY <1>1, <1>3
  <2> HIDE DEF rank, F
  <2>3. rank[n] < rank[k] \/ rank[k] < rank[n]
    BY <1>2, <2>1, <2>2
  <2> QED BY <2>2, <2>3
<1>6. rank \in [F -> 0 .. room - 1]
  BY <1>4
<1> HIDE DEF rank
<1>7. rank \in Injection(F, 0 .. room - 1)
  BY <1>5, <1>6 DEF Injection, IsInjective
<1>8. IsFiniteSet(0 .. room - 1) /\ Cardinality(0 .. room - 1) = room
  BY FS_Interval
<1>9. IsFiniteSet(F) /\ Cardinality(F) <= room
  BY <1>7, <1>8, FS_Injection
<1> QED BY <1>9 DEF Before

\* A batch is queued up to the buffer's size.
LEMMA QueueFits ==
  ASSUME NEW b \in Browsers, NEW M \in SUBSET Messages,
         queue[b] \in SUBSET Messages, Cardinality(queue[b]) <= BufferSize
  PROVE  Cardinality(queue[b] \cup Queued(b, M)) <= BufferSize
<1> DEFINE q == queue[b]
           N == Queued(b, M)
           room == BufferSize - Cardinality(q)
<1>1. IsFiniteSet(Messages)
  BY HubAssumption, FS_Interval
<1>2. IsFiniteSet(q) /\ Cardinality(q) \in Nat /\ IsFiniteSet(M) /\ Cardinality(M) \in Nat
  BY <1>1, FS_Subset, FS_CardinalityType
<1>3. BufferSize \in Nat /\ room \in Nat
  BY <1>2, HubAssumption
<1>4. IsFiniteSet(N) /\ Cardinality(N) <= room
  <2>1. CASE ~ Overflows(b, M)
    BY <2>1, <1>2, <1>3 DEF Overflows, Queued
  <2>2. CASE Overflows(b, M)
    <3>1. N = {n \in M : Cardinality(q) + Cardinality({m \in M : m < n}) < BufferSize}
      BY <2>2 DEF Queued
    <3>2. \A n \in M : Cardinality({m \in M : m < n}) \in Nat
      BY <1>2, FS_Subset, FS_CardinalityType
    <3>3. N = {n \in M : Cardinality({m \in M : m < n}) < room}
      <4>1. \A n \in M : Cardinality(q) + Cardinality({m \in M : m < n}) < BufferSize
                           <=> Cardinality({m \in M : m < n}) < room
        BY <3>2, <1>2, <1>3
      <4> HIDE DEF room
      <4> QED BY <3>1, <4>1
    <3> HIDE DEF N, room
    <3> QED BY <3>3, <1>3, FirstOnesFit
  <2> QED BY <2>1, <2>2
<1> HIDE DEF q, N
<1>5. Cardinality(N) \in Nat /\ IsFiniteSet(q \cap N) /\ Cardinality(q \cap N) \in Nat
  BY <1>2, <1>4, FS_CardinalityType, FS_Intersection
<1>6. Cardinality(q \cup N) = Cardinality(q) + Cardinality(N) - Cardinality(q \cap N)
  BY <1>2, <1>4, FS_Union
<1>7. Cardinality(q \cup N) <= BufferSize
  BY <1>2, <1>3, <1>4, <1>5, <1>6
<1> QED BY <1>7 DEF q, N

\* No step lets a queue outgrow its buffer.
LEMMA BoundStep == ASSUME HubInv, TypeOK, [Next]_vars PROVE TypeOK'
<1>m. IsFiniteSet(Messages)
  BY HubAssumption, FS_Interval
<1>s. /\ ShapeOK
      /\ \A b \in Browsers : queue[b] \in SUBSET Messages /\ Cardinality(queue[b]) <= BufferSize
  BY DEF TypeOK, ShapeOK
<1>h. HubInv'
  BY HubInvStep
<1>1. ASSUME NEW b \in Browsers PROVE Cardinality(queue'[b]) <= BufferSize
  <2>1. CASE queue'[b] \subseteq queue[b]
    <3>1. IsFiniteSet(queue[b]) /\ Cardinality(queue[b]) \in Nat /\ BufferSize \in Nat
      BY <1>m, <1>s, HubAssumption, FS_Subset, FS_CardinalityType
    <3>2. Cardinality(queue'[b]) <= Cardinality(queue[b]) /\ Cardinality(queue'[b]) \in Nat
      BY <3>1, <2>1, FS_Subset, FS_CardinalityType
    <3> QED BY <3>1, <3>2, <1>s
  <2>2. CASE Send
    <3>0. PICK k \in 1 .. MaxBatch : \E as \in [sent + 1 .. sent + k -> EventAudiences] :
            /\ sent + k <= MaxMessages
            /\ queue' = [v \in Browsers |->
                 IF Registered(v)
                   THEN queue[v] \cup Queued(v, Matching(v, sent + 1 .. sent + k, as))
                   ELSE queue[v]]
      BY <2>2 DEF Send
    <3>1. PICK as \in [sent + 1 .. sent + k -> EventAudiences] :
            /\ sent + k <= MaxMessages
            /\ queue' = [v \in Browsers |->
                 IF Registered(v)
                   THEN queue[v] \cup Queued(v, Matching(v, sent + 1 .. sent + k, as))
                   ELSE queue[v]]
      BY <3>0
    <3>2. Matching(b, sent + 1 .. sent + k, as) \in SUBSET Messages
      <4>1. sent \in Nat /\ k \in Nat /\ MaxMessages \in Nat
        BY <1>s, HubAssumption DEF ShapeOK
      <4>2. sent + 1 .. sent + k \subseteq Messages
        BY <4>1, <3>1
      <4> QED BY <4>2 DEF Matching
    <3>3. CASE Registered(b)
      BY <3>1, <3>2, <3>3, <1>s, QueueFits
    <3>4. CASE ~ Registered(b)
      BY <3>1, <3>4, <2>1
    <3> QED BY <3>3, <3>4
  <2>3. CASE ~ Send
    <3>1. ASSUME NEW v \in Browsers, Connect(v) \/ Serve(v) \/ Break(v) \/ Drop(v)
          PROVE  queue'[b] \subseteq queue[b]
      BY <3>1, <1>s DEF Connect, Serve, WriteReplay, WriteQueued, SeeDisconnect, Remove, Break,
                        Drop, streamVars, ShapeOK
    <3>2. ASSUME Revoke \/ UNCHANGED vars PROVE queue'[b] \subseteq queue[b]
      BY <3>2 DEF Revoke, vars, streamVars
    <3> QED BY <2>3, <2>1, <3>1, <3>2 DEF Next
  <2> QED BY <2>2, <2>3
<1> QED BY <1>1, <1>h DEF TypeOK, HubInv

\* Every variable keeps its type and no client's queue ever holds more than
\* BufferSize messages, whatever is sent and however slowly it is read.
THEOREM QueuesAreBounded == Spec => []TypeOK
<1>1. Init => TypeOK
  BY FS_EmptySet, HubAssumption DEF Init, TypeOK, ShapeOK
<1>2. HubInv /\ TypeOK /\ [Next]_vars => TypeOK'
  BY BoundStep
<1> QED BY <1>1, <1>2, HubInvariant, PTL DEF Spec

-----------------------------------------------------------------------------
(* The refinement.                                                         *)

\* What waits to be written comes after the point the stream resumed from.
AfterStart ==
  \A b \in Browsers :
    from[b] <= sent /\ \A n \in toReplay[b] \cup queue[b] : from[b] < n

\* A new stream waits for what follows its last message, or for nothing.
LEMMA ConnectStartsAfter ==
  ASSUME HubInv, AfterStart, NEW b \in Browsers, Connect(b) PROVE AfterStart'
<1>1. PICK audience \in ClientAudiences :
        toReplay' = [toReplay EXCEPT ![b] = ReplayAfter(b, audience)]
  BY DEF Connect
<1>2. /\ sent' = sent /\ queue' = [queue EXCEPT ![b] = {}]
      /\ from' = [from EXCEPT ![b] = IF Known(b) THEN last[b] ELSE sent]
  BY DEF Connect
<1>s. ShapeOK /\ sent \in Nat /\ last[b] \in Nat /\ last[b] <= sent /\ audience \in SUBSET Labels
  BY HubAssumption DEF HubInv, ShapeOK, SentBefore
<1>3. /\ queue'[b] = {} /\ toReplay'[b] = ReplayAfter(b, audience)
      /\ from'[b] = IF Known(b) THEN last[b] ELSE sent
      /\ \A v \in Browsers \ {b} :
           from'[v] = from[v] /\ toReplay'[v] = toReplay[v] /\ queue'[v] = queue[v]
  BY <1>1, <1>2, <1>s DEF ShapeOK
<1>4. ~Known(b) => ReplayAfter(b, audience) = {}
  BY DEF ReplayAfter
<1>5. \A n \in toReplay'[b] : from'[b] < n
  BY <1>3, <1>4, <1>s, ReplayIsLater
<1> QED BY <1>2, <1>3, <1>5, <1>s DEF AfterStart

\* A batch comes after everything that was sent.
LEMMA SendStartsAfter == ASSUME HubInv, AfterStart, Send PROVE AfterStart'
<1>0. PICK k \in 1 .. MaxBatch : \E as \in [sent + 1 .. sent + k -> EventAudiences] :
        /\ sent' = sent + k
        /\ queue' = [b \in Browsers |->
             IF Registered(b)
               THEN queue[b] \cup Queued(b, Matching(b, sent + 1 .. sent + k, as))
               ELSE queue[b]]
  BY DEF Send
<1>1. PICK as \in [sent + 1 .. sent + k -> EventAudiences] :
        /\ sent' = sent + k
        /\ queue' = [b \in Browsers |->
             IF Registered(b)
               THEN queue[b] \cup Queued(b, Matching(b, sent + 1 .. sent + k, as))
               ELSE queue[b]]
  BY <1>0
<1>s. sent \in Nat /\ k \in Nat /\ \A b \in Browsers : from[b] \in Nat
  BY HubAssumption DEF HubInv, ShapeOK
<1>2. from' = from /\ toReplay' = toReplay
  BY DEF Send, browserVars
<1>3. \A b \in Browsers : \A n \in queue'[b] : n \in queue[b] \/ n \in sent + 1 .. sent + k
  BY <1>1 DEF Queued, Matching
<1>4. \A n \in sent + 1 .. sent + k : n \in Nat /\ sent < n
  BY <1>s
<1>5. sent <= sent' /\ sent' \in Nat
  BY <1>1, <1>s
<1>6. \A b \in Browsers : from[b] <= sent' /\ \A n \in sent + 1 .. sent + k : from[b] < n
  BY <1>4, <1>5, <1>s DEF AfterStart
<1> QED BY <1>2, <1>3, <1>6 DEF AfterStart

\* Every step keeps it.
LEMMA AfterStartStep == HubInv /\ AfterStart /\ [Next]_vars => AfterStart'
<1> SUFFICES ASSUME HubInv, AfterStart, [Next]_vars PROVE AfterStart'
  OBVIOUS
<1>s. ShapeOK
  BY DEF HubInv
<1>1. CASE /\ sent' = sent /\ from' = from
           /\ \A v \in Browsers : toReplay'[v] \subseteq toReplay[v] /\ queue'[v] \subseteq queue[v]
  BY <1>1 DEF AfterStart
<1>2. CASE UNCHANGED vars \/ Revoke
  BY <1>1, <1>2 DEF vars, streamVars, browserVars, Revoke
<1>3. ASSUME NEW b \in Browsers, WriteReplay(b) \/ WriteQueued(b) PROVE AfterStart'
  <2>1. PICK n : (toReplay' = toReplay \/ toReplay' = [toReplay EXCEPT ![b] = @ \ {n}])
              /\ (queue' = queue \/ queue' = [queue EXCEPT ![b] = @ \ {n}])
    BY <1>3 DEF WriteReplay, WriteQueued
  <2>2. sent' = sent /\ from' = from
    BY <1>3 DEF WriteReplay, WriteQueued
  <2>3. \A v \in Browsers : toReplay'[v] \subseteq toReplay[v]
    <3>1. CASE toReplay' = toReplay
      BY <3>1
    <3>2. CASE toReplay' = [toReplay EXCEPT ![b] = @ \ {n}]
      <4>1. \A v \in Browsers : toReplay'[v] = IF v = b THEN toReplay[b] \ {n} ELSE toReplay[v]
        BY <3>2, <1>s DEF ShapeOK
      <4> QED BY <4>1
    <3> QED BY <2>1, <3>1, <3>2
  <2>4. \A v \in Browsers : queue'[v] \subseteq queue[v]
    <3>1. CASE queue' = queue
      BY <3>1
    <3>2. CASE queue' = [queue EXCEPT ![b] = @ \ {n}]
      <4>1. \A v \in Browsers : queue'[v] = IF v = b THEN queue[b] \ {n} ELSE queue[v]
        BY <3>2, <1>s DEF ShapeOK
      <4> QED BY <4>1
    <3> QED BY <2>1, <3>1, <3>2
  <2> QED BY <2>2, <2>3, <2>4, <1>1
<1>4. ASSUME NEW b \in Browsers, SeeDisconnect(b) \/ Break(b) \/ Remove(b) \/ Drop(b)
      PROVE  AfterStart'
  <2>1. \A v \in Browsers : toReplay'[v] \subseteq toReplay[v] /\ queue'[v] \subseteq queue[v]
    BY <1>4, <1>s DEF ShapeOK, SeeDisconnect, Break, Remove, Drop, streamVars
  <2> QED BY <1>1, <1>4, <2>1 DEF SeeDisconnect, Break, Remove, Drop, browserVars
<1> QED BY <1>2, <1>3, <1>4, ConnectStartsAfter, SendStartsAfter DEF Next, Serve

\* A message that is written is the next one for its browser: with the stream
\* not cut off, everything before it has been received.
LEMMA WriteReceives ==
  ASSUME HubInv, AfterStart, NEW b \in Browsers, WriteReplay(b) \/ WriteQueued(b)
  PROVE  Stream!Next
<1>s. ShapeOK /\ sent \in Nat /\ sent <= MaxMessages /\ MaxMessages \in Nat
      /\ last[b] \in Nat /\ from[b] \in Nat
  BY HubAssumption DEF HubInv, ShapeOK
<1>1. PICK n \in toReplay[b] \cup queue[b] :
        /\ last' = [last EXCEPT ![b] = n]
        /\ got' = [got EXCEPT ![b] = @ \cup {n}]
        /\ \/ IsNext(n, toReplay[b])
           \/ IsNext(n, queue[b]) /\ toReplay[b] = {}
  BY DEF WriteReplay, WriteQueued, Receives
<1>f. /\ sent' = sent /\ aud' = aud /\ conn' = conn /\ who' = who /\ from' = from
      /\ condemned' = condemned /\ dropped' = dropped
  BY DEF WriteReplay, WriteQueued, dropVars
<1>2. n \in 1 .. sent /\ last[b] < n /\ from[b] < n /\ AudienceMatches(aud[n], who[b])
  BY DEF HubInv, SentBefore, InOrder, OnlyItsAudience, AfterStart
<1>3. \A m \in toReplay[b] \cup queue[b] : n <= m
  <2>1. toReplay[b] \cup queue[b] \subseteq 1 .. sent
    BY DEF HubInv, SentBefore
  <2>2. \A x \in toReplay[b], y \in queue[b] : x < y
    BY DEF HubInv, InOrder
  <2> QED BY <1>1, <1>s, <2>1, <2>2 DEF IsNext
<1>4. Whole(b) => \A m \in 1 .. n - 1 :
        from[b] < m /\ AudienceMatches(aud[m], who[b]) => m \in got[b]
  <2> SUFFICES ASSUME Whole(b), NEW m \in 1 .. n - 1, from[b] < m, AudienceMatches(aud[m], who[b])
               PROVE  m \in got[b]
    OBVIOUS
  <2>1. m \in 1 .. sent /\ ~(n <= m)
    BY <1>2, <1>s
  <2>2. m \in got[b] \cup toReplay[b] \cup queue[b]
    BY <2>1 DEF Whole, HubInv, StreamLacksNothing
  <2> QED BY <1>3, <2>1, <2>2
<1>5. [v \in Browsers |-> Whole(v)]' = [v \in Browsers |-> Whole(v)]
  BY <1>f DEF Whole
<1>6. n \in Messages /\ n > last[b] /\ n > from[b]
  BY <1>2, <1>s
<1>7. \A m \in 1 .. n - 1 : m > from[b] => from[b] < m
  BY <1>2, <1>s
<1>8. Stream!Receive(b, n)
  BY <1>1, <1>2, <1>4, <1>5, <1>6, <1>7, <1>f
  DEF Stream!Receive, Stream!For, AudienceMatches
<1> QED BY <1>6, <1>8 DEF Stream!Next

\* addWithReplay joins: the stream resumes after the last message the hub
\* knows of, or starts now.
LEMMA ConnectJoins ==
  ASSUME HubInv, NEW b \in Browsers, Connect(b) PROVE Stream!Next
<1>1. PICK audience \in ClientAudiences : who' = [who EXCEPT ![b] = audience]
  BY DEF Connect
<1>2. audience \in SUBSET Labels
  BY HubAssumption
<1>f. /\ sent' = sent /\ aud' = aud /\ last' = last /\ got' = got
      /\ conn[b] = "off" /\ conn' = [conn EXCEPT ![b] = "stream"]
      /\ condemned' = [condemned EXCEPT ![b] = FALSE]
      /\ dropped' = [dropped EXCEPT ![b] = FALSE]
      /\ from' = [from EXCEPT ![b] = IF Known(b) THEN last[b] ELSE sent]
  BY DEF Connect
<1>3. ~Whole(b) /\ Whole(b)' /\ \A v \in Browsers \ {b} : Whole(v)' <=> Whole(v)
  BY <1>f DEF Whole, HubInv, ShapeOK
<1>4. [v \in Browsers |-> Whole(v)]' = [[v \in Browsers |-> Whole(v)] EXCEPT ![b] = TRUE]
  <2>1. \A v \in Browsers : Whole(v)' = IF v = b THEN TRUE ELSE Whole(v)
    BY <1>3 DEF Whole
  <2> QED BY <2>1
<1>5. Stream!Join(b)
  <2>1. \E n \in {last[b], sent} : from' = [from EXCEPT ![b] = n]
    BY <1>f
  <2> QED BY <1>1, <1>2, <1>3, <1>4, <1>f, <2>1 DEF Stream!Join
<1> QED BY <1>5 DEF Stream!Next

\* The hub serves the stream that browsers are promised, however senders,
\* revocations, slow clients and reconnects interleave: in order, each message
\* once, for its audience, and with no gap before the stream is cut off.
THEOREM HubServesEventStream == Spec => ServesEventStream
<1>1. Init => Stream!Init /\ AfterStart
  <2> SUFFICES ASSUME Init PROVE Stream!Init /\ AfterStart
    OBVIOUS
  <2>1. AfterStart
    BY DEF Init, AfterStart
  <2>2. \A b \in Browsers : Whole(b) = FALSE
    BY DEF Init, Whole
  <2> QED BY <2>1, <2>2 DEF Init, Stream!Init
<1>2. HubInv /\ AfterStart /\ [Next]_vars => [Stream!Next]_(Stream!streamVars)
  <2> SUFFICES ASSUME HubInv, AfterStart, [Next]_vars
               PROVE  Stream!Next \/ UNCHANGED Stream!streamVars
    OBVIOUS
  <2>s. ShapeOK /\ sent \in Nat
    BY HubAssumption DEF HubInv, ShapeOK
  <2>l. ASSUME UNCHANGED <<sent, aud, who, from, last, got>>,
               \A v \in Browsers : Whole(v)' => Whole(v)
        PROVE  Stream!Next
    <3>1. Stream!Leave
      BY <2>l DEF Stream!Leave, Stream!CutOff
    <3> QED BY <3>1 DEF Stream!Next
  <2>1. CASE UNCHANGED vars
    BY <2>1, <2>l DEF vars, streamVars, dropVars, browserVars, Whole
  <2>2. CASE Revoke
    <3>1. \A v \in Browsers : Whole(v)' => Whole(v)
      BY <2>2 DEF Revoke, Whole, streamVars
    <3> QED BY <2>2, <2>l, <3>1 DEF Revoke, streamVars, browserVars
  <2>3. CASE Send
    <3>1. PICK k \in 1 .. MaxBatch : \E as \in [sent + 1 .. sent + k -> EventAudiences] :
            /\ sent + k <= MaxMessages
            /\ sent' = sent + k
            /\ aud' = [n \in Messages |-> IF n \in sent + 1 .. sent + k THEN as[n] ELSE aud[n]]
            /\ condemned' = Condemn(sent + 1 .. sent + k, as)
      BY <2>3 DEF Send
    <3>2. k \in Nat /\ k > 0 /\ MaxMessages \in Nat
      BY HubAssumption
    <3>3. sent' > sent /\ \A n \in 1 .. sent : n \in Messages /\ n \notin sent + 1 .. sent + k
      BY <3>1, <3>2, <2>s
    <3>4. \A n \in 1 .. sent : aud'[n] = aud[n]
      BY <3>1, <3>3
    <3>5. \A v \in Browsers : condemned[v] => condemned'[v]
      BY <3>1 DEF Condemn
    <3>6. \A v \in Browsers : Whole(v)' => Whole(v)
      BY <2>3, <3>5 DEF Send, Whole
    <3>7. Stream!Publish
      BY <2>3, <3>3, <3>4, <3>6 DEF Stream!Publish, Stream!CutOff, Send, browserVars
    <3> QED BY <3>7 DEF Stream!Next
  <2>4. ASSUME NEW b \in Browsers, SeeDisconnect(b) \/ Break(b) \/ Remove(b) \/ Drop(b)
        PROVE  Stream!Next
    <3>1. \A v \in Browsers : Whole(v)' => Whole(v)
      BY <2>4, <2>s DEF SeeDisconnect, Break, Remove, Drop, streamVars, dropVars, Whole, ShapeOK
    <3>2. UNCHANGED <<sent, aud, who, from, last, got>>
      BY <2>4 DEF SeeDisconnect, Break, Remove, Drop, streamVars, browserVars
    <3> QED BY <2>l, <3>1, <3>2
  <2> QED BY <2>1, <2>2, <2>3, <2>4, ConnectJoins, WriteReceives DEF Next, Serve
<1> QED BY <1>1, <1>2, AfterStartStep, HubInvariant, PTL DEF Spec, ServesEventStream, Stream!Spec
=============================================================================
