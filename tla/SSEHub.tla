------------------------------- MODULE SSEHub -------------------------------
(***************************************************************************)
(* runtime/contracts/sse/sse.go: presentation events fanned out to browser *)
(* streams, with a bounded queue per client, a bounded replay window for   *)
(* reconnecting browsers, and audience labels.                             *)
(*                                                                         *)
(* Messages are numbered in the order in which SendPresentationEvents      *)
(* takes the hub's lock, so a queue and the replay window are sets of      *)
(* numbers read in increasing order; EnsureEventID gives every message an  *)
(* ID of its own.  A browser has one stream at a time and reconnects with  *)
(* the ID of the last message it received.  A step is one critical section *)
(* of Hub.mu, one drop(), or one iteration of ServeHTTP's loop.            *)
(***************************************************************************)
EXTENDS Naturals, FiniteSets

CONSTANTS
  Browsers,
  Labels,           \* audience labels
  EventAudiences,   \* the label sets events are sent with
  ClientAudiences,  \* the label sets audienceFromRequest may return
  BufferSize,       \* WithBufferSize
  ReplayLimit,      \* WithReplayLimit; 0: no replay
  MaxMessages,      \* bound: how many messages are sent
  MaxBatch          \* bound: messages of one SendPresentationEvents

ASSUME HubAssumption ==
  /\ EventAudiences \subseteq SUBSET Labels
  /\ ClientAudiences \subseteq SUBSET Labels
  /\ BufferSize \in Nat \ {0}
  /\ ReplayLimit \in Nat /\ MaxMessages \in Nat /\ MaxBatch \in Nat

VARIABLES
  sent,       \* how many messages were sent
  aud,        \* message -> its audience labels
  conn,       \* browser -> "off", "stream", or "leaving" (ServeHTTP has left
              \* its loop and has not removed the client yet)
  who,        \* browser -> the audience of its client
  toReplay,   \* browser -> what addWithReplay gave and is still to be written
  queue,      \* browser -> client.queue
  condemned,  \* browser -> its client is in a caller's slow or revoked list
  dropped,    \* browser -> client.disconnect is closed
  last,       \* browser -> the Last-Event-ID it knows; 0: none
  got,        \* history: browser -> the messages it received
  from        \* history: browser -> the message its stream starts after

streamVars == <<conn, who, toReplay, queue>>
dropVars == <<condemned, dropped>>
browserVars == <<last, got, from>>
vars == <<sent, aud, streamVars, dropVars, browserVars>>

Messages == 1 .. MaxMessages

ShapeOK ==
  /\ sent \in 0 .. MaxMessages
  /\ aud \in [Messages -> SUBSET Labels]
  /\ conn \in [Browsers -> {"off", "stream", "leaving"}]
  /\ who \in [Browsers -> SUBSET Labels]
  /\ toReplay \in [Browsers -> SUBSET Messages]
  /\ queue \in [Browsers -> SUBSET Messages]
  /\ condemned \in [Browsers -> BOOLEAN]
  /\ dropped \in [Browsers -> BOOLEAN]
  /\ last \in [Browsers -> 0 .. MaxMessages]
  /\ got \in [Browsers -> SUBSET Messages]
  /\ from \in [Browsers -> 0 .. MaxMessages]

\* Every variable has its type, and no queue outgrows its buffer.
TypeOK == ShapeOK /\ \A b \in Browsers : Cardinality(queue[b]) <= BufferSize

Init ==
  /\ sent = 0
  /\ aud = [n \in Messages |-> {}]
  /\ conn = [b \in Browsers |-> "off"]
  /\ who = [b \in Browsers |-> {}]
  /\ toReplay = [b \in Browsers |-> {}]
  /\ queue = [b \in Browsers |-> {}]
  /\ condemned = [b \in Browsers |-> FALSE]
  /\ dropped = [b \in Browsers |-> FALSE]
  /\ last = [b \in Browsers |-> 0]
  /\ got = [b \in Browsers |-> {}]
  /\ from = [b \in Browsers |-> 0]

-----------------------------------------------------------------------------
(* Audiences and the replay window.                                        *)

\* audienceMatches: the client has every label of the event.
AudienceMatches(labels, audience) == labels \subseteq audience

\* The messages recordReplayLocked keeps.
ReplayWindow == {n \in 1 .. sent : sent < n + ReplayLimit}

\* The last message the browser names is known to the hub.
Known(b) == last[b] \in ReplayWindow

\* A replay that starts with the message the browser names.
ReplayFrom(b, audience) ==
  IF Known(b) THEN {n \in ReplayWindow : n >= last[b] /\ AudienceMatches(aud[n], audience)}
              ELSE {}

\* replayAfterLocked.
ReplayAfter(b, audience) ==
  IF Known(b) THEN {n \in ReplayWindow : n > last[b] /\ AudienceMatches(aud[n], audience)}
              ELSE {}

IsNext(n, S) == n \in S /\ \A m \in S : n <= m

-----------------------------------------------------------------------------
(* ServeHTTP.                                                              *)

\* addWithReplay: the replay is taken and the client registered in one
\* critical section.
Connect(b) ==
  /\ conn[b] = "off"
  /\ \E audience \in ClientAudiences :
       /\ who' = [who EXCEPT ![b] = audience]
       /\ toReplay' = [toReplay EXCEPT ![b] = ReplayAfter(b, audience)]
  /\ conn' = [conn EXCEPT ![b] = "stream"]
  /\ queue' = [queue EXCEPT ![b] = {}]
  /\ condemned' = [condemned EXCEPT ![b] = FALSE]
  /\ dropped' = [dropped EXCEPT ![b] = FALSE]
  /\ from' = [from EXCEPT ![b] = IF Known(b) THEN last[b] ELSE sent]
  /\ UNCHANGED <<sent, aud, last, got>>

\* The browser receives message n.
Receives(b, n) ==
  /\ last' = [last EXCEPT ![b] = n]
  /\ got' = [got EXCEPT ![b] = @ \cup {n}]

WriteReplay(b) ==
  /\ conn[b] = "stream"
  /\ \E n \in toReplay[b] :
       /\ IsNext(n, toReplay[b])
       /\ Receives(b, n)
       /\ toReplay' = [toReplay EXCEPT ![b] = @ \ {n}]
  /\ UNCHANGED <<sent, aud, conn, who, queue, dropVars, from>>

\* A live message that overtakes the replay.
WriteQueuedEarly(b) ==
  /\ conn[b] = "stream"
  /\ \E n \in queue[b] :
       /\ IsNext(n, queue[b])
       /\ Receives(b, n)
       /\ queue' = [queue EXCEPT ![b] = @ \ {n}]
  /\ UNCHANGED <<sent, aud, conn, who, toReplay, dropVars, from>>

\* The loop's select takes a queued message, also when disconnect is closed:
\* select chooses among the ready cases.
WriteQueued(b) ==
  /\ conn[b] = "stream"
  /\ toReplay[b] = {}
  /\ \E n \in queue[b] :
       /\ IsNext(n, queue[b])
       /\ Receives(b, n)
       /\ queue' = [queue EXCEPT ![b] = @ \ {n}]
  /\ UNCHANGED <<sent, aud, conn, who, toReplay, dropVars, from>>

\* The select takes disconnect.
SeeDisconnect(b) ==
  /\ conn[b] = "stream"
  /\ toReplay[b] = {}
  /\ dropped[b]
  /\ conn' = [conn EXCEPT ![b] = "leaving"]
  /\ UNCHANGED <<sent, aud, who, toReplay, queue, dropVars, browserVars>>

\* The request's context is done or a write fails: what was written and not
\* received is lost with what was not written.
Break(b) ==
  /\ conn[b] = "stream"
  /\ conn' = [conn EXCEPT ![b] = "leaving"]
  /\ UNCHANGED <<sent, aud, who, toReplay, queue, dropVars, browserVars>>

\* remove: later drop()s of this client find its channel closed.
Remove(b) ==
  /\ conn[b] = "leaving"
  /\ conn' = [conn EXCEPT ![b] = "off"]
  /\ toReplay' = [toReplay EXCEPT ![b] = {}]
  /\ queue' = [queue EXCEPT ![b] = {}]
  /\ condemned' = [condemned EXCEPT ![b] = FALSE]
  /\ dropped' = [dropped EXCEPT ![b] = TRUE]
  /\ UNCHANGED <<sent, aud, who, browserVars>>

-----------------------------------------------------------------------------
(* SendPresentationEvents and RevokeAudience.                              *)

Registered(b) == conn[b] # "off"

\* The messages of the batch news, with audiences as, that client b gets.
Matching(b, news, as) == {n \in news : AudienceMatches(as[n], who[b])}

\* A queue without a bound.
OverflowsNever(b, M) == FALSE

\* The batch does not fit the client's queue.
Overflows(b, M) == Cardinality(queue[b]) + Cardinality(M) > BufferSize

\* The messages that are queued: all, or the first ones up to the one that
\* finds the queue full.
Queued(b, M) ==
  IF Overflows(b, M)
    THEN {n \in M : Cardinality(queue[b]) + Cardinality({m \in M : m < n}) < BufferSize}
    ELSE M

\* A slow client that only misses the messages.
NoneCondemned(news, as) == condemned

Condemn(news, as) ==
  [b \in Browsers |-> condemned[b] \/ (Registered(b) /\ Overflows(b, Matching(b, news, as)))]

Send ==
  \E k \in 1 .. MaxBatch : \E as \in [sent + 1 .. sent + k -> EventAudiences] :
    LET news == sent + 1 .. sent + k IN
      /\ sent + k <= MaxMessages
      /\ sent' = sent + k
      /\ aud' = [n \in Messages |-> IF n \in news THEN as[n] ELSE aud[n]]
      /\ queue' = [b \in Browsers |->
                     IF Registered(b)
                       THEN queue[b] \cup Queued(b, Matching(b, news, as))
                       ELSE queue[b]]
      /\ condemned' = Condemn(news, as)
      /\ UNCHANGED <<conn, who, toReplay, dropped, browserVars>>

\* RevokeAudience of a set of labels.
Revoke ==
  \E labels \in EventAudiences \ {{}} :
    /\ condemned' = [b \in Browsers |->
                       condemned[b] \/ (Registered(b) /\ AudienceMatches(labels, who[b]))]
    /\ UNCHANGED <<sent, aud, streamVars, dropped, browserVars>>

\* A drop that finds nothing to close.
DropNothing(b) ==
  /\ condemned[b]
  /\ condemned' = [condemned EXCEPT ![b] = FALSE]
  /\ UNCHANGED <<sent, aud, streamVars, dropped, browserVars>>

\* client.drop(), after the lock is released.
Drop(b) ==
  /\ condemned[b]
  /\ condemned' = [condemned EXCEPT ![b] = FALSE]
  /\ dropped' = [dropped EXCEPT ![b] = TRUE]
  /\ UNCHANGED <<sent, aud, streamVars, browserVars>>

-----------------------------------------------------------------------------
Serve(b) == WriteReplay(b) \/ WriteQueued(b) \/ SeeDisconnect(b) \/ Remove(b)

Next ==
  \/ Send \/ Revoke
  \/ \E b \in Browsers : Connect(b) \/ Serve(b) \/ Break(b) \/ Drop(b)

Spec == Init /\ [][Next]_vars

\* The goroutine of a stream runs and its writes return; its select does not
\* pass over a closed disconnect for ever; a sender drops whom it condemned.
FairSpec ==
  /\ Spec
  /\ \A b \in Browsers : WF_vars(WriteReplay(b)) /\ WF_vars(SeeDisconnect(b))
                         /\ WF_vars(Remove(b)) /\ WF_vars(Drop(b))

-----------------------------------------------------------------------------
(* Properties.                                                             *)

\* Replay and queue do not overlap, and neither repeats what the browser has:
\* a browser receives messages in order and each of them once, over any
\* number of reconnects.
InOrder ==
  \A b \in Browsers :
    /\ \A n \in toReplay[b] \cup queue[b] : last[b] < n
    /\ \A n \in toReplay[b], m \in queue[b] : n < m

\* Whatever is about to be written to a browser, live or replayed, is for its
\* audience.
OnlyItsAudience ==
  \A b \in Browsers : \A n \in toReplay[b] \cup queue[b] : AudienceMatches(aud[n], who[b])

\* A stream the hub has not condemned lacks nothing: each message for its
\* audience since the point it resumed from was received, or is in the replay
\* or in the queue.
StreamLacksNothing ==
  \A b \in Browsers :
    conn[b] = "stream" /\ ~condemned[b] /\ ~dropped[b] =>
      \A n \in 1 .. sent :
        from[b] < n /\ AudienceMatches(aud[n], who[b]) =>
          n \in got[b] \cup toReplay[b] \cup queue[b]

\* The stream that browsers are promised; it is cut off when the hub condemns
\* the client or ServeHTTP leaves its loop.
Whole(b) == conn[b] = "stream" /\ ~condemned[b] /\ ~dropped[b]
Stream == INSTANCE EventStream WITH whole <- [b \in Browsers |-> Whole(b)]

\* The hub with its queues, its replay window and its drops serves that stream:
\* what a browser has received is ordered, addressed to it and, until it is
\* cut off, complete.
ServesEventStream == Stream!Spec

\* A slow or revoked client is disconnected in the end.
CondemnedLeaves == \A b \in Browsers : condemned[b] ~> (conn[b] # "stream")

\* SendPresentationEvents says a client that cannot keep up is dropped so
\* that the browser resynchronizes "rather than silently missing events": the
\* browser's Last-Event-ID, from which the replay resumes, never passes a
\* message of its audience that it did not receive.
NoGapBehindLastEventID ==
  \A b \in Browsers :
    \A n \in 1 .. last[b] :
      from[b] < n /\ AudienceMatches(aud[n], who[b]) => n \in got[b]
=============================================================================
