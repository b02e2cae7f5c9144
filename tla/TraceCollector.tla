-------------------------- MODULE TraceCollector ----------------------------
(***************************************************************************)
(* runtime/trace/ring.go and collector.go: the ring of recent spans,       *)
(* bounded in number and in bytes, and the collector that streams them to  *)
(* subscribers: a new one is sent what the ring holds, then what comes.    *)
(*                                                                         *)
(* A span is the number of its turn at the ring; of its contents only the  *)
(* encoded size is kept.  The ring and the set of subscribers have a lock  *)
(* each: RecordSpan takes one after the other.  A pass of the loop that it *)
(* runs under the first is a step.                                         *)
(***************************************************************************)
EXTENDS Integers, FiniteSets, Sequences

CONSTANTS
  ColRecorders,    \* goroutines that record spans
  ColClients,
  RingLimit, RingBytes, SpanBytes,   \* limit, maxRingStoredBytes, maxSnapshotEncodedBytes
  ColSizes,        \* the sizes a span may have
  ColQueue,        \* the capacity of a subscriber's channel
  ColStreams,      \* sseLimit
  MaxColSpans      \* bound: how many spans are recorded

ASSUME ColAssumption ==
  /\ RingLimit \in Nat \ {0} /\ SpanBytes \in Nat \ {0}
  /\ RingBytes \in Nat /\ SpanBytes <= RingBytes
  /\ ColSizes \subseteq Nat \ {0}
  /\ ColQueue \in Nat /\ ColStreams \in Nat /\ MaxColSpans \in Nat

VARIABLES
  colBytes,      \* history: n -> the bytes of the first n spans, the too large left out
  ringStart, ringCount, ringTotal, ringDropped,
  ringSpans,     \* place -> its span; 0: none
  ringSizes,     \* place -> the size of its span
  ringStoring,   \* the size of the span whose recorder has the ring's lock; 0: it is free
  colSending,    \* recorder -> the span it has still to send; 0: none
  colPc,         \* client -> "away", "joined", "replaying" or "streaming"
  colChan,       \* client -> its channel
  colReplay,     \* client -> the spans of the ring it is sent first
  colSent,       \* history: client -> the spans written to it
  colMissed,     \* history: client -> those its full channel dropped (collector.dropped)
  colGone        \* history: client -> those the ring had lost at its replay

ringVars == <<ringStart, ringCount, ringTotal, ringDropped, ringSpans, ringSizes, ringStoring>>
colClient == <<colPc, colChan, colReplay, colSent, colMissed, colGone>>
colVars == <<colBytes, ringVars, colSending, colClient>>

Places == 0 .. RingLimit - 1
Recorded == 1 .. Len(colBytes)

ColTypeOK ==
  /\ Len(colBytes) <= MaxColSpans /\ \A n \in Recorded : colBytes[n] \in Nat
  /\ ringStart \in Places /\ ringCount \in 0 .. RingLimit
  /\ ringTotal \in Nat /\ ringDropped \in 0 .. Len(colBytes)
  /\ ringSpans \in [Places -> {0} \cup Recorded]
  /\ ringSizes \in [Places -> {0} \cup ColSizes] /\ ringStoring \in {0} \cup ColSizes
  /\ colSending \in [ColRecorders -> {0} \cup Recorded]
  /\ colPc \in [ColClients -> {"away", "joined", "replaying", "streaming"}]
  /\ \A c \in ColClients :
       /\ Len(colChan[c]) <= ColQueue
       /\ colReplay[c] \cup colSent[c] \cup colMissed[c] \cup colGone[c] \subseteq Recorded

Nothing == [c \in ColClients |-> {}]

ColInit ==
  /\ colBytes = <<>>
  /\ ringStart = 0 /\ ringCount = 0 /\ ringTotal = 0 /\ ringDropped = 0
  /\ ringSpans = [i \in Places |-> 0]
  /\ ringSizes = [i \in Places |-> 0]
  /\ ringStoring = 0
  /\ colSending = [r \in ColRecorders |-> 0]
  /\ colPc = [c \in ColClients |-> "away"]
  /\ colChan = [c \in ColClients |-> <<>>]
  /\ colReplay = Nothing /\ colSent = Nothing /\ colMissed = Nothing /\ colGone = Nothing

-----------------------------------------------------------------------------
(* The ring.                                                               *)

\* The bytes of the spans before span n, and of all of them.
Before(n) == IF n = 1 THEN 0 ELSE colBytes[n - 1]
AllBytes == Before(Len(colBytes) + 1)

\* RecordSpan of both up to the ring's lock.  A span that is too large is only
\* counted, and sent to the subscribers all the same; one whose context is over
\* is neither stored nor sent.
RecordInRing(r) ==
  /\ colSending[r] = 0 /\ ringStoring = 0
  /\ Len(colBytes) < MaxColSpans
  /\ \E size \in ColSizes :
       IF size > SpanBytes
         THEN /\ colBytes' = Append(colBytes, AllBytes)
              /\ ringDropped' = ringDropped + 1
              /\ UNCHANGED ringStoring
         ELSE /\ colBytes' = Append(colBytes, AllBytes + size)
              /\ ringStoring' = size
              /\ UNCHANGED ringDropped
  /\ colSending' = [colSending EXCEPT ![r] = Len(colBytes) + 1]
  /\ UNCHANGED <<ringStart, ringCount, ringTotal, ringSpans, ringSizes, colClient>>

\* The condition of the loop.
RingOverflows ==
  ringCount > 0 /\ (ringCount = RingLimit \/ ringTotal + ringStoring > RingBytes)

\* A drop that clears the size of the place before it subtracts it.
BytesAfterClear == ringTotal

BytesAfterDrop == ringTotal - ringSizes[ringStart]

DropOldest ==
  /\ ringStoring > 0 /\ RingOverflows
  /\ ringTotal' = BytesAfterDrop
  /\ ringSpans' = [ringSpans EXCEPT ![ringStart] = 0]
  /\ ringSizes' = [ringSizes EXCEPT ![ringStart] = 0]
  /\ ringStart' = (ringStart + 1) % RingLimit
  /\ ringCount' = ringCount - 1
  /\ ringDropped' = ringDropped + 1
  /\ UNCHANGED <<colBytes, ringStoring, colSending, colClient>>

\* The span takes the place after the newest, and the lock is released.
StoreSpan ==
  /\ ringStoring > 0 /\ ~RingOverflows
  /\ LET index == (ringStart + ringCount) % RingLimit
     IN  /\ ringSpans' = [ringSpans EXCEPT ![index] = Len(colBytes)]
         /\ ringSizes' = [ringSizes EXCEPT ![index] = ringStoring]
  /\ ringTotal' = ringTotal + ringStoring
  /\ ringCount' = ringCount + 1
  /\ ringStoring' = 0
  /\ UNCHANGED <<colBytes, ringStart, ringDropped, colSending, colClient>>

\* Spans, from oldest to newest.
RingContents == [k \in 1 .. ringCount |-> ringSpans[(ringStart + k - 1) % RingLimit]]
RingSet == {RingContents[k] : k \in 1 .. ringCount}

-----------------------------------------------------------------------------
(* The collector.                                                          *)

Subscribed == {c \in ColClients : colPc[c] # "away"}

\* A channel without a capacity.
HasRoomAlways(c) == TRUE

HasRoom(c) == Len(colChan[c]) < ColQueue

\* The span goes to every subscriber whose channel has room; the others miss it.
SendToSubscribers(r) ==
  /\ colSending[r] # 0 /\ (ringStoring = 0 \/ colSending[r] # Len(colBytes))
  /\ colChan' = [c \in ColClients |-> IF c \in Subscribed /\ HasRoom(c)
                                        THEN Append(colChan[c], colSending[r])
                                        ELSE colChan[c]]
  /\ colMissed' = [c \in ColClients |-> IF c \in Subscribed /\ ~HasRoom(c)
                                          THEN colMissed[c] \cup {colSending[r]}
                                          ELSE colMissed[c]]
  /\ colSending' = [colSending EXCEPT ![r] = 0]
  /\ UNCHANGED <<colBytes, ringVars, colPc, colReplay, colSent, colGone>>

\* The spans of the ring are copied for the client.
ReadRing(c) ==
  /\ colReplay' = [colReplay EXCEPT ![c] = RingSet]
  /\ colGone' = [colGone EXCEPT ![c] = Recorded \ RingSet]

\* A client that reads the ring before it is subscribed.
SubscribeAfterReplay(c) ==
  /\ colPc[c] = "away" /\ ringStoring = 0 /\ Cardinality(Subscribed) < ColStreams
  /\ IF colReplay[c] = {} /\ RingSet # {}
       THEN ReadRing(c) /\ UNCHANGED colPc
       ELSE colPc' = [colPc EXCEPT ![c] = "replaying"] /\ UNCHANGED <<colReplay, colGone>>
  /\ UNCHANGED <<colBytes, ringVars, colSending, colChan, colSent, colMissed>>

\* serveSSE: the client is subscribed unless there are too many ...
Subscribe(c) ==
  /\ colPc[c] = "away" /\ Cardinality(Subscribed) < ColStreams
  /\ colPc' = [colPc EXCEPT ![c] = "joined"]
  /\ UNCHANGED <<colBytes, ringVars, colSending, colChan, colReplay, colSent, colMissed, colGone>>

\* ... it reads what the ring holds ...
ReadSpans(c) ==
  /\ colPc[c] = "joined" /\ ringStoring = 0
  /\ ReadRing(c)
  /\ colPc' = [colPc EXCEPT ![c] = "replaying"]
  /\ UNCHANGED <<colBytes, ringVars, colSending, colChan, colSent, colMissed>>

\* ... and is sent it, while its channel fills ...
SendReplay(c) ==
  /\ colPc[c] = "replaying"
  /\ colSent' = [colSent EXCEPT ![c] = @ \cup colReplay[c]]
  /\ colReplay' = [colReplay EXCEPT ![c] = {}]
  /\ colPc' = [colPc EXCEPT ![c] = "streaming"]
  /\ UNCHANGED <<colBytes, ringVars, colSending, colChan, colMissed, colGone>>

\* ... then what comes through its channel.
SendNext(c) ==
  /\ colPc[c] = "streaming" /\ colChan[c] # <<>>
  /\ colSent' = [colSent EXCEPT ![c] = @ \cup {Head(colChan[c])}]
  /\ colChan' = [colChan EXCEPT ![c] = Tail(@)]
  /\ UNCHANGED <<colBytes, ringVars, colSending, colPc, colReplay, colMissed, colGone>>

\* A write fails, or the request's context ends where it is looked at: the
\* deferred call removes the client.
Unsubscribe(c) ==
  /\ colPc[c] \in {"replaying", "streaming"}
  /\ colPc' = [colPc EXCEPT ![c] = "away"]
  /\ colChan' = [colChan EXCEPT ![c] = <<>>]
  /\ colReplay' = [colReplay EXCEPT ![c] = {}]
  /\ colSent' = [colSent EXCEPT ![c] = {}]
  /\ colMissed' = [colMissed EXCEPT ![c] = {}]
  /\ colGone' = [colGone EXCEPT ![c] = {}]
  /\ UNCHANGED <<colBytes, ringVars, colSending>>

ColNext ==
  \/ \E r \in ColRecorders : RecordInRing(r) \/ SendToSubscribers(r)
  \/ DropOldest \/ StoreSpan
  \/ \E c \in ColClients :
       Subscribe(c) \/ ReadSpans(c) \/ SendReplay(c) \/ SendNext(c) \/ Unsubscribe(c)

ColSpec == ColInit /\ [][ColNext]_colVars

-----------------------------------------------------------------------------
(* Properties.                                                             *)

\* The spans that are not too large, those of them from n on, and whether
\* these are within the limits of the ring.
Accepted == {n \in Recorded : colBytes[n] > Before(n)}
From(n) == {m \in Accepted : m >= n}
WithinLimits(n) == Cardinality(From(n)) <= RingLimit /\ AllBytes - Before(n) <= RingBytes

\* Whenever its lock is free the ring holds, in order, as many of the newest
\* spans as its two limits allow, whatever was evicted on the way, and Dropped
\* counts all the others.
RingNewest ==
  ringStoring = 0 =>
    /\ \A k \in 1 .. ringCount - 1 : RingContents[k] < RingContents[k + 1]
    /\ \A n \in Accepted : n \in RingSet <=> WithinLimits(n)
    /\ ringCount = Cardinality(RingSet) /\ RingSet \subseteq Accepted
    /\ ringDropped = Len(colBytes) - ringCount

\* A stream has no gap between the replay and what follows: every span that
\* was not already gone from the ring at the replay has been written, waits in
\* the channel, is about to be sent, or is counted as dropped.
StreamHasAll ==
  \A c \in ColClients : colPc[c] = "streaming" =>
    Recorded \subseteq colSent[c] \cup colMissed[c] \cup colGone[c]
                         \cup {colChan[c][k] : k \in 1 .. Len(colChan[c])}
                         \cup {colSending[r] : r \in ColRecorders}
=============================================================================
