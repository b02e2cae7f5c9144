----------------------------- MODULE RedisStream ----------------------------
(***************************************************************************)
(* runtime/contracts/redisstream: a Redis stream read through a consumer   *)
(* group by event workers (runtime/contracts/worker.go), one worker and    *)
(* one store for each consumer name.                                       *)
(*                                                                         *)
(* The entries are numbered in the order of XADD.  Redis remembers the     *)
(* last entry it has delivered to the group and, for each consumer, the    *)
(* entries delivered and not yet acknowledged.                             *)
(***************************************************************************)
EXTENDS Naturals, FiniteSets

CONSTANTS
  Consumers,
  RedBatch,        \* batchSize
  MaxRedEntries,   \* bound: how many events are published
  MaxRedFaults     \* bound: failed dispatches, errors of Redis, crashes

ASSUME RedAssumption ==
  RedBatch \in Nat \ {0} /\ MaxRedEntries \in Nat /\ MaxRedFaults \in Nat

VARIABLES
  redBad,         \* the entries no decoder accepts
  redLast,        \* the last entry of the stream
  redDelivered,   \* the last entry delivered to the group
  redPending,     \* consumer -> its pending entries
  redDeleted,     \* the entries XDEL has taken
  redPc,          \* consumer -> where its worker is
  redFirst,       \* consumer -> readPending of its store
  redTaken,       \* consumer -> the entries of its batch
  redHandled,     \* history: the entries every subscriber has handled
  redFaults

redVars == <<redBad, redLast, redDelivered, redPending, redDeleted, redPc, redFirst, redTaken,
             redHandled, redFaults>>

Published == 1 .. redLast

RedTypeOK ==
  /\ redBad \subseteq 1 .. MaxRedEntries
  /\ redLast \in 0 .. MaxRedEntries /\ redDelivered \in 0 .. redLast
  /\ redPending \in [Consumers -> SUBSET (1 .. redDelivered)]
  /\ redDeleted \subseteq 1 .. redDelivered
  /\ redPc \in [Consumers -> {"receive", "dispatch", "nack", "ack", "delete", "stopped"}]
  /\ redFirst \in [Consumers -> BOOLEAN]
  /\ redTaken \in [Consumers -> SUBSET (1 .. redDelivered)]
  /\ redHandled \subseteq 1 .. redDelivered
  /\ redFaults \in 0 .. MaxRedFaults

RedInit ==
  /\ redBad \in SUBSET (1 .. MaxRedEntries)
  /\ redLast = 0 /\ redDelivered = 0
  /\ redPending = [w \in Consumers |-> {}]
  /\ redDeleted = {} /\ redHandled = {}
  /\ redPc = [w \in Consumers |-> "receive"]
  /\ redFirst = [w \in Consumers |-> TRUE]
  /\ redTaken = [w \in Consumers |-> {}]
  /\ redFaults = 0

-----------------------------------------------------------------------------
\* The RedBatch first entries of a set.
FirstOf(entries) ==
  {e \in entries : Cardinality({d \in entries : d < e}) < RedBatch}

\* The worker returns, with what it held.
WorkerReturns(w) ==
  /\ redPc' = [redPc EXCEPT ![w] = "stopped"]
  /\ redTaken' = [redTaken EXCEPT ![w] = {}]

Fault == redFaults < MaxRedFaults /\ redFaults' = redFaults + 1

\* XADD of one event.
RedPublish ==
  /\ redLast < MaxRedEntries
  /\ redLast' = redLast + 1
  /\ UNCHANGED <<redBad, redDelivered, redPending, redDeleted, redPc, redFirst, redTaken,
                 redHandled, redFaults>>

\* readBatch returns these entries, or the error of the first that does not
\* decode: they are pending all the same.
Returned(w, entries) ==
  IF entries \cap redBad # {}
    THEN WorkerReturns(w)
    ELSE /\ redPc' = [redPc EXCEPT ![w] = "dispatch"]
         /\ redTaken' = [redTaken EXCEPT ![w] = entries]

\* ReceiveEventBatch while readPending is set: XREADGROUP from 0.
ReadPending(w) ==
  /\ redPc[w] = "receive" /\ redFirst[w]
  /\ IF redPending[w] # {}
       THEN Returned(w, FirstOf(redPending[w])) /\ UNCHANGED redFirst
       ELSE redFirst' = [redFirst EXCEPT ![w] = FALSE] /\ UNCHANGED <<redPc, redTaken>>
  /\ UNCHANGED <<redBad, redLast, redDelivered, redPending, redDeleted, redHandled, redFaults>>

\* XREADGROUP from >: entries the group has not been delivered yet.  With
\* none the call blocks.
ReadNew(w) ==
  LET entries == FirstOf(redDelivered + 1 .. redLast)
  IN  /\ redPc[w] = "receive" /\ ~redFirst[w]
      /\ entries # {}
      /\ redDelivered' = redDelivered + Cardinality(entries)
      /\ redPending' = [redPending EXCEPT ![w] = @ \cup entries]
      /\ Returned(w, entries)
      /\ UNCHANGED <<redBad, redLast, redDeleted, redFirst, redHandled, redFaults>>

\* Every subscriber handles every event of the batch.
DispatchBatch(w) ==
  /\ redPc[w] = "dispatch"
  /\ redHandled' = redHandled \cup redTaken[w]
  /\ redPc' = [redPc EXCEPT ![w] = "ack"]
  /\ UNCHANGED <<redBad, redLast, redDelivered, redPending, redDeleted, redFirst, redTaken,
                 redFaults>>

\* A failed batch that is acknowledged all the same.
FailsYetAcks(w) ==
  /\ redPc[w] = "dispatch" /\ Fault
  /\ \E failing \in redTaken[w] :
       redHandled' = redHandled \cup {e \in redTaken[w] : e < failing}
  /\ redPc' = [redPc EXCEPT ![w] = "ack"]
  /\ UNCHANGED <<redBad, redLast, redDelivered, redPending, redDeleted, redFirst, redTaken>>

\* A subscriber fails on some event; those before it are handled.
DispatchFails(w) ==
  /\ redPc[w] = "dispatch" /\ Fault
  /\ \E failing \in redTaken[w] :
       redHandled' = redHandled \cup {e \in redTaken[w] : e < failing}
  /\ redPc' = [redPc EXCEPT ![w] = "nack"]
  /\ UNCHANGED <<redBad, redLast, redDelivered, redPending, redDeleted, redFirst, redTaken>>

\* A Nack that only leaves the entries pending.
NackLeaves(w) ==
  /\ redPc[w] = "nack"
  /\ redPc' = [redPc EXCEPT ![w] = "receive"]
  /\ redTaken' = [redTaken EXCEPT ![w] = {}]
  /\ UNCHANGED <<redBad, redLast, redDelivered, redPending, redDeleted, redFirst, redHandled,
                 redFaults>>

\* Nack: the next receive reads the pending entries first.
Nack(w) ==
  /\ redPc[w] = "nack"
  /\ redFirst' = [redFirst EXCEPT ![w] = TRUE]
  /\ redPc' = [redPc EXCEPT ![w] = "receive"]
  /\ redTaken' = [redTaken EXCEPT ![w] = {}]
  /\ UNCHANGED <<redBad, redLast, redDelivered, redPending, redDeleted, redHandled, redFaults>>

\* Ack: XACK of the batch ...
XAck(w) ==
  /\ redPc[w] = "ack"
  /\ redPending' = [redPending EXCEPT ![w] = @ \ redTaken[w]]
  /\ redPc' = [redPc EXCEPT ![w] = "delete"]
  /\ UNCHANGED <<redBad, redLast, redDelivered, redDeleted, redFirst, redTaken, redHandled,
                 redFaults>>

\* ... then XDEL.
XDel(w) ==
  /\ redPc[w] = "delete"
  /\ redDeleted' = redDeleted \cup redTaken[w]
  /\ redPc' = [redPc EXCEPT ![w] = "receive"]
  /\ redTaken' = [redTaken EXCEPT ![w] = {}]
  /\ UNCHANGED <<redBad, redLast, redDelivered, redPending, redFirst, redHandled, redFaults>>

\* A call of Redis fails, the context ends or the process dies: the worker is
\* gone, what Redis keeps is kept.
RedWorkerDies(w) ==
  /\ redPc[w] # "stopped" /\ Fault
  /\ WorkerReturns(w)
  /\ UNCHANGED <<redBad, redLast, redDelivered, redPending, redDeleted, redFirst, redHandled>>

\* A new store that reads new entries at once.
RestartReadsNew(w) ==
  /\ redPc[w] = "stopped"
  /\ redPc' = [redPc EXCEPT ![w] = "receive"]
  /\ redFirst' = [redFirst EXCEPT ![w] = FALSE]
  /\ UNCHANGED <<redBad, redLast, redDelivered, redPending, redDeleted, redTaken, redHandled,
                 redFaults>>

\* The application starts again: a new store under the same consumer name.
RedRestart(w) ==
  /\ redPc[w] = "stopped"
  /\ redPc' = [redPc EXCEPT ![w] = "receive"]
  /\ redFirst' = [redFirst EXCEPT ![w] = TRUE]
  /\ UNCHANGED <<redBad, redLast, redDelivered, redPending, redDeleted, redTaken, redHandled,
                 redFaults>>

RedWorkerRuns(w) ==
  \/ ReadPending(w) \/ ReadNew(w) \/ DispatchBatch(w) \/ Nack(w) \/ XAck(w) \/ XDel(w)
  \/ RedRestart(w)

RedNext ==
  \/ RedPublish
  \/ \E w \in Consumers : RedWorkerRuns(w) \/ DispatchFails(w) \/ RedWorkerDies(w)

RedSpec == RedInit /\ [][RedNext]_redVars
RedFairSpec == RedSpec /\ \A w \in Consumers : WF_redVars(RedWorkerRuns(w))

-----------------------------------------------------------------------------
(* Properties.                                                             *)

\* No crash, error or failed dispatch loses an event or gives it to two
\* consumers: an entry is still to be delivered, pending with one consumer, or
\* has been handled by every subscriber.
RedNothingLost ==
  /\ \A e \in 1 .. redDelivered : e \in redHandled \/ \E w \in Consumers : e \in redPending[w]
  /\ \A v, w \in Consumers : v # w => redPending[v] \cap redPending[w] = {}

\* No failure strands an entry with a consumer that has gone on to new ones,
\* as long as a worker that returned is started again with a new store, whose
\* readPending is set: what is pending with a worker that reads from > is the
\* batch it holds, and with no other worker.  So no consumer ever has more than
\* one batch to recover, and nobody else can recover it.
RedNothingStranded ==
  \A w \in Consumers :
    /\ \A v \in Consumers \ {w} : redPending[v] \cap redPending[w] = {}
    /\ redPc[w] # "stopped" /\ ~redFirst[w] => redPending[w] \subseteq redTaken[w]
    /\ Cardinality(redPending[w]) <= RedBatch

\* What became of an entry; the subscribers of its event count as one.
RedIds == 1 .. MaxRedEntries
RedStatus(e) ==
  IF e > redLast THEN "absent"
  ELSE IF e > redDelivered \/ (\E w \in Consumers : e \in redPending[w]) THEN "pending"
  ELSE "done"

RedPromise == INSTANCE AtLeastOnce WITH
  Events <- RedIds, NoEvent <- 0, Records <- RedIds, Subs <- {"all"},
  evt <- [e \in RedIds |-> IF e > redLast THEN 0 ELSE e],
  status <- [e \in RedIds |-> RedStatus(e)],
  handled <- [e \in RedIds |-> IF e \in redHandled THEN {"all"} ELSE {}]

\* The stream under the workers' loops delivers at least once, as the outbox
\* does: an entry is settled only handled, and for good.
RedDeliversAtLeastOnce == RedPromise!Spec

\* While every entry decodes, each one that was published is handled and
\* acknowledged in the end: a failed batch and what a crash has stranded are
\* read again.
RedDrains ==
  redBad = {} =>
    \A e \in 1 .. MaxRedEntries :
      (e \in Published) ~> (e \in redHandled /\ \A w \in Consumers : e \notin redPending[w])
=============================================================================
