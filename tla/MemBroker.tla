----------------------------- MODULE MemBroker ------------------------------
(***************************************************************************)
(* runtime/contracts/membroker: the in-process queue, drained by any       *)
(* number of event workers.  A receive takes nothing from the queue: two   *)
(* workers may hold the same records.  The batch has no Nack, so that a    *)
(* failing subscriber ends the worker with its error.                      *)
(*                                                                         *)
(* Records are appended in the order of their ids and an acknowledgment    *)
(* leaves those it keeps in their order: the set of the ids says what the  *)
(* queue is, its head being the smallest.                                  *)
(***************************************************************************)
EXTENDS Naturals, FiniteSets

CONSTANTS
  MemWorkers,
  MemBatch,         \* batchSize
  MaxMemRecords,    \* bound: how many events are published
  MaxMemFaults      \* bound: failing dispatches

ASSUME MemAssumption ==
  MemBatch \in Nat \ {0} /\ MaxMemRecords \in Nat /\ MaxMemFaults \in Nat

VARIABLES
  memRecords,   \* the queue: the ids of its records
  memNextID,
  memPc,        \* worker -> where it is
  memTaken,     \* worker -> the ids of its batch
  memHandled,   \* history: the events handled by every subscriber
  memFaults

memVars == <<memRecords, memNextID, memPc, memTaken, memHandled, memFaults>>

MemTypeOK ==
  /\ memNextID \in 0 .. MaxMemRecords
  /\ memRecords \subseteq 1 .. memNextID
  /\ memPc \in [MemWorkers -> {"receive", "dispatch", "ack", "returned", "failed"}]
  /\ memTaken \in [MemWorkers -> SUBSET (1 .. memNextID)]
  /\ memHandled \subseteq 1 .. memNextID
  /\ memFaults \in 0 .. MaxMemFaults

MemInit ==
  /\ memRecords = {} /\ memNextID = 0
  /\ memPc = [w \in MemWorkers |-> "receive"]
  /\ memTaken = [w \in MemWorkers |-> {}]
  /\ memHandled = {} /\ memFaults = 0

-----------------------------------------------------------------------------
\* PublishEvents of n events, in one critical section.
MemPublish ==
  /\ \E n \in 1 .. MaxMemRecords - memNextID :
       /\ memRecords' = memRecords \cup (memNextID + 1 .. memNextID + n)
       /\ memNextID' = memNextID + n
  /\ UNCHANGED <<memPc, memTaken, memHandled, memFaults>>

\* The first n records of the queue.
HeadOf(n) == {e \in memRecords : Cardinality({d \in memRecords : d < e}) < n}

\* ReceiveEventBatch: the first records; the queue keeps them.  An empty
\* queue is a closed source, and the worker returns.
MemReceive(w) ==
  /\ memPc[w] = "receive"
  /\ IF memRecords = {}
       THEN memPc' = [memPc EXCEPT ![w] = "returned"] /\ UNCHANGED memTaken
       ELSE /\ memPc' = [memPc EXCEPT ![w] = "dispatch"]
            /\ memTaken' = [memTaken EXCEPT ![w] = HeadOf(MemBatch)]
  /\ UNCHANGED <<memRecords, memNextID, memHandled, memFaults>>

MemDispatch(w) ==
  /\ memPc[w] = "dispatch"
  /\ memHandled' = memHandled \cup memTaken[w]
  /\ memPc' = [memPc EXCEPT ![w] = "ack"]
  /\ UNCHANGED <<memRecords, memNextID, memTaken, memFaults>>

\* A subscriber fails on some event: the worker returns the error.
MemDispatchFails(w) ==
  /\ memPc[w] = "dispatch"
  /\ memFaults < MaxMemFaults /\ memFaults' = memFaults + 1
  /\ \E failing \in memTaken[w] :
       memHandled' = memHandled \cup {e \in memTaken[w] : e < failing}
  /\ memPc' = [memPc EXCEPT ![w] = "failed"]
  /\ memTaken' = [memTaken EXCEPT ![w] = {}]
  /\ UNCHANGED <<memRecords, memNextID>>

\* The records an Ack that counts from the head leaves.
KeptFromHead(taken) == memRecords \ HeadOf(Cardinality(taken))

\* The records an Ack leaves: those whose id it did not deliver.
Kept(taken) == memRecords \ taken

MemAck(w) ==
  /\ memPc[w] = "ack"
  /\ memRecords' = Kept(memTaken[w])
  /\ memTaken' = [memTaken EXCEPT ![w] = {}]
  /\ memPc' = [memPc EXCEPT ![w] = "receive"]
  /\ UNCHANGED <<memNextID, memHandled, memFaults>>

\* The application runs a worker again.
MemRunAgain(w) ==
  /\ memPc[w] \in {"returned", "failed"}
  /\ memPc' = [memPc EXCEPT ![w] = "receive"]
  /\ UNCHANGED <<memRecords, memNextID, memTaken, memHandled, memFaults>>

MemNext ==
  \/ MemPublish
  \/ \E w \in MemWorkers :
       \/ MemReceive(w) \/ MemDispatch(w) \/ MemDispatchFails(w) \/ MemAck(w)
       \/ MemRunAgain(w)

MemSpec == MemInit /\ [][MemNext]_memVars

-----------------------------------------------------------------------------
(* Properties.                                                             *)

\* No acknowledgment takes a record that was not handled, however the workers
\* that hold the head of the queue and the publishers interleave: every event
\* that was published is queued or has been handled by every subscriber.
MemNothingLost == 1 .. memNextID = memRecords \cup memHandled

\* What became of a record; the subscribers of its event count as one.
MemIds == 1 .. MaxMemRecords
MemStatus(r) ==
  IF r > memNextID THEN "absent" ELSE IF r \in memRecords THEN "pending" ELSE "done"

MemPromise == INSTANCE AtLeastOnce WITH
  Events <- MemIds, NoEvent <- 0, Records <- MemIds, Subs <- {"all"},
  evt <- [r \in MemIds |-> IF r > memNextID THEN 0 ELSE r],
  status <- [r \in MemIds |-> MemStatus(r)],
  handled <- [e \in MemIds |-> IF e \in memHandled THEN {"all"} ELSE {}]

\* The broker under the worker's loop delivers at least once, as the outbox
\* does: a record leaves the queue only handled, and for good.
MemDeliversAtLeastOnce == MemPromise!Spec
=============================================================================
