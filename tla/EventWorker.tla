----------------------------- MODULE EventWorker -----------------------------
(***************************************************************************)
(* runtime/contracts/worker.go: event workers draining a file outbox.      *)
(*                                                                         *)
(* Any number of workers of one process run runEventWorkerForRole over one *)
(* fileoutbox.Store and, when SeenKind is not "none", one seen store.  The *)
(* outbox leases nothing: two workers may hold the same records.  A step   *)
(* is one call that takes a lock (Receive, Seen, Nack, Ack, MarkSeen) or   *)
(* one subscriber's handler; steps of different workers, of the producers  *)
(* and of the environment (cancellation, I/O errors, a crash of the        *)
(* process, the application starting a worker again) interleave freely.    *)
(***************************************************************************)
EXTENDS FileOutbox, SeenStore

CONSTANTS
  Workers,
  NumSubs,    \* subscribers the worker's role may reach, per event
  MaxFaults   \* bound: I/O errors, cancellations and crashes together

ASSUME WorkerAssumption ==
  /\ NumSubs \in Nat \ {0}
  /\ MaxFaults \in Nat

VARIABLES
  pc,        \* worker -> where it stands in the loop
  batch,     \* worker -> the decoded records of its batch (acked)
  fresh,     \* worker -> those that go to the subscribers (unseenEvents' out)
  rest,      \* worker -> the records the loop at pc has still to visit
  at,        \* worker -> the subscriber the first record of rest goes to next
  canceled,  \* worker -> ctx.Err() # nil
  handled,   \* history: event -> the subscribers that handled it without error
  faults

localVars == <<pc, batch, fresh, rest, at>>
vars == <<outboxVars, pos, localVars, canceled, handled, faults>>

Subs == 1 .. NumSubs
Steps == {"receive", "filter", "publish", "nack", "backoff", "ack", "mark", "stopped"}

LocalTypeOK ==
  /\ pc \in [Workers -> Steps]
  /\ batch \in [Workers -> SUBSET Records]
  /\ fresh \in [Workers -> SUBSET Records]
  /\ rest \in [Workers -> SUBSET Records]
  /\ at \in [Workers -> Subs]

\* Every variable has its type: the attempt counter, the window positions and
\* the subscriber index stay within their bounds.
TypeOK ==
  /\ OutboxTypeOK
  /\ SeenTypeOK
  /\ LocalTypeOK
  /\ canceled \in [Workers -> BOOLEAN]
  /\ handled \in [Events -> SUBSET Subs]
  /\ faults \in 0 .. MaxFaults

Init ==
  /\ OutboxInit
  /\ SeenInit
  /\ pc = [w \in Workers |-> "receive"]
  /\ batch = [w \in Workers |-> {}]
  /\ fresh = [w \in Workers |-> {}]
  /\ rest = [w \in Workers |-> {}]
  /\ at = [w \in Workers |-> 1]
  /\ canceled = [w \in Workers |-> FALSE]
  /\ handled = [e \in Events |-> {}]
  /\ faults = 0

-----------------------------------------------------------------------------
(* Moves of one worker.                                                    *)

Fault == faults < MaxFaults /\ faults' = faults + 1

Handled(e) == handled[e] = Subs

\* Worker w goes to p with batch b, fresh records f and the records r to visit.
Enter(w, p, b, f, r) ==
  /\ pc' = [pc EXCEPT ![w] = p]
  /\ batch' = [batch EXCEPT ![w] = b]
  /\ fresh' = [fresh EXCEPT ![w] = f]
  /\ rest' = [rest EXCEPT ![w] = r]
  /\ at' = [at EXCEPT ![w] = 1]

Stop(w) == Enter(w, "stopped", {}, {}, {})

\* Back at the top of the loop.
Again(w) == Enter(w, "receive", {}, {}, {})

\* The worker returns without having touched any store.
StopOnly(w) == Stop(w) /\ UNCHANGED <<outboxVars, pos, canceled, handled>>

-----------------------------------------------------------------------------
(* ReceiveEventBatch.                                                      *)

\* The context is done, or the outbox is empty (ErrEventSourceClosed).
ReceiveNothing(w) ==
  /\ pc[w] = "receive"
  /\ canceled[w] \/ pending = {}
  /\ StopOnly(w)
  /\ UNCHANGED faults

\* The first records are decoded; those that cannot be count a failed attempt
\* at once, under the same lock.  With no event left the worker returns the
\* decode error.  Without a seen store unseenEvents lets every event through.
ReceiveBatch(w) ==
  /\ pc[w] = "receive"
  /\ ~canceled[w]
  /\ pending # {}
  /\ LET bad == Failed(Selected)
         good == Selected \ bad IN
       /\ IF bad = {} THEN UNCHANGED outboxVars ELSE MarkRecordsFailed(bad)
       /\ \/ good = {} /\ Stop(w)
          \/ good # {} /\ SeenKind = "none" /\ Enter(w, "publish", good, good, good)
          \/ good # {} /\ SeenKind # "none" /\ Enter(w, "filter", good, {}, good)
  /\ UNCHANGED <<pos, canceled, handled, faults>>

\* The outbox cannot be read, or the failed records cannot be marked.
ReceiveError(w) ==
  /\ pc[w] = "receive"
  /\ ~canceled[w]
  /\ Fault
  /\ Stop(w)
  /\ UNCHANGED outboxVars \/ MarkRecordsHalfFailed(Failed(Selected))
  /\ UNCHANGED <<pos, canceled, handled>>

-----------------------------------------------------------------------------
(* unseenEvents: one step per event, in batch order.                       *)

\* The filter has visited r: fresh records are f.  After the last one the
\* batch goes to the subscribers, or straight to Ack when nothing is fresh.
Filtered(w, r, f) ==
  LET left == rest[w] \ {r} IN
    \/ left # {} /\ Enter(w, "filter", batch[w], f, left)
    \/ left = {} /\ f # {} /\ Enter(w, "publish", batch[w], f, f)
    \/ left = {} /\ f = {} /\ Enter(w, "ack", batch[w], f, {})

\* A filter that forgets what the batch itself brings twice.
NeverRepeated(w, r) == FALSE

\* The same event came earlier in this batch.
RepeatedInBatch(w, r) == \E q \in fresh[w] : evt[q] = evt[r]

FilterEvent(w) ==
  /\ pc[w] = "filter"
  /\ \E r \in rest[w] :
       /\ IsFirst(r, rest[w])
       /\ \/ /\ RepeatedInBatch(w, r)
             /\ Filtered(w, r, fresh[w])
             /\ UNCHANGED pos
          \/ /\ ~RepeatedInBatch(w, r)
             /\ ~canceled[w]
             /\ InWindow(evt[r])
             /\ TouchSeen(evt[r])
             /\ Filtered(w, r, fresh[w])
          \/ /\ ~RepeatedInBatch(w, r)
             /\ ~canceled[w]
             /\ ~InWindow(evt[r])
             /\ Filtered(w, r, fresh[w] \cup {r})
             /\ UNCHANGED pos
  /\ UNCHANGED <<outboxVars, canceled, handled, faults>>

\* Seen returns the context's error.
FilterCanceled(w) ==
  /\ pc[w] = "filter"
  /\ canceled[w]
  /\ \E r \in rest[w] : IsFirst(r, rest[w]) /\ ~RepeatedInBatch(w, r)
  /\ StopOnly(w)
  /\ UNCHANGED faults

\* The seen file cannot be read.
FilterError(w) ==
  /\ pc[w] = "filter"
  /\ SeenKind = "file"
  /\ \E r \in rest[w] : IsFirst(r, rest[w]) /\ ~RepeatedInBatch(w, r)
  /\ Fault
  /\ StopOnly(w)

-----------------------------------------------------------------------------
(* PublishEnvelopesForRole: events in order, and for each its subscribers  *)
(* in order; the first error ends the whole batch.                         *)

\* A subscriber loop that runs one past the last subscriber.
PublishedPastLast(w, r) ==
  LET left == rest[w] \ {r} IN
    \/ /\ at[w] <= NumSubs
       /\ at' = [at EXCEPT ![w] = at[w] + 1]
       /\ UNCHANGED <<pc, batch, fresh, rest>>
    \/ /\ at[w] > NumSubs
       /\ Enter(w, IF left = {} THEN "ack" ELSE "publish", batch[w], fresh[w], left)

\* Subscriber at[w] of record r is done: the next subscriber, the next event,
\* or Ack.
Published(w, r) ==
  LET left == rest[w] \ {r} IN
    \/ /\ at[w] < NumSubs
       /\ at' = [at EXCEPT ![w] = at[w] + 1]
       /\ UNCHANGED <<pc, batch, fresh, rest>>
    \/ /\ at[w] = NumSubs
       /\ Enter(w, IF left = {} THEN "ack" ELSE "publish", batch[w], fresh[w], left)

DispatchEvent(w) ==
  /\ pc[w] = "publish"
  /\ \E r \in rest[w] :
       /\ IsFirst(r, rest[w])
       /\ handled' = [handled EXCEPT ![evt[r]] = @ \cup {at[w]}]
       /\ Published(w, r)
  /\ UNCHANGED <<outboxVars, pos, canceled, faults>>

\* A subscriber returns an error; rest keeps its event and the events after
\* it, which nobody was given.
DispatchFails(w) ==
  /\ pc[w] = "publish"
  /\ Enter(w, "nack", batch[w], fresh[w], rest[w])
  /\ UNCHANGED <<outboxVars, pos, canceled, handled, faults>>

-----------------------------------------------------------------------------
(* Nack, the backoff after it, Ack, and the marks after Ack.               *)

NackBatch(w) ==
  /\ pc[w] = "nack"
  /\ ~canceled[w]
  /\ MarkRecordsFailed(batch[w])
  /\ Enter(w, "backoff", {}, {}, {})
  /\ UNCHANGED <<pos, canceled, handled, faults>>

NackError(w) ==
  /\ pc[w] = "nack"
  /\ ~canceled[w]
  /\ Fault
  /\ Stop(w)
  /\ UNCHANGED outboxVars \/ MarkRecordsHalfFailed(batch[w])
  /\ UNCHANGED <<pos, canceled, handled>>

\* The delay ends; a context done before that makes the worker return.
Backoff(w) ==
  /\ pc[w] = "backoff"
  /\ Again(w) \/ (canceled[w] /\ Stop(w))
  /\ UNCHANGED <<outboxVars, pos, canceled, handled, faults>>

\* Where Ack leads: only what the subscribers were given is marked.
AfterAck(w) ==
  \/ /\ SeenKind # "none" /\ fresh[w] # {}
     /\ Enter(w, "mark", {}, {}, fresh[w])
  \/ /\ SeenKind = "none" \/ fresh[w] = {}
     /\ Again(w)

AckBatch(w) ==
  /\ pc[w] = "ack"
  /\ ~canceled[w]
  /\ RemoveRecords(batch[w])
  /\ AfterAck(w)
  /\ UNCHANGED <<pos, canceled, handled, faults>>

\* An Ack whose error the worker ignores.
AckErrorIgnored(w) ==
  /\ pc[w] = "ack"
  /\ ~canceled[w]
  /\ Fault
  /\ AfterAck(w)
  /\ UNCHANGED <<outboxVars, pos, canceled, handled>>

AckError(w) ==
  /\ pc[w] = "ack"
  /\ ~canceled[w]
  /\ Fault
  /\ StopOnly(w)

\* markSeenEvents: one MarkSeen per delivered event, in batch order.
MarkEvent(w) ==
  /\ pc[w] = "mark"
  /\ ~canceled[w]
  /\ \E r \in rest[w] :
       /\ IsFirst(r, rest[w])
       /\ MarkSeen(evt[r])
       /\ \/ rest[w] = {r} /\ Again(w)
          \/ rest[w] # {r} /\ Enter(w, "mark", {}, {}, rest[w] \ {r})
  /\ UNCHANGED <<outboxVars, canceled, handled, faults>>

MarkError(w) ==
  /\ pc[w] = "mark"
  /\ ~canceled[w]
  /\ SeenKind = "file"
  /\ Fault
  /\ StopOnly(w)

\* Nack, Ack and MarkSeen return the error of a done context.
StoreCallCanceled(w) ==
  /\ pc[w] \in {"nack", "ack", "mark"}
  /\ canceled[w]
  /\ StopOnly(w)
  /\ UNCHANGED faults

-----------------------------------------------------------------------------
(* Producers and the environment.                                          *)

\* A command's sink stores its events, or the outbox writer of a scheduled
\* job does.  A StoreEvents that fails changes nothing.
Store ==
  /\ \E n \in 1 .. MaxStore : \E es \in [1 .. n -> Events] : StoreEvents(es)
  /\ UNCHANGED <<pos, localVars, canceled, handled, faults>>

Cancel(w) ==
  /\ pc[w] # "stopped"
  /\ ~canceled[w]
  /\ Fault
  /\ canceled' = [canceled EXCEPT ![w] = TRUE]
  /\ UNCHANGED <<outboxVars, pos, localVars, handled>>

\* The application runs the worker again.
Restart(w) ==
  /\ pc[w] = "stopped"
  /\ Again(w)
  /\ canceled' = [canceled EXCEPT ![w] = FALSE]
  /\ UNCHANGED <<outboxVars, pos, handled, faults>>

\* The process dies: every worker is gone, the files stay.
Crash ==
  /\ Fault
  /\ pc' = [w \in Workers |-> "stopped"]
  /\ batch' = [w \in Workers |-> {}]
  /\ fresh' = [w \in Workers |-> {}]
  /\ rest' = [w \in Workers |-> {}]
  /\ at' = [w \in Workers |-> 1]
  /\ SeenAfterRestart
  /\ UNCHANGED <<outboxVars, canceled, handled>>

-----------------------------------------------------------------------------
\* What worker w does by itself.
WorkerStep(w) ==
  \/ ReceiveNothing(w) \/ ReceiveBatch(w)
  \/ FilterEvent(w) \/ FilterCanceled(w)
  \/ DispatchEvent(w) \/ DispatchFails(w)
  \/ NackBatch(w) \/ Backoff(w) \/ AckBatch(w) \/ MarkEvent(w)
  \/ StoreCallCanceled(w)

\* The errors of the stores worker w calls.
WorkerError(w) ==
  ReceiveError(w) \/ FilterError(w) \/ NackError(w) \/ AckError(w) \/ MarkError(w)

Next ==
  \/ Store
  \/ \E w \in Workers :
       WorkerStep(w) \/ WorkerError(w) \/ Cancel(w) \/ Restart(w)
  \/ Crash

Spec == Init /\ [][Next]_vars

\* A running worker keeps taking steps, and the application runs a worker
\* that returned again.
FairSpec ==
  Spec /\ \A w \in Workers : WF_vars(WorkerStep(w)) /\ WF_vars(Restart(w))

-----------------------------------------------------------------------------
(* Properties.                                                             *)

\* Ack removes and Nack dead-letters, whatever the interleaving, the errors
\* and the crashes: a stored record that left the pending file is a dead
\* letter or its event was handled by every subscriber.
NoRecordLost ==
  \A r \in 1 .. stored : r \in pending \/ deadRows[r] > 0 \/ Handled(evt[r])

\* markSeenEvents runs after Ack succeeded: an event the seen store will
\* suppress from now on was handled by every subscriber, and a record of it
\* has left the outbox.
SeenOnlyAfterAck ==
  \A e \in Events : InWindow(e) =>
    /\ Handled(e)
    /\ \E r \in 1 .. stored : evt[r] = e /\ r \notin pending

\* The dead-letter test of markRecordsFailedLocked: no record stays pending
\* with its attempts used up, also when two workers nack the same batch.
AttemptsBelowLimit ==
  MaxAttempts > 0 => \A r \in pending : attempts[r] < MaxAttempts

\* The merge of appendRecordsToPathLocked: a record has one dead-letter row
\* however often the pending file could not be replaced after the row was
\* written.
DeadLetterOnce == \A r \in Records : deadRows[r] <= 1

\* unseenEvents, with one worker: what goes to the subscribers holds no event
\* twice and none the seen store knows.
NoRedispatchInWindow ==
  \A w \in Workers : pc[w] = "publish" =>
    /\ \A r \in rest[w] : ~InWindow(evt[r])
    /\ \A r, q \in rest[w] : evt[r] = evt[q] => r = q

\* What became of a record.
Status(r) ==
  IF r > stored THEN "absent"
  ELSE IF r \in pending THEN "pending"
  ELSE IF deadRows[r] > 0 THEN "dead" ELSE "done"

Promise == INSTANCE AtLeastOnce WITH status <- [r \in Records |-> Status(r)]

\* The workers over the outbox implement at-least-once delivery.
ImplementsAtLeastOnce == Promise!Spec

\* Faults being finite and subscribers failing as often as they like, every
\* record leaves the pending file: it is acked or it becomes a dead letter.
EveryRecordLeaves ==
  \A r \in Records : (r \in pending) ~> (r \notin pending)

\* decodeRecordsLocked says that one poison record cannot wedge delivery of
\* the rest: a pending record that can be decoded is delivered in the end,
\* the subscribers failing no more.
PoisonCannotWedge ==
  \A r \in Records :
    (r \in pending /\ evt[r] \notin Undecodable) ~>
      (r \notin pending \/ \E w \in Workers : pc[w] = "nack")

\* WithDeadLetter counts the failed deliveries of the record it moves: a
\* record becomes a dead letter in a Nack only if it was given to a
\* subscriber in the delivery that failed.
DeadLetterOnlyAfterDelivery ==
  [][\A w \in Workers :
       pc[w] = "nack" /\ pc'[w] # "nack" =>
         \A r \in batch[w] :
           deadRows[r] = 0 /\ deadRows'[r] > 0 =>
             r \notin rest[w] \/ IsFirst(r, rest[w])]_vars
=============================================================================
