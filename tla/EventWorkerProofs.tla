-------------------------- MODULE EventWorkerProofs --------------------------
(***************************************************************************)
(* Theorems about EventWorker, for any workers, events, batch size, number *)
(* of subscribers, attempt limit, kind of seen store and number of faults. *)
(***************************************************************************)
EXTENDS EventWorker, SequenceTheorems, TLAPS

USE DEF Records, Subs

-----------------------------------------------------------------------------
(* Type correctness.                                                       *)

\* Moving a worker keeps the worker variables typed.
LEMMA EnterType ==
  ASSUME LocalTypeOK, NEW w \in Workers, NEW p \in Steps,
         NEW b \in SUBSET Records, NEW f \in SUBSET Records, NEW r \in SUBSET Records,
         Enter(w, p, b, f, r)
  PROVE  LocalTypeOK'
  BY WorkerAssumption DEF LocalTypeOK, Enter

\* Marking records as failed keeps the outbox typed: the counter saturates.
LEMMA MarkFailedType ==
  ASSUME OutboxTypeOK, NEW S \in SUBSET Records,
         MarkRecordsFailed(S) \/ MarkRecordsHalfFailed(S)
  PROVE  OutboxTypeOK'
<1> USE OutboxAssumption DEF OutboxTypeOK
<1>1. AppendDeadRows(NewlyDead(S)) \in [Records -> Nat]
  BY DEF AppendDeadRows
<1>2. BumpAttempts(S) \in [Records -> 0 .. AttemptCap]
  BY DEF BumpAttempts
<1> QED BY <1>1, <1>2 DEF MarkRecordsFailed, MarkRecordsHalfFailed

\* The window positions stay within the limit.
LEMMA MakeNewestType ==
  ASSUME SeenTypeOK, NEW e
  PROVE  MakeNewest(e) \in [Events -> 0 .. SeenLimit]
<1>1. \A x \in Events : Shift(e, x) \in 0 .. SeenLimit
  BY SeenAssumption DEF SeenTypeOK, Shift
<1> QED BY <1>1, SeenAssumption DEF MakeNewest

\* A batch of n events is a sequence of events.
LEMMA StoredSequence ==
  ASSUME NEW n \in Nat, NEW es \in [1 .. n -> Events]
  PROVE  Len(es) \in Nat /\ es \in [1 .. Len(es) -> Events]
<1>1. es \in Seq(Events)
  BY SeqDef
<1> QED BY <1>1, LenProperties

\* Storing appends records of known events.
LEMMA StoreType ==
  ASSUME OutboxTypeOK, NEW n \in Nat, NEW es \in [1 .. n -> Events], StoreEvents(es)
  PROVE  OutboxTypeOK'
<1>1. Len(es) \in Nat /\ es \in [1 .. Len(es) -> Events]
  BY StoredSequence
<1>2. \A r \in stored + 1 .. stored + Len(es) : es[r - stored] \in Events
  BY <1>1 DEF OutboxTypeOK
<1>3. stored' \in 0 .. MaxRecords /\ pending' \subseteq Records
  <2>1. /\ stored' = stored + Len(es) /\ stored + Len(es) <= MaxRecords
        /\ pending' = pending \cup (stored + 1 .. stored + Len(es))
    BY DEF StoreEvents
  <2>2. stored \in 0 .. MaxRecords /\ pending \subseteq Records
    BY DEF OutboxTypeOK
  <2>3. stored' \in 0 .. MaxRecords
    BY <1>1, <2>1, <2>2, OutboxAssumption
  <2>4. stored + 1 .. stored + Len(es) \subseteq 1 .. MaxRecords
    BY <1>1, <2>1, <2>2, OutboxAssumption
  <2> QED BY <2>1, <2>2, <2>3, <2>4
<1>4. evt' \in [Records -> Events \cup {NoEvent}]
  BY <1>2 DEF OutboxTypeOK, StoreEvents
<1> QED BY <1>3, <1>4 DEF OutboxTypeOK, StoreEvents

\* Every step keeps the types.
LEMMA TypeStep == TypeOK /\ [Next]_vars => TypeOK'
<1> SUFFICES ASSUME TypeOK, [Next]_vars PROVE TypeOK'
  OBVIOUS
<1> DEFINE CommonType == canceled \in [Workers -> BOOLEAN]
                         /\ handled \in [Events -> SUBSET Subs]
                         /\ faults \in 0 .. MaxFaults
<1>0. OutboxTypeOK /\ SeenTypeOK /\ LocalTypeOK /\ CommonType
  BY DEF TypeOK
<1>a. SUFFICES OutboxTypeOK' /\ SeenTypeOK' /\ LocalTypeOK' /\ CommonType'
  BY DEF TypeOK
<1>b. \A w \in Workers : Stop(w) \/ Again(w) => LocalTypeOK'
  BY <1>0, EnterType DEF Stop, Again, Steps
<1>c. Fault => faults' \in 0 .. MaxFaults
  BY <1>0, WorkerAssumption DEF Fault
<1>d. UNCHANGED outboxVars => OutboxTypeOK'
  BY <1>0 DEF OutboxTypeOK, outboxVars
<1>e. UNCHANGED pos => SeenTypeOK'
  BY <1>0 DEF SeenTypeOK
<1>f. \A r \in Records : evt[r] \in Events \cup {NoEvent}
  BY <1>0 DEF OutboxTypeOK
<1>s. ASSUME NEW w \in Workers, StopOnly(w), UNCHANGED faults \/ Fault
      PROVE OutboxTypeOK' /\ SeenTypeOK' /\ LocalTypeOK' /\ CommonType'
  BY <1>s, <1>0, <1>b, <1>c, <1>d, <1>e DEF StopOnly
<1>1. CASE UNCHANGED vars
  <2>1. LocalTypeOK'
    BY <1>0, <1>1 DEF vars, localVars, LocalTypeOK
  <2> QED BY <1>0, <1>1, <1>d, <1>e, <2>1 DEF vars
<1>2. CASE Store
  <2>1. PICK n \in 1 .. MaxStore : \E es \in [1 .. n -> Events] : StoreEvents(es)
    BY <1>2 DEF Store
  <2>2. OutboxTypeOK'
    BY <1>0, <2>1, StoreType, OutboxAssumption
  <2>3. LocalTypeOK'
    BY <1>0, <1>2 DEF Store, localVars, LocalTypeOK
  <2> QED BY <1>0, <1>2, <1>e, <2>2, <2>3 DEF Store
<1>3. ASSUME NEW w \in Workers, WorkerStep(w)
      PROVE OutboxTypeOK' /\ SeenTypeOK' /\ LocalTypeOK' /\ CommonType'
  <2>l. /\ batch[w] \in SUBSET Records /\ fresh[w] \in SUBSET Records
        /\ rest[w] \in SUBSET Records /\ at[w] \in Subs
    BY <1>0 DEF LocalTypeOK
  <2>1. CASE ReceiveNothing(w)
    BY <2>1, <1>s DEF ReceiveNothing
  <2>2. CASE ReceiveBatch(w)
    <3>1. Selected \in SUBSET Records /\ Failed(Selected) \in SUBSET Records
      BY <1>0 DEF Selected, Failed, OutboxTypeOK
    <3>2. OutboxTypeOK'
      BY <1>0, <2>2, <3>1, <1>d, MarkFailedType DEF ReceiveBatch
    <3>3. LocalTypeOK'
      <4> DEFINE good == Selected \ Failed(Selected)
      <4>1. \/ Stop(w)
            \/ Enter(w, "publish", good, good, good)
            \/ Enter(w, "filter", good, {}, good)
        BY <2>2 DEF ReceiveBatch
      <4>2. good \in SUBSET Records
        BY <3>1
      <4> HIDE DEF good
      <4> QED BY <4>1, <4>2, <1>b, <1>0, EnterType DEF Steps
    <3> QED BY <1>0, <2>2, <1>e, <3>2, <3>3 DEF ReceiveBatch
  <2>3. CASE FilterEvent(w)
    <3>1. PICK r \in rest[w] :
            /\ Filtered(w, r, fresh[w]) \/ Filtered(w, r, fresh[w] \cup {r})
            /\ UNCHANGED pos \/ (InWindow(evt[r]) /\ TouchSeen(evt[r]))
      BY <2>3 DEF FilterEvent
    <3>2. ASSUME NEW f \in SUBSET Records, Filtered(w, r, f)
          PROVE LocalTypeOK'
      <4> DEFINE left == rest[w] \ {r}
      <4>1. \/ Enter(w, "filter", batch[w], f, left)
            \/ Enter(w, "publish", batch[w], f, f)
            \/ Enter(w, "ack", batch[w], f, {})
        BY <3>2 DEF Filtered
      <4>2. left \in SUBSET Records
        BY <2>l
      <4> HIDE DEF left
      <4> QED BY <4>1, <4>2, <2>l, <1>0, EnterType DEF Steps
    <3>3. LocalTypeOK'
      BY <3>1, <3>2, <2>l
    <3>4. TouchSeen(evt[r]) => SeenTypeOK'
      BY <1>0, MakeNewestType DEF TouchSeen, SeenTypeOK
    <3> QED BY <1>0, <1>d, <1>e, <2>3, <3>1, <3>3, <3>4 DEF FilterEvent
  <2>4. CASE FilterCanceled(w)
    BY <2>4, <1>s DEF FilterCanceled
  <2>5. CASE DispatchEvent(w)
    <3>1. PICK r \in rest[w] :
            /\ handled' = [handled EXCEPT ![evt[r]] = @ \cup {at[w]}]
            /\ Published(w, r)
      BY <2>5 DEF DispatchEvent
    <3>2. handled' \in [Events -> SUBSET Subs]
      BY <1>0, <2>l, <3>1
    <3>3. CASE at' = [at EXCEPT ![w] = at[w] + 1] /\ at[w] < NumSubs
               /\ UNCHANGED <<pc, batch, fresh, rest>>
      <4>1. at' \in [Workers -> Subs]
        BY <1>0, <2>l, <3>3, WorkerAssumption DEF LocalTypeOK
      <4> QED BY <1>0, <1>d, <1>e, <2>5, <3>2, <3>3, <4>1 DEF DispatchEvent, LocalTypeOK
    <3>4. CASE \E p \in {"ack", "publish"} :
                 Enter(w, p, batch[w], fresh[w], rest[w] \ {r})
      <4>1. rest[w] \ {r} \in SUBSET Records
        BY <2>l
      <4>2. LocalTypeOK'
        BY <3>4, <4>1, <2>l, <1>0, EnterType DEF Steps
      <4> QED BY <1>0, <1>d, <1>e, <2>5, <3>2, <4>2 DEF DispatchEvent
    <3> QED BY <3>1, <3>3, <3>4 DEF Published
  <2>6. CASE DispatchFails(w)
    <3>1. LocalTypeOK'
      BY <2>6, <2>l, <1>0, EnterType DEF DispatchFails, Steps
    <3> QED BY <1>0, <1>d, <1>e, <2>6, <3>1 DEF DispatchFails
  <2>7. CASE NackBatch(w)
    <3>1. LocalTypeOK'
      BY <2>7, <1>0, EnterType DEF NackBatch, Steps
    <3>2. OutboxTypeOK'
      BY <2>7, <2>l, <1>0, MarkFailedType DEF NackBatch
    <3> QED BY <1>0, <1>e, <2>7, <3>1, <3>2 DEF NackBatch
  <2>8. CASE Backoff(w)
    BY <2>8, <1>0, <1>b, <1>d, <1>e DEF Backoff
  <2>9. CASE AckBatch(w)
    <3>1. LocalTypeOK'
      BY <2>9, <2>l, <1>0, <1>b, EnterType DEF AckBatch, AfterAck, Steps
    <3>2. OutboxTypeOK'
      BY <2>9, <1>0 DEF AckBatch, RemoveRecords, OutboxTypeOK
    <3> QED BY <1>0, <1>e, <2>9, <3>1, <3>2 DEF AckBatch
  <2>10. CASE MarkEvent(w)
    <3>1. PICK r \in rest[w] :
            /\ MarkSeen(evt[r])
            /\ Again(w) \/ Enter(w, "mark", {}, {}, rest[w] \ {r})
      BY <2>10 DEF MarkEvent
    <3>2. rest[w] \ {r} \in SUBSET Records
      BY <2>l
    <3>3. LocalTypeOK'
      BY <1>0, <1>b, <3>1, <3>2, EnterType DEF Steps
    <3>4. SeenTypeOK'
      BY <1>0, <3>1, MakeNewestType DEF MarkSeen, SeenTypeOK
    <3> QED BY <1>0, <1>d, <2>10, <3>3, <3>4 DEF MarkEvent
  <2>11. CASE StoreCallCanceled(w)
    BY <2>11, <1>s DEF StoreCallCanceled
  <2> QED BY <1>3, <2>1, <2>2, <2>3, <2>4, <2>5, <2>6, <2>7, <2>8, <2>9, <2>10, <2>11
          DEF WorkerStep
<1>4. ASSUME NEW w \in Workers, WorkerError(w)
      PROVE OutboxTypeOK' /\ SeenTypeOK' /\ LocalTypeOK' /\ CommonType'
  <2>1. CASE ReceiveError(w)
    <3>1. Failed(Selected) \in SUBSET Records
      BY <1>0 DEF Selected, Failed, OutboxTypeOK
    <3> QED BY <2>1, <3>1, <1>0, <1>b, <1>c, <1>d, <1>e, MarkFailedType DEF ReceiveError
  <2>2. CASE NackError(w)
    <3>1. batch[w] \in SUBSET Records
      BY <1>0 DEF LocalTypeOK
    <3> QED BY <2>2, <3>1, <1>0, <1>b, <1>c, <1>d, <1>e, MarkFailedType DEF NackError
  <2>3. CASE FilterError(w) \/ AckError(w) \/ MarkError(w)
    BY <2>3, <1>s DEF FilterError, AckError, MarkError
  <2> QED BY <1>4, <2>1, <2>2, <2>3 DEF WorkerError
<1>5. ASSUME NEW w \in Workers, Cancel(w) \/ Restart(w)
      PROVE OutboxTypeOK' /\ SeenTypeOK' /\ LocalTypeOK' /\ CommonType'
  <2>1. CASE Cancel(w)
    BY <2>1, <1>0, <1>c, <1>d, <1>e DEF Cancel, localVars, LocalTypeOK
  <2>2. CASE Restart(w)
    BY <2>2, <1>0, <1>b, <1>d, <1>e DEF Restart
  <2> QED BY <1>5, <2>1, <2>2
<1>6. CASE Crash
  <2>1. LocalTypeOK'
    BY <1>6, WorkerAssumption DEF Crash, LocalTypeOK, Steps
  <2>2. SeenTypeOK'
    BY <1>6, <1>0, SeenAssumption DEF Crash, SeenAfterRestart, SeenTypeOK
  <2> QED BY <1>6, <1>0, <1>c, <1>d, <2>1, <2>2 DEF Crash
<1> QED BY <1>1, <1>2, <1>3, <1>4, <1>5, <1>6 DEF Next

\* Every variable has its type in every reachable state, for all constants
\* that meet the assumptions.
THEOREM TypeCorrect == Spec => []TypeOK
<1>1. Init => TypeOK
  BY OutboxAssumption, SeenAssumption, WorkerAssumption
     DEF Init, TypeOK, OutboxInit, OutboxTypeOK, SeenInit, SeenTypeOK, LocalTypeOK, Steps
<1> QED BY <1>1, TypeStep, PTL DEF Spec

-----------------------------------------------------------------------------
(* The inductive invariant behind NoRecordLost and SeenOnlyAfterAck.  What *)
(* a worker holds was stored; the events it has passed over were handled,  *)
(* or wait among the fresh ones; what it is about to ack was handled; what *)
(* it is about to mark was handled and has left the outbox.                *)

RecordsOK ==
  /\ pending \subseteq 1 .. stored
  /\ \A r \in 1 .. stored : evt[r] \in Events
  /\ \A r \in Records : r > stored => evt[r] = NoEvent /\ deadRows[r] = 0

\* The event of r is among the fresh ones of worker w or was handled.
Covered(w, r) == (\E q \in fresh[w] : evt[q] = evt[r]) \/ Handled(evt[r])

WorkerOK(w) ==
  /\ batch[w] \subseteq 1 .. stored
  /\ fresh[w] \subseteq batch[w]
  /\ rest[w] \subseteq 1 .. stored
  /\ pc[w] = "filter" => /\ rest[w] \subseteq batch[w]
                         /\ \A r \in batch[w] \ rest[w] : Covered(w, r)
  /\ pc[w] = "publish" =>
       /\ \A r \in batch[w] : Covered(w, r)
       /\ \A r \in fresh[w] \ rest[w] : Handled(evt[r])
       /\ \A r \in rest[w] : IsFirst(r, rest[w]) => 1 .. at[w] - 1 \subseteq handled[evt[r]]
  /\ pc[w] = "ack" => \A r \in batch[w] : Handled(evt[r])
  /\ pc[w] = "mark" => \A r \in rest[w] : Handled(evt[r]) /\ r \notin pending

SafeInv ==
  /\ RecordsOK
  /\ NoRecordLost
  /\ SeenOnlyAfterAck
  /\ \A w \in Workers : WorkerOK(w)

\* What no step takes back.
Keeps ==
  /\ stored <= stored'
  /\ \A r \in 1 .. stored : evt'[r] = evt[r]
  /\ \A e \in Events : handled[e] \subseteq handled'[e]
  /\ \A r \in 1 .. stored : r \in pending' => r \in pending

\* The ways a step may change the outbox: not at all, failing records,
\* removing records whose events were handled, or storing new ones.
OutboxMove ==
  \/ UNCHANGED outboxVars
  \/ \E S \in SUBSET Records : MarkRecordsFailed(S) \/ MarkRecordsHalfFailed(S)
  \/ \E S \in SUBSET 1 .. stored : RemoveRecords(S) /\ \A r \in S : Handled(evt[r])
  \/ \E n \in Nat : \E es \in [1 .. n -> Events] : StoreEvents(es)

\* The window holds nothing new but events that may be suppressed.
SeenMove ==
  \A x \in Events : pos'[x] > 0 =>
    \/ pos[x] > 0
    \/ Handled(x) /\ \E r \in 1 .. stored : evt[r] = x /\ r \notin pending

\* Worker v stands where it stood.
Stays(v) ==
  /\ pc'[v] = pc[v] /\ batch'[v] = batch[v] /\ fresh'[v] = fresh[v]
  /\ rest'[v] = rest[v] /\ at'[v] = at[v]

HandledGrows == \A e \in Events : handled[e] \subseteq handled'[e]

\* What was handled by all stays handled by all.
LEMMA HandledKept ==
  ASSUME TypeOK, TypeOK', HandledGrows, NEW e \in Events, Handled(e)
  PROVE  Handled(e)'
  BY DEF HandledGrows, Handled, TypeOK

\* markRecordsFailedLocked loses no record: what leaves the pending file is
\* in the dead-letter file, also when the second write fails.
LEMMA MarkFailedKeepsRecords ==
  ASSUME TypeOK, NEW S \in SUBSET Records,
         MarkRecordsFailed(S) \/ MarkRecordsHalfFailed(S)
  PROVE  /\ stored' = stored /\ evt' = evt /\ pending' \subseteq pending
         /\ \A r \in Records : deadRows[r] > 0 => deadRows'[r] > 0
         /\ \A r \in pending \ pending' : deadRows'[r] > 0
         /\ \A r \in Records \ pending : deadRows'[r] = deadRows[r]
<1>1. /\ deadRows' = AppendDeadRows(NewlyDead(S))
      /\ stored' = stored /\ evt' = evt
      /\ pending' = pending \/ pending' = pending \ NewlyDead(S)
  BY DEF MarkRecordsFailed, MarkRecordsHalfFailed
<1>2. deadRows \in [Records -> Nat] /\ pending \subseteq Records
  BY DEF TypeOK, OutboxTypeOK
<1>3. NewlyDead(S) \subseteq pending
  BY DEF NewlyDead
<1> QED BY <1>1, <1>2, <1>3 DEF AppendDeadRows

\* Whatever the outbox does, no record is lost and nothing is taken back.
LEMMA RecordsStep ==
  ASSUME TypeOK, TypeOK', RecordsOK, NoRecordLost, OutboxMove, HandledGrows
  PROVE  RecordsOK' /\ NoRecordLost' /\ Keeps
<1> USE DEF RecordsOK, NoRecordLost
<1>t. /\ stored \in 0 .. MaxRecords /\ stored' \in 0 .. MaxRecords /\ MaxRecords \in Nat
      /\ deadRows \in [Records -> Nat] /\ evt \in [Records -> Events \cup {NoEvent}]
  BY OutboxAssumption DEF TypeOK, OutboxTypeOK
<1>h. \A e \in Events : Handled(e) => Handled(e)'
  BY HandledKept
<1>m. ASSUME evt' = evt, stored' = stored, pending' \subseteq pending,
             \A r \in Records : deadRows[r] > 0 => deadRows'[r] > 0,
             \A r \in pending \ pending' : deadRows'[r] > 0 \/ Handled(evt[r]),
             \A r \in Records \ pending : deadRows'[r] = deadRows[r]
      PROVE RecordsOK' /\ NoRecordLost' /\ Keeps
  <2>1. Keeps
    BY <1>m, <1>t DEF Keeps, HandledGrows
  <2>2. RecordsOK'
    BY <1>m, <1>t
  <2>3. ASSUME NEW r \in 1 .. stored, r \notin pending', ~ (deadRows'[r] > 0)
        PROVE Handled(evt[r])'
    <3>1. Handled(evt[r])
      BY <2>3, <1>m, <1>t
    <3> QED BY <3>1, <1>h, <1>m DEF Handled
  <2>4. NoRecordLost'
    BY <2>3, <1>m
  <2> QED BY <2>1, <2>2, <2>4
<1>1. CASE UNCHANGED outboxVars
  BY <1>1, <1>m DEF outboxVars
<1>2. CASE \E S \in SUBSET Records : MarkRecordsFailed(S) \/ MarkRecordsHalfFailed(S)
  BY <1>2, <1>m, MarkFailedKeepsRecords
<1>3. CASE \E S \in SUBSET 1 .. stored : RemoveRecords(S) /\ \A r \in S : Handled(evt[r])
  BY <1>3, <1>m DEF RemoveRecords
<1>4. CASE \E n \in Nat : \E es \in [1 .. n -> Events] : StoreEvents(es)
  <2>0. PICK n \in Nat : \E es \in [1 .. n -> Events] : StoreEvents(es)
    BY <1>4
  <2>1. PICK es \in [1 .. n -> Events] : StoreEvents(es)
    BY <2>0
  <2>2. Len(es) \in Nat /\ es \in [1 .. Len(es) -> Events]
    BY StoredSequence
  <2> DEFINE k == Len(es)
             new == stored + 1 .. stored + k
  <2>3. /\ stored' = stored + k /\ stored + k <= MaxRecords
        /\ pending' = pending \cup new
        /\ evt' = [r \in Records |-> IF r \in new THEN es[r - stored] ELSE evt[r]]
        /\ deadRows' = deadRows
    BY <2>1 DEF StoreEvents
  <2>4. k \in Nat /\ \A i \in 1 .. k : es[i] \in Events
    BY <2>2
  <2> HIDE DEF k
  <2>5. /\ \A r \in 1 .. stored : evt'[r] = evt[r] /\ r \notin new
        /\ \A r \in new : evt'[r] \in Events
        /\ \A r \in Records : r > stored' => evt'[r] = evt[r] /\ r > stored
    <3>1. \A r \in 1 .. stored : evt'[r] = evt[r] /\ r \notin new
      BY <2>3, <2>4, <1>t
    <3>2. ASSUME NEW r \in new PROVE evt'[r] \in Events
      <4>1. r \in Records /\ r - stored \in 1 .. k
        BY <2>3, <2>4, <1>t
      <4> QED BY <2>3, <2>4, <4>1
    <3>3. \A r \in Records : r > stored' => evt'[r] = evt[r] /\ r > stored
      BY <2>3, <2>4, <1>t
    <3> QED BY <3>1, <3>2, <3>3
  <2>6. 1 .. stored' = (1 .. stored) \cup new
    BY <2>3, <2>4, <1>t
  <2>7. RecordsOK'
    BY <2>3, <2>5, <2>6, <1>t
  <2>8. Keeps
    BY <2>3, <2>4, <2>5, <1>t DEF Keeps, HandledGrows
  <2>9. ASSUME NEW r \in 1 .. stored'
        PROVE r \in pending' \/ deadRows'[r] > 0 \/ Handled(evt[r])'
    <3>1. CASE r \in new
      BY <3>1, <2>3
    <3>2. CASE r \in 1 .. stored
      <4>1. r \in pending \/ deadRows[r] > 0 \/ Handled(evt[r])
        BY <3>2
      <4>2. Handled(evt[r]) => Handled(evt[r])'
        BY <3>2, <2>5, <1>h DEF Handled
      <4> QED BY <4>1, <4>2, <2>3
    <3> QED BY <3>1, <3>2, <2>6
  <2> QED BY <2>7, <2>8, <2>9
<1> QED BY <1>1, <1>2, <1>3, <1>4 DEF OutboxMove

\* A worker that stays where it is keeps its part of the invariant.
LEMMA WorkerFrame ==
  ASSUME TypeOK, TypeOK', RecordsOK, Keeps, NEW v \in Workers, WorkerOK(v), Stays(v)
  PROVE  WorkerOK(v)'
<1>t. stored \in Nat /\ stored' \in Nat /\ stored <= stored'
      /\ \A r \in 1 .. stored : evt'[r] = evt[r] /\ evt[r] \in Events
  BY DEF TypeOK, OutboxTypeOK, Keeps, RecordsOK
<1>h. \A r \in 1 .. stored : Handled(evt[r]) => Handled(evt[r])'
  BY <1>t, HandledKept DEF Keeps, HandledGrows, Handled
<1>1. /\ batch[v]' \subseteq (1 .. stored)' /\ fresh[v]' \subseteq batch[v]'
      /\ rest[v]' \subseteq (1 .. stored)'
  BY <1>t DEF Stays, WorkerOK
<1>2. ASSUME NEW r \in batch[v], Covered(v, r) PROVE Covered(v, r)'
  <2>1. CASE Handled(evt[r])
    BY <2>1, <1>h DEF Covered, WorkerOK
  <2>2. CASE \E q \in fresh[v] : evt[q] = evt[r]
    BY <2>2, <1>t DEF Covered, WorkerOK, Stays
  <2> QED BY <1>2, <2>1, <2>2 DEF Covered
<1>3. ASSUME pc[v] = "publish", NEW r \in rest[v], IsFirst(r, rest[v])
      PROVE (1 .. at[v] - 1)' \subseteq handled[evt[r]]'
  BY <1>3, <1>t DEF Stays, WorkerOK, Keeps
<1>4. \A r \in rest[v] : pc[v] = "mark" => r \notin pending'
  BY DEF WorkerOK, Keeps
<1> QED BY <1>1, <1>2, <1>3, <1>4, <1>h DEF WorkerOK, Stays, IsFirst

\* The seen store keeps its promise when only such events enter the window.
LEMMA SeenFrame ==
  ASSUME TypeOK, TypeOK', RecordsOK, Keeps, SeenOnlyAfterAck, SeenMove
  PROVE  SeenOnlyAfterAck'
<1> SUFFICES ASSUME NEW x \in Events, pos'[x] > 0
             PROVE Handled(x)' /\ \E r \in 1 .. stored' : evt'[r] = x /\ r \notin pending'
  BY DEF SeenOnlyAfterAck, InWindow
<1>1. Handled(x) /\ \E r \in 1 .. stored : evt[r] = x /\ r \notin pending
  BY DEF SeenOnlyAfterAck, InWindow, SeenMove
<1>2. Handled(x)'
  BY <1>1, HandledKept DEF Keeps, HandledGrows
<1> QED BY <1>1, <1>2 DEF Keeps, TypeOK, OutboxTypeOK

\* MakeNewest brings no event but its own into the window.
LEMMA NewestOnly ==
  ASSUME TypeOK, NEW e \in Events, NEW x \in Events, x # e, MakeNewest(e)[x] > 0
  PROVE  pos[x] > 0
  BY DEF MakeNewest, Shift, TypeOK, SeenTypeOK

\* The other workers stay; this one is where it went, at its first subscriber.
LEMMA EnterMoves ==
  ASSUME LocalTypeOK, NEW w \in Workers, NEW p, NEW b, NEW f, NEW r, Enter(w, p, b, f, r)
  PROVE  /\ \A v \in Workers \ {w} : Stays(v)
         /\ pc'[w] = p /\ batch'[w] = b /\ fresh'[w] = f /\ rest'[w] = r /\ at'[w] = 1
  BY DEF LocalTypeOK, Enter, Stays

\* A worker that holds nothing satisfies its part of the invariant.
LEMMA EmptyHanded ==
  ASSUME TypeOK', LocalTypeOK, NEW w \in Workers,
         NEW p \in {"receive", "stopped", "backoff"}, Enter(w, p, {}, {}, {})
  PROVE  WorkerOK(w)' /\ \A v \in Workers \ {w} : Stays(v)
<1>1. pc'[w] = p /\ batch'[w] = {} /\ fresh'[w] = {} /\ rest'[w] = {}
  BY EnterMoves
<1>2. \A v \in Workers \ {w} : Stays(v)
  BY EnterMoves
<1> QED BY <1>1, <1>2 DEF WorkerOK

\* A step of one worker: the worker keeps its part of the invariant, the
\* others stay, and the stores move as they may.
LEMMA WorkerMoves ==
  ASSUME TypeOK, TypeOK', SafeInv, NEW w \in Workers,
         WorkerStep(w) \/ WorkerError(w) \/ Cancel(w) \/ Restart(w)
  PROVE  /\ OutboxMove /\ HandledGrows /\ SeenMove
         /\ WorkerOK(w)' /\ \A v \in Workers \ {w} : Stays(v)
<1> DEFINE Goal == /\ OutboxMove /\ HandledGrows /\ SeenMove
                   /\ WorkerOK(w)' /\ \A v \in Workers \ {w} : Stays(v)
<1>t. /\ LocalTypeOK /\ WorkerOK(w) /\ RecordsOK
      /\ batch[w] \in SUBSET Records /\ fresh[w] \in SUBSET Records
      /\ rest[w] \in SUBSET Records /\ at[w] \in Subs
      /\ Selected \subseteq pending /\ pending \subseteq Records
      /\ pos \in [Events -> 0 .. SeenLimit] /\ handled \in [Events -> SUBSET Subs]
      /\ \A r \in 1 .. stored : evt[r] \in Events
  BY DEF TypeOK, LocalTypeOK, OutboxTypeOK, SeenTypeOK, SafeInv, Selected, RecordsOK
<1>p. UNCHANGED pos => SeenMove
  BY DEF SeenMove
<1>o. UNCHANGED outboxVars => OutboxMove
  BY DEF OutboxMove
<1>h. UNCHANGED handled => HandledGrows
  BY DEF HandledGrows
<1>f. Failed(Selected) \in SUBSET Records
  BY <1>t DEF Failed
<1>e. Stop(w) \/ Again(w) => WorkerOK(w)' /\ \A v \in Workers \ {w} : Stays(v)
  BY <1>t, EmptyHanded DEF Stop, Again
<1>s. StopOnly(w) => Goal
  BY <1>p, <1>o, <1>h, <1>e DEF StopOnly
<1>1. CASE ReceiveNothing(w) \/ FilterCanceled(w) \/ StoreCallCanceled(w)
           \/ FilterError(w) \/ AckError(w) \/ MarkError(w)
  BY <1>1, <1>s DEF ReceiveNothing, FilterCanceled, StoreCallCanceled, FilterError,
                    AckError, MarkError
<1>2. CASE ReceiveError(w)
  <2>1. OutboxMove
    BY <1>2, <1>f, <1>o DEF ReceiveError, OutboxMove
  <2> QED BY <1>2, <2>1, <1>p, <1>h, <1>e DEF ReceiveError
<1>3. CASE NackError(w)
  <2>1. OutboxMove
    BY <1>3, <1>t, <1>o DEF NackError, OutboxMove
  <2> QED BY <1>3, <2>1, <1>p, <1>h, <1>e DEF NackError
<1>4. CASE Restart(w) \/ Backoff(w)
  BY <1>4, <1>p, <1>h, <1>e, <1>o DEF Restart, Backoff
<1>5. CASE NackBatch(w)
  <2>1. OutboxMove
    BY <1>5, <1>t DEF NackBatch, OutboxMove
  <2>2. WorkerOK(w)' /\ \A v \in Workers \ {w} : Stays(v)
    BY <1>5, <1>t, EmptyHanded DEF NackBatch
  <2> QED BY <1>5, <2>1, <2>2, <1>p, <1>h DEF NackBatch
<1>6. CASE Cancel(w)
  <2>1. OutboxMove /\ HandledGrows /\ SeenMove
    BY <1>6, <1>p, <1>o, <1>h DEF Cancel
  <2>2. \A v \in Workers : Stays(v)
    BY <1>6 DEF Cancel, localVars, Stays
  <2>3. WorkerOK(w)'
    BY <1>6, <1>t DEF Cancel, localVars, outboxVars, WorkerOK, Covered, Handled, IsFirst
  <2> QED BY <2>1, <2>2, <2>3
<1>7. CASE ReceiveBatch(w)
  <2> DEFINE good == Selected \ Failed(Selected)
  <2>1. OutboxMove
    BY <1>7, <1>f, <1>o DEF ReceiveBatch, OutboxMove
  <2>2. CASE Stop(w)
    BY <1>7, <2>1, <2>2, <1>e, <1>p, <1>h DEF ReceiveBatch
  <2>3. CASE Enter(w, "publish", good, good, good) \/ Enter(w, "filter", good, {}, good)
    <3>1. good \subseteq 1 .. stored /\ stored' = stored /\ evt' = evt
      BY <1>7, <1>t DEF ReceiveBatch, RecordsOK, MarkRecordsFailed, outboxVars
    <3>2. /\ \A v \in Workers \ {w} : Stays(v)
          /\ batch'[w] = good /\ rest'[w] = good /\ at'[w] = 1
          /\ \/ pc'[w] = "publish" /\ fresh'[w] = good
             \/ pc'[w] = "filter" /\ fresh'[w] = {}
      BY <2>3, <1>t, EnterMoves
    <3> HIDE DEF good
    <3>3. WorkerOK(w)'
      BY <3>1, <3>2 DEF WorkerOK, Covered
    <3> QED BY <1>7, <2>1, <3>2, <3>3, <1>p, <1>h DEF ReceiveBatch
  <2> QED BY <1>7, <2>2, <2>3 DEF ReceiveBatch
<1>8. CASE FilterEvent(w)
  <2>0. /\ pc[w] = "filter" /\ evt' = evt /\ stored' = stored /\ pending' = pending
        /\ handled' = handled /\ OutboxMove /\ HandledGrows
    BY <1>8, <1>o, <1>h DEF FilterEvent, outboxVars
  <2>a. PICK r \in rest[w] :
          \/ RepeatedInBatch(w, r) /\ Filtered(w, r, fresh[w]) /\ UNCHANGED pos
          \/ InWindow(evt[r]) /\ Filtered(w, r, fresh[w]) /\ TouchSeen(evt[r])
          \/ Filtered(w, r, fresh[w] \cup {r}) /\ UNCHANGED pos
    BY <1>8 DEF FilterEvent
  <2>1. PICK f \in {fresh[w], fresh[w] \cup {r}} :
          /\ Filtered(w, r, f)
          /\ \/ RepeatedInBatch(w, r) /\ f = fresh[w] /\ UNCHANGED pos
             \/ InWindow(evt[r]) /\ f = fresh[w] /\ TouchSeen(evt[r])
             \/ f = fresh[w] \cup {r} /\ UNCHANGED pos
    BY <2>a
  <2>2. r \in 1 .. stored /\ r \in batch[w] /\ evt[r] \in Events
    BY <2>0, <1>t DEF WorkerOK
  <2>3. SeenMove
    <3>1. CASE InWindow(evt[r]) /\ TouchSeen(evt[r])
      BY <3>1, <2>2, NewestOnly DEF TouchSeen, InWindow, SeenMove
    <3> QED BY <2>1, <3>1, <1>p
  <2>4. (\E q \in f : evt[q] = evt[r]) \/ Handled(evt[r])
    <3>1. CASE InWindow(evt[r])
      BY <3>1, <2>2 DEF SafeInv, SeenOnlyAfterAck
    <3> QED BY <2>1, <3>1 DEF RepeatedInBatch
  <2> DEFINE left == rest[w] \ {r}
             Fine(q) == (\E u \in f : evt[u] = evt[q]) \/ Handled(evt[q])
  <2>5. \A q \in batch[w] \ left : Fine(q)
    <3>1. \A q \in batch[w] \ rest[w] : Fine(q)
      BY <2>0, <1>t DEF WorkerOK, Covered
    <3> QED BY <3>1, <2>4
  <2>6. f \subseteq batch[w] /\ batch[w] \subseteq 1 .. stored /\ left \subseteq batch[w]
    BY <2>0, <2>1, <2>2, <1>t DEF WorkerOK
  <2>7. \/ Enter(w, "filter", batch[w], f, left)
        \/ left = {} /\ Enter(w, "publish", batch[w], f, f)
        \/ left = {} /\ f = {} /\ Enter(w, "ack", batch[w], f, {})
    BY <2>1 DEF Filtered
  <2>8. \A q : evt'[q] = evt[q]
    BY <2>0
  <2> HIDE DEF left
  <2>9. /\ \A v \in Workers \ {w} : Stays(v)
        /\ batch'[w] = batch[w] /\ fresh'[w] = f /\ at'[w] = 1
        /\ \/ pc'[w] = "filter" /\ rest'[w] = left
           \/ pc'[w] = "publish" /\ left = {} /\ rest'[w] = f
           \/ pc'[w] = "ack" /\ left = {} /\ f = {} /\ rest'[w] = {}
    BY <2>7, <1>t, EnterMoves
  <2>10. WorkerOK(w)'
    BY <2>0, <2>5, <2>6, <2>8, <2>9 DEF WorkerOK, Covered, Handled
  <2> QED BY <2>0, <2>3, <2>9, <2>10
<1>9. CASE DispatchEvent(w)
  <2>0. /\ pc[w] = "publish" /\ evt' = evt /\ stored' = stored /\ pending' = pending
        /\ OutboxMove /\ SeenMove
    BY <1>9, <1>o, <1>p DEF DispatchEvent, outboxVars
  <2>1. PICK r \in rest[w] :
          /\ IsFirst(r, rest[w])
          /\ handled' = [handled EXCEPT ![evt[r]] = @ \cup {at[w]}]
          /\ Published(w, r)
    BY <1>9 DEF DispatchEvent
  <2>2. r \in 1 .. stored /\ evt[r] \in Events
    BY <1>t DEF WorkerOK
  <2>3. HandledGrows /\ handled'[evt[r]] = handled[evt[r]] \cup {at[w]}
    BY <2>1, <2>2, <1>t DEF HandledGrows
  <2>4. \A q \in 1 .. stored : Handled(evt[q]) => Handled(evt[q])'
    BY <2>0, <2>3, <1>t, HandledKept DEF Handled
  <2>5. 1 .. at[w] - 1 \subseteq handled[evt[r]]
    BY <2>0, <2>1, <1>t DEF WorkerOK
  <2>6. \A q \in batch[w] : Covered(w, q)
    BY <2>0, <1>t DEF WorkerOK
  <2>7. \A q \in fresh[w] \ rest[w] : Handled(evt[q])
    BY <2>0, <1>t DEF WorkerOK
  <2>8. batch[w] \subseteq 1 .. stored /\ fresh[w] \subseteq batch[w] /\ rest[w] \subseteq 1 .. stored
    BY <1>t DEF WorkerOK
  <2>9. CASE at' = [at EXCEPT ![w] = at[w] + 1] /\ UNCHANGED <<pc, batch, fresh, rest>>
    <3>1. at'[w] = at[w] + 1 /\ \A v \in Workers \ {w} : Stays(v)
      BY <2>9, <1>t DEF LocalTypeOK, Stays
    <3>2. 1 .. at'[w] - 1 \subseteq handled'[evt[r]]
      BY <3>1, <2>3, <2>5, <1>t, WorkerAssumption
    <3>3. \A q \in rest[w] : IsFirst(q, rest[w]) => q = r
      BY <2>1, <2>8 DEF IsFirst, TypeOK, OutboxTypeOK
    <3>4. WorkerOK(w)'
      BY <2>0, <2>4, <2>6, <2>7, <2>8, <2>9, <3>2, <3>3 DEF WorkerOK, Covered, IsFirst, Handled
    <3> QED BY <2>0, <2>3, <3>1, <3>4
  <2>10. CASE /\ at[w] = NumSubs
              /\ Enter(w, IF rest[w] \ {r} = {} THEN "ack" ELSE "publish",
                       batch[w], fresh[w], rest[w] \ {r})
    <3> DEFINE left == rest[w] \ {r}
    <3>1. Handled(evt[r])'
      <4>1. handled'[evt[r]] \in SUBSET Subs
        BY <2>2, <2>3, <1>t
      <4>2. Subs \subseteq handled'[evt[r]]
        BY <2>10, <2>3, <2>5, <1>t, WorkerAssumption
      <4> QED BY <4>1, <4>2, <2>0 DEF Handled
    <3>2. /\ \A v \in Workers \ {w} : Stays(v)
          /\ batch'[w] = batch[w] /\ fresh'[w] = fresh[w] /\ rest'[w] = left /\ at'[w] = 1
          /\ pc'[w] = IF left = {} THEN "ack" ELSE "publish"
      BY <2>10, <1>t, EnterMoves
    <3>3. \A q \in fresh[w] \ left : Handled(evt[q])'
      BY <3>1, <2>4, <2>7, <2>8
    <3>4. \A q \in batch[w] : (\E u \in fresh[w] : evt[u] = evt[q]) \/ Handled(evt[q])'
      BY <2>4, <2>6, <2>8 DEF Covered
    <3>5. left \subseteq 1 .. stored
      BY <2>8
    <3> HIDE DEF left
    <3>6. CASE left = {}
      <4>1. \A q \in batch[w] : Handled(evt[q])'
        BY <3>3, <3>4, <3>6, <2>0 DEF Handled
      <4> QED BY <4>1, <3>2, <3>6, <2>0, <2>3, <2>8 DEF WorkerOK
    <3>7. CASE left # {}
      <4>1. WorkerOK(w)'
        BY <3>2, <3>3, <3>4, <3>5, <3>7, <2>0, <2>8 DEF WorkerOK, Covered
      <4> QED BY <4>1, <3>2, <2>0, <2>3
    <3> QED BY <3>6, <3>7
  <2> QED BY <2>1, <2>9, <2>10 DEF Published
<1>10. CASE DispatchFails(w)
  <2>1. /\ \A v \in Workers \ {w} : Stays(v)
        /\ pc'[w] = "nack" /\ batch'[w] = batch[w] /\ fresh'[w] = fresh[w]
        /\ rest'[w] = rest[w]
    BY <1>10, <1>t, EnterMoves DEF DispatchFails
  <2>2. WorkerOK(w)'
    BY <1>10, <1>t, <2>1 DEF DispatchFails, WorkerOK, outboxVars
  <2> QED BY <1>10, <2>1, <2>2, <1>p, <1>o, <1>h DEF DispatchFails
<1>11. CASE AckBatch(w)
  <2>1. batch[w] \in SUBSET 1 .. stored /\ \A r \in batch[w] : Handled(evt[r])
    BY <1>11, <1>t DEF AckBatch, WorkerOK
  <2>2. OutboxMove
    BY <1>11, <2>1 DEF AckBatch, OutboxMove
  <2>3. CASE Enter(w, "mark", {}, {}, fresh[w])
    <3>1. /\ \A v \in Workers \ {w} : Stays(v)
          /\ pc'[w] = "mark" /\ batch'[w] = {} /\ fresh'[w] = {} /\ rest'[w] = fresh[w]
      BY <2>3, <1>t, EnterMoves
    <3>2. fresh[w] \subseteq batch[w]
      BY <1>t DEF WorkerOK
    <3>3. WorkerOK(w)'
      BY <1>11, <2>1, <3>1, <3>2 DEF AckBatch, RemoveRecords, WorkerOK, Handled
    <3> QED BY <1>11, <2>2, <3>1, <3>3, <1>p, <1>h DEF AckBatch
  <2> QED BY <1>11, <2>2, <2>3, <1>e, <1>p, <1>h DEF AckBatch, AfterAck
<1>12. CASE MarkEvent(w)
  <2>0. /\ pc[w] = "mark" /\ evt' = evt /\ stored' = stored /\ pending' = pending
        /\ handled' = handled /\ OutboxMove /\ HandledGrows
    BY <1>12, <1>o, <1>h DEF MarkEvent, outboxVars
  <2>1. PICK r \in rest[w] :
          /\ MarkSeen(evt[r])
          /\ Again(w) \/ Enter(w, "mark", {}, {}, rest[w] \ {r})
    BY <1>12 DEF MarkEvent
  <2>2. r \in 1 .. stored /\ evt[r] \in Events /\ Handled(evt[r]) /\ r \notin pending
    BY <2>0, <1>t DEF WorkerOK
  <2>3. SeenMove
    BY <2>1, <2>2, NewestOnly DEF MarkSeen, SeenMove
  <2>4. CASE Enter(w, "mark", {}, {}, rest[w] \ {r})
    <3>1. /\ \A v \in Workers \ {w} : Stays(v)
          /\ pc'[w] = "mark" /\ batch'[w] = {} /\ fresh'[w] = {} /\ rest'[w] = rest[w] \ {r}
      BY <2>4, <1>t, EnterMoves
    <3>2. WorkerOK(w)'
      BY <2>0, <3>1, <1>t DEF WorkerOK, Handled
    <3> QED BY <2>0, <2>3, <3>1, <3>2
  <2> QED BY <2>0, <2>1, <2>3, <2>4, <1>e
<1> QED BY <1>1, <1>2, <1>3, <1>4, <1>5, <1>6, <1>7, <1>8, <1>9, <1>10, <1>11, <1>12
        DEF WorkerStep, WorkerError

\* The invariant is inductive.
LEMMA SafeStep == TypeOK /\ TypeOK' /\ SafeInv /\ [Next]_vars => SafeInv'
<1> SUFFICES ASSUME TypeOK, TypeOK', SafeInv, [Next]_vars PROVE SafeInv'
  OBVIOUS
<1> USE DEF SafeInv
<1>1. ASSUME NEW w \in Workers,
             WorkerStep(w) \/ WorkerError(w) \/ Cancel(w) \/ Restart(w)
      PROVE SafeInv'
  <2>1. /\ OutboxMove /\ HandledGrows /\ SeenMove
        /\ WorkerOK(w)' /\ \A v \in Workers \ {w} : Stays(v)
    BY <1>1, WorkerMoves
  <2>2. RecordsOK' /\ NoRecordLost' /\ Keeps
    BY <2>1, RecordsStep
  <2>3. \A v \in Workers : WorkerOK(v)'
    BY <2>1, <2>2, WorkerFrame
  <2>4. SeenOnlyAfterAck'
    BY <2>1, <2>2, SeenFrame
  <2> QED BY <2>2, <2>3, <2>4
<1>2. ASSUME OutboxMove, HandledGrows, SeenMove,
             \A v \in Workers : Stays(v) \/ WorkerOK(v)'
      PROVE SafeInv'
  <2>1. RecordsOK' /\ NoRecordLost' /\ Keeps
    BY <1>2, RecordsStep
  <2>2. \A v \in Workers : WorkerOK(v)'
    BY <1>2, <2>1, WorkerFrame
  <2> QED BY <1>2, <2>1, <2>2, SeenFrame
<1>3. CASE Store
  <2>1. OutboxMove
    BY <1>3, OutboxAssumption DEF Store, OutboxMove
  <2>2. HandledGrows /\ SeenMove /\ \A v \in Workers : Stays(v)
    BY <1>3 DEF Store, HandledGrows, SeenMove, Stays, localVars
  <2> QED BY <2>1, <2>2, <1>2
<1>4. CASE Crash
  <2>1. OutboxMove /\ HandledGrows
    BY <1>4 DEF Crash, OutboxMove, HandledGrows
  <2>2. SeenMove
    BY <1>4 DEF Crash, SeenMove, SeenAfterRestart
  <2>3. ASSUME NEW v \in Workers PROVE WorkerOK(v)'
    <3>1. pc'[v] = "stopped" /\ batch'[v] = {} /\ fresh'[v] = {} /\ rest'[v] = {}
      BY <1>4 DEF Crash
    <3> QED BY <3>1 DEF WorkerOK
  <2> QED BY <2>1, <2>2, <2>3, <1>2
<1>5. CASE UNCHANGED vars
  <2>1. OutboxMove /\ HandledGrows /\ SeenMove /\ \A v \in Workers : Stays(v)
    BY <1>5 DEF vars, localVars, OutboxMove, HandledGrows, SeenMove, Stays
  <2> QED BY <2>1, <1>2
<1> QED BY <1>1, <1>3, <1>4, <1>5 DEF Next

\* The invariant holds in every reachable state.
THEOREM SafeInvariant == Spec => [](TypeOK /\ SafeInv)
<1>1. Init => TypeOK
  BY OutboxAssumption, SeenAssumption, WorkerAssumption
     DEF Init, TypeOK, OutboxInit, OutboxTypeOK, SeenInit, SeenTypeOK, LocalTypeOK, Steps
<1>2. Init => SafeInv
  <2> SUFFICES ASSUME Init PROVE SafeInv
    OBVIOUS
  <2>1. RecordsOK /\ NoRecordLost
    BY OutboxAssumption DEF Init, OutboxInit, RecordsOK, NoRecordLost
  <2>2. SeenOnlyAfterAck
    BY DEF Init, SeenInit, SeenOnlyAfterAck, InWindow
  <2>3. ASSUME NEW w \in Workers PROVE WorkerOK(w)
    BY DEF Init, WorkerOK
  <2> QED BY <2>1, <2>2, <2>3 DEF SafeInv
<1> QED BY <1>1, <1>2, TypeStep, SafeStep, PTL DEF Spec

\* Whatever the workers, the errors and the crashes: a record that has left
\* the pending file is a dead letter or every subscriber handled its event.
THEOREM RecordsAreNotLost == Spec => []NoRecordLost
<1>1. SafeInv => NoRecordLost
  BY DEF SafeInv
<1> QED BY <1>1, SafeInvariant, PTL

\* An event ID is in the seen store only after every subscriber handled the
\* event and a record of it was acked or dead-lettered.
THEOREM SeenFollowsAck == Spec => []SeenOnlyAfterAck
<1>1. SafeInv => SeenOnlyAfterAck
  BY DEF SafeInv
<1> QED BY <1>1, SafeInvariant, PTL

-----------------------------------------------------------------------------
(* The workers over the outbox implement AtLeastOnce.                      *)

\* A step of the outbox is a step of the promise, or one it does not see.
LEMMA OutboxRefines ==
  ASSUME TypeOK, TypeOK', SafeInv, RecordsOK', OutboxMove, handled' = handled
  PROVE  (\E S \in SUBSET Records : Promise!Store(S) \/ Promise!End(S))
         \/ UNCHANGED Promise!promiseVars
<1>t. /\ stored \in 0 .. MaxRecords /\ stored' \in 0 .. MaxRecords /\ MaxRecords \in Nat
      /\ deadRows \in [Records -> Nat] /\ deadRows' \in [Records -> Nat]
      /\ evt \in [Records -> Events \cup {NoEvent}]
      /\ evt' \in [Records -> Events \cup {NoEvent}]
      /\ RecordsOK /\ NoRecordLost
  BY OutboxAssumption DEF TypeOK, OutboxTypeOK, SafeInv
<1>1. ASSUME evt' = evt, stored' = stored, pending' \subseteq pending,
             \A r \in Records \ pending : deadRows'[r] = deadRows[r],
             \A r \in pending \ pending' : deadRows'[r] > 0 \/ Handled(evt[r])
      PROVE Promise!End(pending \ pending')
  <2>1. \A r \in pending \ pending' :
          /\ r \in Records /\ Status(r) = "pending"
          /\ Status(r)' \in {"done", "dead"}
          /\ Status(r)' = "done" => Handled(evt[r])
    BY <1>1, <1>t DEF Status, RecordsOK
  <2>2. \A r \in Records \ (pending \ pending') : Status(r)' = Status(r)
    BY <1>1, <1>t DEF Status, RecordsOK
  <2> QED BY <2>1, <2>2, <1>1 DEF Promise!End, Handled
<1>2. CASE UNCHANGED outboxVars
  BY <1>2 DEF outboxVars, Promise!promiseVars, Status
<1>3. CASE \E S \in SUBSET Records : MarkRecordsFailed(S) \/ MarkRecordsHalfFailed(S)
  <2>1. Promise!End(pending \ pending')
    BY <1>3, <1>1, MarkFailedKeepsRecords
  <2> QED BY <2>1, <1>t DEF TypeOK, OutboxTypeOK
<1>4. CASE \E S \in SUBSET 1 .. stored : RemoveRecords(S) /\ \A r \in S : Handled(evt[r])
  <2>1. Promise!End(pending \ pending')
    BY <1>4, <1>1 DEF RemoveRecords
  <2> QED BY <2>1 DEF TypeOK, OutboxTypeOK
<1>5. CASE \E n \in Nat : \E es \in [1 .. n -> Events] : StoreEvents(es)
  <2>0. PICK n \in Nat : \E es \in [1 .. n -> Events] : StoreEvents(es)
    BY <1>5
  <2>1. PICK es \in [1 .. n -> Events] : StoreEvents(es)
    BY <2>0
  <2>2. Len(es) \in Nat
    BY StoredSequence
  <2> DEFINE k == Len(es)
             new == stored + 1 .. stored + k
  <2>3. /\ stored' = stored + k /\ stored + k <= MaxRecords
        /\ pending' = pending \cup new /\ deadRows' = deadRows
        /\ evt' = [r \in Records |-> IF r \in new THEN es[r - stored] ELSE evt[r]]
    BY <2>1 DEF StoreEvents
  <2>4. k \in Nat
    BY <2>2
  <2> HIDE DEF k
  <2>5. new \in SUBSET Records /\ new \subseteq 1 .. stored'
    BY <2>3, <2>4, <1>t
  <2>6. \A r \in new : Status(r) = "absent" /\ Status(r)' = "pending" /\ evt'[r] \in Events
    <3> SUFFICES ASSUME NEW r \in new
                 PROVE Status(r) = "absent" /\ Status(r)' = "pending" /\ evt'[r] \in Events
      OBVIOUS
    <3>1. r \in Nat /\ r > stored /\ ~ (r > stored') /\ r \in pending'
      BY <2>3, <2>4, <1>t
    <3>2. evt'[r] \in Events
      BY <2>5 DEF RecordsOK
    <3> QED BY <3>1, <3>2 DEF Status
  <2>7. \A r \in Records \ new : Status(r)' = Status(r) /\ evt'[r] = evt[r]
    BY <2>3, <2>4, <1>t DEF Status, RecordsOK
  <2>8. Promise!Store(new)
    BY <2>5, <2>6, <2>7 DEF Promise!Store
  <2> QED BY <2>5, <2>8
<1> QED BY <1>2, <1>3, <1>4, <1>5 DEF OutboxMove

\* Which steps leave the history of the subscribers alone.
LEMMA OnlyDispatchHandles ==
  ASSUME NEW w \in Workers,
         WorkerStep(w) \/ WorkerError(w) \/ Cancel(w) \/ Restart(w)
  PROVE  handled' = handled \/ DispatchEvent(w)
  BY DEF WorkerStep, WorkerError, Cancel, Restart, ReceiveNothing, ReceiveBatch,
         FilterEvent, FilterCanceled, DispatchFails, NackBatch, Backoff, AckBatch,
         MarkEvent, StoreCallCanceled, ReceiveError, FilterError, NackError, AckError,
         MarkError, StopOnly

\* The workers over the outbox implement the abstract specification: every
\* step is one of its steps or leaves its state alone.
THEOREM WorkersDeliverAtLeastOnce == Spec => ImplementsAtLeastOnce
<1>1. Init => Promise!Init
  <2> SUFFICES ASSUME Init PROVE Promise!Init
    OBVIOUS
  <2>1. \A r \in Records : Status(r) = "absent"
    BY OutboxAssumption DEF Init, OutboxInit, Status
  <2> QED BY <2>1 DEF Init, OutboxInit, Promise!Init
<1>2. TypeOK /\ TypeOK' /\ SafeInv /\ SafeInv' /\ [Next]_vars
        => [Promise!Next]_(Promise!promiseVars)
  <2> SUFFICES ASSUME TypeOK, TypeOK', SafeInv, SafeInv', [Next]_vars
               PROVE Promise!Next \/ UNCHANGED Promise!promiseVars
    OBVIOUS
  <2>r. RecordsOK'
    BY DEF SafeInv
  <2>1. OutboxMove /\ handled' = handled => Promise!Next \/ UNCHANGED Promise!promiseVars
    BY <2>r, OutboxRefines DEF Promise!Next
  <2>2. CASE Store \/ Crash \/ UNCHANGED vars
    <3>1. OutboxMove /\ handled' = handled
      BY <2>2, OutboxAssumption DEF Store, Crash, vars, OutboxMove
    <3> QED BY <3>1, <2>1
  <2>3. ASSUME NEW w \in Workers,
               WorkerStep(w) \/ WorkerError(w) \/ Cancel(w) \/ Restart(w)
        PROVE Promise!Next \/ UNCHANGED Promise!promiseVars
    <3>1. CASE handled' = handled
      BY <2>3, <3>1, <2>1, WorkerMoves
    <3>2. CASE DispatchEvent(w)
      <4>1. PICK r \in rest[w] : handled' = [handled EXCEPT ![evt[r]] = @ \cup {at[w]}]
        BY <3>2 DEF DispatchEvent
      <4>2. r \in Records /\ evt[r] \in Events /\ at[w] \in Subs
        BY DEF TypeOK, LocalTypeOK, OutboxTypeOK, SafeInv, WorkerOK, RecordsOK
      <4>3. UNCHANGED outboxVars
        BY <3>2 DEF DispatchEvent
      <4>4. handled' = [e \in Events |-> IF e \in {evt[r]} THEN handled[e] \cup {at[w]}
                                                          ELSE handled[e]]
        BY <4>1, <4>2 DEF TypeOK
      <4>5. Promise!Handle({evt[r]}, at[w])
        BY <4>2, <4>3, <4>4 DEF Promise!Handle, outboxVars, Status
      <4> QED BY <4>2, <4>5 DEF Promise!Next
    <3> QED BY <2>3, <3>1, <3>2, OnlyDispatchHandles
  <2> QED BY <2>2, <2>3 DEF Next
<1> QED BY <1>1, <1>2, SafeInvariant, PTL DEF Spec, ImplementsAtLeastOnce, Promise!Spec
-----------------------------------------------------------------------------
(* The dead-letter policy.                                                 *)

\* Inductive with AttemptsBelowLimit: a record starts without attempts.
DeadLetterInv ==
  /\ DeadLetterOnce
  /\ AttemptsBelowLimit
  /\ \A r \in Records : r > stored => attempts[r] = 0

\* markRecordsFailedLocked keeps the policy, also when its second write fails.
LEMMA MarkFailedKeepsPolicy ==
  ASSUME TypeOK, DeadLetterInv, NEW S \in SUBSET Records, RecordsOK,
         MarkRecordsFailed(S) \/ MarkRecordsHalfFailed(S)
  PROVE  DeadLetterInv'
<1>t. /\ stored \in Nat /\ MaxRecords \in Nat /\ pending \subseteq Records
      /\ pending \subseteq 1 .. stored
      /\ attempts \in [Records -> 0 .. AttemptCap] /\ deadRows \in [Records -> Nat]
      /\ MaxAttempts \in Nat /\ AttemptCap \in Nat
  BY OutboxAssumption DEF TypeOK, OutboxTypeOK, RecordsOK
<1>1. DeadLetterOnce'
  <2>1. deadRows' = AppendDeadRows(NewlyDead(S))
    BY DEF MarkRecordsFailed, MarkRecordsHalfFailed
  <2> QED BY <2>1, <1>t DEF AppendDeadRows, DeadLetterOnce, DeadLetterInv
<1>2. CASE MarkRecordsFailed(S)
  <2>1. /\ stored' = stored /\ pending' = pending \ NewlyDead(S)
        /\ attempts' = BumpAttempts(S)
    BY <1>2 DEF MarkRecordsFailed
  <2>2. \A r \in Records : attempts'[r] = attempts[r]
          \/ (r \in pending \cap S /\ attempts'[r] = attempts[r] + 1)
    BY <2>1, <1>t DEF BumpAttempts
  <2>3. ASSUME MaxAttempts > 0, NEW r \in pending' PROVE attempts'[r] < MaxAttempts
    <3>1. r \in pending /\ r \in Records /\ attempts[r] < MaxAttempts /\ attempts[r] \in Nat
      BY <2>1, <2>3, <1>t DEF DeadLetterInv, AttemptsBelowLimit
    <3>2. r \in S => attempts[r] + 1 < MaxAttempts
      BY <2>1, <2>3, <3>1, <1>t DEF NewlyDead
    <3> QED BY <2>2, <3>1, <3>2, <1>t
  <2>4. \A r \in Records : r > stored => attempts'[r] = 0
    BY <2>2, <1>t DEF DeadLetterInv
  <2> QED BY <1>1, <2>1, <2>3, <2>4 DEF DeadLetterInv, AttemptsBelowLimit
<1>3. CASE MarkRecordsHalfFailed(S)
  BY <1>1, <1>3 DEF MarkRecordsHalfFailed, DeadLetterInv, AttemptsBelowLimit
<1> QED BY <1>2, <1>3

\* Whatever the outbox does keeps the policy.
LEMMA PolicyStep ==
  ASSUME TypeOK, RecordsOK, DeadLetterInv, OutboxMove PROVE DeadLetterInv'
<1> USE DEF DeadLetterInv, DeadLetterOnce, AttemptsBelowLimit
<1>1. CASE UNCHANGED outboxVars
  BY <1>1 DEF outboxVars
<1>2. CASE \E S \in SUBSET Records : MarkRecordsFailed(S) \/ MarkRecordsHalfFailed(S)
  BY <1>2, MarkFailedKeepsPolicy
<1>3. CASE \E S \in SUBSET 1 .. stored : RemoveRecords(S) /\ \A r \in S : Handled(evt[r])
  BY <1>3 DEF RemoveRecords
<1>4. CASE \E n \in Nat : \E es \in [1 .. n -> Events] : StoreEvents(es)
  <2>1. PICK n \in Nat : \E es \in [1 .. n -> Events] : StoreEvents(es)
    BY <1>4
  <2>2. PICK es \in [1 .. n -> Events] : StoreEvents(es)
    BY <2>1
  <2>3. Len(es) \in Nat
    BY StoredSequence
  <2> DEFINE k == Len(es)
  <2>4. /\ stored' = stored + k /\ stored + k <= MaxRecords
        /\ pending' = pending \cup (stored + 1 .. stored + k)
        /\ attempts' = attempts /\ deadRows' = deadRows
    BY <2>2 DEF StoreEvents
  <2>5. k \in Nat /\ stored \in Nat /\ MaxRecords \in Nat
    BY <2>3, OutboxAssumption DEF TypeOK, OutboxTypeOK
  <2> HIDE DEF k
  <2>6. \A r \in stored + 1 .. stored + k : r \in Records /\ r > stored
    BY <2>4, <2>5
  <2>7. MaxAttempts > 0 => \A r \in pending' : attempts[r] < MaxAttempts
    BY <2>4, <2>6, OutboxAssumption
  <2>8. \A r \in Records : r > stored' => attempts[r] = 0
    BY <2>4, <2>5
  <2> QED BY <2>4, <2>7, <2>8
<1> QED BY <1>1, <1>2, <1>3, <1>4 DEF OutboxMove

\* The dead-letter policy holds in every reachable state.
THEOREM DeadLetterPolicy == Spec => []DeadLetterInv
<1>1. Init => DeadLetterInv
  BY OutboxAssumption DEF Init, OutboxInit, DeadLetterInv, DeadLetterOnce, AttemptsBelowLimit
<1>2. TypeOK /\ TypeOK' /\ SafeInv /\ DeadLetterInv /\ [Next]_vars => DeadLetterInv'
  <2> SUFFICES ASSUME TypeOK, TypeOK', SafeInv, DeadLetterInv, [Next]_vars
               PROVE DeadLetterInv'
    OBVIOUS
  <2>1. OutboxMove
    <3>1. CASE Store \/ Crash \/ UNCHANGED vars
      BY <3>1, OutboxAssumption DEF Store, Crash, vars, OutboxMove
    <3>2. ASSUME NEW w \in Workers,
                 WorkerStep(w) \/ WorkerError(w) \/ Cancel(w) \/ Restart(w)
          PROVE OutboxMove
      BY <3>2, WorkerMoves
    <3> QED BY <3>1, <3>2 DEF Next
  <2> QED BY <2>1, PolicyStep DEF SafeInv
<1> QED BY <1>1, <1>2, SafeInvariant, PTL DEF Spec

\* No record stays pending with its attempts used up.
THEOREM AttemptsAreLimited == Spec => []AttemptsBelowLimit
<1>1. DeadLetterInv => AttemptsBelowLimit
  BY DEF DeadLetterInv
<1> QED BY <1>1, DeadLetterPolicy, PTL

\* No record has two rows in the dead-letter file.
THEOREM OneDeadLetter == Spec => []DeadLetterOnce
<1>1. DeadLetterInv => DeadLetterOnce
  BY DEF DeadLetterInv
<1> QED BY <1>1, DeadLetterPolicy, PTL

-----------------------------------------------------------------------------
(* No redispatch: with one worker over a seen store, what the filter has   *)
(* let through holds no event twice and none that is in the window, and    *)
(* the window gains no event before the worker is through with the batch.  *)

\* The records of S carry different events, none of them in the window.
Unseen(S) ==
  /\ \A r \in S : ~InWindow(evt[r])
  /\ \A r, q \in S : evt[r] = evt[q] => r = q

DedupInv ==
  \A w \in Workers : /\ pc[w] = "filter" => Unseen(fresh[w])
                     /\ pc[w] = "publish" => Unseen(rest[w])

WindowGainsNothing == \A x \in Events : pos'[x] > 0 => pos[x] > 0

\* Every step keeps what no step takes back.
LEMMA StepKeeps ==
  ASSUME TypeOK, TypeOK', SafeInv, [Next]_vars
  PROVE  Keeps
<1>1. OutboxMove /\ HandledGrows
  <2>1. ASSUME NEW w \in Workers,
               WorkerStep(w) \/ WorkerError(w) \/ Cancel(w) \/ Restart(w)
        PROVE OutboxMove /\ HandledGrows
    BY <2>1, WorkerMoves
  <2>2. CASE Store
    BY <2>2, OutboxAssumption DEF Store, OutboxMove, HandledGrows
  <2>3. CASE Crash
    BY <2>3 DEF Crash, OutboxMove, HandledGrows
  <2>4. CASE UNCHANGED vars
    BY <2>4 DEF vars, OutboxMove, HandledGrows
  <2> QED BY <2>1, <2>2, <2>3, <2>4 DEF Next
<1> QED BY <1>1, RecordsStep DEF SafeInv

\* What was unseen stays unseen while the window gains nothing.
LEMMA UnseenKept ==
  ASSUME TypeOK, RecordsOK, Keeps, WindowGainsNothing,
         NEW S, S \subseteq 1 .. stored, Unseen(S)
  PROVE  Unseen(S)'
<1>1. \A r \in S : evt'[r] = evt[r] /\ evt[r] \in Events
  BY DEF Keeps, RecordsOK
<1>2. \A r \in S : ~(pos'[evt[r]] > 0)
  BY <1>1 DEF Unseen, InWindow, WindowGainsNothing
<1> QED BY <1>1, <1>2 DEF Unseen, InWindow

\* A hit moves an entry, and adds none.
LEMMA TouchGainsNothing ==
  ASSUME TypeOK, NEW e \in Events, InWindow(e), TouchSeen(e)
  PROVE  WindowGainsNothing
<1>1. pos' = pos \/ pos' = MakeNewest(e)
  BY DEF TouchSeen
<1>2. \A x \in Events : x # e /\ MakeNewest(e)[x] > 0 => pos[x] > 0
  BY NewestOnly
<1> QED BY <1>1, <1>2 DEF WindowGainsNothing, InWindow

\* One visit of the filter, by the event it visits: a repetition and an event
\* in the window are dropped, and what is let through is new to both.
LEMMA FilterKeepsUnseen ==
  ASSUME TypeOK, TypeOK', SafeInv, DedupInv, Keeps, NEW w \in Workers, FilterEvent(w)
  PROVE  /\ pc'[w] = "filter" => Unseen(fresh[w])'
         /\ pc'[w] = "publish" => Unseen(rest[w])'
<1>0. PICK r \in rest[w] :
        \/ RepeatedInBatch(w, r) /\ Filtered(w, r, fresh[w]) /\ UNCHANGED pos
        \/ InWindow(evt[r]) /\ TouchSeen(evt[r]) /\ Filtered(w, r, fresh[w])
        \/ /\ ~RepeatedInBatch(w, r) /\ ~InWindow(evt[r])
           /\ Filtered(w, r, fresh[w] \cup {r}) /\ UNCHANGED pos
  BY DEF FilterEvent
<1>1. /\ pc[w] = "filter" /\ Unseen(fresh[w]) /\ RecordsOK /\ LocalTypeOK
      /\ fresh[w] \subseteq 1 .. stored /\ r \in 1 .. stored /\ evt[r] \in Events
  BY DEF FilterEvent, DedupInv, SafeInv, WorkerOK, RecordsOK, TypeOK
<1>2. WindowGainsNothing
  BY <1>0, <1>1, TouchGainsNothing DEF WindowGainsNothing
<1>3. PICK f : /\ Filtered(w, r, f) /\ f \subseteq 1 .. stored
               /\ Unseen(f)
  <2>1. CASE Filtered(w, r, fresh[w])
    BY <2>1, <1>1
  <2>2. CASE /\ ~RepeatedInBatch(w, r) /\ ~InWindow(evt[r])
             /\ Filtered(w, r, fresh[w] \cup {r})
    <3>1. Unseen(fresh[w] \cup {r})
      BY <2>2, <1>1 DEF Unseen, RepeatedInBatch
    <3> QED BY <3>1, <2>2, <1>1
  <2> QED BY <1>0, <2>1, <2>2
<1>4. \/ pc'[w] = "filter" /\ fresh'[w] = f
      \/ pc'[w] = "publish" /\ rest'[w] = f
      \/ pc'[w] = "ack"
  <2> DEFINE left == rest[w] \ {r}
  <2>1. \/ Enter(w, "filter", batch[w], f, left)
        \/ Enter(w, "publish", batch[w], f, f)
        \/ Enter(w, "ack", batch[w], f, {})
    BY <1>3 DEF Filtered
  <2> HIDE DEF left
  <2> QED BY <2>1, <1>1, EnterMoves
<1>5. Unseen(f)'
  BY <1>1, <1>2, <1>3, UnseenKept
<1> QED BY <1>4, <1>5 DEF Unseen

\* The worker's step keeps what it holds unseen.
LEMMA DedupStep ==
  ASSUME SeenKind # "none", \A w, v \in Workers : w = v,
         TypeOK, TypeOK', SafeInv, DedupInv, [Next]_vars
  PROVE  DedupInv'
<1>k. Keeps
  BY StepKeeps
<1>t. LocalTypeOK /\ RecordsOK
  BY DEF TypeOK, SafeInv
<1>f. ASSUME UNCHANGED pos, NEW w \in Workers, pc'[w] = pc[w], fresh'[w] = fresh[w],
             rest'[w] \subseteq rest[w]
      PROVE /\ pc'[w] = "filter" => Unseen(fresh[w])'
            /\ pc'[w] = "publish" => Unseen(rest[w])'
  <2>1. WindowGainsNothing /\ fresh[w] \subseteq 1 .. stored /\ rest[w] \subseteq 1 .. stored
    BY <1>f DEF WindowGainsNothing, SafeInv, WorkerOK
  <2>2. pc[w] = "filter" => Unseen(fresh[w])
    BY DEF DedupInv
  <2>3. pc[w] = "publish" => Unseen(rest'[w])
    BY <1>f DEF DedupInv, Unseen
  <2>4. pc[w] = "filter" => \A S : S = fresh[w] => Unseen(S)'
    BY <2>1, <2>2, <1>k, <1>t, UnseenKept
  <2>5. pc[w] = "publish" => \A S : S = rest'[w] => Unseen(S)'
    BY <2>1, <2>3, <1>f, <1>k, <1>t, UnseenKept
  <2> QED BY <2>4, <2>5, <1>f DEF Unseen
<1>1. ASSUME NEW w \in Workers,
             WorkerStep(w) \/ WorkerError(w) \/ Cancel(w) \/ Restart(w)
      PROVE /\ pc'[w] = "filter" => Unseen(fresh[w])'
            /\ pc'[w] = "publish" => Unseen(rest[w])'
  <2>e. ASSUME NEW p \in Steps \ {"filter", "publish"}, NEW b, NEW f, NEW r,
               Enter(w, p, b, f, r)
        PROVE pc'[w] # "filter" /\ pc'[w] # "publish"
    BY <2>e, <1>t, EnterMoves
  <2>s. Stop(w) \/ Again(w) => pc'[w] # "filter" /\ pc'[w] # "publish"
    BY <2>e DEF Stop, Again, Steps
  <2>1. CASE ReceiveBatch(w)
    <3> DEFINE good == Selected \ Failed(Selected)
    <3>1. Stop(w) \/ Enter(w, "filter", good, {}, good)
      BY <2>1 DEF ReceiveBatch
    <3> HIDE DEF good
    <3>2. Enter(w, "filter", good, {}, good) => pc'[w] = "filter" /\ fresh'[w] = {}
      BY <1>t, EnterMoves
    <3> QED BY <3>1, <3>2, <2>s DEF Unseen
  <2>2. CASE FilterEvent(w)
    BY <2>2, <1>k, FilterKeepsUnseen
  <2>3. CASE DispatchEvent(w)
    <3>1. PICK r \in rest[w] : Published(w, r)
      BY <2>3 DEF DispatchEvent
    <3>2. pc[w] = "publish" /\ UNCHANGED pos
      BY <2>3 DEF DispatchEvent
    <3>3. \/ UNCHANGED <<pc, batch, fresh, rest>>
          \/ Enter(w, "ack", batch[w], fresh[w], rest[w] \ {r})
          \/ Enter(w, "publish", batch[w], fresh[w], rest[w] \ {r})
      BY <3>1 DEF Published
    <3>4. CASE Enter(w, "publish", batch[w], fresh[w], rest[w] \ {r})
      <4>1. pc'[w] = "publish" /\ fresh'[w] = fresh[w] /\ rest'[w] = rest[w] \ {r}
        BY <3>4, <1>t, EnterMoves
      <4> QED BY <4>1, <3>2, <1>f
    <3>5. CASE Enter(w, "ack", batch[w], fresh[w], rest[w] \ {r})
      BY <3>5, <2>e DEF Steps
    <3> QED BY <3>2, <3>3, <3>4, <3>5, <1>f
  <2>4. CASE DispatchFails(w) \/ NackBatch(w)
    BY <2>4, <2>e DEF DispatchFails, NackBatch, Steps
  <2>5. CASE AckBatch(w)
    BY <2>5, <2>e, <2>s DEF AckBatch, AfterAck, Steps
  <2>6. CASE MarkEvent(w)
    BY <2>6, <2>e, <2>s DEF MarkEvent, Steps
  <2>7. CASE ReceiveNothing(w) \/ FilterCanceled(w) \/ Backoff(w) \/ StoreCallCanceled(w)
    BY <2>7, <2>s DEF ReceiveNothing, FilterCanceled, Backoff, StoreCallCanceled, StopOnly
  <2>8. CASE WorkerError(w)
    BY <2>8, <2>s DEF WorkerError, ReceiveError, FilterError, NackError, AckError,
                      MarkError, StopOnly
  <2>9. CASE Cancel(w)
    BY <2>9, <1>f DEF Cancel, localVars
  <2>10. CASE Restart(w)
    BY <2>10, <2>s DEF Restart
  <2> QED BY <1>1, <2>1, <2>2, <2>3, <2>4, <2>5, <2>6, <2>7, <2>8, <2>9, <2>10
          DEF WorkerStep
<1>2. CASE Store
  BY <1>2, <1>f DEF Store, localVars, DedupInv
<1>3. CASE Crash
  BY <1>3 DEF Crash, DedupInv
<1>4. CASE UNCHANGED vars
  BY <1>4, <1>f DEF vars, localVars, DedupInv
<1> QED BY <1>1, <1>2, <1>3, <1>4 DEF Next, DedupInv

\* unseenEvents with one worker and a seen store: no batch gives a subscriber
\* an event twice, nor an event the store still knows, whatever is canceled,
\* fails, crashes or is stored again under an old ID.
THEOREM OneWorkerDoesNotRedispatch ==
  ASSUME SeenKind # "none", \A w, v \in Workers : w = v
  PROVE  Spec => []NoRedispatchInWindow
<1>1. Init => DedupInv
  BY DEF Init, DedupInv
<1>2. TypeOK /\ TypeOK' /\ SafeInv /\ DedupInv /\ [Next]_vars => DedupInv'
  BY DedupStep
<1>3. DedupInv => NoRedispatchInWindow
  BY DEF DedupInv, Unseen, NoRedispatchInWindow
<1> QED BY <1>1, <1>2, <1>3, SafeInvariant, PTL DEF Spec
=============================================================================
