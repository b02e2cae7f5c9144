-------------------------- MODULE TraceExportProofs --------------------------
(***************************************************************************)
(* Theorems about TraceExport, for any capacity, any number of spans, of   *)
(* goroutine places and of callers of Flush.                               *)
(***************************************************************************)
EXTENDS TraceExport, FiniteSetTheorems, TLAPS

USE DEF Spans

(***************************************************************************)
(* The inductive invariant.  The spans are exported in order by one        *)
(* goroutine, so at every moment the numbers up to completed are exported, *)
(* at most one more is with the goroutine and the rest is the queue.       *)
(***************************************************************************)
WorkerInv ==
  /\ SingleWorker
  /\ workerRunning <=> \E g \in Goroutines : Alive(g)
  /\ ~workerRunning => queue = {}

OrderInv ==
  /\ completed <= accepted
  /\ (\A g \in Goroutines : drain[g] \in {"none", "next"}) =>
       /\ queue = completed + 1 .. accepted
       /\ exported = 1 .. completed
  /\ \A g \in Goroutines : drain[g] \in {"export", "finish"} =>
       /\ completed < accepted
       /\ span[g] = completed + 1
       /\ queue = completed + 2 .. accepted
       /\ exported = IF drain[g] = "export" THEN 1 .. completed ELSE 1 .. completed + 1

FlushInv == \A f \in Flushers : flush[f] = "flushed" => target[f] <= completed

Inv == TypeOK /\ WorkerInv /\ OrderInv /\ FlushInv

\* Taking a number from a finite set of naturals, or adding one, changes its
\* size by at most one.
LEMMA QueueSize ==
  ASSUME NEW S, IsFiniteSet(S), NEW n
  PROVE  /\ Cardinality(S) \in Nat
         /\ Cardinality(S \ {n}) <= Cardinality(S)
         /\ Cardinality(S \cup {n}) <= Cardinality(S) + 1
<1>1. Cardinality(S) \in Nat
  BY FS_CardinalityType
<1>2. Cardinality(S \ {n}) <= Cardinality(S)
  BY <1>1, FS_RemoveElement
<1>3. Cardinality(S \cup {n}) <= Cardinality(S) + 1
  BY <1>1, FS_AddElement, FS_CardinalityType
<1> QED BY <1>1, <1>2, <1>3

\* The queue is finite.
LEMMA QueueFinite ==
  ASSUME TypeOK
  PROVE  IsFiniteSet(queue)
<1>1. IsFiniteSet(1 .. MaxSpans)
  BY ExportAssumption, FS_Interval
<1> QED BY <1>1, FS_Subset DEF TypeOK, QueueOK

\* The counters are numbers, in order.
LEMMA Numbers ==
  ASSUME TypeOK
  PROVE  /\ MaxSpans \in Nat /\ ended \in Nat /\ accepted \in Nat /\ completed \in Nat
         /\ accepted <= ended /\ ended <= MaxSpans /\ completed <= MaxSpans
  BY ExportAssumption DEF TypeOK, CountersOK

\* Every step keeps the invariant.
LEMMA InvStep == Inv /\ [Next]_vars => Inv'
<1> SUFFICES ASSUME Inv, [Next]_vars PROVE Inv'
  OBVIOUS
<1>i. TypeOK /\ WorkerInv /\ OrderInv /\ FlushInv
  BY DEF Inv
<1>a. SUFFICES TypeOK' /\ WorkerInv' /\ OrderInv' /\ FlushInv'
  BY DEF Inv
<1>q. Cardinality(queue) \in Nat /\ IsFiniteSet(queue) /\ Cardinality(queue) <= Capacity
  BY <1>i, QueueFinite, FS_CardinalityType DEF TypeOK, QueueOK
<1>n. /\ MaxSpans \in Nat /\ ended \in Nat /\ accepted \in Nat /\ completed \in Nat
      /\ accepted <= ended /\ ended <= MaxSpans /\ completed <= MaxSpans
  BY <1>i, Numbers
<1>t. CountersOK /\ FlagsOK /\ QueueOK /\ DrainOK /\ FlushOK
  BY <1>i DEF TypeOK
<1>1. CASE UNCHANGED vars
  <2>1. TypeOK'
    BY <1>1, <1>t DEF vars, queueVars, drainVars, flushVars, TypeOK, CountersOK, FlagsOK,
                      QueueOK, DrainOK, FlushOK
  <2> QED BY <1>1, <1>i, <2>1 DEF vars, queueVars, drainVars, flushVars, WorkerInv, OrderInv,
                                  FlushInv, SingleWorker, Alive
<1>2. CASE DropSpan
  <2>1. CountersOK'
    BY <1>2, <1>n, <1>t DEF DropSpan, CountersOK
  <2>2. TypeOK'
    BY <1>2, <1>t, <2>1 DEF DropSpan, TypeOK, FlagsOK, QueueOK, DrainOK, FlushOK, drainVars, flushVars
  <2> QED BY <1>2, <1>i, <2>2 DEF DropSpan, drainVars, flushVars, WorkerInv, OrderInv, FlushInv,
                                  SingleWorker, Alive
<1>3. CASE AcceptSpan
  <2>0. /\ accepted' = accepted + 1 /\ ended' = ended + 1 /\ queue' = queue \cup {accepted + 1}
        /\ workerRunning' = TRUE /\ ended < MaxSpans
        /\ UNCHANGED <<completed, inFlight, closes, span, exported, flush, target, waitsOn>>
    BY <1>3 DEF AcceptSpan, flushVars
  <2>1. drain' \in [Goroutines -> {"none", "next", "export", "finish"}]
    BY <1>3, <1>t DEF AcceptSpan, StartWorker, DrainOK
  <2>2. QueueOK'
    <3>1. Cardinality(queue') <= Cardinality(queue) + 1 /\ Cardinality(queue') \in Nat
      BY <2>0, <1>q, QueueSize, FS_AddElement, FS_CardinalityType
    <3>2. Cardinality(queue) < Capacity
      BY <1>3 DEF AcceptSpan, HasRoom
    <3>3. Cardinality(queue') <= Capacity
      BY <1>q, <3>1, <3>2, ExportAssumption
    <3>4. accepted + 1 \in 1 .. MaxSpans
      BY <2>0, <1>n
    <3> QED BY <2>0, <3>3, <3>4, <1>t DEF QueueOK
  <2>3. CountersOK'
    BY <2>0, <1>n, <1>t DEF CountersOK
  <2>4. TypeOK'
    BY <2>0, <2>1, <2>2, <2>3, <1>t DEF TypeOK, FlagsOK, DrainOK, FlushOK
  <2>5. WorkerInv'
    <3>1. CASE workerRunning
      BY <1>3, <2>0, <3>1, <1>i DEF AcceptSpan, StartWorker, WorkerInv, SingleWorker, Alive
    <3>2. CASE ~workerRunning
      <4>1. PICK g \in Goroutines : drain' = [drain EXCEPT ![g] = "next"]
        BY <1>3, <3>2 DEF AcceptSpan, StartWorker
      <4>2. \A h \in Goroutines : drain[h] = "none"
        BY <3>2, <1>i DEF WorkerInv, Alive
      <4>3. \A h \in Goroutines : Alive(h)' <=> h = g
        BY <4>1, <4>2, <1>t DEF Alive, DrainOK
      <4> QED BY <2>0, <4>3 DEF WorkerInv, SingleWorker
    <3> QED BY <3>1, <3>2
  <2>6. \A g \in Goroutines :
          \/ drain'[g] = drain[g]
          \/ drain[g] = "none" /\ drain'[g] = "next"
    BY <1>3, <1>t DEF AcceptSpan, StartWorker, DrainOK
  <2>7. OrderInv'
    <3>1. CASE \A g \in Goroutines : drain[g] \in {"none", "next"}
      <4>1. queue' = completed + 1 .. accepted + 1 /\ exported = 1 .. completed
        BY <2>0, <3>1, <1>i, <1>n DEF OrderInv
      <4>2. \A g \in Goroutines : drain'[g] \in {"none", "next"}
        BY <2>6, <3>1
      <4> QED BY <2>0, <4>1, <4>2, <1>i, <1>n DEF OrderInv
    <3>2. CASE \E g \in Goroutines : drain[g] \in {"export", "finish"}
      <4>1. queue' = completed + 2 .. accepted + 1 /\ completed < accepted
        BY <2>0, <3>2, <1>i, <1>n DEF OrderInv
      <4>2. \E g \in Goroutines : drain'[g] \in {"export", "finish"}
        BY <2>6, <3>2
      <4>3. \A g \in Goroutines : drain'[g] \in {"export", "finish"} => drain'[g] = drain[g]
        BY <2>6
      <4> QED BY <2>0, <4>1, <4>2, <4>3, <1>i, <1>n DEF OrderInv
    <3> QED BY <3>1, <3>2, <1>t DEF DrainOK
  <2> QED BY <2>0, <2>4, <2>5, <2>7, <1>i DEF FlushInv
<1>4. ASSUME NEW g \in Goroutines, Drain(g)
      PROVE TypeOK' /\ WorkerInv' /\ OrderInv' /\ FlushInv'
  <2>a. Alive(g)
    BY <1>4 DEF Drain, NextExport, NoMoreExports, ExportOne, FinishExport, Alive
  <2>g. \A h \in Goroutines : h # g => drain[h] = "none"
    BY <2>a, <1>i DEF WorkerInv, SingleWorker, Alive
  <2>r. workerRunning = TRUE
    BY <2>a, <1>i, <1>t DEF WorkerInv, FlagsOK
  <2>b. ASSUME NEW p, drain' = [drain EXCEPT ![g] = p]
        PROVE drain'[g] = p /\ \A h \in Goroutines : h # g => drain'[h] = "none"
    BY <2>b, <2>g, <1>t DEF DrainOK
  <2>w. ASSUME NEW p, p # "none", drain' = [drain EXCEPT ![g] = p],
               workerRunning' = workerRunning
        PROVE WorkerInv'
    <3>1. \A h \in Goroutines : Alive(h)' <=> h = g
      BY <2>b, <2>w DEF Alive
    <3> QED BY <3>1, <2>w, <2>r DEF WorkerInv, SingleWorker
  <2>1. CASE NextExport(g)
    <3>0. PICK n \in queue : AtHead(n) /\ queue' = queue \ {n} /\ span' = [span EXCEPT ![g] = n]
      BY <2>1 DEF NextExport
    <3>1. /\ drain[g] = "next" /\ drain' = [drain EXCEPT ![g] = "export"] /\ inFlight' = TRUE
          /\ UNCHANGED <<ended, accepted, completed, workerRunning, closes, exported,
                         flush, target, waitsOn>>
      BY <2>1 DEF NextExport, flushVars
    <3>2. queue = completed + 1 .. accepted /\ exported = 1 .. completed
      BY <2>g, <3>1, <1>i DEF OrderInv
    <3>3. n = completed + 1 /\ completed < accepted /\ queue' = completed + 2 .. accepted
      BY <3>0, <3>2, <1>n DEF AtHead
    <3>4. QueueOK'
      <4>1. Cardinality(queue') <= Cardinality(queue) /\ Cardinality(queue') \in Nat
        BY <3>0, <1>q, QueueSize, FS_RemoveElement, FS_CardinalityType
      <4>2. Cardinality(queue') <= Capacity
        BY <4>1, <1>q, ExportAssumption
      <4> QED BY <3>0, <4>2, <1>t DEF QueueOK
    <3>5. CountersOK' /\ FlagsOK' /\ FlushOK'
      BY <3>1, <1>t DEF CountersOK, FlagsOK, FlushOK
    <3>d. DrainOK'
      <4>1. n \in 0 .. MaxSpans
        BY <3>3, <1>n
      <4> QED BY <3>0, <3>1, <4>1, <1>t DEF DrainOK
    <3>6. WorkerInv'
      BY <3>1, <2>w
    <3>7. OrderInv'
      <4>1. span'[g] = completed + 1
        BY <3>0, <3>3, <1>t DEF DrainOK
      <4>2. drain'[g] = "export" /\ \A h \in Goroutines : h # g => drain'[h] = "none"
        BY <3>1, <2>b
      <4> QED BY <3>1, <3>2, <3>3, <4>1, <4>2, <1>n DEF OrderInv
    <3> QED BY <3>1, <3>4, <3>5, <3>d, <3>6, <3>7, <1>i DEF FlushInv, TypeOK
  <2>2. CASE NoMoreExports(g)
    <3>0. /\ drain[g] = "next" /\ drain' = [drain EXCEPT ![g] = "none"] /\ inFlight' = FALSE
          /\ queue = {} /\ workerRunning' = FALSE /\ closes' = closes + 1
          /\ UNCHANGED <<ended, queue, accepted, completed, span, exported, flush, target, waitsOn>>
      BY <2>2 DEF NoMoreExports, flushVars
    <3>c. CountersOK'
      BY <3>0, <1>t DEF CountersOK
    <3>1. FlagsOK' /\ QueueOK' /\ DrainOK' /\ FlushOK'
      BY <3>0, <1>t DEF FlagsOK, QueueOK, DrainOK, FlushOK
    <3>2. \A h \in Goroutines : drain'[h] = "none"
      BY <3>0, <2>b
    <3>3. WorkerInv'
      BY <3>0, <3>2 DEF WorkerInv, SingleWorker, Alive
    <3>4. queue = completed + 1 .. accepted /\ exported = 1 .. completed
      BY <2>g, <3>0, <1>i DEF OrderInv
    <3>5. OrderInv'
      BY <3>0, <3>2, <3>4, <1>i DEF OrderInv
    <3> QED BY <3>0, <3>c, <3>1, <3>3, <3>5, <1>i DEF FlushInv, TypeOK
  <2>3. CASE ExportOne(g)
    <3>0. /\ drain[g] = "export" /\ drain' = [drain EXCEPT ![g] = "finish"]
          /\ exported' = exported \cup {span[g]}
          /\ UNCHANGED <<ended, queue, accepted, completed, workerRunning, inFlight, closes,
                         span, flush, target, waitsOn>>
      BY <2>3 DEF ExportOne, queueVars, flushVars
    <3>1. span[g] = completed + 1 /\ completed < accepted /\ exported = 1 .. completed
          /\ queue = completed + 2 .. accepted
      BY <3>0, <1>i DEF OrderInv
    <3>2. exported' = 1 .. completed + 1 /\ exported' \subseteq 1 .. MaxSpans
      BY <3>0, <3>1, <1>n
    <3>3. CountersOK' /\ FlagsOK' /\ QueueOK' /\ DrainOK' /\ FlushOK'
      BY <3>0, <3>2, <1>t DEF CountersOK, FlagsOK, QueueOK, DrainOK, FlushOK
    <3>4. WorkerInv'
      BY <3>0, <2>w
    <3>5. OrderInv'
      <4>1. drain'[g] = "finish" /\ \A h \in Goroutines : h # g => drain'[h] = "none"
        BY <3>0, <2>b
      <4> QED BY <3>0, <3>1, <3>2, <4>1, <1>n DEF OrderInv
    <3> QED BY <3>0, <3>3, <3>4, <3>5, <1>i DEF FlushInv, TypeOK
  <2>4. CASE FinishExport(g)
    <3>0. /\ drain[g] = "finish" /\ drain' = [drain EXCEPT ![g] = "next"]
          /\ completed' = completed + 1 /\ inFlight' = FALSE /\ closes' = closes + 1
          /\ UNCHANGED <<ended, queue, accepted, workerRunning, span, exported, flush, target, waitsOn>>
      BY <2>4 DEF FinishExport, flushVars
    <3>1. completed < accepted /\ exported = 1 .. completed + 1
          /\ queue = completed + 2 .. accepted
      BY <3>0, <1>i DEF OrderInv
    <3>2. CountersOK'
      BY <3>0, <3>1, <1>n, <1>t DEF CountersOK
    <3>3. FlagsOK' /\ QueueOK' /\ DrainOK' /\ FlushOK'
      BY <3>0, <1>t DEF FlagsOK, QueueOK, DrainOK, FlushOK
    <3>4. WorkerInv'
      BY <3>0, <2>w
    <3>5. OrderInv'
      <4>1. drain'[g] = "next" /\ \A h \in Goroutines : h # g => drain'[h] = "none"
        BY <3>0, <2>b
      <4>2. \A h \in Goroutines : drain'[h] \in {"none", "next"}
        BY <4>1
      <4>3. queue' = completed' + 1 .. accepted' /\ exported' = 1 .. completed'
            /\ completed' <= accepted'
        BY <3>0, <3>1, <1>n
      <4> QED BY <4>2, <4>3 DEF OrderInv
    <3>6. FlushInv'
      <4>1. \A f \in Flushers : target[f] \in Int
        BY <1>t, <1>n DEF FlushOK
      <4> QED BY <3>0, <4>1, <1>i, <1>n DEF FlushInv
    <3> QED BY <3>2, <3>3, <3>4, <3>5, <3>6 DEF TypeOK
  <2> QED BY <1>4, <2>1, <2>2, <2>3, <2>4 DEF Drain
<1>5. ASSUME NEW f \in Flushers, Flush(f) \/ FlushWakes(f) \/ FlushGivesUp(f)
      PROVE TypeOK' /\ WorkerInv' /\ OrderInv' /\ FlushInv'
  <2>1. UNCHANGED <<queueVars, closes, drainVars>>
    BY <1>5 DEF Flush, FlushWakes, FlushGivesUp, FlushTest
  <2>2. WorkerInv' /\ OrderInv'
    BY <2>1, <1>i DEF queueVars, drainVars, WorkerInv, OrderInv, SingleWorker, Alive
  <2>3. CountersOK' /\ FlagsOK' /\ QueueOK' /\ DrainOK'
    BY <2>1, <1>t DEF queueVars, drainVars, CountersOK, FlagsOK, QueueOK, DrainOK
  <2>4. CASE FlushGivesUp(f)
    <3>1. FlushOK' /\ FlushInv'
      BY <2>1, <2>4, <1>i, <1>t DEF FlushGivesUp, FlushOK, FlushInv, queueVars
    <3> QED BY <3>1, <2>2, <2>3 DEF TypeOK
  <2>5. ASSUME NEW t \in 0 .. MaxSpans, FlushTest(f, t)
        PROVE TypeOK' /\ WorkerInv' /\ OrderInv' /\ FlushInv'
    <3>1. FlushOK'
      BY <2>5, <1>t DEF FlushTest, FlushOK, CountersOK
    <3>2. FlushInv'
      BY <2>1, <2>5, <1>i, <1>t, <1>n DEF FlushTest, FlushInv, FlushOK, queueVars
    <3> QED BY <3>1, <3>2, <2>2, <2>3 DEF TypeOK
  <2>6. accepted \in 0 .. MaxSpans /\ target[f] \in 0 .. MaxSpans
    BY <1>n, <1>t DEF FlushOK
  <2> QED BY <1>5, <2>4, <2>5, <2>6 DEF Flush, FlushWakes
<1> QED BY <1>1, <1>2, <1>3, <1>4, <1>5 DEF Next

\* The invariant holds in every reachable state.
THEOREM ExportInvariant == Spec => []Inv
<1>1. Init => Inv
  <2> SUFFICES ASSUME Init PROVE Inv
    OBVIOUS
  <2>0. CountersOK /\ DrainOK /\ FlushOK
    BY ExportAssumption DEF Init, CountersOK, DrainOK, FlushOK
  <2>1. FlagsOK
    BY DEF Init, FlagsOK
  <2>2. QueueOK
    BY ExportAssumption, FS_EmptySet DEF Init, QueueOK
  <2> QED BY <2>0, <2>1, <2>2 DEF TypeOK, Init, Inv, WorkerInv, OrderInv, FlushInv, SingleWorker, Alive
<1> QED BY <1>1, InvStep, PTL DEF Spec

\* Every variable keeps its type, and the queue never outgrows its limit.
THEOREM ExportTypes == Spec => []TypeOK
<1>1. Inv => TypeOK
  BY DEF Inv
<1> QED BY <1>1, ExportInvariant, PTL

\* At any moment at most one goroutine exports.
THEOREM OneExporter == Spec => []SingleWorker
<1>1. Inv => SingleWorker
  BY DEF Inv, WorkerInv
<1> QED BY <1>1, ExportInvariant, PTL

\* When Flush returns nil, every span accepted before the call is exported.
THEOREM FlushIsComplete == Spec => []FlushMeansExported
<1>1. Inv => FlushMeansExported
  <2> SUFFICES ASSUME Inv, NEW f \in Flushers, flush[f] = "flushed"
               PROVE 1 .. target[f] \subseteq exported
    BY DEF FlushMeansExported
  <2>1. target[f] <= completed /\ target[f] \in Nat /\ completed \in Nat
    BY ExportAssumption, Numbers DEF Inv, FlushInv, TypeOK, FlushOK
  <2>2. 1 .. completed \subseteq exported
    <3>1. CASE \A g \in Goroutines : drain[g] \in {"none", "next"}
      BY <3>1 DEF Inv, OrderInv
    <3>2. CASE \E g \in Goroutines : drain[g] \in {"export", "finish"}
      BY <3>2, <2>1 DEF Inv, OrderInv
    <3> QED BY <3>1, <3>2 DEF Inv, TypeOK, DrainOK
  <2> QED BY <2>1, <2>2
<1> QED BY <1>1, ExportInvariant, PTL

\* No span waits with nobody to export it.
THEOREM SpansAreNotStranded == Spec => []NoStrandedSpan
<1>1. Inv => NoStrandedSpan
  BY DEF Inv, WorkerInv, NoStrandedSpan
<1> QED BY <1>1, ExportInvariant, PTL

-----------------------------------------------------------------------------
(* The wakeup of Flush.                                                    *)

\* A caller that waits on the channel there is now waits for a span that is
\* accepted and not completed: each completion replaces the channel.
WakeInv ==
  \A f \in Flushers : flush[f] = "wait" =>
    /\ target[f] <= accepted
    /\ waitsOn[f] <= closes
    /\ waitsOn[f] = closes => completed < target[f]

\* Every step keeps it.
LEMMA WakeInvStep == TypeOK /\ WakeInv /\ [Next]_vars => WakeInv'
<1> SUFFICES ASSUME TypeOK, WakeInv, [Next]_vars PROVE WakeInv'
  OBVIOUS
<1>n. /\ accepted \in Nat /\ completed \in Nat /\ closes \in Nat
      /\ \A f \in Flushers : target[f] \in Nat /\ waitsOn[f] \in Nat
  BY Numbers DEF TypeOK, CountersOK, FlushOK
<1>1. CASE /\ UNCHANGED <<flush, target, waitsOn, completed, closes>>
           /\ accepted' \in {accepted, accepted + 1}
  BY <1>1, <1>n DEF WakeInv
<1>2. CASE UNCHANGED <<flush, target, waitsOn, accepted>> /\ closes' = closes + 1
  BY <1>2, <1>n DEF WakeInv
<1>3. ASSUME NEW f \in Flushers, NEW t \in Nat, t <= accepted, FlushTest(f, t) PROVE WakeInv'
  <2>1. /\ flush'[f] = "wait" => target'[f] = t /\ waitsOn'[f] = closes /\ completed < t
        /\ \A e \in Flushers \ {f} :
             flush'[e] = flush[e] /\ target'[e] = target[e] /\ waitsOn'[e] = waitsOn[e]
        /\ UNCHANGED <<accepted, completed, closes>>
    BY <1>3 DEF FlushTest, queueVars, TypeOK, FlushOK
  <2> QED BY <2>1, <1>3, <1>n DEF WakeInv
<1>4. ASSUME NEW f \in Flushers, Flush(f) PROVE WakeInv'
  BY <1>3, <1>4, <1>n DEF Flush
<1>5. ASSUME NEW f \in Flushers, FlushWakes(f) PROVE WakeInv'
  BY <1>3, <1>5, <1>n DEF FlushWakes, WakeInv
<1>6. ASSUME NEW f \in Flushers, FlushGivesUp(f) PROVE WakeInv'
  BY <1>6 DEF FlushGivesUp, queueVars, TypeOK, FlushOK, WakeInv
<1>7. CASE UNCHANGED vars \/ DropSpan \/ AcceptSpan
  BY <1>1, <1>7 DEF vars, queueVars, flushVars, DropSpan, AcceptSpan
<1>8. ASSUME NEW g \in Goroutines, Drain(g) PROVE WakeInv'
  BY <1>1, <1>2, <1>8 DEF Drain, NextExport, NoMoreExports, ExportOne, FinishExport, queueVars, flushVars
<1> QED BY <1>4, <1>5, <1>6, <1>7, <1>8 DEF Next

\* No wakeup of Flush is lost: the safety half of FlushReturns.  The caller
\* that waits on the last channel waits for a span that is queued or with the
\* goroutine, and that goroutine closes the channel after it.
THEOREM FlushIsWoken == Spec => []NoLostWakeup
<1>1. Init => WakeInv
  BY DEF Init, WakeInv
<1>2. Inv /\ WakeInv => NoLostWakeup
  <2> SUFFICES ASSUME Inv, WakeInv, NEW f \in Flushers, flush[f] = "wait", ~(waitsOn[f] < closes)
               PROVE  \E g \in Goroutines : Alive(g)
    BY DEF NoLostWakeup
  <2>1. /\ accepted \in Nat /\ completed \in Nat /\ closes \in Nat
        /\ target[f] \in Nat /\ waitsOn[f] \in Nat
    BY Numbers DEF Inv, TypeOK, CountersOK, FlushOK
  <2>2. completed < accepted
    BY <2>1 DEF WakeInv
  <2>3. CASE \A g \in Goroutines : drain[g] \in {"none", "next"}
    <3>1. queue = completed + 1 .. accepted
      BY <2>3 DEF Inv, OrderInv
    <3>2. completed + 1 \in queue
      BY <2>1, <2>2, <3>1
    <3> QED BY <3>2 DEF Inv, WorkerInv
  <2> QED BY <2>3 DEF Alive
<1> QED BY <1>1, <1>2, WakeInvStep, ExportInvariant, ExportTypes, PTL DEF Spec
=============================================================================
