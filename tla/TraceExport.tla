----------------------------- MODULE TraceExport -----------------------------
(***************************************************************************)
(* runtime/trace/export_queue.go: completed spans wait in a bounded queue  *)
(* for one export goroutine that is started when there is work and ends    *)
(* when there is none; Flush waits for the spans accepted before it.       *)
(*                                                                         *)
(* The spans the queue accepts are numbered in the order of acceptance, so *)
(* the queue is the set of the numbers it holds, the smallest at its head. *)
(* A step is one critical section of exportMu, one return of the sink, or  *)
(* one Flush whose context ends.                                           *)
(***************************************************************************)
EXTENDS Naturals, FiniteSets

CONSTANTS
  Goroutines,  \* places for drainExports goroutines
  Flushers,    \* callers of Flush
  Capacity,    \* WithExportQueueSize
  MaxSpans     \* bound: how many spans end

ASSUME ExportAssumption ==
  /\ Capacity \in Nat \ {0}
  /\ MaxSpans \in Nat

VARIABLES
  ended,          \* how many spans have ended, the dropped ones included
  queue,          \* exportQueue
  accepted,       \* exportAccepted
  completed,      \* exportCompleted
  workerRunning,  \* exportWorkerRunning
  inFlight,       \* exportInFlight
  closes,         \* how often exportChanged was closed and replaced
  drain,          \* goroutine -> where it stands in drainExports
  span,           \* goroutine -> the span it exports
  flush,          \* caller -> where it stands in Flush
  target,         \* caller -> Flush's target
  waitsOn,        \* caller -> the channel it waits on
  exported        \* history: the spans whose RecordSpan has returned

queueVars == <<ended, queue, accepted, completed, workerRunning, inFlight>>
drainVars == <<drain, span, exported>>
flushVars == <<flush, target, waitsOn>>
vars == <<queueVars, closes, drainVars, flushVars>>

Spans == 1 .. MaxSpans

CountersOK ==
  /\ ended \in 0 .. MaxSpans
  /\ accepted \in 0 .. ended
  /\ completed \in 0 .. MaxSpans
  /\ closes \in Nat

FlagsOK == workerRunning \in BOOLEAN /\ inFlight \in BOOLEAN

QueueOK ==
  /\ queue \subseteq Spans
  /\ Cardinality(queue) <= Capacity

DrainOK ==
  /\ drain \in [Goroutines -> {"none", "next", "export", "finish"}]
  /\ span \in [Goroutines -> 0 .. MaxSpans]
  /\ exported \subseteq Spans

FlushOK ==
  /\ flush \in [Flushers -> {"idle", "wait", "flushed", "failed"}]
  /\ target \in [Flushers -> 0 .. MaxSpans]
  /\ waitsOn \in [Flushers -> Nat]

\* Every variable has its type, and the queue never outgrows its capacity.
TypeOK == CountersOK /\ FlagsOK /\ QueueOK /\ DrainOK /\ FlushOK

Init ==
  /\ ended = 0 /\ queue = {} /\ accepted = 0 /\ completed = 0
  /\ workerRunning = FALSE /\ inFlight = FALSE /\ closes = 0
  /\ drain = [g \in Goroutines |-> "none"]
  /\ span = [g \in Goroutines |-> 0]
  /\ flush = [f \in Flushers |-> "idle"]
  /\ target = [f \in Flushers |-> 0]
  /\ waitsOn = [f \in Flushers |-> 0]
  /\ exported = {}

-----------------------------------------------------------------------------
(* enqueueExport.                                                          *)

\* A queue without a bound.
HasRoomAlways == TRUE

HasRoom == Cardinality(queue) < Capacity

DropSpan ==
  /\ ended < MaxSpans
  /\ ~HasRoom
  /\ ended' = ended + 1
  /\ UNCHANGED <<queue, accepted, completed, workerRunning, inFlight, closes, drainVars, flushVars>>

\* A start that does not look whether a goroutine runs.
StartAnother ==
  \E g \in Goroutines : drain[g] = "none" /\ drain' = [drain EXCEPT ![g] = "next"]

\* The goroutine is started once the lock is released; it takes its first
\* step some time later.
StartWorker ==
  \/ workerRunning /\ UNCHANGED drain
  \/ /\ ~workerRunning
     /\ \E g \in Goroutines : drain[g] = "none" /\ drain' = [drain EXCEPT ![g] = "next"]

AcceptSpan ==
  /\ ended < MaxSpans
  /\ HasRoom
  /\ ended' = ended + 1
  /\ accepted' = accepted + 1
  /\ queue' = queue \cup {accepted + 1}
  /\ StartWorker
  /\ workerRunning' = TRUE
  /\ UNCHANGED <<completed, inFlight, closes, span, exported, flushVars>>

-----------------------------------------------------------------------------
(* drainExports.                                                           *)

AtHead(n) == n \in queue /\ \A m \in queue : n <= m

\* An export counted as completed when it is taken from the queue.
NextExportCounted(g) ==
  /\ drain[g] = "next"
  /\ \E n \in queue :
       /\ AtHead(n)
       /\ queue' = queue \ {n}
       /\ span' = [span EXCEPT ![g] = n]
  /\ inFlight' = TRUE
  /\ completed' = completed + 1
  /\ drain' = [drain EXCEPT ![g] = "export"]
  /\ UNCHANGED <<ended, accepted, workerRunning, closes, exported, flushVars>>

NextExport(g) ==
  /\ drain[g] = "next"
  /\ \E n \in queue :
       /\ AtHead(n)
       /\ queue' = queue \ {n}
       /\ span' = [span EXCEPT ![g] = n]
  /\ inFlight' = TRUE
  /\ drain' = [drain EXCEPT ![g] = "export"]
  /\ UNCHANGED <<ended, accepted, completed, workerRunning, closes, exported, flushVars>>

\* A goroutine that ends without saying so.
NoMoreExportsUnsaid(g) ==
  /\ drain[g] = "next"
  /\ queue = {}
  /\ inFlight' = FALSE
  /\ closes' = closes + 1
  /\ drain' = [drain EXCEPT ![g] = "none"]
  /\ UNCHANGED <<ended, queue, accepted, completed, workerRunning, span, exported, flushVars>>

\* nextExport on an empty queue: the goroutine ends.
NoMoreExports(g) ==
  /\ drain[g] = "next"
  /\ queue = {}
  /\ workerRunning' = FALSE
  /\ inFlight' = FALSE
  /\ closes' = closes + 1
  /\ drain' = [drain EXCEPT ![g] = "none"]
  /\ UNCHANGED <<ended, queue, accepted, completed, span, exported, flushVars>>

\* exportOne: the sink returns, with or without an error, by itself, because
\* its deadline has passed, or by a panic that is recovered.
ExportOne(g) ==
  /\ drain[g] = "export"
  /\ exported' = exported \cup {span[g]}
  /\ drain' = [drain EXCEPT ![g] = "finish"]
  /\ UNCHANGED <<queueVars, closes, span, flushVars>>

FinishExport(g) ==
  /\ drain[g] = "finish"
  /\ inFlight' = FALSE
  /\ completed' = completed + 1
  /\ closes' = closes + 1
  /\ drain' = [drain EXCEPT ![g] = "next"]
  /\ UNCHANGED <<ended, queue, accepted, workerRunning, span, exported, flushVars>>

-----------------------------------------------------------------------------
(* Flush.                                                                  *)

\* A test that takes the channel after it has released the lock and misses
\* the closes in between.
FlushTestUnlocked(f, t) ==
  /\ target' = [target EXCEPT ![f] = t]
  /\ \/ completed >= t /\ flush' = [flush EXCEPT ![f] = "flushed"] /\ UNCHANGED waitsOn
     \/ completed < t /\ flush' = [flush EXCEPT ![f] = "wait"]
                      /\ \E missed \in 0 .. 2 : waitsOn' = [waitsOn EXCEPT ![f] = closes + missed]
  /\ UNCHANGED <<queueVars, closes, drainVars>>

\* The loop test under the lock, with t to reach: return, or wait on the
\* channel there is now.
FlushTest(f, t) ==
  /\ target' = [target EXCEPT ![f] = t]
  /\ \/ completed >= t /\ flush' = [flush EXCEPT ![f] = "flushed"] /\ UNCHANGED waitsOn
     \/ completed < t /\ flush' = [flush EXCEPT ![f] = "wait"]
                      /\ waitsOn' = [waitsOn EXCEPT ![f] = closes]
  /\ UNCHANGED <<queueVars, closes, drainVars>>

Flush(f) == flush[f] # "wait" /\ FlushTest(f, accepted)

\* The channel it waits on has been closed.
FlushWakes(f) == flush[f] = "wait" /\ waitsOn[f] < closes /\ FlushTest(f, target[f])

FlushGivesUp(f) ==
  /\ flush[f] = "wait"
  /\ flush' = [flush EXCEPT ![f] = "failed"]
  /\ UNCHANGED <<queueVars, closes, drainVars, target, waitsOn>>

-----------------------------------------------------------------------------
Drain(g) == NextExport(g) \/ NoMoreExports(g) \/ ExportOne(g) \/ FinishExport(g)

Next ==
  \/ DropSpan \/ AcceptSpan
  \/ \E g \in Goroutines : Drain(g)
  \/ \E f \in Flushers : Flush(f) \/ FlushWakes(f) \/ FlushGivesUp(f)

Spec == Init /\ [][Next]_vars

\* A started goroutine runs, the sink returns (its context has a deadline),
\* and a caller whose channel is closed is scheduled.
FairSpec ==
  /\ Spec
  /\ \A g \in Goroutines : WF_vars(Drain(g))
  /\ \A f \in Flushers : WF_vars(FlushWakes(f))

-----------------------------------------------------------------------------
(* Properties.                                                             *)

Alive(g) == drain[g] # "none"

\* The queue has "the single sink-export worker": enqueueExport starts a
\* goroutine only when the last one has left, in nextExport, for good.
SingleWorker == \A g, h \in Goroutines : Alive(g) /\ Alive(h) => g = h

\* Flush returns nil only when every span accepted before the call has been
\* exported; counting completions is enough because one goroutine exports in
\* order.
FlushMeansExported ==
  \A f \in Flushers : flush[f] = "flushed" => 1 .. target[f] \subseteq exported

\* A span is never left in the queue with nobody to export it: the end of the
\* goroutine and the acceptance of a span cannot miss each other.
NoStrandedSpan == queue # {} => \E g \in Goroutines : Alive(g)

\* No caller of Flush sleeps through its wakeup: the channel it waits on is
\* closed, or a goroutine is left that will close it.
NoLostWakeup ==
  \A f \in Flushers :
    flush[f] = "wait" => waitsOn[f] < closes \/ \E g \in Goroutines : Alive(g)

\* Every accepted span is exported in the end.
EverySpanExported == \A n \in Spans : (n <= accepted) ~> (n \in exported)

\* Flush returns: no close of the channel is missed between the test and the
\* wait.
FlushReturns == \A f \in Flushers : (flush[f] = "wait") ~> (flush[f] # "wait")
=============================================================================
