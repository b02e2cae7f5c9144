# GOWDK: a TLA+ verification of the runtime

GOWDK compiles `.gwdk` sources and Go code into web applications. Most of the
repository is the compiler; what runs, fails and interleaves is the runtime
under `runtime/` that every generated application links, the script that every
page loads, and the part of the tool chain that publishes builds and watches
their inputs. This project models these, with durable event delivery at the
centre.

## Inventory

| Component | State | Operations | Interacts with |
|---|---|---|---|
| event worker, `runtime/contracts/worker.go` | position in the loop, the batch, the attempts since the last success | receive, filter, publish, nack, backoff, ack, mark | an event source, a seen store, the registry's subscribers |
| file outbox, `fileoutbox/fileoutbox.go`, `jsonlines.go` | pending file, dead-letter file | StoreEvents, ReceiveEventBatch, Ack, Nack | commands store, workers drain |
| seen stores, `seenstore.go`, `fileoutbox/seenstore.go` | a bounded window of event IDs | Seen, MarkSeen, MarkIfNew | workers |
| publication and sinks, `events.go`, `command.go`, `recorder.go` | events recorded during a command | publish to subscribers; in-process, outbox, broker, fanout and composite sinks | registry, outbox, broker, fanout |
| brokers, `membroker`, `redisstream`, `natsbroker` | a queue, a stream with a pending list, a subscription | publish, receive, ack, nack | workers |
| scheduled jobs, `schedule.go`, `jobs.go` | one loop per job, `running`, an error channel | tick, run, finish, cancel | registry |
| SSE hub, `sse/sse.go` | clients, a queue per client, the replay window | connect, send, revoke, write, drop, remove | commands' presentation events, browsers |
| websocket fanout, `websocketfanout` | clients, a queue per client | accept, send, write, drop | as the SSE hub |
| trace export queue, `runtime/trace/export_queue.go` | queue, counters, the running flag, a wake-up channel | enqueue, drain, Flush | a span sink |
| trace ring sink and collector, `runtime/trace/ring.go`, `collector.go` | a ring with a byte budget, subscribers with a channel each | RecordSpan, Spans, subscribe, replay, stream | export queue, browsers |
| lifecycle, `runtime/app/lifecycle.go` | services, server, an error channel of one place | mount, run, fail, signal, shut down | everything in the process |
| rate limiter, `runtime/ratelimit` | a counter and a reset time per key | Take, sweep | HTTP middleware |
| sessions, `addons/auth` | session records | issue, look up, touch, revoke, rotate | HTTP handlers |
| query regions, `invalidation.go`, `runtime/ssr/regions.go` | renderers registered at start | notify, render | commands, fanout, browsers |
| publication, `internal/publish` | a target, a backup and a stage per path | recover, stage, commit, roll back, abort | file system, builds |
| dev loop, `internal/gowdkcmd` | the previous snapshot, the input cache, a server or a child process, live-reload clients | poll, rebuild, publish, serve, refresh | publication, file system, browsers |
| browser runtime, `internal/clientrt/assets/gowdk.js` | the address, the document, prefetched documents, the realtime stream, active and handled refreshes | navigate, prefetch, submit, patch, refresh | server, SSE hub |
| compiler, generators, language server | none that lasts | parse, analyse, generate | files |

What is hard in it: workers that share an outbox without leases; two files that
are replaced one after the other; subscribers that fail in the middle of a
batch; deduplication that is asked before and told after; a goroutine that ends
while work arrives; a waiter that tests under a lock and waits outside it; slow
clients that are condemned under a lock and dropped outside it; a select that
finds several cases ready; records that are looked up, judged and written back
in three steps; clocks that are read before a lock is taken; renames that a
crash separates; a snapshot that is taken after the build it stands for;
answers that come to a page which has changed meanwhile. `PROJECT.json` lists
these as hazards, each at its line.

What makes each component correct:

* delivery: a stored record stays until every subscriber handled its event, or
  it is put aside as a dead letter; deduplication never suppresses an event
  that was not handled; every record leaves in the end;
* SSE: a stream carries its audience's messages in order, once, without a gap,
  and whoever cannot keep up is disconnected;
* export queue: one exporter, no stranded span, Flush means exported, Flush
  returns;
* schedule and lifecycle: what is returned has its cause, runs do not overlap,
  and Run returns, whatever hangs;
* rate limiter: at most two limits in a window, however late requests are
  counted; sessions: nothing authenticates after a revocation, no deadline
  passes what the last request allows;
* trace collector: the ring holds the newest spans, a stream has no gap between
  its replay and what follows;
* brokers: no entry is lost or acked unhandled, and a Redis stream drains;
  commands: the sinks have what the caller is told;
* publication: a published target has a whole generation on disk, which only the
  `Recover` after a rollback that stopped halfway may lose, and a commit replaces
  all targets or, if its rollback succeeds, none; dev loop: at rest it serves the
  inputs as they are;
* browser: the address is that of the document, and an event counts as handled
  only when each of its regions has been refreshed or the refresh had nothing to
  put in its place.

## Modules

| Module | Models |
|---|---|
| `Envelopes` | event IDs and which of them cannot be decoded |
| `FileOutbox` | the two files of the outbox and the operations on them |
| `SeenStore` | the deduplication window, memory (LRU) or file |
| `AtLeastOnce` | abstract: what durable delivery promises; refined by `EventWorker`, `MemBroker` and `RedisStream` |
| `EventStream` | abstract: what a browser is promised of its stream; refined by `SSEHub` |
| `EventWorker` | workers, producers and faults over `FileOutbox` and `SeenStore`; the properties of delivery |
| `EventWorkerProofs` | theorems about `EventWorker` |
| `TraceExport`, `TraceExportProofs` | the export queue, its goroutine, Flush; theorems |
| `SSEHub`, `SSEHubProofs` | hub, streams, browsers that reconnect; theorems |
| `Publish` | the transaction that publishes a build, its crashes and its recovery |
| `DevLoop` | `gowdk dev`, with an instance of `Publish` for its output directory |
| `Schedule`, `Lifecycle` | `RunScheduledJobs`; the application's `Run` |
| `Sessions`, `RateLimit` | revocable sessions; fixed windows in memory and in Redis |
| `TraceCollector` | the ring of spans and the collector's streams |
| `RedisStream`, `MemBroker` | the other two event sources, each under the worker's loop |
| `CommandEvents` | commands, the recorder and the composite sink |
| `BrowserNavigation`, `QueryRegions` | the browser's navigation and prefetching; its query regions, command forms and realtime stream |
| `PublishProofs` | theorems about `Publish` and about `DevLoop` over it |
| `SessionsProofs` | theorems about `Sessions` and `RateLimit` |
| `ServiceProofs` | theorems about `Lifecycle`, `Schedule`, `MemBroker`, `CommandEvents`, `TraceCollector` and `RedisStream` |
| `BrowserProofs` | theorems about `BrowserNavigation` and `QueryRegions` |
| `PartsProofs` | theorems about the two modules that run the parts one at a time |
| `MCEventWorker`, `MCTraceExport`, `MCSSEHub` | constants for TLC |
| `MCFairParts`, `MCRuntimeParts` | the twelve modules from `Publish` to `QueryRegions`, one at a time, for TLC |

`DevLoop` instantiates `Publish`; `EventWorker` composes `FileOutbox` and
`SeenStore`. The three event sources make the worker the same promise, so
`AtLeastOnce` is stated once and instantiated by each, with the status of a
record (absent, pending, dead, gone) computed from the outbox, from the broker's
queue, or from the stream and its pending lists. `SSEHub` instantiates
`EventStream` likewise. The other parts share no state in
the program, so `MCFairParts` (the parts with liveness properties) and
`MCRuntimeParts` (the others) do not interleave them: a behaviour picks a part
and takes its steps alone.

### Event delivery

Records are numbered in the order in which `StoreEvents` creates them. The
pending file keeps that order, so it is the set `pending`, read in increasing
order; the dead-letter file is `deadRows`, the number of rows per record. Every
operation holds `Store.mu` and replaces files by rename, so an operation is
one step, except that `markRecordsFailedLocked` replaces two files:
`MarkRecordsHalfFailed` is the outcome in which only the dead-letter file was
replaced. A record's payload is reduced to its event ID and to whether it can
be decoded (`Undecodable`); `Record.EventID` may repeat between records.

A worker is at one of the calls of its loop: `receive`, `filter` (one `Seen`
per event), `publish` (one subscriber per step), `nack`, `backoff`, `ack`,
`mark` (one `MarkSeen` per event), `stopped`. `batch` is what Ack and Nack
cover, `fresh` what the filter let through, `rest` what the current loop has
still to visit, `at` the next subscriber. `DispatchFails` may happen at any
subscriber. Errors of the stores, cancellation of a worker's context and a
crash of the process are taken from one budget, `MaxFaults`. A worker that
returned may be run again by the application (`Restart`). Every event has
`NumSubs` subscribers that the worker's role may reach; with none, publishing
does nothing and the record is acked, which the model leaves out.

The trace spans and the log lines of the worker, times, error texts and the
`nackedAttempts` argument of the backoff function are left out: nothing
depends on them but the length of the delay.

Several processes on one outbox file are left out, as `Store`'s comment
excludes them.

### Trace export queue

Accepted spans are numbered in order, so `queue` is a set of numbers with the
smallest at its head. A step is one critical section of `exportMu`, the return
of the sink, or the end of a Flush's context. `exportChanged`, a channel that is
closed and replaced, is the counter `closes`; a waiter remembers the value it
saw (`waitsOn`) and is woken when the counter has moved. `Goroutines` are
places: the code could start a second goroutine in the model if it did not look
at `exportWorkerRunning`.

### SSE hub

Messages are numbered in the order in which `SendPresentationEvents` takes
`Hub.mu`. A client's queue, the replay window and what is still to be replayed
are sets of numbers. `condemned` says that the client is in a sender's `slow`
or a revoker's `revoked` list and `drop` has not run; `dropped` that its
`disconnect` channel is closed. `leaving` is the moment between the return from
the loop and `remove`, when senders still find the client. `got` and `from` are
history. The browser is external: it keeps the last ID it received, reconnects
with it, and an aborted connection loses what was not received. The hub's
statistics counters are left out. An event's ID is taken to be its own
(`EnsureEventID`), and a browser to have one stream.

### Publication and the dev loop

A path holds nothing (`Absent`), a generation, or something that is neither
(`Partial`: an empty directory, or what a `RemoveAll` left that stopped
halfway). `Begin` is the first `Stage` call of a build; a step is one file
operation, each of which may fail, and the process may die between any two or
within a `RemoveAll`. `pubOwed` is history: the targets of which a whole
generation must be on disk. `pubStuck` is the targets whose new generation a
rollback could not remove as a whole, because `RemoveAll` failed or the process
died within it. The old generation of such a target is still in the backup, but
the next `Recover` sees something at the target, takes the backup for stale and
removes it (`LoseStuck`): the one way in which the code loses a generation, and
the only step that takes a target out of `pubOwed`. A crash between
the renames of two targets leaves two generations side by side, which the code
does not promise to exclude. One process builds at a time: nothing in the code
locks a target.

In `DevLoop` an input set is a number and a generation is the output of its
input set. `devRead` is what the build has read, `devPrevious` the snapshot the
next tick compares with, `devCache` the snapshot kept in the output directory,
which moves with it to the backup and back (`CacheMoves`). Edits come at any
time, `gowdk dev` may be killed at any step and started again. `devRaced`
records that an edit fell between the reading of the inputs and the snapshot
that stands for it; `DevSettled` excludes this case and `dev_lost_edit` shows
it.

### Schedule and lifecycle

The goroutines are processes, and each `select` is written as the code runs it:
one that is parked takes the first case that becomes ready, one that finds
several ready takes any. `schEarly` records that all loops had ended before the
caller reached its select: then `RunScheduledJobs` may take `done` and return
nil although a job has failed, the one exception `ScheduleBlames` makes. A run
that is in flight when the loop is canceled goes on after `RunScheduledJobs` has
returned, as the code leaves it. In `Lifecycle` a timeout may fire at any
moment of the wait that it bounds.

### Sessions and rate limiter

A request looks its session up, decides on its copy at a time read afterwards,
and touches the record: three steps, between which sessions are revoked,
changed, rotated and touched. The clock has `SesSecond` ticks to a second and
`SessionExpiry` rounds up, as the code does. Touches that arrive out of order
may move the idle deadline back; `SessionsTimely` bounds it from above.

`AllowRequest` reads the clock before the store counts, so requests are counted
late (by at most `RateLag`) and out of order. A fixed window lets twice the
limit through around its edge, and a late request may open a window that began
earlier: `RateHolds` is the bound that is left, two limits in any stretch of
the window less the lag. The history `rateAllowed` keeps with each granted
request the reset time of the window that granted it.

### Trace collector

A span is the number of its turn at the ring. The ring's lock is `ringStoring`,
the size of the span whose recorder holds it: `RecordInRing` takes it, each pass
of the loop is a `DropOldest`, and `StoreSpan` releases it. The history
`colBytes` has the running total of the bytes accepted, so that the bytes of any
stretch of spans are a difference. `RecordSpan` takes the ring's lock
and then the subscribers', so spans may be sent in another order than they were
recorded, and a stream may be sent a span twice, from the replay and from its
channel; `StreamHasAll` says that none is missing that is not counted as dropped.

### Redis stream and in-memory broker

Redis is external: it remembers the last entry delivered to the group and each
consumer's pending entries. `redFirst` is the store's `readPending` flag. A
restarted worker has a new `Store`; one that is run again with the old one after
an Ack error leaves the entries of that batch pending until the next Nack. Two
workers that share one `Store` share its flag, and one may clear it just after
the other's Nack has set it: the model has one store per worker. An entry that
cannot be decoded fails its batch for ever, so `RedDrains` assumes that all can.

### Commands

A sink has what it accepted; `all` stands for an outbox, a broker or the local
subscribers, `fanout` for the presentation fanout. A client that sees an error
of a later sink and repeats the command gives its events new IDs, so nothing
downstream recognises the repetition: that is a second call of the model.

### Browser

A step is what runs between two awaits. In `BrowserNavigation` loads overlap, as
nothing cancels one when another begins, and prefetched documents sit in a
bounded cache. `navExcused` records overlapping loads and a failed load after
the back button, for which the listener has no fallback although
`docs/language/semantics.md:16-19` names one: in both cases the address and the
document may differ, and `AddressShown` is about all the others. A document is
known by the address it was asked for: `fetch` follows redirects and
`gowdk.js:644-661` looks at neither `redirected` nor `url`, so the document of a
redirect is shown under the address of the link.

In `QueryRegions` the n-th command is event n, and what the server renders after
n commands is version n. The server's answers are rendered in a step of their
own, so that answers may be old when they arrive. A refresh holds the regions it
captured before its awaits; `held` is those that are still in the document.
`regPage` is the regions in the document, `RegIds` those that have an id. A
refresh from the document matches them as `replacementQueryRegion` does
(`Replacement`): by id, else by the index in the two lists, else not at all. At
its index a region may find another's, which takes its place, so a refresh can
lose a region or bring one back; a page that lacks the region, after a redirect
or because it is not rendered any more, leaves it as it is. The promise resolves
all the same and the event is remembered (`gowdk.js:1095-1096`). `regMissed` is
history: the events that count as handled with nothing put in a region's place,
which `HandledMeansRefreshed` names as its exception. `regGot` is history: the
latest version that was put in the page for a region. A region may
nevertheless show an older version than it got: two refreshes whose answers
arrive out of order are applied in that order, and the code has no guard
against it. Navigation between pages is left to `BrowserNavigation`.

## Runs

| Run | Checks | Instance |
|---|---|---|
| `worker_safety` | types, marks only after Ack, attempts, one dead-letter row; refinement of `AtLeastOnce`, so no record lost | 2 workers (symmetric), 3 records over 3 events, one of them undecodable, batches of 2, 2 attempts, 2 subscribers, memory window of 1, 1 fault; 1.3 million states |
| `worker_dedup` | no event in the window is dispatched; every record leaves | 1 worker, 3 records, file window of 1, 2 faults, fairness; 0.1 million states |
| `trace_export` | types, one exporter, Flush, no stranded span, every span exported, Flush returns | 4 spans, capacity 2, 2 callers, 2 goroutine places, fairness |
| `sse_hub` | types, order and completeness of streams; refinement of `EventStream`, so only messages for the audience; a condemned client leaves | 2 browsers, 3 messages in batches of up to 2, queues of 1, replay of 2, fairness |
| `fair_parts` | the types of four parts, and per part the properties in the next table | dev, schedule, lifecycle and redis below, each with its fairness; 70 thousand states |
| `runtime_parts` | the types of eight parts, and per part the properties in the next table | the other parts below; 1.2 million states |

| Part | Properties | Instance |
|---|---|---|
| publish | `PubGenerationKept`, `PubAllOrNothing` | 2 targets, 2 generations, any number of builds, errors and crashes |
| dev | `DevSettled`, `DevLoopSettles` | 3 input sets of which one does not compile, 1 edit, 2 starts |
| schedule | `ScheduleBlames`, `JobsReturn`; no overlapping runs, as the type of `schActive` | 2 jobs of either kind, 2 ticks each |
| lifecycle | `CleanReturn`, `AppReturns` | 2 services |
| sessions | `RevocationHolds`, `SessionsTimely` | 2 sessions, 2 requests at once, a second of 2 ticks, 2 ticks |
| rate | `RateHolds` | 2 keys, limit 2, window 2, lag 1, sweep every tick, 6 requests, 2 at once |
| collector | `RingNewest`, `StreamHasAll` | 2 recorders, 1 stream, 4 spans, a ring of 2 places and 4 bytes, spans of 1, 3 and 4 bytes |
| redis | `RedNothingStranded`, `StreamDrains`; refinement of `AtLeastOnce` (`RedDeliversAtLeastOnce`) | 2 consumers, 3 entries, batches of 2, 2 faults |
| broker | refinement of `AtLeastOnce` (`MemDeliversAtLeastOnce`) | 2 workers, 4 records, batches of 2, 2 faults |
| command | `CommandEffects` | 2 calls, 3 sinks, 2 events each |
| navigation | `AddressShown` | 2 pages, 2 loads at once, 2 requests, a cache of 1 |
| regions | `HandledMeansRefreshed` | 2 queries with a region each, of which 1 has an id, 1 form, 2 commands, 1 remembered ID |

Six runs show a disagreement between the code and what the repository says of
it; each violates its one property, and `PROJECT.json` quotes the line.

| Run | Shows |
|---|---|
| `poison_wedge` | without dead-lettering a batch of undecodable records stays at the head of the file, and what is behind it is never delivered |
| `dead_letter_unattempted` | Nack counts an attempt for events nobody was given, and may dead-letter them |
| `dev_lost_edit` | an edit between the reading of the inputs and the snapshot taken after the build is never rebuilt |
| `dev_lost_generation` | `gowdk dev` makes the output directory before `Recover` looks, so a backup that an interrupted commit left is removed and not restored |
| `submitter_stale` | the answer to a command leaves the refresh to a stream that is still connecting and may never get the notice |
| `sse_gap` | a slow client may receive a message behind the one it missed, and its `Last-Event-ID` hides the gap from the replay |

Why the bounds are enough. Two workers meet on one record, and three records
make a batch of two and a remainder, a repeated event within one batch and
across batches, and a poison record before, between or behind good ones. Two
attempts are the smallest number at which a record survives one failure and not
the next; `AttemptCap` is where the counter saturates, at or above
`MaxAttempts`, so that the comparison in the code is not affected. Two
subscribers are the smallest number at which an event can be handled in part.
A window of one entry evicts at every mark. For the SSE hub,
batches of two over queues of one overflow in the middle of a batch, and three
messages leave the replay window of two. For the export queue four spans and a
capacity of two fill the queue behind an export in flight, drop a span and
start a second goroutine after the first has ended. Of the parts, two of
whatever may meet are enough for a step of one to fall between two steps of the
other: two targets for a commit that stops between them, two requests on one
session, two workers on one queue, two loads, a page's own command and another
client's. Ring, caches and windows are smaller than what passes through them.
The messages sent, the
spans ended and the faults are bounded; so in the liveness runs the
environment's disturbances are finite.

`worker_dedup` has one worker because the property is about one: two workers
that hold the same records both ask before either marks, and both dispatch,
which at-least-once delivery allows.

### Fairness

* Workers: weak fairness of a worker's own steps (a goroutine that is running
  keeps running) and of running a worker that returned again (the file outbox
  closes the worker whenever it is empty, so an application must do so to use
  it). Subscribers are not assumed to succeed, stores may fail within the
  budget.
* Export queue: the goroutine runs, the sink returns (its context has a
  deadline; a sink that ignores it would stop all exports), a woken Flush is
  scheduled.
* Dev loop: the process goes on until it is killed; builds end. Jobs: the caller
  and the loops are scheduled; runs of `@every` jobs need not end. Lifecycle:
  `Run` is scheduled and its timeouts fire; services and server need not end.
  Redis workers: each goes on and is started again after it returned.
* SSE: writes return, `remove` and `drop` run, and the select does not pass over
  a closed `disconnect` for ever: Go chooses among ready cases at random.

Deadlock is checked in every run over the worker, the export queue and the hub:
restarts, flushes and reconnects keep these models going. It is not checked in
`fair_parts`, `runtime_parts`, `dev_lost_edit`, `dev_lost_generation` and `submitter_stale`:
there a behaviour ends when `Run` or `RunScheduledJobs` has returned, or the
bounded commands, edits, requests and ticks are used up.

## Proofs

For every value of the constants that their assumptions allow (any number of
workers, records, events, subscribers, faults; any batch size, window and
number of attempts):

* `TypeCorrect`: `Spec => []TypeOK`. `TypeStep` has one step per action.
* `SafeInvariant`: the inductive invariant `SafeInv`. `NoRecordLost` alone is
  not inductive: Ack removes a batch, and that this loses nothing follows only
  from what the worker did before. `WorkerOK` says it, for each place in the
  loop: while filtering, what was passed over is covered by a fresh record or
  was handled; while publishing, the fresh records already visited were handled,
  and the one under way by the subscribers below `at`; at Ack the whole batch
  was handled; while marking, the records were handled and have left the
  outbox. The argument has two halves: each action moves the outbox, the window
  and the acting worker in one of a few ways (`OutboxMove`, `SeenMove`,
  `WorkerMoves`), and each of these ways keeps every worker's invariant
  (`WorkerFrame`), the others' because nothing a worker relies on is ever taken
  back (`Keeps`).
* `RecordsAreNotLost`, `SeenFollowsAck`: the two properties, from `SafeInv`.
* `WorkersDeliverAtLeastOnce`: the refinement of `AtLeastOnce`, with the
  record's status as the mapped state; `OutboxRefines` shows that each way to
  move the outbox is a store, an end, or a stutter.
* `ExportInvariant` (its `Inv` includes `TypeOK`), and from it `OneExporter`, `FlushIsComplete`,
  `SpansAreNotStranded` and `FlushIsWoken`. The invariant says that the numbers up to `completed`
  are exported, at most one more is with the goroutine, and the rest is the
  queue; that `exportWorkerRunning` is exactly the existence of a goroutine; and
  that a stopped worker leaves an empty queue. For the wake-up `WakeInv` adds that
  a Flush which waits has not seen a later channel than the current one, and
  that on the current one its target is not reached, so that a span is left to
  be exported and, with it, a goroutine.

* `DeadLetterPolicy`, and from it `AttemptsAreLimited` and `OneDeadLetter`. The
  invariant `DeadLetterInv` adds that a record not stored yet has no failed
  attempts; `PolicyStep` goes through the ways to move the outbox, and
  `MarkFailedKeepsPolicy` through the nack, whose second write may fail.
* `HubInvariant`, and from it `StreamsAreOrdered`, `AudiencesAreKept` and
  `StreamsAreComplete`. `InOrder` is not inductive alone: a new message is
  later than what waits only because all that waits, and the last message
  received, was sent before (`SentBefore`). One lemma per kind of step:
  `ConnectStep` rests on what the replay holds (`ReplayIsLater`,
  `ReplayLacksNothing`), `SendStep` on what a batch adds to a queue.
* `HubServesEventStream`: the refinement of `EventStream`, whose stream has no
  queue, no replay and no slow clients: a browser joins after a message, and
  while its stream is whole it receives the next message for its audience and no
  other. A stream of the hub is whole until the client is condemned
  or `ServeHTTP` leaves its loop (`Whole`); a `WriteReplay` or `WriteQueued` is a `Receive`, and that it
  skips nothing is where `InOrder`, `OnlyItsAudience` and `StreamLacksNothing`
  are used together. `AfterStart` says that what waits is later than where the
  stream began.
* `SesInvariant`, and from it `SessionTypes`, `RevocationIsFinal` and
  `SessionsEnd`. A request is dead when it comes after the end of its session;
  the invariant carries this from the cookie to the copy: the session it names
  has ended, so the copy it looks up says so. For the idle expiry, the time a
  request was decided at is at most the session's last activity, so that a late
  touch may move the expiry back and never beyond. `ExpiryBound` is the
  rounding to seconds.
* `RedInvariant`, and from it `RedTypes`, `RedisLosesNothing` and, by refinement,
  `RedisDeliversAtLeastOnce`: a batch that is
  about to be acknowledged was handled. `NextEntries` says that a read returns
  the entries that follow the last delivered one without a gap, so that the
  group's counter stands for them. `RedisStrandsNothing`: a worker that reads new
  entries holds all that is pending for its consumer, because the flag is only
  cleared by a read of the pending entries that found none, and a worker that
  returned is started again with a new store, whose flag is set.
* `PubInvariant`, and from it `GenerationsAreKept` and `CommitIsAllOrNothing`.
  Neither property is inductive: the invariant says of each place in the
  transaction what the slots before it, at it and behind it hold (`Ready`,
  `Waiting`, `Between`, `Replaced`, `RolledBack`), and that what is owed of a
  replaced slot is in its backup (`OldKept`); so a removal that stops in a
  rollback leaves the old generation there, and `Recover` meets a slot whose
  target is not whole only if it is in `pubStuck`. `GenerationsAreKept` stops at
  the `Recover` that follows such a rollback, and at nothing else.
* `OneWorkerDoesNotRedispatch`, for one worker over a seen store of either kind
  and any size; these two hypotheses are in the theorem, and `worker_dedup` is
  an instance of them. The invariant `DedupInv` says that what the filter has
  let through holds no event twice and none in the window; it lasts because the
  window gains no event before the worker marks the batch (`DedupStep`), which
  two workers would break.
* `QueuesAreBounded` and `ExportTypes`: the type invariants of the hub and of the
  export queue, with the bounds on their queues.
* `LifeInvariant`, and from it `ReturnsAreClean`. With no error so far it was the
  signal that ended the select (`NoErrorSoFar`), `Serve` returns
  `ErrServerClosed` only after `Shutdown` (`ServerOutcome`), and `servicesDone`
  is closed after the last service (`ClosedLast`).
* `SchInvariant`, and from it `ReturnsHaveCauses` and `JobsDoNotOverlap`. `Causes`
  says why each error is there, in the loops, in the channel and at the caller;
  `Modes` that an `@every` loop leaves its select only with an error for the
  caller; `OneRun` that a run lasts from its tick to the receipt of its outcome.
* `MemInvariant`, and from it `MemLosesNothing`: what a worker is about to
  acknowledge was handled, whoever else holds the same records; and
  `BrokerDeliversAtLeastOnce`, the refinement: a dispatch that reaches the last
  subscriber handles the batch (`MemDispatchHandles`), and only an Ack ends
  records (`MemAckEnds`).
* `CmdInvariant`, and from it `EffectsAgree`. `CallOrder` says where a call
  stands: the sinks before the next one have all its events once, those behind
  it none, and the next one what it kept when it failed.
* `ColInvariant`, and from it `StreamsHaveAll`: from the copy of the ring on, every
  span is written, waits, is about to be sent or is known to be missed
  (`StreamAccounts`); the spans recorded between the subscription and the copy
  are what makes this more than the property.
* `RingInvariant`, and from it `RingHoldsNewest`. The invariant holds between the
  passes of the loop too: the slots from `start` on hold accepted spans with
  their sizes (`SlotsHold`), in order and with no bytes between them
  (`SlotsOrdered`), so that `totalBytes` is a difference of two running totals
  (`TotalExact`); and a span that the ring does not hold any more is older than
  all it holds and exceeds a limit together with what came after it
  (`EvictedOrHeld`). `HistoryGrows` says that what exceeds a limit goes on to do
  so; `Wraps` and `PlacesDiffer` are the index arithmetic of the ring.
* `CollectorIsBounded`: the types of the collector, from these two invariants and
  the bounds `RingBounds` and `ClientBounds`: a channel within its capacity, and
  nothing told to a client that was not recorded (`RingSetRecorded`).
* `RateInvariant`, and from it `RateIsLimited`. Grants are told apart by their
  window: a window grants at most the limit (`WithinLimit`), grants of
  different windows lie apart (`WindowsApart`), and the entry in the store is
  the last window (`LastWindow`). Three windows therefore do not meet in one
  stretch. Each step moves the entry of a key in one of four ways (`EntryMove`),
  in memory and in Redis alike.
* `DevInvariant`, and from it `DevLoopServesInputs`. With one target a transaction
  has few shapes (`OneTarget`); a build that ended has put the output of what it
  read in place (`BuiltWhere`); and unless an edit raced with a build, the cached
  snapshot and the one the loop goes by are of the output beside them
  (`CacheTells`, `PreviousTells`), through the renames that move the cache.
* `NavInvariant`, and from it `AddressIsShown`: unless the tab is excused there is
  one load at a time (`OneLoad`), and address, document and load agree at each of
  its awaits.
* `PrefetchIsBounded`: the cache within its limit, its list without a repetition
  and naming exactly the cached documents, although `forgetPrefetched` cuts an
  entry out of its middle (`Spliced`) and a full list loses its head.
* `RegInvariant`, and from it `HandledIsRefreshed`: a refresh still names each
  region that its command made stale, or something later has come for it
  (`RefreshOK`), and an answer was rendered after its command (`FormOK`). The
  theorem has the property's exception: an event is also handled when nothing
  could be put in a region's place (`regMissed`).
* `HandledListIsBounded`: the list of handled events within its limit, each event
  once (`RememberOnce`), and no region, answer or refresh of a later version
  than the server's (`VersionsOK`).
* `PartsAreTheParts`, `FairPartsAreTheParts`: a behaviour of `MCRuntimeParts` or
  `MCFairParts` is a behaviour of each part, so that every theorem about a part
  applies to the specification the run checks; from them and the type theorems
  of the parts, `PartsTypes` and `FairPartsTypes`.

The invariants are written over sets, running totals and functions, not over
filtered or folded sequences, because the prover has no induction over data:
that is why the queue of the in-memory broker is a set of numbers, what a sink
has is a count per event, and the ring's history is a running total.

Only model-checked: the liveness properties `EveryRecordLeaves`,
`EverySpanExported`, `FlushReturns`, `CondemnedLeaves`, `DevLoopSettles`,
`JobsReturn`, `AppReturns`, `StreamDrains`, as liveness under fairness is beyond
the prover used here. `NoLostWakeup` and `RedNothingStranded` are the safety
halves of `FlushReturns` and `StreamDrains`, and are theorems. Five invariants
are theorems and are not listed in a run, because what the run checks already
breaks when they do: `NoRecordLost`, `MemNothingLost` and `RedNothingLost`
follow from the refinements of `AtLeastOnce` (and `RedNothingStranded`),
`OnlyItsAudience` for what is received from that of `EventStream`, and a lost
wake-up keeps `FlushReturns` from holding. The six
properties that the code violates have their counterexample and nothing to
prove.

## Not modelled

* The compiler, the generators, the configuration loader and the language
  server: nine tenths of the repository's lines. They translate text into files
  in one pass, share no state between calls and do not interleave; their
  properties are about the text, and there is no state machine to check. What
  of them has steps that can be interrupted, the publication of the output and
  the loop that watches the inputs, is modelled.
* Core NATS, which keeps no delivery state: there is no promise to relate the
  broker's steps to.
* The websocket fanout as a module of its own: its hub is `SSEHub` with
  `ReplayLimit = 0` and the empty audience, values for which the theorems hold.
* The Redis seen store (one atomic command), the collector's ingestion, signed
  cookies and key rotation, partial forms and islands in the browser, the
  live-reload broker, whose clients of four places miss events when they are
  full, and the dev loop's child process, which is stopped before its successor
  is started.
* Database migrations, where the database's transactions carry the guarantee.
* The checks of one request (CSRF, guards, uploads), which share no state with
  other requests.

### Details that are abstracted

* `Publish.BackUp`: the `CreateTemp` and `Remove` by which `unusedBackupPath`
  finds a name (`publish.go:233-246`) are one step with the rename. A crash
  between them leaves an empty file that the next `Recover` removes, or, for a
  target that was never published, puts at the target.
* `DevLoop.DevPublished`: a build has one target instead of two, and does not
  fail after its `Commit` (`dev_loop.go:182-184`). `MustBuild` leaves out
  `devOutputHasFiles` (`dev_loop.go:762`), which only adds reasons to build.
* `Schedule.SequenceStep`: the test of the context and the run that follows it
  (`schedule.go:190-193`) are one step; a cancellation between them is the same
  as one just after the run began.
* `Sessions.Issue`: one rotation at a time. `session.go:395-402` holds no lock
  over the revocation and the issue, and two rotations of one cookie at once,
  which issue two sessions, are not modelled.
* `MemBroker.MemAck` does not fail. With a cancelled context the code returns
  before it removes anything (`membroker.go:94-96`), and the records stay.
* `QueryRegions`: a query has at most one region in the page. Regions of one
  query that are shown twice, and the order of the regions in the two documents,
  are covered by the choices of `Replacement`.

## Plan

1. Done: the modules above, their runs, and the proofs listed.
2. Done: a theorem for every safety property that a passing run checks, and the
   three refinements of `AtLeastOnce` and the one of `EventStream`.
3. Left: the liveness properties, should a prover that takes fairness come to
   hand; and `DevLoop` as an implementation of an abstract rebuild-on-change loop
   once the findings `dev_lost_edit` and `dev_lost_generation` are settled.
