# TLA+ models of the stateful parts of opentelemetry-collector-contrib

The repository is a collection of some three hundred components of the
OpenTelemetry Collector. Most of them convert or rewrite one message at a time
and keep nothing. The ones that are hard to get right keep state across calls:
they store items on disk, hold traces in memory until a timer fires, hand out
permits, switch between destinations. This project models those, one module per
component, and checks and proves what the rest of the collector relies on.

Six components are modelled:

| Component | Code | Model | Proofs |
|---|---|---|---|
| Queue storage extension | `extension/storage/queuestorage` | `QueueStorage`, `ItemStore` | `QueueStorageProofs` |
| OTel-Arrow admission control | `internal/otelarrow/admission2` | `BoundedQueue` | `BoundedQueueProofs` |
| Group-by-trace processor | `processor/groupbytraceprocessor` | `GroupByTrace` | `GroupByTraceProofs` |
| Failover connector | `connector/failoverconnector` | `Failover` | `FailoverProofs` |
| Load-balancing exporter | `exporter/loadbalancingexporter` | `LoadBalancer`, `HashRing` | `LoadBalancerProofs` |
| Tail-sampling processor | `processor/tailsamplingprocessor` | `TailSampling` | `TailSamplingTraces`, `TailSamplingProofs` |

`Lists` holds the operations on lists that several models share, `SeqFacts`
lemmas about sequences that several proofs cite. Each model has an `MC...`
module with the definitions that its configurations need (functions from batches
to traces and from traces to workers, the endpoints of a ring), and one `.cfg`
file per run. `PROJECT.json` maps every definition to the lines it
models and lists runs, mutants, findings, hazards and theorems.

The components do not call each other: a collector configuration places them
in pipelines, and each pair is separated by code of the collector core, which is
not in this repository. So there is no module that composes two of them; the one
call between components, of the tail-sampling processor into its storage extension,
is inside `TailSampling`. The composition that exists is that of a queue with its
storage, and it is a refinement: `ItemStore` is what the queue needs,
`QueueStorage` implements it.

To run: `tlc -config QueueStorage_faults.cfg MCQueueStorage`,
`tlapm QueueStorageProofs.tla`, and so on. The two largest proof modules take
tlapm about twenty minutes each when nothing is cached.

## Conventions

- An action is one uninterrupted stretch of the code: what is done under one
  lock, or one transaction, file operation or channel operation. A call that
  releases its lock, waits or can die half way is several actions with a program
  counter. Where a lock protects a whole call and the call cannot fail in the
  middle, it is one action.
- Payloads are sets of names. Log lines, metrics, and the wording of errors are
  left out. Time is left out: a timer fires, a timeout passes and a ticker ticks
  at any moment after it was set.
- What the code does not decide is a choice: whether a file operation fails,
  whether a consumer accepts data, which of two ready channels a `select` takes,
  when a context ends.
- A definition whose comment starts with "Mutant" is not part of the model. It
  is a plausible bug in the definition it stands in front of, and is there to
  show that a property notices it.
- Definitions keep the names of the code: `onTraceExpired` becomes
  `OnTraceExpired`.

## Queue storage

`queueClient` implements the storage client that the collector's persistent
queue writes to. It spreads the queue's items over segment files, each a bbolt
database named by the first index it may hold. New items go to the last one, the
write segment; `rollIfNeeded` starts another when it is full; `gcSegment`
removes a segment whose items were all consumed; at most `max_open_segments`
files are open, and an LRU list decides which one is closed for another.

**State.** `disk` is what survives a crash: for every file its items and the
recorded write index (`qmv0`, the queue's metadata; its other metadata keys are
treated in the same way and are left out). `full` says which files have reached
the segment size; it is a choice made at a commit, since the size of an item is
not modelled. `segments`, `writeSegment`, `open`, `openList`, `liveKeys`,
`nextWriteIdx` are the registry in memory. `pc`, `batch`, `todo`, `touched` are
the call that holds `c.mu`. `wi` and `live` belong to the queue: its next index,
and the items it was promised.

**Actions.** `StartEmpty`, `StartExisting` (`initRegistry`), `Close`, `Crash`.
`Offer`, `Read`, `Ack` are the batches of the persistent queue and enter
`batchLocked`; `ExecGroup` runs one transaction per segment, `GcSegment` and
`GcSkip` the collection loop, `NoRoll`, `RollCreate`, `RollMigrate` the roll.
`Walk`, `WalkSegment`, `WalkApply`, `WalkEnds` are `Walk`. Each step that can
fail has a twin that fails (`ExecFails`, `RollCreateFails`, `RollMigrateFails`,
`WalkFails`, and the failing close and reopen in `EnsureOpenFails`).

The constant `Faults` selects what may go wrong, so that a run can say under
which faults a property holds. A theorem does the same with a condition on
`Faults` (`SafeFaults`, `CleanFaults`).

| Run | Checks | Shows |
|---|---|---|
| `queue_faults` | `IndexCoversItems`, `StoreSpec` | the queue's own batches against crashes (outside a roll) and failing file operations at every step; under the same faults `QueueStorage` implements `ItemStore` |
| `queue_bulk` | `NoItemLost`, `NoEmptySegment`, `GcOnlyEmpty` | batches over two old segments, and `Walk`, are safe with three open files, and without failures every consumed segment goes |
| `queue_anyfault` | `OpenFilesBounded` | the bound on open files survives every fault of the model |
| `queue_rollcrash` | `IndexCoversItems` violated | a crash between creating a segment and copying the metadata into it |

Four more things go wrong in this model and have no run of their own. To see
them, change the named configuration and check the named property:

- `QueueStorage_bulk.cfg` with `MaxOpen = 2`: `GcOnlyEmpty` and `NoItemLost` fail.
  `gcSegment` looks into a segment only when it is open (client.go:227) and
  `initRegistry` counts the items of the last segment only. After a restart, a
  batch that reads two old segments evicts the first while it opens the second;
  the first then counts as empty and is removed with its items. The comment at
  client.go:226 says "Double-check with bbolt scan."
- `QueueStorage_bulk.cfg` with the fault `crash`: `NoEmptySegment` fails. A crash
  after the last deletion and before the collection leaves a file that no later
  batch touches.
- `QueueStorage_faults.cfg` with the fault `retry`, or `bare`: `NoItemLost` fails.
  An offer whose commit fails leaves `nextWriteIdx` above the recorded index, and
  a roll names the next segment after it. When the queue then offers an item
  under the recorded index (at once, or after a restart) the item goes into a
  file whose name is above it, where reads do not look.
- `QueueStorage_faults.cfg` with `cleanup`: `NoItemLost` fails. A file left over
  from a failed roll is the next start's write segment.

**Bounds.** Two to four indices give up to five files: a write segment, an
older one that is open, one that is closed, and one that is collected meanwhile.
`max_open_segments` is 2, the smallest value that the code allows, at which
every third segment evicts one; `queue_bulk` uses 3. A batch names at most one
key in the runs with all faults, two in the one about several groups.

**Refinement.** `ItemStore` has three variables: the items that can be read, the
write index that can be read, and the deletions that the call in progress asks
for. `Begin` and `End` bound a call, `Offer` stores an item together with the
index above it, `Update` lets part of the requested deletions and a newer index
take effect. `StoredItems` and `RecordedIndex` map the files and the registry to
the first two. Rolling, collecting, evicting, failing and restarting are
stuttering steps. `queue_faults` checks the refinement on an instance,
`ImplementsItemStore` proves it.

**Proofs.** All in `QueueStorageProofs`, for any number of indices, open files
and keys per batch, each under the condition on the faults that the
counterexamples above call for:

| Theorem | Says | Condition |
|---|---|---|
| `TypeCorrect`, `OpenFilesAreBounded` | types; `OpenFilesBounded` | none |
| `ItemsStayRoutable`, `IndexAlwaysCovers` | `ItemsRoutable`, `IndexCoversItems` | `SafeFaults` |
| `NothingIsLost`, `OnlyEmptyIsRemoved` | `NoItemLost`, `GcOnlyEmpty` | `SafeFaults`, `FewKeys` |
| `ImplementsItemStore` | `StoreSpec`, the refinement | `SafeFaults`, `FewKeys` |
| `ConsumedIsRemoved` | `NoEmptySegment` | `CleanFaults` |

`SafeFaults` excludes a crash inside a roll, a failing cleanup and a retry under
the same index, and lets a batch without the index (`bare`) follow only when no
transaction, close or reopen fails. Each of these breaks one of the properties.
`FewKeys` is `MaxKeys = 1`, or fewer keys per batch than open files and no failing
close: with `MaxKeys = MaxOpen = 2` TLC finds the loss described above.
`CleanFaults` leaves only batches without the index and failing rolls: a crash, or
a failure that ends a batch before its collection loop, leaves an empty file
behind.

The argument goes in layers, each an invariant of its own.

- `BaseInv`. `OpenFilesBounded` alone is not inductive: the code frees a place by
  looking for a victim in the list, so the write segment has to occur in the list
  exactly once (`ListInv`); then a full list has another member.
- `KeyInv` (an item lies between the start of its file and the start of the next)
  and `IndexInv` (the recorded index is above every item and every file name, and
  a batch updates it before it can roll). Together with `BaseInv` they are `SafeInv`.
- `ExactInv` (unless closing fails, the list has each open file once) and
  `CollectInv`: the segments that a batch has used are the most recently used of
  the list, and fewer than fit into it, so that none of them is evicted before the
  collection loop looks into it. `LiveInv`: what was promised is in some file.
- `OfferInv` and `View` for the refinement. `View` is a consequence of `SafeInv`: the
  items that reads find are all items of all files, and the index that a start
  would find is that of the last file. A step that changes neither the union of
  the files nor the last file's index is then a stuttering step, and only
  `ExecGroup` is left to be matched with `Offer` or `Update`.
- `EmptyInv` for `ConsumedIsRemoved`: `liveKeys` never exceeds the number of items,
  so a segment without items counts 0, and an empty segment other than the write
  segment is one that the batch in progress will come to.

## Admission control

`BoundedQueue` limits the bytes that the OTel-Arrow receiver processes at a
time. `Acquire` admits a request, rejects it, or lets it wait; a release or a
cancellation admits waiters, newest first.

**State and actions.** Each request is one call of `Acquire`. `Reject`,
`AdmitFast` and `Wait` are `acquireOrGetWaiter`, one critical section.
`SelectNotified` and `SelectDone` are the `select`; `Cancel` is the path after
`ctx.Done()`, which takes the lock only later, when the call may have been
admitted. `Release` is the returned function. `AdmitNext` and `AdmitDone` are
the loop of `admitWaitersLocked`, with the lock held (`admitting`). The counters
wrap at `Word`, standing for 2^64.

| Run | Checks | Shows |
|---|---|---|
| `admission` | `TypeOK`, `CountersExact`, `NoRoomWasted`, `EveryWaiterReturns` | four requests of 0 to 3 bytes, an admission limit of 2 and a waiting limit of 3, under fairness |

**Bounds.** Four requests are the least with one admitted, two in the list, and
one that takes room past them; sizes reach one above the limit, zero included.

**Fairness.** A goroutine that can go on does, the mutex starves nobody (Go's
`sync.Mutex` has a starvation mode for this), and whoever holds a release
function calls it, as the receiver does in a deferred call. No context has to
end. There are finitely many requests: with an unending stream of new ones a
waiter may wait for ever, since newer waiters and the fast path go first.

**Proofs.** `TypeOK`, `CountersExact`, `NoRoomWasted` and `WaitersListed` (a waiting call is in the list exactly once), for any finite set of requests and any limits
whose sums stay below `Word` (`WordAssumption`, true of any limit a machine could
have). The counters are compared with the sizes of sets of pairs (request, byte),
so that a sum is a cardinality, which the provers can reason about.

## Group-by-trace processor

The processor collects the batches of a trace for a while and releases them
together. An event machine hashes each trace to a worker; a worker has a channel
of events and a ring buffer of trace IDs that limits how many traces it holds.
All workers share one storage. A new trace may evict the oldest one of the ring;
a timer expires a trace; a goroutine of its own then copies the trace from the
storage and fires two events, which deliver it and remove it from the storage.

**State.** A batch is what `ConsumeTraces` splits off for one trace, and every
goroutine that exists because of a batch is named after it: the caller, the
handler `onTraceReceived` that waits while it evicts (`adding`), the timer
(`timers`), the release (`getting`). `calling` holds the events that a goroutine
is about to `fire`, `sending` those that it still has to put into the channel
while it holds the read lock of `shutdownLock`. `handler` is what a worker is
doing. `life` is the progress of the shutdown. `delivered` counts what the next
consumer got.

**Actions.** `Consume`; `Fire` and `Send` (`fire`, one step per event sent);
`ReceiveKnown`, `ReceiveNew`, `ReceiveEvict` and `ReceiveEnd` (`onTraceReceived`,
split at its call of `fire`); `TimerFires`, `OnTraceExpired`,
`OnTraceExpiredSkip`, `MarkAsReleased`, `OnTraceReleased`, `OnTraceRemoved`;
`Abort` is `doWithTimeout` giving up on a handler, which goes on beside the
worker; the shutdown takes `LockAndClose`, `CloseWorkers` and `Stop`. The
constant `Stalls` says whether handlers are given up.

| Run | Checks | Shows |
|---|---|---|
| `groupby_safety` | `StorageOwned`, `ReleasedIsRemoved` | three traces on two workers, two of them in competition for one slot; no handler is given up; a channel has room for both events of a release |
| `groupby_live` | `ExpiryPending`, `LeavesRing`, `ConsumeReturns`, `ShutdownEnds` | channels of one event, handlers that are given up: the worker blocks on its own channel, and recovers |
| `groupby_late` | `NoSpanLost` violated | a batch that arrives between the copy and the removal of its trace is lost |

Two more things follow from the same gap and have no run. A trace that comes back
before its removal is released with its old batches, which are then delivered
twice. And a handler that was given up may store a batch after its trace was
removed: nothing removes it again, which is why `StorageOwned` is claimed only
when no handler is given up.

**Bounds.** One slot per ring is the size at which every new trace evicts
another. Three batches of two traces are the least with which a trace is evicted
and comes back, and so has two timers. A channel of one event is the size at
which a worker waits for itself; the safety run has room for two so that events
of several goroutines mix in one channel.

**Fairness.** Weak fairness of every goroutine, timer and shutdown step. Nobody
has to send a batch or to shut down. A goroutine that waits for room in a channel
needs no strong fairness here, because the batches, and with them the events of
the others, are finite in number. The one-second limit of a handler is a step of
the worker, which Go's timers guarantee to come.

**Proofs.** `GroupByTraceProofs` shows `TypeOK`, `RingConsistent`,
`ExpiryPending` and `ReleasedIsRemoved`, for any traces, batches, workers and
sizes, with handlers given up or not. Its invariant adds two facts: `RouteInv`,
every event waits in the channel of the worker that its trace is hashed to and
was fired by a goroutine of that trace, and `ReleaseInv`, the two events of a
release are together or the second one is the next its goroutine sends. Routing
is why the expiry of a trace reaches the ring that holds it.
It also shows `StorageOwned` when no handler is given up. That needs
`StoreInv`: the worker of a trace is busy with the handler that is adding the
trace, so no other event of that worker comes between.

## Failover connector

The connector sends data to the first level of a list that works. A failure
moves the router down a level; a goroutine regularly asks for a retry, and the
next call then probes the higher levels and moves the router back up when one
accepts.

**State and actions.** A call of `Consume` goes through `sampleRetryConsumers`
(`BeginSample` to `ResetHealthyPipeline`), the loop of
`consumeByHealthyPipeline` (`GetCurrentConsumer`, `Accepted`, `Failed`), and
`reportConsumerError` (`TryLocked`, `TryNotLocked`, then `HandleError`,
`NextStableLevel`, `TryEnableRetry`, `LaunchRetry`, each a step because
`currentPipeline` is read and written by others in between). `Tick` and
`RetryEnds` are the retry goroutine, whose one token travels through a channel.
The three signal types share this code and differ in the data only.

| Run | Checks | Shows |
|---|---|---|
| `failover` | `TypeOK`, `TokenExact`, `ConsumeReturns` | three calls over two levels, every order of failures, probes and the shutdown; the loop over the current level ends for every call |
| `failover_retry` | `KeepsRetrying` violated | a failure while a canceled retry goroutine still has the token starts no new one |

One more consequence of the unlocked steps has no run: between the comparison in
`HandleError` and the increment in `NextStableLevel` a probe may move the router
up, and the increment then leaves a level that was just found healthy.

**Bounds.** Two levels and three calls: one that probes, one that reports, one
that tries the same level again. **Fairness.** A call that has begun goes on and
a canceled goroutine ends; the ticker need not tick and no level need accept.

**Proofs.** `TypeOK`, which says that the current level never passes the end of
the list, and `TokenExact`, for any finite set of calls and any number of levels.
The level is incremented after an unlocked comparison; it stays in range because
only the holder of `errTryLock` increments it and only a level that exists can
have failed, which is what the invariant says of a call between the two steps.

## Load-balancing exporter

The exporter sends each routing identifier (a trace ID, a service name) to one of
several backends. A resolver reports the list of backends; `onBackendChanges`
builds a hash ring from it, starts an exporter for every new backend and shuts
down, each in a goroutine of its own, those of the backends that went. Meanwhile
calls of `ConsumeTraces`, `ConsumeLogs` and `ConsumeMetrics` look exporters up and
send to them; a wait group per exporter (`consumeWG`) keeps it from being shut
down under them.

**State and actions.** `phase`, `endpoints` and `callbacks` are the resolver,
`ring` and `exporters` the load balancer, `state` and `consumeWG` belong to the
wrapped exporters, `pc`, `todo`, `found`, `held`, `sending` to a call, `stop` is the
progress of `Shutdown`. `onBackendChanges` holds `updateLock` from beginning to end
and is one step; a call releases the lock between `Lookup` and `Count`, and that
gap is in the model. `TracesFail` and `LogsFail` are what the signals do when an
identifier has no exporter, and `TracesFail` when the identifiers of some spans
cannot be told. `StartStatic`, `StartPeriodic`, `Resolve`, `Propagate`,
`ResolverEnds` are the resolvers, `ShutdownStatic` to `ShutdownEnd` and
`WrappedShutdown` the shutdowns. `HashRing` is `consistent_hashing.go` as functions:
the two sorts, the probing of collisions, the binary search.

| Run | Checks | Shows |
|---|---|---|
| `loadbalancer` | `RunningIsListed`, `RingIsServed`, `WaitGroupExact`, `ShutdownWaits`, `TracesShutdownEnds`, `TracesRemovedGoDown` | two calls against changes of the backends and the shutdown: traces with both kinds of resolver, logs with the static one |
| (same run) | `RingAnswers`, `RingIsFair` | the binary search finds the next item clockwise; the ring is the same in whatever order the backends are listed, with collisions and probing, and no backend loses a point for which there is room |

**Bounds.** Two endpoints, `a` and `a:4317`, have one address, the third may fail
to start. One exporter may be created for the first address and two for the
second, so that a backend goes and comes back. The ring has ten positions and
three points per endpoint; several points share a position, two of them with one
checksum, and the two probes go around the end, find a place or give up. It is
checked for every list of up to three of four endpoints, endpoints named twice
included, and for all the orders of the four.

**Fairness.** Calls, goroutines and the resolver go on, and a backend answers. The
end of the resolver needs strong fairness: its `select` has a closed channel and a
ticker, and Go chooses among ready cases at random.

**Proofs.** `TypeOK`, `WaitGroupExact`, `RunningIsListed`, `RingIsServed` and
`ShutdownWaits`, for any endpoints, routing, finite set of calls and failing
exporters. The inductive invariant adds to the first four where a call stands
(`PlaceInv`: it sends only to an exporter it has counted itself in), that a list
which is about to be passed on is within the bound (`ReportInv`), and that nothing
was created before the start (`NewInv`).

What the model shows beside the run: the liveness properties hold for traces only.
When one identifier of a call has no exporter, `ConsumeLogs` returns at once
(log_exporter.go:128) and so does `ConsumeMetrics` (metrics_exporter.go:134),
without giving back the counts of the exporters already collected; their shutdown
then waits for ever. `ConsumeTraces` gives them back, and its comment says why:
"otherwise Shutdown's consumeWG.Wait() would hang on the skipped Done() calls"
(trace_exporter.go:128). Without the premise about traces,
`TracesShutdownEnds` fails in TLC.

Also in the model: a call between `Lookup` and `Count` is not yet counted, so the
exporter it has found may be shut down before it sends. `ShutdownWaits` is about
calls that are counted.

## Tail-sampling processor

The processor holds the spans of a trace until its policies decide whether the
trace is sampled. The model is one shard: a goroutine with a `select` loop that
alone touches the shard's traces.

**State.** `shard` has the traces held (`idToTrace`), the span storage, the queue
of traces to evict, the batcher (a ring of batches and the current one) and the
caches of sampled and not sampled IDs. A batch ID is kept as its distance from
the batch that the next tick takes. `deciding` is the rest of the batch in hand,
`work` the rest of the payload in hand, `workChan` the channel in front of the
loop, `issued` and `applied` the updates of the policies and of the size limit.
`fate` records what became of every span.

**Actions.** `ConsumeTraces`, `SetUpdate` and `Shutdown` come from outside. The
loop takes work (`TakeWork`, after the updates), goes through it (`ProcessNext`:
caches, `waitForSpace`, `processTrace`), takes a batch (`Tick`), decides it trace
by trace (`Decide`), and ends (`CloseWork`, `Finish`). With `block_on_overflow` a
new trace that finds the map full makes the loop wait (`WaitForSpace`): it takes
nested turns without work (`Blocked`), and when there is room it goes on with the
spans in hand without a second look at the caches, as `iter` does. A policy of the
type drop says "dropped", "not sampled" or an error, any other policy, extensions
included, anything; how the answers are combined (`makeDecision`,
`makeDecisionOnSpanIngest`, `loadSamplingPolicies`) is modelled exactly.

The storage in memory never fails. With `fallible` it is the Pebble extension:
`Append`, `Take` and `Delete` may return an error, and what `Take` cannot read it
only logs and leaves out, so that it may answer with fewer spans than were stored
or with none (`readByTracePrefix`).

| Run | Checks | Shows |
|---|---|---|
| `tailsampling` | `TypeOK`, `MemoryBounded`, `HeldEverywhere` | the limit on traces; map, queue and storage agree |
| (same run) | `PendingIsBatched`, `BatchedOnce`, `PendingEnds` | every undecided trace is in the batch it is due with, and is decided |
| (same run) | `DecisionRemembered`, `FollowsDecision`, `DropWins` | late spans follow the decision while it is known; a drop policy wins |
| (same run) | `UpdatedBeforeWork`, `EverySpanMet`, `ShutdownDecides`, `ShutdownEnds` | updates come before later payloads; the loop and its shutdown leave nothing behind |

**Bounds.** Three traces for room for two, so that one is evicted or waited for;
one trace has its root span in a later payload, with a wait after the root of one
tick against two. The first policies are three, the second of them a drop policy;
an update leaves a drop policy alone. One update per behaviour (`MaxUpdates`), of
the policies or of the size limit. Eight configurations: both overflow modes, with
and without caches, both strategies, first match, dropping what is pending at
shutdown, storages that fail. A storage that fails is run with eviction on complete
traces and with waiting on ingest.

**Fairness.** Weak fairness of the loop and of its ticker. The payloads are finite
in number, so work cannot keep the ticker waiting for ever; nobody has to send,
update or shut down.

Exceptions in the properties are behaviours of the code. TLC finds each of these
when its exception is taken out (for a shutdown that leaves a trace undecided, with
a failing storage and `dropPending` off as a further configuration):

- `block_on_overflow` without both caches: decided traces stay in memory and no
  tick makes room, so the loop waits for ever, through a shutdown (`GetsSpace`).
- A failing `Append`, or a `Take` that cannot read, leaves a trace without spans
  when its batch comes; the tick skips it and it is in no batch any more. It stays
  undecided, through a shutdown too (`FindsSpans` in `PendingIsBatched`,
  `ShutdownDecides`, `PendingEnds`). On ingest the tick does not read the spans, and
  there is no exception.
- A failing `Delete` leaves an element in the queue for a trace that is gone, and
  evicting that element makes no room: more than `num_traces` are held
  (`MemoryBounded`).
- A trace that was evicted and comes back is still in its old batch, and is
  decided with that one, before its time (`BatchedOnce`).
- An answer "dropped" of a policy that is not of the type drop, an extension's,
  loses to a policy before it that samples, with `sample_on_first_match` and on
  ingest; and on ingest it is not asked for while a drop policy may still match
  (`DropWins`). The interface says that "a trace should be dropped regardless of all
  other decisions" (pkg/samplingpolicy/samplingpolicy.go:39); only policies of the
  type drop are sorted to the front.

One more exception is outside the run's configurations, and the proof needs it:
without a cache for sampled traces, spans that `Take` did not find when a trace was
decided stay in the storage, and go when the trace does (`FollowsDecision`).

A detail that follows the code to the letter: a drop policy that returns an error
does not hold back a sampled answer when decisions are made on ingest, unlike one
that did not match.

Left out: the policies' predicates, several shards (they share a counter only), a
cancelled context, hooks, the caches' mixing up of traces whose IDs end in the
same eight bytes, and errors of the next consumer, which are only logged.

**Proofs.** All safety properties of the run but `DropWins`, for any number of
traces, spans, batches, policies, updates and every configuration. The constants
are only assumed to have their types, and the spans of one payload to be distinct
(`SamplingAssumption`): a name stands for one arrival of spans.

| Theorem | Says |
|---|---|
| `TypesHold` | `TypeOK`: batch IDs, slots and caches stay within their bounds |
| `MemoryIsBounded` | `MemoryBounded` |
| `QueueMatchesMap` | `HeldEverywhere` |
| `PendingHasBatch`, `OneBatchEach` | `PendingIsBatched`, `BatchedOnce` |
| `CachesAgree`, `LateSpansFollow` | `DecisionRemembered`, `FollowsDecision` |
| `UpdatesComeFirst` | `UpdatedBeforeWork` |
| `ShutdownLeavesNothing` | `ShutdownDecides` |

The inductive invariant `IInv` is mostly a statement about each trace
(`TraceInv`): what the caches know of it (`RememberInv`), whose spans the storage
has for it (`SpanInv`, `StoredInv`), that it is in the batch it is due with or in
the one in hand, or its batch has come and its spans may not have been found
(`BatchInv`), and in no other batch under the conditions of `BatchedOnce`
(`OnceInv`). It adds the queue and the limit (`QueueInv`, `SizeInv`), the order of
updates and payloads (`VersionInv`), that spans which wait are distinct and have
met nothing yet (`WorkInv`), that `fate` agrees with the storage (`FateInv`),
where the loop stands (`PhaseInv`), and that a trace which waits for space is
neither held nor cached, whatever the nested turns decide (`WaitInv`): this is why
`iter` need not look at the caches again. `TailSamplingTraces` shows what each part of a
step (`waitForSpace`, `processTrace`, `Release`, `dropTrace`, the batcher's moves)
does to the one trace it touches; the other traces keep what they have, and a
lemma (`SameKeeps`) carries their invariant over. `TailSamplingProofs` puts the
parts together, one lemma per action. A tick is the one step that touches all
traces: it brings every batch one step nearer, and the proof is that the ring of
slots and the batch IDs move together (`TickBatches`, `TickTrace`).

## What is only model-checked, what is only proved, and what is not shown

- Proved for every value of the constants, and so not repeated in a run: the type
  invariants of `QueueStorage`, `GroupByTrace` and `LoadBalancer`, `ItemsRoutable`,
  `WaitersListed`, `RingConsistent`.
- Checked in a run and proved: every other safety property of the passing runs,
  the refinement of `ItemStore` included, except the ones named next.
- Liveness under fairness, and `ENABLED`, are outside what the proof system does:
  `EveryWaiterReturns`, `LeavesRing`, `ConsumeReturns`, `ShutdownEnds`,
  `TracesShutdownEnds`, `TracesRemovedGoDown`, `PendingEnds`, `EverySpanMet`.
- What a recursive definition computes for every input cannot be proved either,
  since that takes an induction over data: `RingAnswers` and `RingIsFair` are
  checked on the rings of the instance. `DropWins` compares the order in which
  `loadSamplingPolicies` puts the policies, a filtered sequence, with the answers;
  it is checked for the policies of the instance.
- The properties of the violation runs are false, and TLC's traces show how.
- The proofs are about the models. What ties a model to the code is the map and
  the mutants: each property of a passing run is violated when one mapped
  definition is changed into a plausible bug.
- bbolt is assumed to make a transaction atomic and durable, the operating system
  to create and remove files atomically, Go to implement mutexes, channels and
  timers as documented.

## Not modelled

Of the six components, parts are left out as their sections and `PROJECT.json`
say. The rest of the repository has no model. For the stateless parts the note
says why one would show little. The stateful ones could be modelled in the same
way; the note says what such a model would be about.

| Part | Note |
|---|---|
| File consumer (pkg/stanza/fileconsumer), behind filelog and others | No model was written; it would be about polls, fingerprints, rotation by move and by copy and truncate, checkpoints and restarts. |
| File storage extension | No model was written; it would be about online and on-start compaction against concurrent operations, as another implementation of the storage client of ItemStore. |
| Other storage extensions | One statement of an external database per operation; the interesting state is the database's. |
| Ack extension | No model was written; it would be about concurrent ProcessEvent, Ack and QueryAcks on bounded LRU caches: a partition that was just added can be evicted before it is looked up again (inmemory.go:85), and ack reads and then adds (line 49). |
| Shared components | No model was written; it would be about start and stop of an instance that several pipelines own: when the first Start fails, that of the second owner returns nil (sharedcomponent.go:62). |
| OTel-Arrow exporter and receiver | No model was written; it would be about stream lifetimes, the prioritizer and the downgrade to OTLP, composed with the admission control that is modelled as BoundedQueue. |
| Round-robin connector | One atomic counter modulo the number of consumers. |
| Service-graph connector | No model was written; it would be about the edge store with its expiry and its completion callbacks. |
| Interval and log-deduplication processors | No model was written; it would be about aggregation against the periodic export and the flush at shutdown. |
| Temporality processors and stream state | No model was written; it would be about stream limits, staleness and resets; the point arithmetic is on floats and histograms and stays abstract. |
| Kubernetes leader elector | No model was written; it would be about callbacks registered before and after leadership changes; the lease protocol itself is client-go's. |
| Receiver creator and observers | No model was written; it would be about endpoint notifications against the map of running receivers. |
| OpAMP supervisor and OpAMP extension | No model was written; it would be about configuration changes against the restarts of the agent process. |
| Prometheus remote-write exporter with its write-ahead log | No model was written; it would be about the write-ahead log's read and truncate positions against restarts. |
| Tail storage extension, beyond `Append`, `Take` and `Delete` | The three calls are part of `TailSampling`, with their errors. Keys, encoding, opening and closing are left out; the database is a library outside this repository. |
| Health check (v2) and status aggregation | A tree of component states under one lock and HTTP or gRPC views of it. |
| Kafka client code, receiver and exporter | No model was written; it would be about marking and committing offsets against rebalances and retries; the broker is external. |
| Stanza operators and entry pipeline | Parsers and transformers are functions of one entry. The recombine operator and the emitter's batches keep state; no model of them was written. |
| OTTL and the processors and connectors built on it | An expression language: pure evaluation over one record, no state between calls. Its data types are strings and maps that an abstraction would leave out. |
| Sampling arithmetic | Pure functions on 56-bit thresholds and their text form; unit tests cover them well. |
| Translators, data-model helpers and encodings | Conversions of one message at a time, with no state. |
| Remaining connectors | Counts, sums and conversions of one signal into another; those that aggregate do so under one lock. |
| Remaining processors | Rewriting of records one at a time, or caches in front of a pure function. |
| Remaining exporters | Conversion to a vendor's format and one request; queueing, batching and retries are those of the collector's exporter helper, which is not in this repository. |
| Remaining extensions | Authenticators, proxies and diagnostics: one request at a time. |
| Remaining receivers | Servers that convert one request at a time, and scrapers that poll an external system; the scheduling of scrapes is the collector's. |
| Configuration providers | Fetch a document once. |
| Command-line tools and test bed | Generators, build and test tools; no part of a running collector. |
