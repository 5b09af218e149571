# A TLA+ model of agntz

agntz runs agents: a hosted worker (`packages/worker`) or an embedded SDK
(`packages/sdk`) takes a request, drives a model in a loop that may call tools and
spawn child agents (`packages/core`), and keeps sessions, runs, datasets, evals and
provider batches in a store (`packages/stores`).  This directory holds TLA+ modules of
the parts in which concurrency, failure and ordering decide whether the program is
right, the TLC configurations that check them, and TLAPS proofs.

Every definition is translated from the TypeScript source.  The program is single
threaded per process, so an action is the code between two `await`s; what
interleaves are requests, timers, promise continuations, worker replicas and the
provider's servers.  `PROJECT.json` maps each definition to its source lines.

## 1. Inventory

| component | state | operations | hard behaviour | what makes it correct | module |
|---|---|---|---|---|---|
| Provider batch service `worker/src/batches/service.ts` | none of its own: records, item rows, leases and outbox rows in the shared store | submit, cancel, reconcile (every 15 s on every replica), delete | every step is a read, an await and a whole-record write; replicas, requests and the provider overlap; crashes | one submission per key; items settle before the run; results final; every run ends and is announced once | `BatchRun` |
| Batch tables in the stores `stores/src/{memory,sqlite,postgres}.ts` | rows, unique key index, lease columns | put, claim, delete | the SQL stores clear the lease on each put, the memory store does not | as above | `BatchRun` (`PutClearsLease`) |
| Session lock `core/src/run-registry.ts` | `sessionLocks`, a chain of promises | acquire, release | releases and arrivals rewrite one map entry | exclusive, first come first served, no entry left behind | `SessionLock` |
| Run registry `core/src/run-registry.ts` | runs, session index, pending results, waiters, abort signals | create, start, cancel, settle, deliver, await, evict | settlement reported twice, cancel at any time, eviction under running children | one run in flight per session; cancel reaches the tree; each result delivered once | `RunRegistry` |
| Runner loop `core/src/runner.ts` | one loop per run | invoke, stream | children settle during model calls; streams abandoned | an answer without tool calls has seen all children; waiting ends | `RunRegistry` |
| Run event stream `run-registry.ts` emit/subscribe, SSE route | replay buffer, sequence numbers, subscribers | emit, subscribe, resume | replay and live events overlap; terminal event during replay | a reader that resumes misses nothing | `EventStream`, `RunStream` |
| Webhook delivery `worker/src/webhooks/dispatcher.ts` | outbox rows | dispatch, loop | timeouts, retries, failing store calls | replies in order, outcome last | `WebhookDelivery`, `RunStream` |
| Client tools `worker/src/client-tools.ts` | pending requests, timers | dispatch, submit, expire, abort | answer, deadline and cancel race; lost responses | settled once, both sides agree | `ClientTools`, `RunStream` |
| Run persistence `worker/src/routes.ts` persistRunInOrder | a promise chain per run | put, flush | slow and failing puts | rows never go back; a flush waits for the last put | `RunWrites` |
| Hosted evals `worker/src/routes.ts` | one stored record, controllers | start, execute, cancel | two writers of one record, replicas, failing calls | no item twice, none missing at the end | `HostedEval` |
| Trace registry `worker/src/trace-registry.ts` | span buffers, flushes, subscribers | start/end span, flush, view | failed batches, back-pressure, late spans | viewers see all; no span waits for ever | `TraceLive` |
| Dataset imports `stores/src/postgres.ts`, `client/src/client.ts` | import sessions, staged items | create, stage, complete, delete | a request that was given up is still at work | all or nothing | `DatasetImport` |
| Eval versions `stores/src/postgres.ts` | current row, versions, aliases | put, activate, alias, delete | transactions overlap, one millisecond for two | versions never change, pins resolve | `EvalVersions` |
| Token resolver, retry `core/src/auth`, `core/src/http-tool.ts` | token cache, fetch in flight | resolve, invalidate, retry | single flight around awaits | one fetch, no refused token twice | `TokenResolver` |
| Memory service `packages/memrez` | topics, entries, grants | write, correct, curate, erase | passes overlap with users and with each other | nothing told is lost; what is erased stays erased (it does not, see `memory_erase`) | `MemoryEntries` |
| Manifest validator and executor `core/src/manifest` | a pipeline's state | validate, execute | skips, loops, opaque outputs, failing branches | what was validated is provided | `Pipeline` |
| Spawn limits, rate limit, artifacts, adapters, model provider, MCP, contracts, db, app, site, Python port, harness | - | guards, I/O, conversions | - | - | not modelled, reasons in `PROJECT.json` |

How they interact: a request takes the **session lock**, looks into the **registry**'s
session index, cancels and awaits the run in flight, creates its own and releases.  The
**runner loop** calls the model, spawns children in the registry, collects their results
through the pending queue, and reports its end; the registry resolves waiters, delivers
to the parent, emits events and later evicts.  Events go to SSE readers, to the attached
application that answers **client tool** calls, and to **webhooks**; status changes go to
the store through the **write chain**; spans go to the **trace registry**.  **Batch runs**
do not use the registry: they live in the store, and the worker's interval timer drives
them.  **Hosted evals**, imports, versions, tokens and memory share no state with runs.

## 2. Plan

1. `BatchRun` - checked and proved.
2. `SessionLock`, `RunRegistry` (extends the lock), the abstract `SessionSlot` that it
   implements - checked and proved.
3. `RunStream`: `EventStream`, `WebhookDelivery` and `ClientTools` composed, and the abstract
   `RunLog` that the stream implements - checked and proved.
4. The services that share no state: `Pipeline`, `HostedEval`, `RunWrites`, `TokenResolver`,
   `TraceLive`, `DatasetImport`, `EvalVersions`, `MemoryEntries` - checked and proved.
5. Left: the safety parts that the liveness properties rest on (a waiting reader has an
   event or a closing signal to come, an ended span is in the buffer with its timer armed,
   in a batch, stored or lost), which would leave only fairness to TLC; an abstract
   idempotent submission that `BatchRun` implements; an abstract slot for imports.

## 3. The modules

### `BatchRun`

`db`, `items`, `lease` and `outbox` are the store's tables; `sub`, `can`, `del` and `wk`
are where each submission, cancel, delete and pass is, with the record it read, because
the code writes that copy back whole; `prov` and `result` are the provider.

* `SubLookup … SubFail` are `submitBatchRun`, one action per await.  `PutBatchRun` is the
  store's put, refused by the unique key index (`Conflict`) and, on the SQL stores,
  clearing the lease.  A provider call that throws may have created the batch.
* `CanRead/CanProvider/CanPut` are `cancelBatchRun`, `DelRead/DeleteBatchRun` the DELETE.
* `Claim … AbortPass` are one pass of `reconcileBatchRuns`.  `Throw` is any awaited call
  that throws, `PutError` the catch block.  `nextPollAt` only delays; any time may pass
  between two steps, so it is left out.
* `SubCrash`, `CrashPass` kill a process between two steps; `LeaseExpires` is the clock.

Abstracted: prompts, provider options, paging, tenancy, counts and error texts.  A run's
provider id is a flag, because it is always its own batch's.

### `SessionLock`

A caller is one call of `acquireSessionLock`.  `tail` is the map; `prev` the promise a
caller awaits; `ticket` and `clock` are history variables that number the calls.

### `RunRegistry`

Extends `SessionLock`.  A top-level run has the name of the caller that creates it.
`Supersede/Begin/Replace` are the code under the lock in `startUserRun` and `invoke`;
`Spawn` is `spawn_agent`; `Inject`, `TurnEnd`, `StopsWithTools`, `StepsExhausted`,
`DrainTimeout` are the loop in `runner.ts`: `TurnEnd` is a step without tool calls, which
looks at the children before it answers, `StopsWithTools` the answer beside tool calls,
which does not; `Notify*` and `ExecutorReturns` are the two reports of one settlement;
`Settle` is `completeRun`/`failRun` with the index, the waiters and the delivery to the
parent; `Cancel` and `EvictSubtree` are the registry's own.  `Abandon` is a consumer that
breaks out of `for await` over `stream()`: the generator has a catch and no finally, so
nobody reports the run's end.  `up[k]` is the set of runs whose abort and eviction reach
`k`; it is empty for the child of an evicted run, which the code makes a root.

Abstracted: events, persistence, spans, results' contents, the spawn limits, and the model
and tool calls between two turns, which are the time between two actions.

### `SessionSlot`

What cancel-and-replace promises without locks or signals: a session's slot is taken when
free, left once, never retaken.  `RunRegistry` implements it with `slot <- index` and
`left <-` the persisted runs that have settled (`SlotSpec`).

### `EventStream`, `WebhookDelivery`, `ClientTools`, `RunStream`

One root run and who follows it.  `log` is every event emitted; the replay buffer is its
last `BufferSize` events.  A `reader` is a generator returned by `subscribe`: it iterates
over the buffer while `emit` pushes and shifts it (`overrun` records that it was shifted
past what was still to be replayed), then takes from its queue.  `CloseReaders` is the
microtask after the final event, `Evict` the grace timer.

`hook`, `job` and `rows` are the forwarder of `routes.ts`, the dispatch it awaits and the
outbox: insert, secret, post, settle, one action per await, with store calls that throw.
The forwarder goes from the replay into the live queue and takes events there until its
generator ends (`MainOver`).  An event that is both replayed and queued is read twice, by
it as by any reader, and a reply read twice is delivered twice: `WebhookTellsRun` allows
that.  Though routes.ts:4928 says that slow consumers do not block subsequent events, a
dispatch is awaited with all its retries.
`request`, `timer`, `listening` and `outcome` are the broker of client tool calls; `told`
is what the application was answered.

`RunStream` composes them.  `mode` says who follows: the webhook forwarder of a durable
run, the attached application (`conn`, `inbox`, `client`: it answers the calls it reads
from the stream, and tries again when a response is lost), or `GET /runs/:id/stream`, which
may break off and resume.  Readers share only the buffer, so one at a time is enough.

### `RunLog`

What a stream promises: a log that only grows; each reader reads a prefix event by event
and is let go at the final event; above `Capacity` a reader may lose track.

### The services

`MCServices` puts eight modules side by side; each behaviour is one of a single part.

* `Pipeline`: `LoadStep` is a turn of the validator's loop, `Execute` and the rest are the
  sequential, loop and parallel executors.  `began` records what each child got.
* `HostedEval`: `local`, `latest` and `outgoing` are the three copies of the record that
  `executeHostedEval` works with; `asked` are cancel routes, on this replica or another.
  The order in which missing cases are appended is left open, since nothing depends on it.
  `lost` is an executor whose last write, in the catch block, threw as well.
* `RunWrites`: `behind` and `lastWrite` are the promise chain of `persistRunInOrder`.
* `TokenResolver`: the n-th fetch yields token n; `call` is where each tool call is.
* `TraceLive`: `pending`, `flushTimer`, `batches` are the span buffer; `liveQueue` and
  `shown` a viewer's queue and what it read; `sent` is history.
* `DatasetImport`: requests that the SDK gave up may still be at work; `rowLock` is the row
  lock of the import, `copied` and `condemned` what a statement saw when it began.
* `EvalVersions`: versions are keyed by the millisecond of the put; `torn` records that a
  delete overlapped another change or was left half-way.
* `MemoryEntries`: `carries` is history: the facts an entry stands for; `erased` are the
  entries that were hard-deleted.  A replacement put after its original was erased carries
  the original's facts: `FactsKept` counts on it and `ErasedStaysErased` forbids it.

Known and left outside the properties:

* a cancel that another replica serves is overwritten by the executor's next write, and a
  cancel that puts its older copy over a stored completed record may turn results into
  placeholders: `EvalReport` only asks that no item be missing or twice;
* the stamp that marks a topic as curated is taken after the curator's call, so an entry
  written during the pass counts as curated (`DirtyTopic`);
* a put of a batch run that commits and then rejects (service.ts:124-150) would be followed
  by a put of `failed`; a put that throws is modelled as one that had no effect;
* two steps of a manifest with one `stateKey` get a warning only (validate.ts:2079); the
  model's step keys are distinct;
* what a delete of an eval leaves when it overlaps a put or an activation (`torn`).

## 4. The runs

| run | checks | instance |
|---|---|---|
| `batch_race` | `TypeOK`, `SettledBeforeTerminal`, `OneDeliveryLoop`, `WebhookTellsOutcome`, `SubmittedOncePerKey`, `OutcomeIsProviders`, `ResultsDurable` | two submissions with one key on a SQL store, or one and its cancel; two passes, delete, one call that throws anywhere |
| `batch_live` | `Converges`, `TerminalIsAnnounced` | two passes, one failing call, one crash, fairness |
| `registry` | `RegInv`, `OneActivePerSession`, `NoStrandedCaller`, `MutualExclusion`, `Fifo`, `EntryIffContended`, `AbortReachesSubtree`, `DeliveredOnce`, `NoLostWakeup`, `DrainedAnswerIsComplete`, `SlotSpec`, `EveryRequestRuns`, `DrainEnds`, `TerminalIsFinal` | three requests for one session (hosted, direct, and ephemeral over a stream that may be abandoned), or two and a child, or one and two children anywhere below it; eviction with one request or two; fairness |
| `run_stream` | `TypeOK`, `WebhookTellsRun`, `AnswersAgree`, `StreamSpec`, `ReadersEnd`, `CallsSettle` | four events and a buffer of three, one call, two attempts, one failing store call, one resumption, fairness |
| `services` | `ValidatedRuns`, `EvalReport`, `ExecutorRules`, `EvalEnds`, `WritesInOrder`, `TokensHold`, `ViewersSeeAll`, `TraceSettles`, `ImportOutcome`, `VersionsHold`, `MemoryKept` | two steps, two items, two cancels and two failing calls, four puts, two calls and three tokens, two spans and a viewer, three chunks, three writers, three entries and four calls |

Runs that show a disagreement between the code and what the repository says of it:

| run | violated | what happens |
|---|---|---|
| `batch_lost_id` | `ProviderIdKept` | a pass that claimed a run being submitted writes its copy back over the stored provider id |
| `batch_stale` | `TerminalIsFinal` | a put clears a lease another pass holds; the slower pass overwrites a terminal status |
| `batch_orphan` | `DeletedIsStopped` | a run cancelled during its submission is deleted while the provider works |
| `registry_evict` | `EvictionSparesRunning` | a failed root is evicted with a child still running |
| `registry_abandon` | `EveryRequestRuns` | an abandoned stream blocks its session for ever |
| `registry_answer` | `AnsweredCollectsAll` | an answer beside tool calls ends the run while a child it has just spawned runs on, against "You will be forced to wait for outstanding children before finishing" (spawn-agent.ts:88) |
| `memory_erase` | `ErasedStaysErased` | a correction reads an entry, the entry is erased, the correction puts its replacement: the "irreversible erasure" (memrez.ts:309) is undone; a curation pass does the same |

**Bounds.** Two passes are enough for every overlap in the service, because a pass meets
only the store and at most one other writer at a time; one item suffices for properties
that speak of each item by itself; two submissions race for a key.  `MaxFaults` and
`MaxCrashes` (0 or 1) bound how many calls throw and processes die in a behaviour: one
already separates every pair of consecutive awaits, and for safety a process that dies is
one that stops, which the specifications always allow.  Three callers give the lock a
holder, a waiter and a newcomer; two children give siblings and a grandchild.  A lock, a
request, a cancel, a delete is used once per caller, run or client, so the state is finite
without further bounds.  A buffer smaller than the log lets a reader be overrun.  Two
faults let an eval fail and its failure not be stored.  `MCFew` bounds what a behaviour
combines.  In `MCBatchRun`, a cancel and a second submission do not come in one behaviour:
that would be four writers with the two passes, which the theorems cover.  In
`MCRunRegistry`, requests and children together are at most three once there is a child,
no request is ephemeral then, and evictions come below a single request, or of two without
children.  Both are state constraints that only requests, spawns, cancels and evictions
lead out of, which nothing has to take, so no step that fairness speaks of is cut off.
`MaxMarks` bounds the clauses of a manifest.  The theorems below lift the bounds of every
safety property.

**Preconditions.** `WebhookTellsOutcome` speaks of runs nobody began to cancel: for
others, the flaws shown by `batch_stale` and `batch_orphan` also break it.
`OutcomeIsProviders` counts a terminal status only when it is stored with the provider's
id: without one it is the service's own, of a submission that failed or was cancelled on
its way.  No run claims that two passes are kept apart: on the SQL stores a put clears any
lease, and on no store is a pass bounded by its lease (twenty claims, and a webhook loop
that may take longer than 60 seconds), so `LeaseExpires` may happen at any time in every
passing run, and what is claimed is that overlapping passes break none of
the run's properties; what they do break is in `batch_stale` and `batch_lost_id`.  (That run's `MCLeasesHold` lets no lease expire: clearing it is
enough.)  `NoStrandedCaller` and `EveryRequestRuns` hold if no run of a session is
streamed; the stream of `registry` is ephemeral, and `registry_abandon` shows the other
case.  `DrainedAnswerIsComplete` is about answers without tool calls; `registry_answer`
shows the others.  `Converges` and `TerminalIsAnnounced` speak of runs whose provider id
is not lost for ever.  `AnnouncementEnds` is stated and not run: a worker that dies after
inserting the outbox row leaves it pending, since nothing reads pending rows at start-up.
`VersionsHold` excepts deletes that were torn, `MemoryKept` facts whose last entry was
erased, `WebhookTellsRun` and `StreamSpec` readers that the buffer overran, `EvalEnds` an
executor whose worker died or whose last write failed.

**Fairness.** Weak fairness of each submission, of a cancel once begun, of each pass and
of the provider: started code runs on, the interval timer never stops, providers end
batches, time passes.  In the registry: weak fairness of each caller after its request and
of each loop, strong fairness of a loop's end, because a loop has a bounded number of
steps.  In the stream: timers fire, microtasks run, consumers go on asking.  In the
services: the executor, the cancel routes once begun, the flush timer and the store, and
that a trace is reported done.  No request, cancel, spawn, timeout, eviction, answer or
abandonment has to happen.

Deadlock is not checked: all models stop when every request has been served.

## 5. Proofs

Every safety property of a passing run - invariants, action properties and the two
refinements - is proved for all values of the constants.

| module | theorem | states |
|---|---|---|
| `SessionLockProofs` | `SessionLockCorrect`, `FirstComeFirstServed`, `EntryLifetime` | `MutualExclusion`, `Fifo`, `EntryIffContended` |
| `RunRegistryProofs` | `RegistryAgrees`, `OneRunPerSession`, `CallersNotStranded` | `RegInv`, `OneActivePerSession`, `NoStrandedCaller` (if no stream is abandoned) |
| | `UsesSessionLock`, `RefinesSessionSlot`, `CancellationReachesSubtree` | refinement of the lock, `SlotSpec`, `AbortReachesSubtree` |
| `RunDeliveryProofs` | `ResultsDeliveredOnce`, `NoWakeupLost`, `AnswersAreComplete`, `TerminalStays` | `DeliveredOnce`, `NoLostWakeup`, `DrainedAnswerIsComplete`, `TerminalIsFinal` |
| `BatchRunProofs` | `BatchTypes`, `OneLoopPerRun`, `OneSubmissionPerKey`, `OutcomesAreTrue` | `TypeOK`, `OneDeliveryLoop`, `SubmittedOncePerKey`, `OutcomeIsProviders` |
| | `TerminalIsSettled`, `WebhookAgrees`, `ResultsStay` | `SettledBeforeTerminal`, `WebhookTellsOutcome`, `ResultsDurable` |
| `RunStreamProofs` | `StreamTypes`, `ApplicationAgrees`, `WebhookCorrect`, `StreamKeepsLog` | `TypeOK`, `AnswersAgree`, `WebhookTellsRun`, `StreamSpec` |
| `StoreProofs` | `RowsInOrder`, `ImportsAreWhole`, `VersionsStay`, `MemoryStays` | `WritesInOrder`, `ImportOutcome`, `VersionsHold`, `MemoryKept` |
| `ServiceProofs` | `TokensAreShared`, `ViewersAreServed` | `TokensHold`, `ViewersSeeAll` |
| `ExecutorProofs` | `EvalsAreReported`, `ExecutorObeys`, `ValidationHolds` | `EvalReport`, `ExecutorRules`, `ValidatedRuns` |

They rest on the named assumptions of the modules, which TLC evaluates in every run: names
are distinct, `None`-like values are outside the sets they extend, sets are included where
they belong, bounds are naturals.  The theorems about `BatchRun` hold on either kind of
store, whatever `PutClearsLease` is, and with leases that expire at any time.  One theorem
has a hypothesis of its own: `CallersNotStranded` states its condition (no streams that can
be abandoned), which `registry_abandon` shows to be needed.

*Lock.* Mutual exclusion is not inductive: it needs that a caller's predecessor is really
the previous call of its session.  `LockInv` adds that tickets number the calls
(`TicketsOrdered`), that a stored entry is the last caller and contends (`TailIsLast`),
that without an entry nobody contends (`NoTailNoContender`), and that an earlier caller
that has not released is at or before the awaited predecessor (`PrevIsPrevious`).

*Sessions.* `RegInv` is `LockInv` with: the index names exactly the active persisted run
(`IndexIsActive`), a caller has no run before it releases (`RunAfterRelease`), a waiter
waits for a run of its session that is active and aborted, or the slot is free
(`WaitsForSession`), an active run has a driver (`ActiveIsDriven`).  `Replace` keeps
`IndexIsActive` because the slot is still free when the wait is over, and that rests on
mutual exclusion: no other caller can have taken it.

*Refinement of the slot.* From `RegInv`: `Begin` and `Replace` take a free slot, `Settle` of
the indexed run leaves it, eviction touches settled runs whose slot is no longer theirs.

*Trees.* `TreeInv` adds that what is below a run is below all that is above it (`Lineage`).

*Delivery.* `DeliveryInv` follows each child's result through the two sequences: it is in
neither while the child is active, and in exactly one place once it has settled, as long as
its parent is resident; a draining loop has an outstanding child and an empty queue, and
one that answered without tool calls has drained all.  Occurrences are counted by the
cardinality of a set of positions, so that no induction over sequences is needed.

*Batch runs.* The code writes copies back, so what is proved of the stored record has to
hold of every copy that may still be written: `Copy` and `Came` quantify over the store and
over the copies in play of submissions, cancels and passes.  `KeyInv`: a run the provider
knows was stored under its key, and is still, or was deleted.  `LoopInv`: a loop needs the
outbox row, and the row is inserted once.
`OutcomeInv` is the conjunction of `PidInv` (who knows the provider id), `ItemInv` (item rows
and the statuses a pass computed are the provider's), `SettledInv` (a copy that says the
batch ended stands beside settled rows), `EndInv` (a copy with a terminal status and the
provider's id has the status the provider gave) and `AgreeInv` (copies of a run nobody
cancels that are terminal agree with each other and with the webhook).

*Streams.* A reader has read a prefix, its next event is in the buffer or in its queue, and
its queue ends where the log ends, unless it was overrun; with it `StreamKeepsLog` maps each
step of `RunStream` to a step of `RunLog` or a stutter.  `WebhookCorrect` relates the outbox
to what the forwarder has read: a row per reply up to there, in order, all settled but the
one at work.  `ApplicationAgrees` follows a call through request, timer and outcome.

*Stores.* `WriteInv`: a put is at work only when all before it have settled.  `ImportInv`:
requests follow one another, whoever changes the import holds its row's lock, and the
completing transaction copies all chunks or the count stops it.  `VersionInv`: unless torn,
a delete under way is alone, and what a request has read is still stored.  `MemoryInv`: a
fact whose write returned is carried by an entry that is active or erased and not older
than the superseded ones on its trail.  It says nothing of erased content that returns.

*Services.* `TokenInv`: fetches are numbered without gaps, and a refused token was fetched
before, so no later fetch yields it.  `ViewerInv`: what a viewer has seen and has queued is
one interval of what was sent (`Covers`).

*Executors.* `EvalInv`: no copy of the record has two cases for an item; all items before
the current one have a case; a local record that is still running has none for later items,
and once the executor has seen a cancellation the stored record stays cancelled until its
final write, so that it never produces a result for an item it took over from a canceller.
`PipeInv`: what the validator established of a step (`Validated`) stays true of the manifest,
and the state has what it counted on (`Under`).  That the model lists a finite set by
`SetToSeq` is what makes its lists provable.

Every inductive invariant was checked by TLC on the instance of its run before it was
proved.

**Only model-checked.** The liveness properties `Converges`, `TerminalIsAnnounced`,
`EveryRequestRuns`, `DrainEnds`, `ReadersEnd`, `CallsSettle`, `EvalEnds` and `TraceSettles`:
fairness and ENABLED are beyond the prover.

## 6. Running

    tlc -workers 2 -config MCBatchRunRace.cfg MCBatchRun
    tlapm RunRegistryProofs.tla
