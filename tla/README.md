# A TLA+ model of llm-serving-runtime

The runtime is one Python process: a FastAPI application that admits chat requests, queues them, lets background
worker tasks run them in micro-batches on an inference backend, and answers with a JSON body or a stream of
server-sent events (SSE). The specifications here model that path with its backends, its admission control, its
schedulers, its metrics, its configuration and the start and stop of the whole; TLC checks small instances and TLAPS
proves the invariants, the action properties and the refinements that these runs check, for every value of the
constants.

    tlc  -workers 2 -config ServingRuntime_batching.cfg MCServingRuntime
    tlapm ServingRuntime_proofs.tla

## 1. The system

Everything runs on **one asyncio event loop**. What the code does between two suspension points is atomic; what it
does across one may be interleaved with every other coroutine. Timers (`wait_for`) cancel a coroutine some turns of
the loop after they are due.

| component | state | operations | talks to |
|---|---|---|---|
| HTTP handlers, `api/routes.py` | the suspended coroutine of each request | `create_chat_completion`, `health`, `metrics` | admission, metrics, scheduler, handles |
| SSE generator, `api/streaming.py` | position in the generator | read an event, emit a frame, close, be closed | `StreamingHandle`, metrics |
| response handles, `core/response.py` | `future` / `queue`, `cancelled`, `completed` | `create`, `cancel`, `mark_completed` | handlers on one side, workers on the other |
| admission, `core/admission.py` | `_tokens`, `_last_refill_at` | `admit` | clock |
| FIFO scheduler, `scheduler/fifo.py` | `asyncio.Queue` | `submit`, `next_batch`, `next_request`, `size` | handlers, workers |
| priority scheduler, `scheduler/priority.py` | `_items`, `_counter`, `asyncio.Condition` | the same | handlers, workers, clock |
| workers, `workers/manager.py` | per task: batch, `pending`, `tokens` | `start`, `stop`, `_worker_loop`, `_execute_batch`, `_complete_item`, `_fail_item` | scheduler, backend, handles, metrics |
| metrics, `metrics/collector.py` | counters, gauge, samples, histograms | `record_*`, `snapshot`, `snapshot_prometheus` | handlers, workers, GPU sampler |
| backends, `backends/*.py` | subprocess, HTTP client | `start`, `stop`, `generate`, `generate_batch` | llama-server, vllm |
| lifecycle, `core/lifecycle.py`, `main.py` | the services | `create`, `start`, `stop` | backend, workers |

Which behaviours are hard:

* A request is shared by its handler and a worker. Each can end it (result, failure, timeout, disconnect), and neither
  learns of the other's decision until its next turn.
* A worker holds several requests at once; the backend can finish them in any order, stop early or raise in the
  middle, while some of their clients leave.
* `next_batch` collects under a deadline: a timer, a new request and a full batch race.
* With a native-batching backend several workers share one queue and one condition.
* `stop()` cancels workers in the middle of their batches, and they may be started again.
* The inherited `generate_batch` streams the requests of a batch one after the other, the mock backend all of them
  together: what one client sees depends on the others in its batch.
* Counters are kept in two places (worker and handler) for one request.
* A client of the SSE stream has no timeout of its own.

What makes each component correct, in one line: no request is lost or run twice; each client gets its own tokens,
complete and in order, and one outcome; a cancelled request is left alone; the counters account for everything; the
queue cap, batch size and rate hold; requests leave in the promised order; nothing waits forever that the code can
prevent from waiting.

## 2. Modules

| module | models | role |
|---|---|---|
| `ServingRuntime` | routes, streaming, response, the scheduler's queue, manager, collector's counters | the composed serving path |
| `ServingContract` | what one client may observe | abstract specification |
| `SchedulerContract` | scheduler/base.py | abstract specification of both schedulers |
| `ServingRefinement` | | mapping of the first to the other two |
| `MCServingRuntime` | | model values and symmetry for TLC |
| `ServingRuntime_proofs` | | types, ownership of requests, futures, bounds |
| `ServingAnswers_proofs` | | streams, tokens, cancellation, counters, the two refinements |
| `BackendStreams` | base.py's and mock_backend.py's `generate_batch`, `generate` of the server backends | the serving path with the shipped backends |
| `MCBackendStreams` | | lengths of the responses for TLC |
| `BackendStreams_proofs` | | refinement of `ServingRuntime`, complete responses |
| `AdmissionController` | core/admission.py with a rate limit | lazily refilled bucket and queue cap |
| `TokenBucket` | a bucket refilled at every tick | abstract specification |
| `AdmissionController_proofs` | | theorems, the refinement included |
| `PriorityScheduler` | scheduler/priority.py | queue, condition, batch deadline, aging |
| `RuntimeConfig` | config.py, `_build_scheduler` and `_dispatch_*` of core/lifecycle.py | from settings to the constants of the others |
| `MCPriorityScheduler` | | two configurations and symmetry for TLC |
| `PriorityScheduler_proofs` | | order, wakeups, refinement, configurations |
| `RuntimeLifecycle` | main.py, core/lifecycle.py, start/stop of manager and backends | lifespan, workers, server process |
| `RuntimeLifecycle_proofs` | | theorems about start and stop |
| `LatencyMetrics` | core/request.py's timestamps, collector's timing, latency.py | samples, histograms, percentiles |
| `MCLatencyMetrics` | | bounds and symmetry for TLC |
| `LatencyMetrics_proofs` | | theorems about latencies, exports and percentiles |
| `CollectionTheorems` | | lemmas on sets, sums, sorted and permuted sequences |

A definition `X_Fault` placed before `X` is `X` with one plausible bug. No specification uses it; exchanging `X` for
it must break the property that watches over that part of the code.

### ServingRuntime

One action per run of a coroutine between suspensions.

* `Accept`, `Reject` are `create_chat_completion` up to its first suspension. `asyncio.Queue.put` on an unbounded
  queue does not suspend, so admission, `record_request` and `submit` are one step. The rate limiter is the constant
  `RateLimit`: when it is on, any call may be refused (`AdmissionController` says which).
* `Collect`, `Deadline` are `next_batch`, `record_batch` and the start of `_execute_batch`. `Collect` takes the items
  that are there without suspending; `phase = "collecting"` is the wait in `wait_for(queue.get())`. With `Fifo` items
  leave in order; without it in any order, of which the priority scheduler's is one.
* `BackendToken`, `BackendCompleted`, `BackendReturn`, `BackendRaise` are one event, the end or an exception of
  `backend.generate_batch`, with all the worker does in response. The backend is external and may produce any order of
  events, including tokens for a request that has been dropped.
* `JsonAnswer`, `JsonTimeout`, `JsonCancelled` are the ways `wait_for(shield(future))` ends. A timeout or a
  cancellation can win even when the future is settled, because the wake-up of the handler takes turns of the loop.
* `StreamOpen`, `StreamToken`, `StreamTerminal`, `StreamClose`, `StreamDisconnect` are the generator; `StreamDropped`
  is a client that leaves before the generator is entered, whose `finally` never runs.
* `Stop` and `Start` are `WorkerManager.stop` and `start`. `stop()` cancels every worker at its suspension point: what
  `next_batch` had taken is lost with it, and `_execute_batch` does not catch `CancelledError`, so the requests of a
  running batch are neither completed nor failed. `orphans` is the history of those; the queue survives.
* `Quiescent` is the idle system, so that a deadlock TLC finds is a real one.

`verdict` is a history variable: what the worker reported. `answer` and `delivered` are what the client saw.
Timestamps, log lines, JSON layout and the text of tokens are left out; a token is the pair of its request and its
position, which is what "own, complete, in order" needs.

Cancellation when the client of a JSON request leaves is in the model because `routes.py` handles `CancelledError`;
whether the HTTP server delivers it is outside the repository.

### ServingRefinement, ServingContract, SchedulerContract

`ServingContract` is one client's view: an open response receives a growing prefix of what the backend produces for it
and has one outcome. `SchedulerContract` is the interface of scheduler/base.py: each request submitted leaves the
queue once, to one worker. The mapping of the serving path computes a request's `status` from its handler's position
and its answer, `produced` from the number of tokens the backend has emitted, and takes what a scheduler has handed
over from the history `taken`, which only `Collect` adds to: the items that `next_batch` pops. A request that left the
queue in another way would be in neither, and no step of the contract allows that. `PriorityScheduler` is mapped to the
same `SchedulerContract`, so that the serving path may use either. Each contract ends with what its users may rely on
(`OwnPrefix` and `OutcomeIsFinal`, `TakenOnce` and `LeavesToWorker`), which is proved of the contract itself.

### BackendStreams

`ServingRuntime` lets a backend yield any events in any order. `BackendStreams` conjoins to its backend actions the
order of the code: `kind` is the backend, `order` the list `generate_batch` was called with. `GenerateSerial` is the
method that `LlamaCppBackend` and `VLLMBackend` inherit: the first request that is not completed streams, its server
may send any number of tokens, end the stream, or make `generate` raise. `GenerateMock` goes round the requests that
want another token (`Wanted` is `sampling.max_tokens`) and yields `BatchCompleted` right after the last one. The
generator returns when all are completed (`Exhausted`). How a server's lines are parsed is abstracted to the tokens
they carry.

### AdmissionController

Time advances in ticks and tokens are counted in integer units (`TokenUnits` to the token), so a rate of two thirds of
a token per tick is exact. `outcome` is the last decision, `grants` the history of the times at which the bucket
granted. A call refused by the queue cap returns before the bucket is touched, which is why `lastRefill` stays.
Floating-point rounding is not modelled.

### PriorityScheduler

The list `_items` is a set of entries; the minimum over it is `MostUrgent`. A worker is `away` (running its batch),
`locked` (holds the condition's lock), `waiting` (in `Condition.wait()`) or `notified` (its future is done, it has not
run). Each pop is a step and reads the clock itself. `TimedOut` includes the case in which the deadline fires after
the notification: the batch goes without the new request, which stays queued. Which waiting worker `notify()` picks is
left open. The assumption of the module is the one `core/lifecycle.py` enforces: one worker, or workers that take one
request at a time without a batch timeout. `popped` and `returned` are histories.

### RuntimeConfig

Pure operators: which scheduler, aging interval, batch size, batch timeout and number of workers `core/lifecycle.py`
derives from the settings. `MCPriorityScheduler` takes its constants from two settings through them, and the theorem
`DispatchIsSound` shows the assumption of `PriorityScheduler` for all settings.

### RuntimeLifecycle

`stage` is where the lifespan coroutine is suspended: `starting` before the server process is spawned, `polling` in
the health checks, `serving` at the `yield`, then `gathering` the cancelled workers, `closing` the HTTP client and
`terminating` or `killing` the process. `client` and `process` are the fields of the backend; `LlamaCppBackend` and
`VLLMBackend` have the same code but for arguments and numbers, so one model stands for both (the map takes its lines
from one or the other). The server processes in `proc` belong to the operating system: they come up or not (only one
can have the port), exit when they like, and need not heed `terminate()`. A health check is answered by whoever has
the port, which after a failed start may be the server of an earlier one.

`BeginNew` and `BeginAgain` start a lifespan: each has services of its own, or `create_app` was given them and the
same objects are started again (an application may be started several times in one process). `Gathered` is `gather`
without `return_exceptions`: it raises at the first task that ended in `CancelledError`. What a worker does while it
is cancelled is one step, `TaskEnds`; its requests are not part of this module. `TermTimeout` is the end of the
`wait_for` on `process.wait()`: the timer may win over an exit that has just happened, and `kill()` then meets a dead
process, on which it has no effect or raises out of `stop()`. `attempts` is bounded by `MaxAttempts`
as in the code (120 or 600 there), the lifespans by the tasks and processes there may be. `healthy` and `failed` are
histories.

### LatencyMetrics

The timestamps of a request in ticks, who sets them (`Enqueue`, `Dispatch`, `FirstToken` and the ways a worker or a
handler ends a request), and `_record_timing` with its sample lists and histograms. A handler may give up after the
worker has reported, so that one request is timed twice. The bucket of a latency is the least bound that is not below
it; `Cumulative` is what the export prints. `Sorted` inserts the values one by one, which gives what Python's `sorted`
returns, as `SortedIsSorted` proves. `RoundHalfEven` is Python's `round`; for 50, 95 and 99 percent the product
`(pct / 100) * (n - 1)` in floats rounds as the exact one does, which a comparison for n up to 200000 confirmed.

## 3. What is checked

| run | instance | properties |
|---|---|---|
| `core_batching` | 1 JSON + 2 SSE requests, 2 workers, batches of 2 with timeout taken in any order, cap 2, limiter, 2 tokens | `TypeOK`, `NoLostRequest`, `NoDuplicateWork`, `FutureMatchesVerdict`, `OneTerminalEvent`, `TokensIntact`, `CountersAccount`, `GaugeBounds`, `CancelledIsLeftAlone`, `ImplementsContract`, `ImplementsScheduler` |
| `core_live` | 1 JSON + 1 SSE, 2 workers, one stop and restarts; handlers and timers fair | `JsonAnswered`, `StreamEnds`, `AllWorkFinishes` |
| `backends` | 1 JSON of 2 tokens + 1 SSE of 3, 2 workers, one stop, mock and server backends | `NoLostRequest`, `NoDuplicateWork`, `MockServesAll`, `SuccessIsAnnounced`, `OrphansAreAbandoned`, `BatchesEnd` |
| `core_gauge` | 1 JSON + 1 SSE | `ActiveGaugeCountsAll`, **violated** (section 5) |
| `admission` | capacity 2, 2/3 token per tick, cap 1, 7 ticks | `TypeOK`, `WindowBound`, `RefinesTokenBucket` |
| `priority_aging` | settings of llama.cpp: 1 worker, batches of 2 with deadline, aging; 3 requests, priorities 0..2, all fair | `TypeOK`, `OvertakenOnlyByUrgent`, `NothingLeftBehind`, `AllReturned` |
| `priority_workers` | settings of vLLM: 3 workers, batches of 1; 4 requests | `WorkConserving`, `ImplementsScheduler` |
| `lifecycle` | 2 workers, 2 servers, 2 health checks, 3 lifespans; coroutine and timers fair | `TypeOK`, `OnlyFailedStartsLeak`, `OnlyFailedStartsUnchecked`, `ServedByItsWorkers`, `StartEnds`, `StopEnds` |
| `lifecycle_order` | 2 workers, 1 server, 1 lifespan | `WorkersEndFirst`, **violated** |
| `lifecycle_retry` | 1 worker, 2 servers, 2 lifespans | `HealthWasChecked`, **violated** |
| `lifecycle_orphan` | 1 worker, 2 servers, 2 lifespans | `NoServerLeft`, **violated** |
| `latency` | 2 requests, 4 ticks, bounds 0 and 2 | `TypeOK`, `ExportIsCumulative`, `OneLatency`, `QuantilesNearRank`, `TimingsNested` |

What they say of the serving path:

* `NoLostRequest`, `NoDuplicateWork`: a live request is in the queue, in a batch being collected or in one being
  executed, in one of them only, and in none once settled. A request a stopped worker held is in none, ever again.
* `FutureMatchesVerdict`: `set_result`/`set_exception` never meet a settled future. Otherwise they would raise
  `InvalidStateError` and, in the failure path, end the worker task.
* `OneTerminalEvent`, `TokensIntact`: an SSE stream has one terminal event and nothing after it; delivered plus queued
  tokens are always the backend's stream for that request.
* `CountersAccount`, `GaugeBounds`: what the counters mean, exactly, including the double count of the race below.
* `CancelledIsLeftAlone`: an action property: after `cancel` a worker adds nothing.
* `ImplementsContract`, `ImplementsScheduler`: the client's view, end to end, and the scheduler's, in which requests
  leave the queue only to a worker that takes them.
* `JsonAnswered` holds even if workers and backend hang or are stopped. `StreamEnds` and `AllWorkFinishes` hold for
  every request but those a stopped worker held: their SSE clients wait until they leave.

Of the backends: `SuccessIsAnnounced` says that the completion of leftovers after the loop of `_execute_batch` never
finds any, so that a request the backend has left out is never taken for complete. It says nothing of a response that
the server has cut short: the server backends skip an error line and announce the completion themselves (section 6);
`MockServesAll` that a success of the mock backend has all its tokens; `BatchesEnd` that a batch ends though all its
clients have gone; `OrphansAreAbandoned` that neither a stop nor a restart settles what was lost, and `NoLostRequest`
and `NoDuplicateWork` that the queue survives it and nothing is run again.

Of the scheduler: `NothingLeftBehind` accounts for every submit, in the queue, in one batch or handed over, whichever
way the deadline and a notification race; `AllReturned` that every request is handed over in the end; `WorkConserving`
that no worker waits beside a request nobody was called for.

Of start and stop: `OnlyFailedStartsLeak` says that on every path but one (section 5) a living server is in the hands
of a runtime that is not down, whether it ignores `terminate()`, exits by itself at any moment, or is slow;
`ServedByItsWorkers` that a runtime serves with all of its workers and none of an earlier lifespan, and that none is
left running when it does not serve, although `start()` does nothing if it finds tasks and `stop()` goes on at the
first one that ends; `OnlyFailedStartsUnchecked` that the
application serves behind a successful health check, unless the start of its server has raised before.

Of the metrics: `ExportIsCumulative` relates histograms to the samples they stand for, `OneLatency` and
`TimingsNested` say that double reports and partial requests record only consistent latencies, and `QuantilesNearRank`
that percentiles are samples, in order, one place from the nearest rank at most.

**Bounds.** Three requests suffice for a batch of two beside a queued or concurrently executing one, and for two SSE
streams that could get each other's tokens; two tokens make order and truncation visible; two workers make sharing
visible. One stop separates a run of the workers from the next. Responses of two and three tokens put requests of one
batch out of step. The ordering properties of the priority scheduler relate two requests at a time, a third fills the
batch or the queue. In the admission run the fraction of a token, the burst, saturation and the idle period all occur.
In the lifecycle runs two servers let a second start meet the survivor of the first; two health checks give a retry and
a last one; two workers let one end before the other. In the latency run two requests reported twice give four samples,
the least number with which the median's definition matters, and the horizon exceeds the last bucket. The theorems
below do not depend on these bounds. Where liveness is checked, symmetry is not used.

**Deadlock** is checked in the runs of the serving path, of the backends and of admission. The others switch the check
off. In `PriorityScheduler`, with all requests submitted and the clock at its bound, workers wait for requests that do
not come, which is what they do in an idle system; in `RuntimeLifecycle` there are no more tasks for another lifespan;
in `LatencyMetrics` every request is over and the clock at its bound.

**Fairness.** `HandlerFairness`: the event loop runs every ready callback and fires every timer; arrivals, disconnects
and cancellations are not fair. `WorkerFairness`: a worker whose queue has items runs. `BackendFairness` is an
assumption on the backend (it does not hang), not a fact about this code. The run assumes only the first;
`JsonAnswered` is checked without the others, since `request_timeout_s` is meant to cover exactly that. `StreamEnds`
and `AllWorkFinishes` need them and have them as a premise, `WorkersServe`, with the workers being up from some time
on: the SSE path has no timeout. In `BackendStreams`, `GenerateFairness` says that a sleep ends and that a server
which has accepted a request sends something or fails; `BatchesEnd` needs nothing of the handlers. In
`PriorityScheduler` a worker's steps are fair, coming back for the next batch included, and so is the clock. In
`RuntimeLifecycle` the lifespan coroutine is fair, which includes its timers and the `TimeoutError` of `wait_for`;
cancelled tasks end; a killed process exits. Nothing is assumed of a server that has not been killed.

## 4. What is proved

All theorems hold for every value of the constants that the modules' named assumptions allow.

*Serving path, ownership* (`ServingRuntime_proofs`): `TypeCorrect`, `NothingLost`, `NothingTwice`, `FuturesAgree`,
`Bounded`.
Neither ownership property is inductive alone. The invariant (`PhaseInv`, `Ownership`) adds how the pieces of a
worker's state go together with its phase: an idle worker holds nothing, a collecting one has no pending set. A step
then moves requests between queue, batch and pending set, or releases what a stopped worker held, and one lemma each
says that this keeps ownership disjoint. That the queue may be rearranged costs a lemma about splitting a permuted
sequence. `KindInv` says which handler locations a JSON and an SSE request can be in, which futures rest on.

*Serving path, answers* (`ServingAnswers_proofs`): `StreamsEndOnce`, `TokensReachTheirClient`,
`CancelledStaysCancelled`, `StoppedIsAbandoned`, `CountersExact`, `CountersAgree`, `GaugeIsBounded`. Three invariants
carry them. `AnswerInv` relates a handler's position to the answer and to the handle. `WorkInv` says that what the
backend has still to complete is pending or cancelled, and that what a stopped worker held is unsettled. `StreamInv`
states, per SSE request, the whole content of its channel: delivered, then queued tokens, then at most one terminal
event. The counters follow from one lemma for each kind of step on the four sets that are counted, and the bound on
the gauge from how `Dec` clamps. `CountersAgree` adds the sum of generated tokens, `GeneratedInv`: a completion adds
the tokens of requests that had not succeeded before, so the sum over a disjoint union applies, and every other step
leaves the tokens of those that have succeeded as they are (`SettledStays`), so the sum over them stays.

*Refinements* (`ServingAnswers_proofs`, at its end): `ServingUsesScheduler`, `ServingKeepsContract`. Both are step
simulations under the invariants above; `StatusInv` says that the guards of the mapping exclude each other, and
`StreamInv` that a response which has ended well has received everything produced, which is what makes `Finish` the
image of the last step. For the scheduler `TakenInv` says that the accepted requests are those that wait and those
that a worker has taken, where `taken` is a history and not computed from the queue; `QueueStep` is the lemma that the
queue and that history change together. `ContractPromises` and `SchedulerPromises` are about the abstract
specifications alone: that a client only ever holds a prefix of its own stream and keeps its outcome, and that a
request leaves the queue exactly when a worker takes it, for good, follows from `ServingContract` and
`SchedulerContract`. `ClientsMayRely` and `WorkersMayRely` carry
that over to the serving path.

*Backends* (`BackendStreams_proofs`): `StreamsServe`, which makes the theorems above hold of the shipped backends
(`StreamsKeepContracts` for the two refinements); `StreamsTyped`; `SuccessAnnounced` and `MockServes`, from `OpenInv`
(nothing is open between two batches) and `WorkInv`: what is pending is still open, so that a generator that returns
after completing everything leaves nothing pending; `MockKeepsStep`, from `ApartInv`: requests that have not reached a
backend have no tokens, and no request is at two backends, so a new batch starts in step and only its own turns move
it.

*Admission* (`AdmissionController_proofs`): `BucketTyped`; `RateRespected`, for which the inductive invariant is a
budget: for every earlier grant, the requests granted since plus the tokens left are within the capacity plus what has
been refilled since; `LazyIsEager`, a step simulation of `TokenBucket` in which the level is what the next call would
find.

*Priority scheduler* (`PriorityScheduler_proofs`): `SchedulerTyped`; `AgingBoundsOvertaking`, from the invariant that
sequence numbers and arrival times grow together, with a lemma on integer division for the boost; `NoLostWakeup`, from
the invariant that a worker that waits has room in its batch, counting queued requests against awake workers;
`NothingDropped`, whose invariant adds that a request has one entry in the queue, so that a pop moves it and nothing
else; `PriorityIsScheduler`, the simulation of `SchedulerContract`; `DispatchIsSound`, that no settings
give two workers that collect batches; and `DispatchMeetsAssumption`, that what the module assumes of its
workers, aging interval, batch size and timeout follows from what `core/lifecycle.py` derives from any settings.

*Start and stop* (`RuntimeLifecycle_proofs`): `LifecycleTyped`; `StopLeavesNoServer`, whose invariant adds that only
the process the backend refers to can be alive outside of the failed ones and that the runtime is then in one of the
stages that still lead to `terminate()`; `WorkersAreManaged`, for any number of workers, from the invariant `Managed`:
running tasks are in the manager's list, and the list is empty in every stage but `serving` and `gathering`;
`OnlyFailedStartsSkipHealth`, since a client that exists when no start is under
way is left from a failed one.

*Metrics* (`LatencyMetrics_proofs`): `LatencyTyped`, which needs that each latency has a bucket (a set of naturals has
a least element) and that no latency is negative; `CompletedHasOneLatency`; `LatenciesAreNested`. They rest on one
invariant on the timestamps of a request: each is no later than the next one its stage allows, none is set after a
completion but the failure of a handler that gives up, and nothing is recorded before an end. `HistogramsAgree` says
that each bucket counts the samples that belong to it, `ExportsAgree` that the exported cumulative counts and sums are
those of the samples: a latency is counted in bucket `k` of the export exactly if it does not exceed bound `k`,
because the bounds ascend (`BucketUpTo`). `IndexNearRank` is about the percentile's index for every number of samples,
`SortedIsSorted` about the sorted list; `QuantilesAreNearRank` puts them together: in an ascending list the values up
to the one at a position are an initial segment that contains the position, so that its length bounds their number.

*Sums and sorting* (`CollectionTheorems`). Both are folds of the community modules, a function defined by recursion
over the subsets of a finite set. The library's induction theorems take an operator and cannot be instantiated here,
but induction over a *set* can be stated without one: a set of naturals that contains 0 and with every `n` the next is
all of them (`InductiveSet`), and likewise for a family of subsets (`InductiveFamily`). By this, the equation of a
fold has a solution (`FoldTableExists`); the sum does not depend on the element that is picked first
(`SumTableRemove`); and `SumAdd`, `SumChange`, `SumUnion` and `SumOfSeq` follow. Sorting uses the same on the first
`n` values, with `InsertAtProperties` for the step. `Sorted` is an insertion and the sum of tokens names its function
(`TokenCount`) because the prover can follow these and not TLC's `SortSeq` or an anonymous function.

Only model-checked: liveness and everything about ENABLED, which are out of the prover's reach (`JsonAnswered`,
`StreamEnds`, `AllWorkFinishes`, `BatchesEnd`, `AllReturned`, `StartEnds`, `StopEnds`). `ActiveGaugeCountsAll`,
`HealthWasChecked`, `NoServerLeft` and `WorkersEndFirst` are violated, so there is nothing to prove. Only proved, and
checked by no run: `QueueAndBatchBounds` (queue cap and batch size, `Bounded`) and `MockLockStep` (the mock backend
keeps the requests of a batch within one token of each other, `MockKeepsStep`).

## 5. Disagreements found

* `collector.py:199` exports `llm_active_requests` as "Currently active requests." When the request timer fires
  between the worker's `set_result` and the handler's wake-up (`routes.py:110`), or the client of a stream leaves
  while the terminal event is still in its queue (`streaming.py:53`), the request has already been counted by the
  worker, and the handler's `record_failure` decrements the gauge again and adds a failure. If another request is in
  progress the gauge is now too low; run `core_gauge` shows it in a few steps. `GaugeBounds` and `CountersAccount` say
  exactly how far off the numbers can be: at most one for each request counted on both sides.
* `llama_cpp_backend.py:50` promises to "wait for it to become healthy." The client is assigned before the health
  checks (line 68) and a failed start leaves it, so that the next `start()` of the same backend returns at once (line
  51). Run `lifecycle_retry`; `vllm_backend.py` has the same code.
* `llama_cpp_backend.py:17` says the subprocess is started and stopped by `RuntimeServices` during the lifespan. When
  `start()` raises, nobody stops it: `main.py:31` is outside of the `try`. Run `lifecycle_orphan`.
* `latency.py:2`: "Return a simple nearest-rank percentile." The index is a rounded position: the median of four
  values is the third. `QuantilesNearRank` and its theorem say how far off it can be, one place; no run of its own shows
  the difference.
* `lifecycle.py:120`: "Stop the worker loop, then backend-dependent services." With several workers, which vLLM has by
  default (four), `manager.py:56` goes on when the first of them has ended in `CancelledError`, and the backend's
  client may be closed while others unwind through it. Run `lifecycle_order`.

## 6. Not modelled

* The text of the Prometheus and JSON exports, the rejection counters by label, averages.
* The parsing of a server's event stream in `generate`. One consequence is beyond these properties: a line in which
  the server reports an error has no `choices`, is skipped, and the response counts as a success with the tokens so
  far.
* `NvidiaSmiSampler`: a synchronous subprocess call on the event loop. It blocks everything for up to a second, which
  in a model without time is a pause between two steps.
* Logging, parsing of environment variables, schemas, ids: I/O, formatting and declarations.
* Benchmarks and the download script: outside the served system.
* `build_batch` of scheduler/batching.py, a slice that only tests call.
* Floating-point rounding in the token bucket.
* Python 3.11's `wait_for`, which `pyproject.toml` allows and the tests run on beside 3.12. The models follow 3.12, which
  the Dockerfile installs. 3.11 runs what it awaits in a task of its own, so that the priority scheduler's lock stays
  taken until that task starts and `submit` may suspend: handlers that have all read the same queue size then overshoot
  the cap, so `Bounded` is a statement about 3.12. And its `wait_for` drops a cancellation that arrives when what it
  awaits has just ended: `stop()` then waits for a worker that goes on. Both were reproduced with the repository's
  scheduler and `WorkerManager` on Python 3.11.6.

## 7. Plan

Done: the serving path with both schedulers and with stops and restarts, the shipped backends, admission, the priority
scheduler, the configuration, start and stop, latency metrics; the refinements of the scheduler and client contracts;
the safety properties the runs check proved. What could follow: the condition's lock and the FIFO scheduler's
`asyncio.Queue` under both versions of `wait_for`.
