--------------------------- MODULE ServingRuntime ---------------------------
(***************************************************************************)
(* The serving path of llm_runtime: the HTTP handlers of api/routes.py and *)
(* the SSE generator of api/streaming.py, the response handles of          *)
(* core/response.py, the scheduler, the worker tasks of                    *)
(* workers/manager.py, their cancellation by stop() and the counters of    *)
(* metrics/collector.py.                                                   *)
(*                                                                         *)
(* Everything runs on one asyncio event loop, so what the code does        *)
(* between two suspension points is one action.  asyncio.Queue.put on an   *)
(* unbounded queue never suspends: admission, accounting and enqueueing    *)
(* of a request are one step, and so is handling one backend event.        *)
(*                                                                         *)
(* A definition X_Fault that stands before a definition X (Dec_Unclamped   *)
(* before Dec) is X with one plausible bug.  No specification uses it: it  *)
(* shows that a property would notice that bug.                            *)
(***************************************************************************)
EXTENDS Integers, FiniteSets, SequencesExt

CONSTANTS
    Requests,       \* the HTTP requests that may arrive
    Streaming,      \* those sent with "stream": true (SSE); the others are JSON
    Workers,        \* the worker tasks of the WorkerManager
    Fifo,           \* TRUE iff the scheduler is the FIFOScheduler
    MaxBatchSize,   \* max_batch_size of next_batch
    BatchTimeout,   \* TRUE iff batch_timeout_ms > 0
    MaxQueueSize,   \* admission's queue cap; 0 is "no cap"
    RateLimit,      \* TRUE iff the token bucket may refuse a request
    MaxTokens,      \* bound on the tokens a backend generates for one request
    MaxStops        \* bound on the calls of WorkerManager.stop

ASSUME RuntimeAssumption ==
    /\ IsFiniteSet(Requests)
    /\ Streaming \subseteq Requests
    /\ Fifo \in BOOLEAN
    /\ MaxBatchSize \in Nat \ {0}
    /\ BatchTimeout \in BOOLEAN
    /\ MaxQueueSize \in Nat
    /\ RateLimit \in BOOLEAN
    /\ MaxTokens \in Nat \ {0}
    /\ MaxStops \in Nat

VARIABLES
    api,        \* where the handler (and its SSE generator) of a request is
    answer,     \* how the response ended, as its client sees it
    delivered,  \* the tokens the client has received
    cancelled,  \* handle.cancelled
    completed,  \* StreamingHandle.completed
    future,     \* state of CompletionHandle.future
    events,     \* contents of StreamingHandle.queue
    queue,      \* FIFOScheduler._queue, or PriorityScheduler._items
    taken,      \* history: the requests next_batch has taken from the queue
    up,         \* WorkerManager._tasks is not empty
    stops,      \* how often stop() has been called
    orphans,    \* history: the requests that stopped workers held
    phase,      \* where a worker task is in _worker_loop
    batch,      \* the items a worker has collected in next_batch
    pending,    \* the set `pending` of _execute_batch
    tokens,     \* the lists `tokens` of _execute_batch
    open,       \* the requests the backend has still to complete, per batch
    emitted,    \* how many tokens the backend has generated for a request
    verdict,    \* history: what _complete_item/_fail_item reported to metrics
    metrics,    \* MetricsCollector's counters
    generated   \* MetricsCollector.generated_tokens_total

handlerVars == <<api, answer, delivered, completed>>
channelVars == <<future, events>>
workerVars  == <<phase, batch, pending, tokens>>
managerVars == <<up, stops, orphans>>
backendVars == <<open, emitted>>
vars == <<handlerVars, channelVars, workerVars, backendVars, managerVars,
          cancelled, queue, taken, verdict, metrics, generated>>

-----------------------------------------------------------------------------
Token == Requests \X (1 .. MaxTokens)

TokenEvent(t)  == [type |-> "token", token |-> t]
CompletedEvent == [type |-> "completed"]
ErrorEvent     == [type |-> "error"]
StreamEvent    == {TokenEvent(t) : t \in Token} \cup {CompletedEvent, ErrorEvent}

Counters == [request_count : Nat, completed_count : Nat, failed_count : Nat,
             rejected_count : Nat, active_requests : Nat, batch_count : Nat]

NoHandler   == {"idle", "rejected"}
HandlerLocs == NoHandler \cup {"waiting", "opening", "streaming", "closing", "ended"}

TypeOK ==
    /\ api \in [Requests -> HandlerLocs]
    /\ answer \in [Requests -> {"none", "ok", "error", "timeout"}]
    /\ delivered \in [Requests -> Seq(Token)]
    /\ cancelled \in [Requests -> BOOLEAN]
    /\ completed \in [Requests -> BOOLEAN]
    /\ future \in [Requests -> {"pending", "result", "exception", "cancelled"}]
    /\ events \in [Requests -> Seq(StreamEvent)]
    /\ queue \in Seq(Requests) /\ taken \subseteq Requests
    /\ up \in BOOLEAN /\ stops \in 0 .. MaxStops /\ orphans \subseteq Requests
    /\ phase \in [Workers -> {"idle", "collecting", "executing"}]
    /\ batch \in [Workers -> Seq(Requests)]
    /\ pending \in [Workers -> SUBSET Requests]
    /\ tokens \in [Requests -> Seq(Token)]
    /\ open \in [Workers -> SUBSET Requests]
    /\ emitted \in [Requests -> 0 .. MaxTokens]
    /\ verdict \in [Requests -> {"none", "success", "failure"}]
    /\ metrics \in Counters

-----------------------------------------------------------------------------
(* The response handles.                                                   *)

(* StreamingHandle.queue with one more event.                              *)
Put_IfReading(r, e) == IF api[r] = "opening" THEN events[r] ELSE Append(events[r], e)

Put(r, e) == Append(events[r], e)

(* CompletionHandle.cancel.                                                *)
CancelCompletion_NoMark(r) ==
    /\ future' = [future EXCEPT ![r] = IF @ = "pending" THEN "cancelled" ELSE @]
    /\ UNCHANGED cancelled

CancelCompletion(r) ==
    /\ future' = [future EXCEPT ![r] = IF @ = "pending" THEN "cancelled" ELSE @]
    /\ cancelled' = [cancelled EXCEPT ![r] = TRUE]

(* StreamingHandle.mark_completed.                                         *)
MarkCompleted_Not(r) == UNCHANGED completed

MarkCompleted(r) == completed' = [completed EXCEPT ![r] = TRUE]

-----------------------------------------------------------------------------
(* MetricsCollector.  active_requests never goes below zero. *)

Dec_Unclamped(n, k) == n - k

Dec(n, k) == IF n > k THEN n - k ELSE 0

RecordRequest(m) == [m EXCEPT !.request_count = @ + 1, !.active_requests = @ + 1]

RecordSuccess(m, k) == [m EXCEPT !.completed_count = @ + k,
                                 !.active_requests = Dec(@, k)]

RecordFailure(m, k) == [m EXCEPT !.failed_count = @ + k,
                                 !.active_requests = Dec(@, k)]

RecordRejection_Active(m) == [m EXCEPT !.rejected_count = @ + 1,
                                       !.active_requests = @ + 1]

RecordRejection(m) == [m EXCEPT !.rejected_count = @ + 1]

RecordBatch(m) == [m EXCEPT !.batch_count = @ + 1]

-----------------------------------------------------------------------------
Init ==
    /\ api = [r \in Requests |-> "idle"]
    /\ answer = [r \in Requests |-> "none"]
    /\ delivered = [r \in Requests |-> <<>>]
    /\ cancelled = [r \in Requests |-> FALSE]
    /\ completed = [r \in Requests |-> FALSE]
    /\ future = [r \in Requests |-> "pending"]
    /\ events = [r \in Requests |-> <<>>]
    /\ queue = <<>> /\ taken = {}
    /\ up = TRUE /\ stops = 0 /\ orphans = {}
    /\ phase = [w \in Workers |-> "idle"]
    /\ batch = [w \in Workers |-> <<>>]
    /\ pending = [w \in Workers |-> {}]
    /\ tokens = [r \in Requests |-> <<>>]
    /\ open = [w \in Workers |-> {}]
    /\ emitted = [r \in Requests |-> 0]
    /\ verdict = [r \in Requests |-> "none"]
    /\ metrics = [request_count |-> 0, completed_count |-> 0, failed_count |-> 0,
                  rejected_count |-> 0, active_requests |-> 0, batch_count |-> 0]
    /\ generated = 0

-----------------------------------------------------------------------------
(* create_chat_completion up to its first suspension: admission, then      *)
(* record_request, the handle, and submit.                                 *)

QueueFull == MaxQueueSize > 0 /\ Len(queue) >= MaxQueueSize

Accept(r) ==
    /\ api[r] = "idle"
    /\ ~QueueFull
    /\ api' = [api EXCEPT ![r] = IF r \in Streaming THEN "opening" ELSE "waiting"]
    /\ queue' = Append(queue, r)
    /\ metrics' = RecordRequest(metrics)
    /\ UNCHANGED <<answer, delivered, completed, channelVars, workerVars,
                   backendVars, managerVars, cancelled, taken, verdict, generated>>

Reject(r) ==
    /\ api[r] = "idle"
    /\ QueueFull \/ RateLimit
    /\ api' = [api EXCEPT ![r] = "rejected"]
    /\ metrics' = RecordRejection(metrics)
    /\ UNCHANGED <<answer, delivered, completed, channelVars, workerVars,
                   backendVars, managerVars, cancelled, queue, taken, verdict, generated>>

-----------------------------------------------------------------------------
Live_All(S) == S

(* The items of S whose handle is not cancelled.                           *)
Live(S) == {r \in S : ~cancelled[r]}

(* record_batch and the start of _execute_batch, which drops the items     *)
(* cancelled while they waited.                                            *)
StartBatch(w, items) ==
    LET active == Live(ToSet(items))
    IN  /\ batch' = [batch EXCEPT ![w] = <<>>]
        /\ phase' = [phase EXCEPT ![w] = IF active = {} THEN "idle" ELSE "executing"]
        /\ pending' = [pending EXCEPT ![w] = active]
        /\ open' = [open EXCEPT ![w] = active]
        /\ metrics' = RecordBatch(metrics)

(* The queue with the k items that next_batch takes moved to its front:    *)
(* the FIFOScheduler takes them in order, the PriorityScheduler any k (the *)
(* module PriorityScheduler says which).                                   *)
Rearranged(k) ==
    IF Fifo THEN {queue}
    ELSE {[i \in DOMAIN queue |-> queue[f[i]]] :
            f \in {g \in Bijection(DOMAIN queue, DOMAIN queue) :
                     \A i, j \in k + 1 .. Len(queue) : i < j => g[i] < g[j]}}

Fits(items) == Len(items) <= MaxBatchSize

(* next_batch: the worker takes k items without suspending.  It stops with *)
(* a full batch, on an empty queue (where a positive timeout makes it wait *)
(* for more), or, with items still queued, because the deadline has passed. *)
Collect(w) ==
    /\ up
    /\ phase[w] \in {"idle", "collecting"}
    /\ \E k \in 1 .. Len(queue) : \E q \in Rearranged(k) :
         LET items == batch[w] \o SubSeq(q, 1, k)
         IN  /\ Fits(items)
             /\ queue' = SubSeq(q, k + 1, Len(q))
             /\ taken' = taken \cup ToSet(SubSeq(q, 1, k))
             /\ \/ /\ Len(items) = MaxBatchSize \/ BatchTimeout \/ k = Len(queue)
                   /\ StartBatch(w, items)
                \/ /\ Len(items) < MaxBatchSize /\ BatchTimeout /\ k = Len(queue)
                   /\ batch' = [batch EXCEPT ![w] = items]
                   /\ phase' = [phase EXCEPT ![w] = "collecting"]
                   /\ UNCHANGED <<pending, open, metrics>>
    /\ UNCHANGED <<handlerVars, channelVars, tokens, emitted, managerVars, cancelled,
                   verdict, generated>>

(* A get() that outlives its deadline: it takes an item nobody awaits.     *)
Deadline_LosesItem(w) ==
    /\ phase[w] = "collecting"
    /\ StartBatch(w, batch[w])
    /\ queue' = IF queue = <<>> THEN queue ELSE Tail(queue)
    /\ UNCHANGED <<handlerVars, channelVars, tokens, emitted, managerVars, cancelled,
                   taken, verdict, generated>>

(* wait_for(queue.get(), remaining) times out and cancels get(); an item   *)
(* put meanwhile stays in the queue.                                       *)
Deadline(w) ==
    /\ phase[w] = "collecting"
    /\ StartBatch(w, batch[w])
    /\ UNCHANGED <<handlerVars, channelVars, tokens, emitted, managerVars, cancelled,
                   queue, taken, verdict, generated>>

-----------------------------------------------------------------------------
(* _execute_batch: one event of backend.generate_batch at a time.          *)

GeneratedBy_Default(S) == 0

TokenCount == [r \in Requests |-> Len(tokens[r])]

(* What record_success adds to generated_tokens_total.                     *)
GeneratedBy(S) == SumFunctionOnSet(TokenCount, S)

(* pending.discard(request_id)                                             *)
Discard_Not(w, r) == UNCHANGED pending

Discard(w, r) == pending' = [pending EXCEPT ![w] = @ \ {r}]

(* _complete_item for the requests of S, all of them with a live handle.   *)
CompleteItems(S) ==
    /\ future' = [r \in Requests |-> IF r \in S \ Streaming /\ future[r] # "cancelled"
                                     THEN "result" ELSE future[r]]
    /\ events' = [r \in Requests |-> IF r \in S \cap Streaming
                                     THEN Put(r, CompletedEvent)
                                     ELSE events[r]]
    /\ verdict' = [r \in Requests |-> IF r \in S THEN "success" ELSE verdict[r]]
    /\ metrics' = RecordSuccess(metrics, Cardinality(S))
    /\ generated' = generated + GeneratedBy(S)

(* _fail_item for the requests of S, all of them with a live handle.       *)
FailItems(S) ==
    /\ future' = [r \in Requests |-> IF r \in S \ Streaming /\ future[r] # "cancelled"
                                     THEN "exception" ELSE future[r]]
    /\ events' = [r \in Requests |-> IF r \in S \cap Streaming
                                     THEN Put(r, ErrorEvent)
                                     ELSE events[r]]
    /\ verdict' = [r \in Requests |-> IF r \in S THEN "failure" ELSE verdict[r]]
    /\ metrics' = RecordFailure(metrics, Cardinality(S))
    /\ UNCHANGED generated

(* The backend yields a BatchToken.  The worker ignores events of requests *)
(* that are no longer pending, and drops a cancelled request.              *)
BackendToken(w, r) ==
    /\ r \in open[w]
    /\ emitted[r] < MaxTokens
    /\ emitted' = [emitted EXCEPT ![r] = @ + 1]
    /\ LET t == <<r, emitted[r] + 1>>
       IN  IF r \in Live(pending[w])
           THEN /\ tokens' = [tokens EXCEPT ![r] = Append(@, t)]
                /\ events' = IF r \in Streaming
                             THEN [events EXCEPT ![r] = Put(r, TokenEvent(t))]
                             ELSE events
                /\ UNCHANGED pending
           ELSE Discard(w, r) /\ UNCHANGED <<tokens, events>>
    /\ UNCHANGED <<handlerVars, future, phase, batch, open, managerVars, cancelled,
                   queue, taken, verdict, metrics, generated>>

(* The backend yields a BatchCompleted.                                    *)
BackendCompleted(w, r) ==
    /\ r \in open[w]
    /\ open' = [open EXCEPT ![w] = @ \ {r}]
    /\ Discard(w, r)
    /\ CompleteItems(Live(pending[w] \cap {r}))
    /\ UNCHANGED <<handlerVars, phase, batch, tokens, emitted, managerVars,
                   cancelled, queue, taken>>

(* The backend's generator ends, or raises: what is still pending is       *)
(* completed, or failed, and the worker goes back to next_batch.           *)
EndBatch(w) ==
    /\ phase[w] = "executing"
    /\ phase' = [phase EXCEPT ![w] = "idle"]
    /\ pending' = [pending EXCEPT ![w] = {}]
    /\ open' = [open EXCEPT ![w] = {}]
    /\ UNCHANGED <<handlerVars, batch, tokens, emitted, managerVars, cancelled, queue,
                   taken>>

BackendRaise_Swallowed(w) == EndBatch(w) /\ FailItems({})

BackendReturn(w) == EndBatch(w) /\ CompleteItems(Live(pending[w]))
BackendRaise(w)  == EndBatch(w) /\ FailItems(Live(pending[w]))

-----------------------------------------------------------------------------
(* WorkerManager.stop and start.  A cancelled worker does nothing more for *)
(* the items it holds: next_batch loses those it has taken, and            *)
(* _execute_batch catches Exception, which CancelledError is not.          *)

(* A worker task holds a request while it collects or executes its batch.  *)
HeldBy(w) == ToSet(batch[w]) \cup pending[w]

StopTasks_Swallowed(held) ==
    /\ up /\ stops < MaxStops
    /\ up' = FALSE
    /\ stops' = stops + 1
    /\ orphans' = orphans \cup held
    /\ UNCHANGED <<handlerVars, channelVars, workerVars, backendVars, cancelled,
                   verdict, metrics, generated>>

StopTasks(held) ==
    /\ up /\ stops < MaxStops
    /\ up' = FALSE
    /\ stops' = stops + 1
    /\ orphans' = orphans \cup held
    /\ phase' = [w \in Workers |-> "idle"]
    /\ batch' = [w \in Workers |-> <<>>]
    /\ pending' = [w \in Workers |-> {}]
    /\ open' = [w \in Workers |-> {}]
    /\ UNCHANGED <<handlerVars, channelVars, tokens, emitted, cancelled, verdict,
                   metrics, generated>>

Stop_QueueDropped ==
    /\ StopTasks(UNION {HeldBy(w) : w \in Workers})
    /\ queue' = <<>> /\ UNCHANGED taken

Stop == StopTasks(UNION {HeldBy(w) : w \in Workers}) /\ UNCHANGED <<queue, taken>>

Start ==
    /\ ~up
    /\ up' = TRUE
    /\ UNCHANGED <<handlerVars, channelVars, workerVars, backendVars, stops, orphans,
                   cancelled, queue, taken, verdict, metrics, generated>>

-----------------------------------------------------------------------------
(* The JSON handler: wait_for(shield(future), request_timeout_s).          *)

(* The handler resumes with the future's result (200) or exception (500).  *)
JsonAnswer(r) ==
    /\ api[r] = "waiting"
    /\ future[r] \in {"result", "exception"}
    /\ api' = [api EXCEPT ![r] = "ended"]
    /\ answer' = [answer EXCEPT ![r] = IF future[r] = "result" THEN "ok" ELSE "error"]
    /\ delivered' = IF future[r] = "result"
                    THEN [delivered EXCEPT ![r] = tokens[r]] ELSE delivered
    /\ UNCHANGED <<completed, channelVars, workerVars, backendVars, managerVars,
                   cancelled, queue, taken, verdict, metrics, generated>>

(* completion_handle.cancel() and record_failure.  The worker may have     *)
(* settled the future already: a settled future wakes the handler some     *)
(* turns of the event loop later, and a timer or a cancellation that comes *)
(* in between wins.                                                        *)
JsonAbort(r) ==
    /\ api[r] = "waiting"
    /\ api' = [api EXCEPT ![r] = "ended"]
    /\ CancelCompletion(r)
    /\ metrics' = RecordFailure(metrics, 1)
    /\ UNCHANGED <<delivered, completed, events, workerVars, backendVars,
                   managerVars, queue, taken, verdict, generated>>

JsonTimeout_QueuedOnly(r) ==
    r \in ToSet(queue) /\ JsonAbort(r) /\ answer' = [answer EXCEPT ![r] = "timeout"]

JsonTimeout(r) == JsonAbort(r) /\ answer' = [answer EXCEPT ![r] = "timeout"]

JsonCancelled(r) == JsonAbort(r) /\ UNCHANGED answer

-----------------------------------------------------------------------------
(* The SSE response: chat_completion_stream.                               *)

StreamOpen(r) ==
    /\ api[r] = "opening"
    /\ api' = [api EXCEPT ![r] = "streaming"]
    /\ UNCHANGED <<answer, delivered, completed, channelVars, workerVars, backendVars,
                   managerVars, cancelled, queue, taken, verdict, metrics, generated>>

(* The client leaves before the generator is entered: its finally clause   *)
(* never runs.                                                             *)
StreamDropped(r) ==
    /\ api[r] = "opening"
    /\ api' = [api EXCEPT ![r] = "ended"]
    /\ UNCHANGED <<answer, delivered, completed, channelVars, workerVars, backendVars,
                   managerVars, cancelled, queue, taken, verdict, metrics, generated>>

StreamToken(r) ==
    /\ api[r] = "streaming"
    /\ events[r] # <<>>
    /\ Head(events[r]).type = "token"
    /\ events' = [events EXCEPT ![r] = Tail(@)]
    /\ delivered' = [delivered EXCEPT ![r] = Append(@, Head(events[r]).token)]
    /\ UNCHANGED <<api, answer, completed, future, workerVars, backendVars,
                   managerVars, cancelled, queue, taken, verdict, metrics, generated>>

(* mark_completed, then the final frame: [DONE] or the error payload.      *)
StreamTerminal(r) ==
    /\ api[r] = "streaming"
    /\ events[r] # <<>>
    /\ Head(events[r]).type # "token"
    /\ events' = [events EXCEPT ![r] = Tail(@)]
    /\ MarkCompleted(r)
    /\ answer' = [answer EXCEPT ![r] =
                    IF Head(events[r]).type = "completed" THEN "ok" ELSE "error"]
    /\ api' = [api EXCEPT ![r] = "closing"]
    /\ UNCHANGED <<delivered, future, workerVars, backendVars, managerVars, cancelled,
                   queue, taken, verdict, metrics, generated>>

(* The finally clause: handle.cancel(), and cancel_stream if it took hold. *)
StreamFinally(r) ==
    /\ api' = [api EXCEPT ![r] = "ended"]
    /\ IF cancelled[r] \/ completed[r]
       THEN UNCHANGED <<cancelled, metrics>>
       ELSE /\ cancelled' = [cancelled EXCEPT ![r] = TRUE]
            /\ metrics' = RecordFailure(metrics, 1)
    /\ UNCHANGED <<answer, delivered, completed, channelVars, workerVars,
                   backendVars, managerVars, queue, taken, verdict, generated>>

StreamClose(r)      == api[r] = "closing" /\ StreamFinally(r)
StreamDisconnect(r) == api[r] = "streaming" /\ StreamFinally(r)

-----------------------------------------------------------------------------
(* Every request answered or refused, nothing left to execute.             *)
Quiescent ==
    /\ \A r \in Requests : api[r] \in {"rejected", "ended"}
    /\ \A w \in Workers : phase[w] = "idle"
    /\ queue = <<>>
    /\ UNCHANGED vars

Worker(w) == Collect(w) \/ Deadline(w)

BackendStep(w) ==
    \/ \E r \in Requests : BackendToken(w, r) \/ BackendCompleted(w, r)
    \/ BackendReturn(w)
    \/ BackendRaise(w)

Handler(r) ==
    \/ Accept(r) \/ Reject(r)
    \/ JsonAnswer(r) \/ JsonTimeout(r) \/ JsonCancelled(r)
    \/ StreamOpen(r) \/ StreamDropped(r) \/ StreamToken(r)
    \/ StreamTerminal(r) \/ StreamClose(r) \/ StreamDisconnect(r)

Next ==
    \/ \E w \in Workers : Worker(w) \/ BackendStep(w)
    \/ \E r \in Requests : Handler(r)
    \/ Stop
    \/ Start
    \/ Quiescent

Spec == Init /\ [][Next]_vars

(* The event loop runs every ready callback and fires every timer: a       *)
(* handler whose event is there resumes, and wait_for's timer expires.     *)
HandlerFairness ==
    \A r \in Requests :
        /\ WF_vars(JsonAnswer(r)) /\ WF_vars(JsonTimeout(r))
        /\ WF_vars(StreamOpen(r)) /\ WF_vars(StreamToken(r))
        /\ WF_vars(StreamTerminal(r)) /\ WF_vars(StreamClose(r))

WorkerFairness == \A w \in Workers : WF_vars(Collect(w)) /\ WF_vars(Deadline(w))

(* An assumption on the backend, not on this code: it never hangs.         *)
BackendFairness == \A w \in Workers : WF_vars(BackendStep(w))

HandlerSpec == Spec /\ HandlerFairness

-----------------------------------------------------------------------------
(* Safety.                                                                 *)

Accepted   == {r \in Requests : api[r] \notin NoHandler}
Succeeded  == {r \in Requests : verdict[r] = "success"}
Failed     == {r \in Requests : verdict[r] = "failure"}
Aborted    == {r \in Requests : cancelled[r]}
InProgress == {r \in Accepted : verdict[r] = "none" /\ ~cancelled[r]}

(* No request is lost between the queue, a batch under collection and a    *)
(* batch under execution: one that is neither settled nor cancelled is in  *)
(* one of them, unless stop() cancelled the worker that held it.  stop()   *)
(* leaves the queue alone: what waits there is served after a restart.     *)
NoLostRequest ==
    \A r \in InProgress \ orphans :
        r \in ToSet(queue) \/ \E w \in Workers : r \in HeldBy(w)

(* No request is executed twice: it is in one place at most (even with     *)
(* several workers on one queue), and in none once it has been settled or  *)
(* once stop() has cancelled its worker: a restart does not run it again.  *)
NoDuplicateWork ==
    /\ IsInjective(queue)
    /\ \A w \in Workers :
         /\ IsInjective(batch[w])
         /\ ToSet(batch[w]) \cap pending[w] = {}
         /\ HeldBy(w) \cap ToSet(queue) = {}
         /\ \A v \in Workers \ {w} : HeldBy(w) \cap HeldBy(v) = {}
    /\ \A r \in Requests :
         verdict[r] # "none" \/ r \notin Accepted =>
             r \notin ToSet(queue) /\ \A w \in Workers : r \notin HeldBy(w)
    /\ \A r \in orphans : r \notin ToSet(queue) /\ \A w \in Workers : r \notin HeldBy(w)

(* What _complete_item and _fail_item rely on: the future of a request     *)
(* that is not settled is pending, or cancelled if its handle is           *)
(* (set_result would raise otherwise and end the worker task), and a       *)
(* settled one has its result or exception.  That a worker does not settle *)
(* a request again is the part of NoDuplicateWork about settled requests.  *)
FutureMatchesVerdict ==
    \A r \in Requests \ Streaming :
        /\ verdict[r] = "success" => future[r] = "result"
        /\ verdict[r] = "failure" => future[r] = "exception"
        /\ verdict[r] = "none" => future[r] = IF cancelled[r] THEN "cancelled" ELSE "pending"

(* The stream of an SSE request ends with one terminal event, put when the *)
(* worker settles the request, and carries nothing after it.               *)
OneTerminalEvent ==
    \A r \in Streaming :
        LET terminals == {i \in DOMAIN events[r] : events[r][i].type # "token"}
        IN  /\ verdict[r] = "none" \/ completed[r] => terminals = {}
            /\ verdict[r] # "none" /\ ~completed[r] => terminals = {Len(events[r])}
            /\ completed[r] => verdict[r] # "none" /\ events[r] = <<>>

(* The tokens of a request reach its own client, all of them, in order:    *)
(* what was delivered, then what waits in the SSE queue, is the list the   *)
(* worker keeps, which is the whole stream of the backend unless the       *)
(* request was cancelled.  A response that ended well carried everything.  *)
TokensIntact ==
    \A r \in Requests :
        LET n == Len(tokens[r])
            d == Len(delivered[r])
        IN  /\ tokens[r] = [i \in 1 .. n |-> <<r, i>>]
            /\ ~cancelled[r] => n = emitted[r]
            /\ r \in Streaming =>
                 /\ d <= n /\ delivered[r] = SubSeq(tokens[r], 1, d)
                 /\ {i \in DOMAIN events[r] : events[r][i].type = "token"} = 1 .. n - d
                 /\ \A i \in 1 .. n - d : events[r][i].token = tokens[r][d + i]
            /\ answer[r] = "ok" => delivered[r] = tokens[r] /\ n = emitted[r]

(* completed_count and failed_count: the worker counts each request that   *)
(* it settles once, the handlers each that they cancel once.  A request of *)
(* both kinds is counted twice, in failed_count alone if it had failed     *)
(* (see ActiveGaugeCountsAll).                                             *)
CountsExact ==
    /\ metrics.request_count = Cardinality(Accepted)
    /\ metrics.completed_count = Cardinality(Succeeded)
    /\ metrics.failed_count = Cardinality(Failed) + Cardinality(Aborted)

(* And generated_tokens_total is the number of tokens of the successes.    *)
CountersAccount ==
    /\ CountsExact
    /\ generated = SumFunctionOnSet(TokenCount, Succeeded)

(* active_requests never overcounts, so it is zero when nothing is in      *)
(* progress, and each request counted both as settled and as cancelled     *)
(* takes at most one from it.                                              *)
GaugeBounds ==
    /\ metrics.active_requests <= Cardinality(InProgress)
    /\ metrics.active_requests + Cardinality((Succeeded \cup Failed) \cap Aborted)
         >= Cardinality(InProgress)

(* Admission's cap holds if submit, as in Accept, does not suspend between *)
(* the reading of the queue's size and the put; a batch never exceeds      *)
(* max_batch_size.                                                         *)
QueueAndBatchBounds ==
    /\ MaxQueueSize > 0 => Len(queue) <= MaxQueueSize
    /\ \A w \in Workers : Len(batch[w]) < MaxBatchSize
                          /\ Cardinality(pending[w]) <= MaxBatchSize

(* Once its handle is cancelled a request gets nothing more from a worker: *)
(* no token, no terminal event, no result, no entry in the metrics.        *)
CancelledIsLeftAlone ==
    [][\A r \in Requests : cancelled[r] =>
          /\ UNCHANGED <<tokens[r], future[r], verdict[r], delivered[r], answer[r]>>
          /\ Len(events'[r]) <= Len(events[r])]_vars

(* stop() never settles what its workers held, and neither does a later    *)
(* start(): only the client's own handler can end such a request, with a   *)
(* timeout or a cancellation.                                              *)
OrphansAreAbandoned ==
    [][\A r \in orphans :
          /\ UNCHANGED <<tokens[r], verdict[r]>>
          /\ future'[r] # future[r] => future'[r] = "cancelled"
          /\ answer'[r] \notin {"ok", "error"}]_vars

(* The help text of llm_active_requests: "Currently active requests."  So  *)
(* every request that is queued or executing should be counted.            *)
ActiveGaugeCountsAll ==
    metrics.active_requests >= Cardinality(InProgress)

-----------------------------------------------------------------------------
(* Liveness.                                                               *)

(* A JSON request is answered even if the backend and the workers hang or  *)
(* are stopped.                                                            *)
JsonAnswered ==
    \A r \in Requests \ Streaming : api[r] = "waiting" ~> api[r] = "ended"

(* The workers run, from some time on without a stop(), and the backend    *)
(* does not hang.                                                          *)
WorkersServe == <>[]up /\ WorkerFairness /\ BackendFairness

(* An SSE response ends, with DONE, an error or the client gone; only      *)
(* stop() in the middle of its batch leaves a client to wait.              *)
StreamEnds ==
    WorkersServe =>
        \A r \in Streaming : api[r] = "opening" ~> api[r] = "ended" \/ r \in orphans

(* A queued request is taken up by a worker, and every request is settled  *)
(* or cancelled in the end, under the same assumptions.                    *)
AllWorkFinishes ==
    WorkersServe =>
        \A r \in Requests :
            r \in Accepted ~> (r \notin InProgress \/ r \in orphans) /\ r \notin ToSet(queue)
=============================================================================
