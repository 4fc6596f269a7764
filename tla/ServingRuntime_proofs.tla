------------------------ MODULE ServingRuntime_proofs ------------------------
(***************************************************************************)
(* Types, ownership of requests, futures and bounds of ServingRuntime, for *)
(* all requests, workers, batch sizes, queue caps and token bounds.        *)
(***************************************************************************)
EXTENDS ServingRuntime, CollectionTheorems

USE DEF handlerVars, channelVars, workerVars, backendVars, managerVars

-----------------------------------------------------------------------------
(* The operators the actions share keep the types.                         *)

(* A set of requests has a natural number of members.                      *)
LEMMA CardinalityIsNat == ASSUME NEW S \in SUBSET Requests
                          PROVE  Cardinality(S) \in Nat /\ IsFiniteSet(S)
BY RuntimeAssumption, FS_Subset, FS_CardinalityType

(* MetricsCollector's methods keep the counters natural numbers, whatever  *)
(* number of requests they record: this is what max(0, ...) is for.        *)
LEMMA MetricsType ==
    ASSUME NEW m \in Counters, NEW k \in Nat
    PROVE  /\ RecordRequest(m) \in Counters
           /\ RecordSuccess(m, k) \in Counters
           /\ RecordFailure(m, k) \in Counters
           /\ RecordRejection(m) \in Counters
           /\ RecordBatch(m) \in Counters
<1>1. \A i, j \in Nat :
        /\ [m EXCEPT !.request_count = i, !.active_requests = j] \in Counters
        /\ [m EXCEPT !.completed_count = i, !.active_requests = j] \in Counters
        /\ [m EXCEPT !.failed_count = i, !.active_requests = j] \in Counters
        /\ [m EXCEPT !.rejected_count = i] \in Counters
        /\ [m EXCEPT !.batch_count = i] \in Counters
  BY DEF Counters
<1>2. /\ m.request_count + 1 \in Nat /\ m.active_requests + 1 \in Nat
      /\ m.completed_count + k \in Nat /\ m.failed_count + k \in Nat
      /\ m.rejected_count + 1 \in Nat /\ m.batch_count + 1 \in Nat
      /\ Dec(m.active_requests, k) \in Nat
  BY DEF Counters, Dec
<1>3. QED
  BY <1>1, <1>2 DEF RecordRequest, RecordSuccess, RecordFailure, RecordRejection,
                    RecordBatch

(* What is put in an SSE queue is a stream event.                          *)
LEMMA PutType ==
    ASSUME TypeOK, NEW r \in Requests, NEW e \in StreamEvent
    PROVE  Put(r, e) \in Seq(StreamEvent)
BY DEF TypeOK, Put

(* _complete_item and _fail_item keep the types of what they touch.        *)
LEMMA SettleType ==
    ASSUME TypeOK, NEW S \in SUBSET Requests, CompleteItems(S) \/ FailItems(S)
    PROVE  /\ future' \in [Requests -> {"pending", "result", "exception", "cancelled"}]
           /\ events' \in [Requests -> Seq(StreamEvent)]
           /\ verdict' \in [Requests -> {"none", "success", "failure"}]
           /\ metrics' \in Counters
<1>1. CompletedEvent \in StreamEvent /\ ErrorEvent \in StreamEvent
  BY DEF StreamEvent
<1>2. \A r \in Requests : /\ Put(r, CompletedEvent) \in Seq(StreamEvent)
                          /\ Put(r, ErrorEvent) \in Seq(StreamEvent)
  BY <1>1, PutType
<1>3. Cardinality(S) \in Nat
  BY CardinalityIsNat
<1>4. metrics \in Counters 
  BY DEF TypeOK
<1>5. CASE CompleteItems(S)
  BY <1>2, <1>3, <1>4, <1>5, MetricsType DEF CompleteItems, TypeOK
<1>6. CASE FailItems(S)
  BY <1>2, <1>3, <1>4, <1>6, MetricsType DEF FailItems, TypeOK
<1>7. QED
  BY <1>5, <1>6

(* Starting a batch with a sequence of requests keeps the types.           *)
LEMMA StartBatchType ==
    ASSUME TypeOK, NEW w \in Workers, NEW items \in Seq(Requests), StartBatch(w, items)
    PROVE  /\ batch' \in [Workers -> Seq(Requests)]
           /\ phase' \in [Workers -> {"idle", "collecting", "executing"}]
           /\ pending' \in [Workers -> SUBSET Requests]
           /\ open' \in [Workers -> SUBSET Requests]
           /\ metrics' \in Counters
<1>1. Live(ToSet(items)) \subseteq Requests
  BY DEF Live, ToSet
<1>2. metrics' \in Counters
  BY MetricsType DEF StartBatch, TypeOK
<1>3. QED
  BY <1>1, <1>2 DEF StartBatch, TypeOK

(* The queue with the items that are taken moved to its front is a         *)
(* sequence with the same members, as often.                               *)
LEMMA RearrangedSeq ==
    ASSUME queue \in Seq(Requests), NEW k \in 1 .. Len(queue), NEW q \in Rearranged(k)
    PROVE  /\ q \in Seq(Requests) /\ Len(q) = Len(queue)
           /\ IsInjective(queue) => IsInjective(q) /\ ToSet(q) = ToSet(queue)
<1>1. CASE q = queue
  BY <1>1
<1>2. ASSUME NEW f \in Bijection(DOMAIN queue, DOMAIN queue),
             q = [i \in DOMAIN queue |-> queue[f[i]]]
      PROVE  /\ q \in Seq(Requests) /\ Len(q) = Len(queue)
             /\ IsInjective(queue) => IsInjective(q) /\ ToSet(q) = ToSet(queue)
  <2>1. /\ DOMAIN f = DOMAIN queue /\ \A i \in DOMAIN queue : f[i] \in DOMAIN queue
        /\ IsInjective(f)
        /\ \A j \in DOMAIN queue : \E i \in DOMAIN queue : f[i] = j
    BY DEF Bijection, Injection, Surjection
  <2>2. DOMAIN queue = 1 .. Len(queue) /\ \A i \in DOMAIN queue : queue[i] \in Requests
    OBVIOUS
  <2>3. q \in [1 .. Len(queue) -> Requests]
    BY <1>2, <2>1, <2>2
  <2>4. q \in Seq(Requests) /\ Len(q) = Len(queue)
    BY <2>3
  <2>5. ASSUME IsInjective(queue) PROVE IsInjective(q)
    BY <1>2, <2>1, <2>5 DEF IsInjective
  <2>6. ToSet(q) = ToSet(queue)
    BY <1>2, <2>1 DEF ToSet
  <2>7. QED
    BY <2>4, <2>5, <2>6
<1>3. q = queue \/ \E f \in Bijection(DOMAIN queue, DOMAIN queue) :
                        q = [i \in DOMAIN queue |-> queue[f[i]]]
  BY DEF Rearranged
<1>4. QED
  BY <1>1, <1>2, <1>3

-----------------------------------------------------------------------------
(* Every step keeps the types.  Each action of a worker, of the backend    *)
(* and of a handler has its own step.                                      *)
LEMMA TypeStep == TypeOK /\ [Next]_vars => TypeOK'
<1> SUFFICES ASSUME TypeOK, [Next]_vars PROVE TypeOK'
  OBVIOUS
<1>m. metrics \in Counters
  BY DEF TypeOK
<1>1. ASSUME NEW r \in Requests, Accept(r) PROVE TypeOK'
  BY <1>1, <1>m, MetricsType DEF Accept, TypeOK, HandlerLocs, NoHandler
<1>2. ASSUME NEW r \in Requests, Reject(r) PROVE TypeOK'
  BY <1>2, <1>m, MetricsType DEF Reject, TypeOK, HandlerLocs, NoHandler
<1>3. ASSUME NEW w \in Workers, Collect(w) PROVE TypeOK'
  <2>k. PICK k \in 1 .. Len(queue) : \E q \in Rearranged(k) :
          LET items == batch[w] \o SubSeq(q, 1, k)
          IN  /\ queue' = SubSeq(q, k + 1, Len(q))
              /\ taken' = taken \cup ToSet(SubSeq(q, 1, k))
              /\ \/ StartBatch(w, items)
                 \/ /\ batch' = [batch EXCEPT ![w] = items]
                    /\ phase' = [phase EXCEPT ![w] = "collecting"]
                    /\ UNCHANGED <<pending, open, metrics>>
    BY <1>3 DEF Collect
  <2>1. PICK q \in Rearranged(k) :
          LET items == batch[w] \o SubSeq(q, 1, k)
          IN  /\ queue' = SubSeq(q, k + 1, Len(q))
              /\ taken' = taken \cup ToSet(SubSeq(q, 1, k))
              /\ \/ StartBatch(w, items)
                 \/ /\ batch' = [batch EXCEPT ![w] = items]
                    /\ phase' = [phase EXCEPT ![w] = "collecting"]
                    /\ UNCHANGED <<pending, open, metrics>>
    BY <2>k
  <2>q. q \in Seq(Requests) /\ k \in 1 .. Len(q)
    BY RearrangedSeq DEF TypeOK
  <2>2. /\ batch[w] \o SubSeq(q, 1, k) \in Seq(Requests)
        /\ SubSeq(q, k + 1, Len(q)) \in Seq(Requests)
        /\ ToSet(SubSeq(q, 1, k)) \subseteq Requests
    <3>1. SubSeq(q, 1, k) \in Seq(Requests) /\ SubSeq(q, k + 1, Len(q)) \in Seq(Requests)
      BY <2>q, SubSeqProperties
    <3>2. batch[w] \in Seq(Requests)
      BY DEF TypeOK
    <3>3. ToSet(SubSeq(q, 1, k)) \subseteq Requests
      BY <3>1 DEF ToSet
    <3>4. QED
      BY <3>1, <3>2, <3>3, ConcatProperties
  <2>3. UNCHANGED <<handlerVars, channelVars, tokens, emitted, managerVars, cancelled, verdict>>
    BY <1>3 DEF Collect
  <2>4. CASE StartBatch(w, batch[w] \o SubSeq(q, 1, k))
    BY <2>1, <2>2, <2>3, <2>4, StartBatchType DEF TypeOK
  <2>5. CASE /\ batch' = [batch EXCEPT ![w] = batch[w] \o SubSeq(q, 1, k)]
             /\ phase' = [phase EXCEPT ![w] = "collecting"]
             /\ UNCHANGED <<pending, open, metrics>>
    BY <2>1, <2>2, <2>3, <2>5 DEF TypeOK
  <2>6. QED
    BY <2>1, <2>4, <2>5
<1>4. ASSUME NEW w \in Workers, Deadline(w) PROVE TypeOK'
  BY <1>4, StartBatchType DEF Deadline, TypeOK
<1>5. ASSUME NEW w \in Workers, NEW r \in Requests, BackendToken(w, r) PROVE TypeOK'
  <2>1. <<r, emitted[r] + 1>> \in Token
    <3>1. emitted[r] \in 0 .. MaxTokens /\ emitted[r] < MaxTokens /\ MaxTokens \in Nat
      BY <1>5, RuntimeAssumption DEF BackendToken, TypeOK
    <3>2. QED
      BY <3>1 DEF Token
  <2>2. TokenEvent(<<r, emitted[r] + 1>>) \in StreamEvent
    BY <2>1 DEF StreamEvent
  <2>3. Put(r, TokenEvent(<<r, emitted[r] + 1>>)) \in Seq(StreamEvent)
    BY <2>2, PutType
  <2>4. emitted' \in [Requests -> 0 .. MaxTokens]
    BY <1>5, RuntimeAssumption DEF BackendToken, TypeOK
  <2>5. CASE r \in Live(pending[w])
    <3>1. /\ tokens' = [tokens EXCEPT ![r] = Append(@, <<r, emitted[r] + 1>>)]
          /\ events' = IF r \in Streaming
                       THEN [events EXCEPT ![r] = Put(r, TokenEvent(<<r, emitted[r] + 1>>))]
                       ELSE events
          /\ UNCHANGED <<handlerVars, future, phase, batch, pending, open, managerVars,
                         cancelled, queue, taken, verdict, metrics>>
      BY <1>5, <2>5 DEF BackendToken
    <3>2. tokens' \in [Requests -> Seq(Token)]
      BY <3>1, <2>1, AppendProperties DEF TypeOK
    <3>3. QED
      BY <3>1, <3>2, <2>3, <2>4 DEF TypeOK
  <2>6. CASE r \notin Live(pending[w])
    <3>1. /\ pending' = [pending EXCEPT ![w] = @ \ {r}]
          /\ UNCHANGED <<handlerVars, channelVars, phase, batch, tokens, open,
                         managerVars, cancelled, queue, taken, verdict, metrics>>
      BY <1>5, <2>6 DEF BackendToken, Discard
    <3>2. QED
      BY <3>1, <2>4 DEF TypeOK
  <2>7. QED
    BY <2>5, <2>6
<1>6. ASSUME NEW w \in Workers, NEW r \in Requests, BackendCompleted(w, r) PROVE TypeOK'
  <2>1. Live(pending[w] \cap {r}) \in SUBSET Requests
    BY DEF Live
  <2>2. QED
    BY <1>6, <2>1, SettleType DEF BackendCompleted, Discard, TypeOK
<1>7. ASSUME NEW w \in Workers, BackendReturn(w) \/ BackendRaise(w) PROVE TypeOK'
  <2>1. Live(pending[w]) \in SUBSET Requests
    BY DEF Live, TypeOK
  <2>2. EndBatch(w) /\ (CompleteItems(Live(pending[w])) \/ FailItems(Live(pending[w])))
    BY <1>7 DEF BackendReturn, BackendRaise
  <2>3. QED
    BY <2>1, <2>2, SettleType DEF EndBatch, TypeOK
<1>8. ASSUME NEW r \in Requests, JsonAnswer(r) PROVE TypeOK'
  BY <1>8 DEF JsonAnswer, TypeOK, HandlerLocs
<1>9. ASSUME NEW r \in Requests, JsonTimeout(r) \/ JsonCancelled(r) PROVE TypeOK'
  <2>1. RecordFailure(metrics, 1) \in Counters
    BY <1>m, MetricsType
  <2>2. JsonAbort(r) /\ (UNCHANGED answer \/ answer' = [answer EXCEPT ![r] = "timeout"])
    BY <1>9 DEF JsonTimeout, JsonCancelled
  <2>3. /\ api' = [api EXCEPT ![r] = "ended"]
        /\ future' = [future EXCEPT ![r] = IF @ = "pending" THEN "cancelled" ELSE @]
        /\ cancelled' = [cancelled EXCEPT ![r] = TRUE]
        /\ metrics' \in Counters
        /\ UNCHANGED <<delivered, completed, events, workerVars, backendVars,
                       managerVars, queue, taken, verdict>>
    BY <2>1, <2>2 DEF JsonAbort, CancelCompletion
  <2>4. /\ api' \in [Requests -> HandlerLocs]
        /\ answer' \in [Requests -> {"none", "ok", "error", "timeout"}]
        /\ future' \in [Requests -> {"pending", "result", "exception", "cancelled"}]
        /\ cancelled' \in [Requests -> BOOLEAN]
    <3>1. api' \in [Requests -> HandlerLocs]
      BY <2>3 DEF TypeOK, HandlerLocs
    <3>2. answer' \in [Requests -> {"none", "ok", "error", "timeout"}]
      BY <2>2 DEF TypeOK
    <3>3. future' \in [Requests -> {"pending", "result", "exception", "cancelled"}]
      BY <2>3 DEF TypeOK
    <3>4. cancelled' \in [Requests -> BOOLEAN]
      BY <2>3 DEF TypeOK
    <3>5. QED
      BY <3>1, <3>2, <3>3, <3>4
  <2>5. QED
    BY <2>3, <2>4 DEF TypeOK
<1>10. ASSUME NEW r \in Requests, StreamOpen(r) \/ StreamDropped(r) PROVE TypeOK'
  <2>1. /\ \E loc \in {"streaming", "ended"} : api' = [api EXCEPT ![r] = loc]
        /\ UNCHANGED <<answer, delivered, completed, channelVars, workerVars,
                       backendVars, managerVars, cancelled, queue, taken, verdict, metrics>>
    BY <1>10 DEF StreamOpen, StreamDropped
  <2>2. api' \in [Requests -> HandlerLocs]
    BY <2>1 DEF TypeOK, HandlerLocs
  <2>3. QED
    BY <2>1, <2>2 DEF TypeOK
<1>11. ASSUME NEW r \in Requests, StreamToken(r) PROVE TypeOK'
  <2>1. Head(events[r]) \in StreamEvent /\ Tail(events[r]) \in Seq(StreamEvent)
    BY <1>11, HeadTailProperties DEF StreamToken, TypeOK
  <2>2. Head(events[r]).token \in Token
    BY <1>11, <2>1 DEF StreamToken, StreamEvent, TokenEvent, CompletedEvent, ErrorEvent
  <2>3. QED
    BY <1>11, <2>1, <2>2 DEF StreamToken, TypeOK
<1>12. ASSUME NEW r \in Requests, StreamTerminal(r) PROVE TypeOK'
  <2>1. Tail(events[r]) \in Seq(StreamEvent)
    BY <1>12, HeadTailProperties DEF StreamTerminal, TypeOK
  <2>2. QED
    BY <1>12, <2>1 DEF StreamTerminal, MarkCompleted, TypeOK, HandlerLocs
<1>13. ASSUME NEW r \in Requests, StreamClose(r) \/ StreamDisconnect(r) PROVE TypeOK'
  <2>1. RecordFailure(metrics, 1) \in Counters
    BY <1>m, MetricsType
  <2>2. /\ api' = [api EXCEPT ![r] = "ended"]
        /\ UNCHANGED cancelled \/ cancelled' = [cancelled EXCEPT ![r] = TRUE]
        /\ metrics' \in Counters
        /\ UNCHANGED <<answer, delivered, completed, channelVars, workerVars,
                       backendVars, managerVars, queue, taken, verdict>>
    BY <1>13, <1>m, <2>1 DEF StreamClose, StreamDisconnect, StreamFinally
  <2>3. api' \in [Requests -> HandlerLocs]
    BY <2>2 DEF TypeOK, HandlerLocs
  <2>4. cancelled' \in [Requests -> BOOLEAN]
    BY <2>2 DEF TypeOK
  <2>5. QED
    BY <2>2, <2>3, <2>4 DEF TypeOK
<1>14. CASE UNCHANGED vars
  BY <1>14 DEF vars, TypeOK
<1>15. ASSUME Stop PROVE TypeOK'
  <2>1. /\ up' = FALSE /\ stops' = stops + 1 /\ stops < MaxStops
        /\ orphans' = orphans \cup UNION {HeldBy(w) : w \in Workers}
        /\ phase' = [w \in Workers |-> "idle"]
        /\ batch' = [w \in Workers |-> <<>>]
        /\ pending' = [w \in Workers |-> {}]
        /\ open' = [w \in Workers |-> {}]
        /\ UNCHANGED <<handlerVars, channelVars, tokens, emitted, cancelled, queue, taken,
                       verdict, metrics>>
    BY <1>15 DEF Stop, StopTasks
  <2>2. \A w \in Workers : HeldBy(w) \subseteq Requests
    BY DEF HeldBy, TypeOK, ToSet
  <2>3. stops' \in 0 .. MaxStops /\ up' \in BOOLEAN
    <3>1. stops \in 0 .. MaxStops /\ MaxStops \in Nat
      BY RuntimeAssumption DEF TypeOK
    <3>2. stops' = stops + 1 /\ stops < MaxStops
      BY <2>1
    <3>3. stops' \in 0 .. MaxStops
      BY <3>1, <3>2
    <3>4. up' \in BOOLEAN
      BY <2>1
    <3>5. QED
      BY <3>3, <3>4
  <2>4. orphans' \subseteq Requests
    BY <2>1, <2>2 DEF TypeOK
  <2>5. QED
    BY <2>1, <2>3, <2>4 DEF TypeOK
<1>16. ASSUME Start PROVE TypeOK'
  BY <1>16 DEF Start, TypeOK
<1>17. QED
  BY <1>1, <1>2, <1>3, <1>4, <1>5, <1>6, <1>7, <1>8, <1>9, <1>10, <1>11, <1>12,
     <1>13, <1>14, <1>15, <1>16 DEF Next, Worker, BackendStep, Handler, Quiescent

(* TypeOK holds in every reachable state: in particular active_requests    *)
(* stays a natural number although a request may be counted twice, and no  *)
(* backend or handler puts anything but stream events in an SSE queue.     *)
THEOREM TypeCorrect == Spec => []TypeOK
<1>1. Init => TypeOK
  BY RuntimeAssumption DEF Init, TypeOK, HandlerLocs, NoHandler, Counters
<1>2. QED
  BY <1>1, TypeStep, PTL DEF Spec

-----------------------------------------------------------------------------
(* Ownership: each request in progress is in exactly one place.            *)

(* What a worker holds in each phase of its loop.  Without it a new batch  *)
(* could overwrite requests still pending.                                 *)
PhaseInv ==
    \A w \in Workers :
        /\ phase[w] # "executing" => pending[w] = {}
        /\ phase[w] # "collecting" => batch[w] = <<>>

(* Only accepted requests are settled, or abandoned by stop().             *)
SettledAccepted ==
    /\ \A r \in Requests : verdict[r] # "none" => r \in Accepted
    /\ orphans \subseteq Accepted

Ownership == NoLostRequest /\ NoDuplicateWork /\ SettledAccepted

(* Worker w takes the requests F from the queue and lets some of those it  *)
(* then holds go, each of them settled by this step or cancelled before.   *)
LEMMA MoveKeepsOwnership ==
    ASSUME Ownership, NEW w \in Workers, NEW F \in SUBSET Requests,
           F \subseteq ToSet(queue),
           IsInjective(queue'), ToSet(queue') = ToSet(queue) \ F,
           \A v \in Workers : IsInjective(batch'[v]) /\ ToSet(batch'[v]) \cap pending'[v] = {},
           HeldBy(w)' \subseteq HeldBy(w) \cup F,
           \A v \in Workers \ {w} : HeldBy(v)' = HeldBy(v),
           UNCHANGED <<api, cancelled, orphans>>,
           \A r \in Requests : \/ verdict'[r] = verdict[r]
                               \/ verdict'[r] # "none" /\ r \in HeldBy(w) \ HeldBy(w)',
           \A r \in Requests :
              r \in (HeldBy(w) \cup F) \ HeldBy(w)' => cancelled[r] \/ verdict'[r] # "none"
    PROVE  Ownership'
<1>1. Accepted' = Accepted
  BY DEF Accepted
<1>2. NoLostRequest'
  <2> SUFFICES ASSUME NEW r \in Requests, r \in InProgress', r \notin orphans
               PROVE  r \in ToSet(queue') \/ \E v \in Workers : r \in HeldBy(v)'
    BY DEF NoLostRequest, InProgress, Accepted
  <2>1. verdict'[r] = "none" /\ ~cancelled[r] /\ r \in Accepted
    BY <1>1 DEF InProgress
  <2>2. r \in InProgress
    BY <2>1 DEF InProgress
  <2>3. r \in ToSet(queue) \/ \E v \in Workers : r \in HeldBy(v)
    BY <2>2 DEF Ownership, NoLostRequest
  <2>4. CASE r \in ToSet(queue)
    BY <2>1, <2>4
  <2>5. CASE \E v \in Workers : r \in HeldBy(v)
    BY <2>1, <2>5
  <2>6. QED
    BY <2>3, <2>4, <2>5
<1>3. NoDuplicateWork'
  <2>1. ASSUME NEW v \in Workers PROVE HeldBy(v)' \cap ToSet(queue') = {}
    BY DEF Ownership, NoDuplicateWork
  <2>2. ASSUME NEW v \in Workers, NEW u \in Workers \ {v} PROVE HeldBy(v)' \cap HeldBy(u)' = {}
    <3>1. CASE v = w
      BY <3>1 DEF Ownership, NoDuplicateWork
    <3>2. CASE u = w
      BY <3>2 DEF Ownership, NoDuplicateWork
    <3>3. CASE v # w /\ u # w
      BY <3>3 DEF Ownership, NoDuplicateWork
    <3>4. QED
      BY <3>1, <3>2, <3>3
  <2>3. ASSUME NEW r \in Requests, verdict'[r] # "none" \/ r \notin Accepted'
        PROVE  r \notin ToSet(queue') /\ \A v \in Workers : r \notin HeldBy(v)'
    <3>1. CASE verdict[r] # "none" \/ r \notin Accepted
      <4>1. r \notin ToSet(queue) /\ \A v \in Workers : r \notin HeldBy(v)
        BY <3>1 DEF Ownership, NoDuplicateWork
      <4>2. QED
        BY <4>1
    <3>2. CASE r \in HeldBy(w) \ HeldBy(w)'
      BY <3>2 DEF Ownership, NoDuplicateWork
    <3>3. QED
      BY <2>3, <1>1, <3>1, <3>2
  <2>4. ASSUME NEW r \in orphans'
        PROVE  r \notin ToSet(queue') /\ \A v \in Workers : r \notin HeldBy(v)'
    <3>1. r \notin ToSet(queue) /\ \A v \in Workers : r \notin HeldBy(v)
      BY <2>4 DEF Ownership, NoDuplicateWork
    <3>2. QED
      BY <3>1
  <2>5. QED
    BY <2>1, <2>2, <2>3, <2>4 DEF NoDuplicateWork
<1>4. SettledAccepted'
  BY <1>1 DEF Ownership, SettledAccepted, NoDuplicateWork
<1>5. QED
  BY <1>2, <1>3, <1>4 DEF Ownership

(* A step of a handler that is already in place: queue, batches and        *)
(* verdicts stay, and a handle may be cancelled.                           *)
LEMMA HandlerKeepsOwnership ==
    ASSUME Ownership, UNCHANGED <<queue, batch, pending, verdict, orphans>>,
           Accepted' = Accepted,
           \A r \in Requests : cancelled[r] => cancelled'[r]
    PROVE  Ownership'
<1>1. NoLostRequest'
  BY DEF Ownership, NoLostRequest, InProgress, HeldBy, Accepted
<1>2. NoDuplicateWork'
  BY DEF Ownership, NoDuplicateWork, HeldBy
<1>3. SettledAccepted'
  BY DEF Ownership, SettledAccepted
<1>4. QED
  BY <1>1, <1>2, <1>3 DEF Ownership

(* A batch starts with items that its worker holds or has just taken.      *)
LEMMA StartBatchKeepsOwnership ==
    ASSUME TypeOK, PhaseInv, Ownership, NEW w \in Workers, phase[w] # "executing",
           NEW F \in SUBSET Requests, F \subseteq ToSet(queue),
           IsInjective(queue'), ToSet(queue') = ToSet(queue) \ F,
           NEW items \in Seq(Requests), ToSet(items) = ToSet(batch[w]) \cup F,
           StartBatch(w, items), UNCHANGED <<api, cancelled, verdict, orphans>>
    PROVE  PhaseInv' /\ Ownership'
<1>1. /\ batch' = [batch EXCEPT ![w] = <<>>]
      /\ phase' = [phase EXCEPT ![w] =
                     IF Live(ToSet(items)) = {} THEN "idle" ELSE "executing"]
      /\ pending' = [pending EXCEPT ![w] = Live(ToSet(items))]
  BY DEF StartBatch
<1>2. PhaseInv'
  BY <1>1 DEF PhaseInv, TypeOK
<1>3. pending[w] = {} /\ HeldBy(w) = ToSet(batch[w])
  BY DEF PhaseInv, HeldBy
<1>4. HeldBy(w)' = Live(ToSet(items))
  BY <1>1, EmptySeqMembers DEF HeldBy, TypeOK
<1>5. \A v \in Workers \ {w} : HeldBy(v)' = HeldBy(v)
  BY <1>1 DEF HeldBy, TypeOK
<1>6. \A v \in Workers : IsInjective(batch'[v]) /\ ToSet(batch'[v]) \cap pending'[v] = {}
  BY <1>1, EmptySeqMembers DEF Ownership, NoDuplicateWork, TypeOK
<1>7. HeldBy(w)' \subseteq HeldBy(w) \cup F
  BY <1>3, <1>4 DEF Live
<1>8. \A r \in Requests : r \in (HeldBy(w) \cup F) \ HeldBy(w)' => cancelled[r]
  BY <1>3, <1>4 DEF Live
<1>9. Ownership'
  BY <1>5, <1>6, <1>7, <1>8, MoveKeepsOwnership
<1>10. QED
  BY <1>2, <1>9

(* An executing worker lets requests go: dropped because they are          *)
(* cancelled, or settled.                                                  *)
LEMMA ReleaseKeepsOwnership ==
    ASSUME TypeOK, PhaseInv, Ownership, NEW w \in Workers, NEW G \in SUBSET Requests,
           pending' = [pending EXCEPT ![w] = @ \ G],
           \/ phase' = phase
           \/ phase[w] = "executing" /\ phase' = [phase EXCEPT ![w] = "idle"] /\ pending'[w] = {},
           UNCHANGED <<api, cancelled, queue, batch, orphans>>,
           \A r \in Requests : r \in pending[w] \cap G => cancelled[r] \/ verdict'[r] # "none",
           \A r \in Requests : verdict'[r] # verdict[r] =>
                                  verdict'[r] # "none" /\ r \in pending[w] \cap G
    PROVE  PhaseInv' /\ Ownership'
<1>1. PhaseInv'
  <2> SUFFICES ASSUME NEW v \in Workers
               PROVE  /\ phase'[v] # "executing" => pending'[v] = {}
                      /\ phase'[v] # "collecting" => batch'[v] = <<>>
    BY DEF PhaseInv
  <2>1. phase[v] # "executing" => pending'[v] = {}
    BY DEF PhaseInv, TypeOK
  <2>2. phase'[v] = phase[v] \/ (v = w /\ phase[w] = "executing" /\ pending'[w] = {})
    BY DEF TypeOK
  <2>3. QED
    BY <2>1, <2>2 DEF PhaseInv
<1>2. /\ HeldBy(w)' = ToSet(batch[w]) \cup (pending[w] \ G)
      /\ HeldBy(w) = ToSet(batch[w]) \cup pending[w]
      /\ ToSet(batch[w]) \cap pending[w] = {}
  BY DEF HeldBy, TypeOK, Ownership, NoDuplicateWork
<1>3. \A v \in Workers \ {w} : HeldBy(v)' = HeldBy(v)
  BY DEF HeldBy, TypeOK
<1>4. \A v \in Workers : IsInjective(batch'[v]) /\ ToSet(batch'[v]) \cap pending'[v] = {}
  BY DEF Ownership, NoDuplicateWork, TypeOK
<1>5. HeldBy(w) \ HeldBy(w)' = pending[w] \cap G
  BY <1>2
<1>6. IsInjective(queue') /\ ToSet(queue') = ToSet(queue) \ {}
  BY DEF Ownership, NoDuplicateWork
<1>7. HeldBy(w)' \subseteq HeldBy(w) \cup {}
  BY <1>2
<1>8. \A r \in Requests : r \in (HeldBy(w) \cup {}) \ HeldBy(w)' =>
                             cancelled[r] \/ verdict'[r] # "none"
  BY <1>5
<1>9. \A r \in Requests : \/ verdict'[r] = verdict[r]
                          \/ verdict'[r] # "none" /\ r \in HeldBy(w) \ HeldBy(w)'
  BY <1>5
<1>10. {} \in SUBSET Requests /\ {} \subseteq ToSet(queue)
  OBVIOUS
<1>11. Ownership'
  BY <1>3, <1>4, <1>6, <1>7, <1>8, <1>9, <1>10, MoveKeepsOwnership
<1>12. QED
  BY <1>1, <1>11

(* Every step keeps each request in exactly one place.                     *)
LEMMA OwnershipStep ==
    TypeOK /\ PhaseInv /\ Ownership /\ [Next]_vars => PhaseInv' /\ Ownership'
<1> SUFFICES ASSUME TypeOK, PhaseInv, Ownership, [Next]_vars PROVE PhaseInv' /\ Ownership'
  OBVIOUS
<1>1. ASSUME NEW r \in Requests, Accept(r) PROVE PhaseInv' /\ Ownership'
  <2>1. r \notin Accepted /\ Accepted' = Accepted \cup {r}
    BY <1>1 DEF Accept, Accepted, NoHandler, TypeOK
  <2>2. /\ r \notin ToSet(queue) /\ verdict[r] = "none" /\ r \notin orphans
        /\ \A w \in Workers : r \notin HeldBy(w)
    BY <2>1 DEF Ownership, NoDuplicateWork, SettledAccepted
  <2>3. IsInjective(queue') /\ ToSet(queue') = ToSet(queue) \cup {r}
    BY <1>1, <2>2, AppendNew DEF Accept, TypeOK, Ownership, NoDuplicateWork
  <2>4. /\ UNCHANGED <<batch, pending, phase, verdict, cancelled, orphans>>
        /\ \A w \in Workers : HeldBy(w)' = HeldBy(w)
    BY <1>1 DEF Accept, HeldBy
  <2>5. NoLostRequest'
    BY <2>1, <2>3, <2>4 DEF Ownership, NoLostRequest, InProgress
  <2>6. NoDuplicateWork'
    BY <2>1, <2>2, <2>3, <2>4 DEF Ownership, NoDuplicateWork
  <2>7. SettledAccepted'
    BY <2>1, <2>4 DEF Ownership, SettledAccepted
  <2>8. QED
    BY <2>4, <2>5, <2>6, <2>7 DEF Ownership, PhaseInv
<1>2. ASSUME NEW w \in Workers, Collect(w) PROVE PhaseInv' /\ Ownership'
  <2>k. PICK k \in 1 .. Len(queue) : \E q \in Rearranged(k) :
          LET items == batch[w] \o SubSeq(q, 1, k)
          IN  /\ queue' = SubSeq(q, k + 1, Len(q))
              /\ \/ StartBatch(w, items)
                 \/ /\ batch' = [batch EXCEPT ![w] = items]
                    /\ phase' = [phase EXCEPT ![w] = "collecting"]
                    /\ UNCHANGED <<pending, open, metrics>>
    BY <1>2 DEF Collect
  <2>1. PICK q \in Rearranged(k) :
          LET items == batch[w] \o SubSeq(q, 1, k)
          IN  /\ queue' = SubSeq(q, k + 1, Len(q))
              /\ \/ StartBatch(w, items)
                 \/ /\ batch' = [batch EXCEPT ![w] = items]
                    /\ phase' = [phase EXCEPT ![w] = "collecting"]
                    /\ UNCHANGED <<pending, open, metrics>>
    BY <2>k
  <2> DEFINE front == SubSeq(q, 1, k)
             F == ToSet(front)
             items == batch[w] \o front
  <2>2. /\ UNCHANGED <<api, cancelled, verdict, orphans>> /\ phase[w] # "executing"
        /\ queue \in Seq(Requests) /\ IsInjective(queue)
        /\ batch[w] \in Seq(Requests) /\ IsInjective(batch[w])
        /\ ToSet(batch[w]) \cap ToSet(queue) = {}
        /\ pending[w] = {}
    BY <1>2 DEF Collect, TypeOK, Ownership, NoDuplicateWork, HeldBy, PhaseInv
  <2>3. /\ front \in Seq(Requests) /\ IsInjective(front) /\ IsInjective(queue')
        /\ F \subseteq ToSet(queue) /\ ToSet(queue') = ToSet(queue) \ F
    <3>1. /\ q \in Seq(Requests) /\ k \in 1 .. Len(q)
          /\ IsInjective(q) /\ ToSet(q) = ToSet(queue)
      BY <2>2, RearrangedSeq
    <3>2. QED
      BY <2>1, <3>1, SplitSeq
  <2> HIDE DEF front
  <2>4. F \in SUBSET Requests
    BY <2>3 DEF ToSet
  <2>5. ToSet(batch[w]) \cap F = {}
    BY <2>2, <2>3
  <2>6. items \in Seq(Requests) /\ IsInjective(items) /\ ToSet(items) = ToSet(batch[w]) \cup F
    BY <2>2, <2>3, <2>5, JoinSeq
  <2> HIDE DEF F, items
  <2>7. CASE StartBatch(w, items)
    BY <2>2, <2>3, <2>4, <2>6, <2>7, StartBatchKeepsOwnership
  <2>8. CASE /\ batch' = [batch EXCEPT ![w] = items]
             /\ phase' = [phase EXCEPT ![w] = "collecting"]
             /\ UNCHANGED <<pending, open, metrics>>
    <3>1. PhaseInv'
      BY <2>2, <2>8 DEF PhaseInv, TypeOK
    <3>2. HeldBy(w)' = HeldBy(w) \cup F /\ \A v \in Workers \ {w} : HeldBy(v)' = HeldBy(v)
      BY <2>2, <2>6, <2>8 DEF HeldBy, TypeOK
    <3>3. \A v \in Workers : IsInjective(batch'[v]) /\ ToSet(batch'[v]) \cap pending'[v] = {}
      BY <2>2, <2>6, <2>8 DEF Ownership, NoDuplicateWork, TypeOK
    <3>4. Ownership'
      BY <2>2, <2>3, <2>4, <3>2, <3>3, MoveKeepsOwnership
    <3>5. QED
      BY <3>1, <3>4
  <2>9. QED
    BY <2>1, <2>7, <2>8 DEF items, front
<1>3. ASSUME NEW w \in Workers, Deadline(w) PROVE PhaseInv' /\ Ownership'
  <2>1. /\ UNCHANGED <<api, cancelled, verdict, queue, orphans>> /\ phase[w] # "executing"
        /\ StartBatch(w, batch[w]) /\ batch[w] \in Seq(Requests)
    BY <1>3 DEF Deadline, TypeOK
  <2>2. /\ IsInjective(queue') /\ ToSet(queue') = ToSet(queue) \ {}
        /\ ToSet(batch[w]) = ToSet(batch[w]) \cup {}
        /\ {} \in SUBSET Requests /\ {} \subseteq ToSet(queue)
    BY <2>1 DEF Ownership, NoDuplicateWork
  <2>3. QED
    BY <2>1, <2>2, StartBatchKeepsOwnership
<1>4. ASSUME NEW w \in Workers, NEW r \in Requests, BackendToken(w, r)
      PROVE  PhaseInv' /\ Ownership'
  <2>1. UNCHANGED <<api, cancelled, queue, batch, phase, verdict, orphans>>
    BY <1>4 DEF BackendToken
  <2>2. CASE r \in Live(pending[w])
    <3>1. UNCHANGED pending
      BY <1>4, <2>2 DEF BackendToken
    <3>2. QED
      BY <2>1, <3>1, HandlerKeepsOwnership DEF PhaseInv, Accepted
  <2>3. CASE r \notin Live(pending[w])
    <3>1. pending' = [pending EXCEPT ![w] = @ \ {r}]
      BY <1>4, <2>3 DEF BackendToken, Discard
    <3>2. \A q \in Requests : q \in pending[w] \cap {r} => cancelled[q]
      BY <2>3 DEF Live
    <3>3. QED
      BY <2>1, <3>1, <3>2, ReleaseKeepsOwnership
  <2>4. QED
    BY <2>2, <2>3
<1>5. ASSUME NEW w \in Workers, NEW r \in Requests, BackendCompleted(w, r)
      PROVE  PhaseInv' /\ Ownership'
  <2>1. /\ UNCHANGED <<api, cancelled, queue, batch, phase, orphans>>
        /\ pending' = [pending EXCEPT ![w] = @ \ {r}]
    BY <1>5 DEF BackendCompleted, Discard
  <2>v. verdict' = [q \in Requests |-> IF q \in Live(pending[w] \cap {r})
                                       THEN "success" ELSE verdict[q]]
    BY <1>5 DEF BackendCompleted, CompleteItems
  <2> DEFINE G == pending[w] \cap {r}
  <2>a. \A q \in Requests : verdict'[q] = IF q \in Live(G) THEN "success" ELSE verdict[q]
    BY <2>v
  <2>b. \A q : q \in Live(G) <=> q \in G /\ ~cancelled[q]
    BY DEF Live
  <2> HIDE DEF G
  <2>c. /\ \A q \in Requests : q \in G => cancelled[q] \/ verdict'[q] # "none"
        /\ \A q \in Requests : verdict'[q] # verdict[q] => verdict'[q] # "none" /\ q \in G
    BY <2>a, <2>b
  <2>2. \A q \in Requests : q \in pending[w] \cap {r} => cancelled[q] \/ verdict'[q] # "none"
    BY <2>c DEF G
  <2>3. \A q \in Requests : verdict'[q] # verdict[q] =>
                               verdict'[q] # "none" /\ q \in pending[w] \cap {r}
    BY <2>c DEF G
  <2>4. {r} \in SUBSET Requests
    OBVIOUS
  <2>5. QED
    BY <2>1, <2>2, <2>3, <2>4, ReleaseKeepsOwnership
<1>6. ASSUME NEW w \in Workers, BackendReturn(w) \/ BackendRaise(w)
      PROVE  PhaseInv' /\ Ownership'
  <2>1. /\ UNCHANGED <<api, cancelled, queue, batch, orphans>> /\ phase[w] = "executing"
        /\ phase' = [phase EXCEPT ![w] = "idle"]
        /\ pending' = [pending EXCEPT ![w] = {}]
        /\ \E s \in {"success", "failure"} :
             verdict' = [q \in Requests |-> IF q \in Live(pending[w]) THEN s ELSE verdict[q]]
    BY <1>6 DEF BackendReturn, BackendRaise, EndBatch, CompleteItems, FailItems
  <2>2. /\ pending' = [pending EXCEPT ![w] = @ \ pending[w]] /\ pending'[w] = {}
        /\ pending[w] \in SUBSET Requests
    BY <2>1 DEF TypeOK
  <2>3. \A q \in Requests : q \in pending[w] \cap pending[w] =>
                               cancelled[q] \/ verdict'[q] # "none"
    BY <2>1 DEF Live
  <2>4. \A q \in Requests : verdict'[q] # verdict[q] =>
                               verdict'[q] # "none" /\ q \in pending[w] \cap pending[w]
    BY <2>1 DEF Live
  <2>5. QED
    BY <2>1, <2>2, <2>3, <2>4, ReleaseKeepsOwnership
<1>7. ASSUME NEW r \in Requests,
             \/ Reject(r) \/ JsonAnswer(r) \/ JsonTimeout(r) \/ JsonCancelled(r)
             \/ StreamOpen(r) \/ StreamDropped(r) \/ StreamToken(r)
             \/ StreamTerminal(r) \/ StreamClose(r) \/ StreamDisconnect(r)
      PROVE  PhaseInv' /\ Ownership'
  <2>1. UNCHANGED <<queue, batch, pending, phase, verdict, orphans>>
    BY <1>7 DEF Reject, JsonAnswer, JsonTimeout, JsonCancelled, JsonAbort, StreamOpen,
                StreamDropped, StreamToken, StreamTerminal, StreamClose,
                StreamDisconnect, StreamFinally
  <2>2. \A q \in Requests : cancelled[q] => cancelled'[q]
    BY <1>7 DEF Reject, JsonAnswer, JsonTimeout, JsonCancelled, JsonAbort, StreamOpen,
                StreamDropped, StreamToken, StreamTerminal, StreamClose,
                StreamDisconnect, StreamFinally, CancelCompletion, TypeOK
  <2>3. Accepted' = Accepted
    BY <1>7 DEF Reject, JsonAnswer, JsonTimeout, JsonCancelled, JsonAbort, StreamOpen,
                StreamDropped, StreamToken, StreamTerminal, StreamClose,
                StreamDisconnect, StreamFinally, Accepted, NoHandler, TypeOK
  <2>4. QED
    BY <2>1, <2>2, <2>3, HandlerKeepsOwnership DEF PhaseInv
<1>8. CASE UNCHANGED vars
  BY <1>8, HandlerKeepsOwnership DEF vars, PhaseInv, Accepted
<1>9. ASSUME Stop PROVE PhaseInv' /\ Ownership'
  <2> DEFINE Held == UNION {HeldBy(w) : w \in Workers}
  <2>1. /\ UNCHANGED <<api, cancelled, queue, verdict>> /\ orphans' = orphans \cup Held
        /\ phase' = [w \in Workers |-> "idle"]
        /\ batch' = [w \in Workers |-> <<>>]
        /\ pending' = [w \in Workers |-> {}]
    BY <1>9 DEF Stop, StopTasks
  <2>2. \A w \in Workers : batch'[w] = <<>> /\ pending'[w] = {} /\ HeldBy(w)' = {}
    BY <2>1, EmptySeqMembers DEF HeldBy
  <2>3. \A r : r \in Held <=> \E w \in Workers : r \in HeldBy(w)
    OBVIOUS
  <2> HIDE DEF Held
  <2>4. Accepted' = Accepted /\ InProgress' = InProgress
    BY <2>1 DEF InProgress, Accepted
  <2>5. NoLostRequest'
    BY <2>1, <2>3, <2>4 DEF Ownership, NoLostRequest
  <2>6. NoDuplicateWork'
    <3>1. \A r \in Held : r \notin ToSet(queue)
      BY <2>3 DEF Ownership, NoDuplicateWork
    <3>2. \A r \in orphans' : r \notin ToSet(queue')
      BY <2>1, <3>1 DEF Ownership, NoDuplicateWork
    <3>3. QED
      BY <2>1, <2>2, <2>4, <3>2, EmptySeqMembers DEF Ownership, NoDuplicateWork
  <2>7. SettledAccepted'
    <3>1. \A w \in Workers : HeldBy(w) \subseteq Requests
      BY DEF HeldBy, TypeOK, ToSet
    <3>2. \A r \in Requests : r \in Held => r \in Accepted
      BY <2>3 DEF Ownership, NoDuplicateWork
    <3>3. Held \subseteq Accepted
      BY <2>3, <3>1, <3>2
    <3>4. QED
      BY <2>1, <2>4, <3>3 DEF Ownership, SettledAccepted
  <2>8. PhaseInv'
    BY <2>1, <2>2 DEF PhaseInv
  <2>9. QED
    BY <2>5, <2>6, <2>7, <2>8 DEF Ownership
<1>10. ASSUME Start PROVE PhaseInv' /\ Ownership'
  BY <1>10, HandlerKeepsOwnership DEF Start, PhaseInv, Accepted
<1>11. QED
  BY <1>1, <1>2, <1>3, <1>4, <1>5, <1>6, <1>7, <1>8, <1>9, <1>10
     DEF Next, Worker, BackendStep, Handler, Quiescent

(* The inductive invariant behind the two theorems below.                  *)
LEMMA OwnershipInvariant == Spec => [](PhaseInv /\ Ownership)
<1>1. Init => PhaseInv /\ Ownership
  BY EmptySeqMembers DEF Init, PhaseInv, Ownership, NoLostRequest, NoDuplicateWork,
                         SettledAccepted, InProgress, Accepted, NoHandler, HeldBy
<1>2. QED
  BY <1>1, TypeCorrect, OwnershipStep, PTL DEF Spec

(* No accepted request is ever lost between the queue, a batch that waits  *)
(* for its deadline and a batch under execution: until the worker settles  *)
(* it, its handler cancels it or stop() ends the worker that held it, some *)
(* worker or the queue has it, however often the workers are restarted.    *)
THEOREM NothingLost == Spec => []NoLostRequest
<1>1. Ownership => NoLostRequest
  BY DEF Ownership
<1>2. QED
  BY <1>1, OwnershipInvariant, PTL

(* No request is held twice, by any number of workers on the one queue,    *)
(* and none comes back after it has been settled, or after stop(): neither *)
(* its result nor its metrics can be reported a second time by a worker.   *)
THEOREM NothingTwice == Spec => []NoDuplicateWork
<1>1. Ownership => NoDuplicateWork
  BY DEF Ownership
<1>2. QED
  BY <1>1, OwnershipInvariant, PTL

-----------------------------------------------------------------------------
(* The response channel of a JSON request agrees with what was reported.   *)

(* The JSON handler serves JSON requests, the generator SSE requests.      *)
KindInv ==
    \A r \in Requests :
        /\ api[r] = "waiting" => r \notin Streaming
        /\ api[r] \in {"opening", "streaming", "closing"} => r \in Streaming

(* A handler step keeps KindInv; no other step touches it.                 *)
LEMMA KindStep == TypeOK /\ KindInv /\ [Next]_vars => KindInv'
<1> SUFFICES ASSUME TypeOK, KindInv, [Next]_vars PROVE KindInv'
  OBVIOUS
<1>1. ASSUME NEW r \in Requests, Handler(r) PROVE KindInv'
  <2>1. CASE Accept(r)
    BY <2>1 DEF Accept, KindInv, TypeOK
  <2>2. CASE Reject(r) \/ JsonAnswer(r) \/ JsonTimeout(r) \/ JsonCancelled(r)
    BY <2>2 DEF Reject, JsonAnswer, JsonTimeout, JsonCancelled, JsonAbort, KindInv, TypeOK
  <2>3. CASE StreamOpen(r) \/ StreamDropped(r) \/ StreamToken(r) \/ StreamTerminal(r)
    BY <2>3 DEF StreamOpen, StreamDropped, StreamToken, StreamTerminal, KindInv, TypeOK
  <2>4. CASE StreamClose(r) \/ StreamDisconnect(r)
    BY <2>4 DEF StreamClose, StreamDisconnect, StreamFinally, KindInv, TypeOK
  <2>5. QED
    BY <1>1, <2>1, <2>2, <2>3, <2>4 DEF Handler
<1>2. ASSUME NEW w \in Workers, Worker(w) \/ BackendStep(w) PROVE UNCHANGED api
  BY <1>2 DEF Worker, Collect, Deadline, BackendStep, BackendToken, BackendCompleted,
              BackendReturn, BackendRaise, EndBatch
<1>3. ASSUME Stop \/ Start PROVE UNCHANGED api
  BY <1>3 DEF Stop, StopTasks, Start
<1>4. CASE UNCHANGED api
  BY <1>4 DEF KindInv
<1>5. QED
  BY <1>1, <1>2, <1>3, <1>4 DEF Next, Quiescent, vars

(* What the future of a JSON request must hold.                            *)
Expected(v, c) == IF v = "success" THEN "result"
                  ELSE IF v = "failure" THEN "exception"
                  ELSE IF c THEN "cancelled" ELSE "pending"

(* Settling live requests that were not settled before, with one verdict.  *)
LEMMA SettleMatches ==
    ASSUME TypeOK, FutureMatchesVerdict, NEW S \in SUBSET Requests, CompleteItems(S) \/ FailItems(S),
           \A r \in S : verdict[r] = "none" /\ ~cancelled[r], UNCHANGED cancelled
    PROVE  FutureMatchesVerdict'
<1> SUFFICES ASSUME NEW r \in Requests \ Streaming
             PROVE  future'[r] = Expected(verdict'[r], cancelled'[r])
  BY DEF FutureMatchesVerdict, Expected
<1>1. future[r] = Expected(verdict[r], cancelled[r])
  BY DEF FutureMatchesVerdict, Expected, TypeOK
<1>2. CASE r \in S
  <2>1. future[r] = "pending"
    BY <1>1, <1>2 DEF Expected
  <2>2. CASE CompleteItems(S)
    BY <1>2, <2>1, <2>2 DEF CompleteItems, Expected
  <2>3. CASE FailItems(S)
    BY <1>2, <2>1, <2>3 DEF FailItems, Expected
  <2>4. QED
    BY <2>2, <2>3
<1>3. CASE r \notin S
  <2>1. future'[r] = future[r] /\ verdict'[r] = verdict[r]
    BY <1>3 DEF CompleteItems, FailItems
  <2>2. QED
    BY <1>1, <2>1
<1>4. QED
  BY <1>2, <1>3

(* Every step keeps futures and verdicts in agreement; ownership says that *)
(* what a worker may settle has not been settled.                          *)
LEMMA FutureStep ==
    TypeOK /\ KindInv /\ Ownership /\ FutureMatchesVerdict /\ [Next]_vars
      => FutureMatchesVerdict'
<1> SUFFICES ASSUME TypeOK, KindInv, Ownership, FutureMatchesVerdict, [Next]_vars
             PROVE  FutureMatchesVerdict'
  OBVIOUS
<1>u. \A w \in Workers : \A r \in pending[w] : verdict[r] = "none"
  BY DEF Ownership, NoDuplicateWork, HeldBy, TypeOK
<1>1. ASSUME NEW w \in Workers, NEW r \in Requests, BackendCompleted(w, r)
      PROVE  FutureMatchesVerdict'
  <2>1. /\ CompleteItems(Live(pending[w] \cap {r})) /\ UNCHANGED cancelled
        /\ Live(pending[w] \cap {r}) \in SUBSET Requests
        /\ \A q \in Live(pending[w] \cap {r}) : verdict[q] = "none" /\ ~cancelled[q]
    BY <1>1, <1>u DEF BackendCompleted, Live
  <2>2. QED
    BY <2>1, SettleMatches
<1>2. ASSUME NEW w \in Workers, BackendReturn(w) \/ BackendRaise(w)
      PROVE  FutureMatchesVerdict'
  <2>1. /\ CompleteItems(Live(pending[w])) \/ FailItems(Live(pending[w]))
        /\ UNCHANGED cancelled
        /\ Live(pending[w]) \in SUBSET Requests
        /\ \A q \in Live(pending[w]) : verdict[q] = "none" /\ ~cancelled[q]
    BY <1>2, <1>u DEF BackendReturn, BackendRaise, EndBatch, Live, TypeOK
  <2>2. QED
    BY <2>1, SettleMatches
<1>3. ASSUME NEW r \in Requests, JsonTimeout(r) \/ JsonCancelled(r)
      PROVE  FutureMatchesVerdict'
  <2>1. /\ future' = [future EXCEPT ![r] = IF @ = "pending" THEN "cancelled" ELSE @]
        /\ cancelled' = [cancelled EXCEPT ![r] = TRUE]
        /\ UNCHANGED verdict
    BY <1>3 DEF JsonTimeout, JsonCancelled, JsonAbort, CancelCompletion
  <2> SUFFICES ASSUME NEW q \in Requests \ Streaming
               PROVE  future'[q] = Expected(verdict'[q], cancelled'[q])
    BY DEF FutureMatchesVerdict, Expected
  <2>2. future[q] = Expected(verdict[q], cancelled[q])
    BY DEF FutureMatchesVerdict, Expected, TypeOK
  <2>3. CASE q = r
    <3>1. future'[r] = IF future[r] = "pending" THEN "cancelled" ELSE future[r]
      BY <2>1 DEF TypeOK
    <3>2. cancelled'[r] = TRUE
      BY <2>1 DEF TypeOK
    <3>3. QED
      BY <2>1, <2>2, <2>3, <3>1, <3>2 DEF Expected
  <2>4. CASE q # r
    BY <2>1, <2>2, <2>4 DEF TypeOK
  <2>5. QED
    BY <2>3, <2>4
<1>4. ASSUME NEW r \in Requests, StreamClose(r) \/ StreamDisconnect(r)
      PROVE  FutureMatchesVerdict'
  <2>1. /\ UNCHANGED <<future, verdict>> /\ r \in Streaming
        /\ cancelled' = cancelled \/ cancelled' = [cancelled EXCEPT ![r] = TRUE]
    BY <1>4 DEF StreamClose, StreamDisconnect, StreamFinally, KindInv
  <2>2. \A q \in Requests \ Streaming : cancelled'[q] = cancelled[q]
    BY <2>1 DEF TypeOK
  <2>3. QED
    BY <2>1, <2>2 DEF FutureMatchesVerdict
<1>5. CASE UNCHANGED <<future, verdict, cancelled>>
  BY <1>5 DEF FutureMatchesVerdict
<1>6. ASSUME NEW w \in Workers, NEW r \in Requests, BackendToken(w, r)
      PROVE  UNCHANGED <<future, verdict, cancelled>>
  BY <1>6 DEF BackendToken
<1>7. ASSUME NEW w \in Workers, Worker(w)
      PROVE  UNCHANGED <<future, verdict, cancelled>>
  BY <1>7 DEF Worker, Collect, Deadline
<1>8. ASSUME NEW r \in Requests,
             \/ Accept(r) \/ Reject(r) \/ JsonAnswer(r) \/ StreamOpen(r)
             \/ StreamDropped(r) \/ StreamToken(r) \/ StreamTerminal(r)
      PROVE  UNCHANGED <<future, verdict, cancelled>>
  BY <1>8 DEF Accept, Reject, JsonAnswer, StreamOpen, StreamDropped, StreamToken,
              StreamTerminal
<1>9. ASSUME Stop \/ Start PROVE UNCHANGED <<future, verdict, cancelled>>
  BY <1>9 DEF Stop, StopTasks, Start
<1>10. QED
  BY <1>1, <1>2, <1>3, <1>4, <1>5, <1>6, <1>7, <1>8, <1>9
     DEF Next, BackendStep, Handler, Quiescent, vars

(* set_result and set_exception never meet a settled future: they would    *)
(* raise InvalidStateError and end the worker task.  A JSON handler that   *)
(* resumes finds what the worker reported to the metrics.                  *)
THEOREM FuturesAgree == Spec => []FutureMatchesVerdict
<1>1. Init => KindInv /\ FutureMatchesVerdict
  BY DEF Init, KindInv, FutureMatchesVerdict
<1>2. QED
  BY <1>1, TypeCorrect, OwnershipInvariant, KindStep, FutureStep, PTL DEF Spec

-----------------------------------------------------------------------------
(* Bounds of the queue and of the batches.                                 *)

(* A batch that fits gives a worker no more than it has room for.          *)
LEMMA StartBatchFits ==
    ASSUME TypeOK, NEW w \in Workers, NEW items \in Seq(Requests), Len(items) <= MaxBatchSize,
           StartBatch(w, items), QueueAndBatchBounds
    PROVE  \A v \in Workers : Len(batch'[v]) < MaxBatchSize
                              /\ Cardinality(pending'[v]) <= MaxBatchSize
<1> DEFINE P == Live(ToSet(items))
<1>1. IsFiniteSet(ToSet(items)) /\ Cardinality(ToSet(items)) <= Len(items)
  BY MembersBound
<1>2. P \in SUBSET ToSet(items)
  BY DEF Live
<1>3. Cardinality(P) <= Cardinality(ToSet(items)) /\ IsFiniteSet(P)
  BY <1>1, <1>2, FS_Subset
<1>4. /\ Cardinality(P) \in Nat /\ Cardinality(ToSet(items)) \in Nat
      /\ Len(items) \in Nat /\ MaxBatchSize \in Nat /\ MaxBatchSize > 0
  BY <1>1, <1>3, FS_CardinalityType, RuntimeAssumption
<1>5. batch' = [batch EXCEPT ![w] = <<>>] /\ pending' = [pending EXCEPT ![w] = P]
  BY DEF StartBatch
<1> HIDE DEF P
<1>6. Cardinality(P) <= MaxBatchSize
  BY <1>1, <1>3, <1>4
<1>7. QED
  BY <1>4, <1>5, <1>6 DEF QueueAndBatchBounds, TypeOK

(* An item is discarded, or the batch ends.                                *)
LEMMA FewerPending ==
    ASSUME TypeOK, QueueAndBatchBounds, NEW w \in Workers, NEW P \in SUBSET pending[w],
           pending' = [pending EXCEPT ![w] = P], UNCHANGED <<batch, queue>>
    PROVE  QueueAndBatchBounds'
<1>1. P \in SUBSET Requests /\ pending[w] \in SUBSET Requests
  BY DEF TypeOK
<1>2. IsFiniteSet(pending[w]) /\ Cardinality(pending[w]) \in Nat /\ Cardinality(P) \in Nat
  BY <1>1, CardinalityIsNat
<1>3. Cardinality(P) <= Cardinality(pending[w])
  BY <1>2, FS_Subset
<1>4. Cardinality(P) <= MaxBatchSize
  BY <1>2, <1>3, RuntimeAssumption DEF QueueAndBatchBounds
<1>5. QED
  BY <1>4 DEF QueueAndBatchBounds, TypeOK

(* No step goes beyond the cap of the queue or the size of a batch.        *)
LEMMA BoundsStep == TypeOK /\ QueueAndBatchBounds /\ [Next]_vars => QueueAndBatchBounds'
<1> SUFFICES ASSUME TypeOK, QueueAndBatchBounds, [Next]_vars PROVE QueueAndBatchBounds'
  OBVIOUS
<1>1. ASSUME NEW r \in Requests, Accept(r) PROVE QueueAndBatchBounds'
  <2>1. queue' = Append(queue, r) /\ UNCHANGED <<batch, pending>> /\ ~QueueFull
    BY <1>1 DEF Accept
  <2>2. Len(queue') = Len(queue) + 1 /\ Len(queue) \in Nat
    BY <2>1 DEF TypeOK
  <2>3. MaxQueueSize > 0 => Len(queue') <= MaxQueueSize
    BY <2>1, <2>2, RuntimeAssumption DEF QueueFull
  <2>4. QED
    BY <2>1, <2>3 DEF QueueAndBatchBounds
<1>2. ASSUME NEW r \in Requests, Handler(r), ~Accept(r) PROVE QueueAndBatchBounds'
  <2>1. UNCHANGED <<queue, batch, pending>>
    BY <1>2 DEF Handler, Reject, JsonAnswer, JsonTimeout, JsonCancelled, JsonAbort, StreamOpen,
                StreamDropped, StreamToken, StreamTerminal, StreamClose, StreamDisconnect,
                StreamFinally
  <2>2. QED
    BY <2>1 DEF QueueAndBatchBounds
<1>3. ASSUME NEW w \in Workers, Collect(w) PROVE QueueAndBatchBounds'
  <2>1. PICK k \in 1 .. Len(queue) : \E q \in Rearranged(k) :
          LET items == batch[w] \o SubSeq(q, 1, k)
          IN  /\ Fits(items)
              /\ queue' = SubSeq(q, k + 1, Len(q))
              /\ \/ StartBatch(w, items)
                 \/ /\ Len(items) < MaxBatchSize
                    /\ batch' = [batch EXCEPT ![w] = items] /\ UNCHANGED pending
    BY <1>3 DEF Collect
  <2>2. PICK q \in Rearranged(k) :
          LET items == batch[w] \o SubSeq(q, 1, k)
          IN  /\ Fits(items)
              /\ queue' = SubSeq(q, k + 1, Len(q))
              /\ \/ StartBatch(w, items)
                 \/ /\ Len(items) < MaxBatchSize
                    /\ batch' = [batch EXCEPT ![w] = items] /\ UNCHANGED pending
    BY <2>1
  <2> DEFINE items == batch[w] \o SubSeq(q, 1, k)
             rest == SubSeq(q, k + 1, Len(q))
  <2>3. q \in Seq(Requests) /\ Len(q) = Len(queue) /\ Len(queue) \in Nat
    BY RearrangedSeq DEF TypeOK
  <2>4. SubSeq(q, 1, k) \in Seq(Requests) /\ Len(rest) = Len(queue) - k
    BY <2>3, SubSeqProperties
  <2>5. batch[w] \in Seq(Requests)
    BY DEF TypeOK
  <2>6. items \in Seq(Requests)
    BY <2>4, <2>5
  <2>7. /\ queue' = rest
        /\ \/ StartBatch(w, items)
           \/ Len(items) < MaxBatchSize /\ batch' = [batch EXCEPT ![w] = items]
              /\ UNCHANGED pending
    BY <2>2
  <2>8. Len(items) <= MaxBatchSize
    BY <2>2 DEF Fits
  <2> HIDE DEF items, rest
  <2>9. MaxQueueSize > 0 => Len(queue') <= MaxQueueSize
    BY <2>3, <2>4, <2>7, RuntimeAssumption DEF QueueAndBatchBounds
  <2>10. \A v \in Workers : Len(batch'[v]) < MaxBatchSize
                            /\ Cardinality(pending'[v]) <= MaxBatchSize
    <3>1. CASE StartBatch(w, items)
      BY <2>6, <2>8, <3>1, StartBatchFits
    <3>2. CASE Len(items) < MaxBatchSize /\ batch' = [batch EXCEPT ![w] = items]
               /\ UNCHANGED pending
      BY <3>2 DEF QueueAndBatchBounds, TypeOK
    <3>3. QED
      BY <2>7, <3>1, <3>2
  <2>11. QED
    BY <2>9, <2>10 DEF QueueAndBatchBounds
<1>4. ASSUME NEW w \in Workers, Deadline(w) PROVE QueueAndBatchBounds'
  <2>1. batch[w] \in Seq(Requests) /\ Len(batch[w]) \in Nat
    BY DEF TypeOK
  <2>2. Len(batch[w]) <= MaxBatchSize
    BY <2>1, RuntimeAssumption DEF QueueAndBatchBounds
  <2>3. StartBatch(w, batch[w]) /\ UNCHANGED queue
    BY <1>4 DEF Deadline
  <2>4. \A v \in Workers : Len(batch'[v]) < MaxBatchSize
                           /\ Cardinality(pending'[v]) <= MaxBatchSize
    BY <2>1, <2>2, <2>3, StartBatchFits
  <2>5. QED
    BY <2>3, <2>4 DEF QueueAndBatchBounds
<1>5. ASSUME NEW w \in Workers, BackendStep(w) PROVE QueueAndBatchBounds'
  <2>1. UNCHANGED <<batch, queue>>
    BY <1>5 DEF BackendStep, BackendToken, BackendCompleted, BackendReturn, BackendRaise, EndBatch
  <2>2. \E P \in SUBSET pending[w] : pending' = [pending EXCEPT ![w] = P]
    <3>1. ASSUME NEW r PROVE pending[w] \ {r} \in SUBSET pending[w]
      OBVIOUS
    <3>2. {} \in SUBSET pending[w] /\ pending[w] \in SUBSET pending[w]
      OBVIOUS
    <3>3. pending = [pending EXCEPT ![w] = pending[w]]
      BY DEF TypeOK
    <3>4. \/ \E r \in Requests : Discard(w, r)
          \/ UNCHANGED pending
          \/ pending' = [pending EXCEPT ![w] = {}]
      BY <1>5 DEF BackendStep, BackendToken, BackendCompleted, BackendReturn, BackendRaise,
                  EndBatch
    <3>5. \E P \in {pending[w] \ {r} : r \in Requests} \cup {pending[w], {}} :
            pending' = [pending EXCEPT ![w] = P]
      BY <3>3, <3>4 DEF Discard
    <3>6. QED
      BY <3>1, <3>2, <3>5
  <2>3. QED
    BY <2>1, <2>2, FewerPending
<1>6. CASE Stop
  <2>1. \A w \in Workers : batch'[w] = <<>> /\ pending'[w] = {}
    BY <1>6 DEF Stop, StopTasks
  <2>2. UNCHANGED queue
    BY <1>6 DEF Stop
  <2>e. Cardinality({}) = 0 /\ Len(<<>>) = 0
    BY FS_EmptySet
  <2>3. QED
    <3>1. \A w \in Workers : Len(batch'[w]) = 0 /\ Cardinality(pending'[w]) = 0
      BY <2>1, <2>e
    <3>2. MaxBatchSize \in Nat /\ MaxBatchSize > 0
      BY RuntimeAssumption
    <3>3. QED
      BY <2>2, <3>1, <3>2 DEF QueueAndBatchBounds
<1>7. CASE UNCHANGED <<queue, batch, pending>>
  BY <1>7 DEF QueueAndBatchBounds
<1>8. QED
  BY <1>1, <1>2, <1>3, <1>4, <1>5, <1>6, <1>7 DEF Next, Worker, Start, Quiescent, vars

(* Admission's cap bounds the queue at every moment, provided that no      *)
(* other handler runs between admit() and the put of submit(), as in       *)
(* Accept; and max_batch_size bounds every batch.                          *)
THEOREM Bounded == Spec => []QueueAndBatchBounds
<1>1. Init => QueueAndBatchBounds
  <2>1. Len(<<>>) = 0 /\ Cardinality({}) = 0
    BY FS_EmptySet
  <2>2. QED
    BY <2>1, RuntimeAssumption DEF Init, QueueAndBatchBounds
<1>2. QED
  BY <1>1, BoundsStep, TypeCorrect, PTL DEF Spec
=============================================================================
