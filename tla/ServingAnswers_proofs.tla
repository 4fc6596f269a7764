------------------------ MODULE ServingAnswers_proofs ------------------------
(***************************************************************************)
(* What the clients of the serving path and the collector get to see, for  *)
(* all requests, workers, batch sizes and backends: answers, streams,      *)
(* tokens and counters; and the contracts that the serving path keeps with *)
(* its clients and with its scheduler.  It builds on the ownership of      *)
(* requests.                                                               *)
(***************************************************************************)
EXTENDS ServingRefinement, ServingRuntime_proofs

USE DEF handlerVars, channelVars, workerVars, backendVars, managerVars

-----------------------------------------------------------------------------
(* The handlers.                                                           *)

(* An answer is given to a request that was settled and not cancelled, and *)
(* a handle is cancelled or completed by the handler as it leaves.         *)
AnswerInv ==
    \A r \in Requests :
        /\ api[r] \in NoHandler \cup {"waiting", "opening", "streaming"} =>
             ~cancelled[r] /\ ~completed[r] /\ answer[r] = "none"
        /\ api[r] = "closing" => completed[r] /\ answer[r] \in {"ok", "error"}
        /\ completed[r] => r \in Streaming /\ verdict[r] # "none"
        /\ answer[r] \in {"ok", "error"} => ~cancelled[r] /\ verdict[r] # "none"

(* What a stopped worker held was not settled, and what the backend has    *)
(* still to complete is pending or cancelled.                              *)
WorkInv ==
    /\ \A r \in orphans : verdict[r] = "none"
    /\ \A w \in Workers :
         /\ pending[w] \subseteq open[w]
         /\ \A r \in open[w] : r \in pending[w] \/ cancelled[r]

(* The stream of a request: its tokens in order, those delivered, those    *)
(* that wait, and the terminal event once there is one.                    *)
StreamOf(r) ==
    LET n == Len(tokens[r])
        d == Len(delivered[r])
        l == Len(events[r])
    IN  /\ \A i \in 1 .. n : tokens[r][i] = <<r, i>>
        /\ ~cancelled[r] => n = emitted[r]
        /\ answer[r] = "ok" => delivered[r] = tokens[r]
        /\ r \in Streaming =>
             /\ d <= n
             /\ \A i \in 1 .. d : delivered[r][i] = <<r, i>>
             /\ \A i \in 1 .. n - d : events[r][i] = TokenEvent(<<r, d + i>>)
             /\ verdict[r] = "none" \/ completed[r] => l = n - d
             /\ verdict[r] # "none" /\ ~completed[r] =>
                  l = n - d + 1 /\ events[r][l] \in {CompletedEvent, ErrorEvent}
             /\ completed[r] => d = n

StreamInv == \A r \in Requests : StreamOf(r)

-----------------------------------------------------------------------------
(* What a request's own handler does not touch.                            *)

(* A step that settles the requests S, which are pending and live.         *)
Settles(S) ==
    /\ \A r \in S : verdict[r] = "none" /\ ~cancelled[r]
    /\ \E e \in {CompletedEvent, ErrorEvent}, v \in {"success", "failure"} :
         /\ verdict' = [r \in Requests |-> IF r \in S THEN v ELSE verdict[r]]
         /\ events' = [r \in Requests |-> IF r \in S \cap Streaming
                                          THEN Append(events[r], e) ELSE events[r]]
    /\ \A r \in Requests \ S : future'[r] = future[r]
    /\ UNCHANGED <<handlerVars, tokens, emitted, cancelled, orphans>>

(* The ways in which a worker settles requests.                            *)
LEMMA WorkerSettles ==
    ASSUME TypeOK, Ownership, NEW w \in Workers,
           \/ \E r \in Requests : BackendCompleted(w, r)
           \/ BackendReturn(w) \/ BackendRaise(w)
    PROVE  \E S \in SUBSET pending[w] : Settles(S)
<1>p. \A r \in Live(pending[w]) : verdict[r] = "none" /\ ~cancelled[r]
  BY DEF Ownership, NoDuplicateWork, HeldBy, Live, TypeOK
<1>1. ASSUME NEW r \in Requests, BackendCompleted(w, r)
      PROVE  \E S \in SUBSET pending[w] : Settles(S)
  <2> DEFINE S == Live(pending[w] \cap {r})
  <2>1. S \subseteq Live(pending[w]) /\ S \subseteq pending[w]
    BY DEF Live
  <2>2. CompleteItems(S) /\ UNCHANGED <<handlerVars, tokens, emitted, cancelled, orphans>>
    BY <1>1 DEF BackendCompleted
  <2> HIDE DEF S
  <2>3. Settles(S)
    BY <1>p, <2>1, <2>2 DEF Settles, CompleteItems, Put
  <2>4. QED
    BY <2>1, <2>3
<1>2. ASSUME BackendReturn(w) \/ BackendRaise(w)
      PROVE  \E S \in SUBSET pending[w] : Settles(S)
  <2> DEFINE S == Live(pending[w])
  <2>1. S \subseteq pending[w]
    BY DEF Live
  <2>2. /\ CompleteItems(S) \/ FailItems(S)
        /\ UNCHANGED <<handlerVars, tokens, emitted, cancelled, orphans>>
    BY <1>2 DEF BackendReturn, BackendRaise, EndBatch
  <2>p. \A r \in S : verdict[r] = "none" /\ ~cancelled[r]
    BY <1>p
  <2> HIDE DEF S
  <2>3. Settles(S)
    BY <2>p, <2>2 DEF Settles, CompleteItems, FailItems, Put
  <2>4. QED
    BY <2>1, <2>3
<1>3. QED
  BY <1>1, <1>2

(* Every step settles requests, is a token, is a step of one handler, or   *)
(* leaves all of it alone.                                                 *)
Untouched == UNCHANGED <<handlerVars, events, tokens, emitted, cancelled, verdict>>

(* The kinds of steps that the proofs below distinguish.                   *)
LEMMA StepKinds ==
    ASSUME TypeOK, Ownership, [Next]_vars
    PROVE  \/ \E w \in Workers : \E S \in SUBSET pending[w] : Settles(S)
           \/ \E w \in Workers, r \in Requests : BackendToken(w, r)
           \/ \E r \in Requests : Handler(r)
           \/ Untouched
<1>1. ASSUME NEW w \in Workers, Worker(w) PROVE Untouched
  BY <1>1 DEF Worker, Collect, Deadline, Untouched
<1>2. ASSUME Stop \/ Start PROVE Untouched
  BY <1>2 DEF Stop, StopTasks, Start, Untouched
<1>3. CASE UNCHANGED vars
  BY <1>3 DEF vars, Untouched
<1>4. ASSUME NEW w \in Workers, BackendStep(w)
      PROVE  \/ \E S \in SUBSET pending[w] : Settles(S)
             \/ \E r \in Requests : BackendToken(w, r)
  BY <1>4, WorkerSettles DEF BackendStep
<1>5. QED
  BY <1>1, <1>2, <1>3, <1>4 DEF Next, Quiescent

-----------------------------------------------------------------------------
(* The first event of a stream.                                            *)

(* A token at the front is the next one to deliver; anything else at the   *)
(* front is the terminal event, and the last one.                          *)
LEMMA FrontOfStream ==
    ASSUME TypeOK, StreamInv, NEW r \in Streaming, events[r] # <<>>, ~completed[r]
    PROVE  LET n == Len(tokens[r])
               d == Len(delivered[r])
               l == Len(events[r])
           IN  /\ n \in Nat /\ d \in Nat /\ l \in Nat /\ l > 0 /\ d <= n
               /\ \A i \in 1 .. n : tokens[r][i] = <<r, i>>
               /\ \A i \in 1 .. d : delivered[r][i] = <<r, i>>
               /\ \A i \in 1 .. n - d : events[r][i] = TokenEvent(<<r, d + i>>)
               /\ Head(events[r]) = events[r][1]
               /\ Head(events[r]).type = "token" =>
                    d < n /\ Head(events[r]).token = <<r, d + 1>>
               /\ Head(events[r]).type # "token" =>
                    d = n /\ verdict[r] # "none" /\ l = 1
<1> DEFINE n == Len(tokens[r])
           d == Len(delivered[r])
           l == Len(events[r])
<1>r. r \in Requests
  BY RuntimeAssumption
<1>1. /\ \A i \in 1 .. n : tokens[r][i] = <<r, i>>
      /\ \A i \in 1 .. d : delivered[r][i] = <<r, i>>
      /\ \A i \in 1 .. n - d : events[r][i] = TokenEvent(<<r, d + i>>)
      /\ d <= n
      /\ verdict[r] = "none" => l = n - d
      /\ verdict[r] # "none" => l = n - d + 1 /\ events[r][l] \in {CompletedEvent, ErrorEvent}
  BY <1>r DEF StreamInv, StreamOf
<1>2. n \in Nat /\ d \in Nat /\ l \in Nat /\ l > 0 /\ Head(events[r]) = events[r][1]
  BY <1>r DEF TypeOK
<1>3. /\ \A t : TokenEvent(t).type = "token" /\ TokenEvent(t).token = t
      /\ CompletedEvent.type # "token" /\ ErrorEvent.type # "token"
  BY DEF TokenEvent, CompletedEvent, ErrorEvent
<1> HIDE DEF n, d, l
<1>4. CASE d < n
  <2>1. events[r][1] = TokenEvent(<<r, d + 1>>)
    BY <1>1, <1>2, <1>4
  <2>2. QED
    BY <1>1, <1>2, <1>3, <1>4, <2>1 DEF n, d, l
<1>5. CASE d = n
  <2>1. verdict[r] # "none" /\ l = 1 /\ events[r][1] \in {CompletedEvent, ErrorEvent}
    BY <1>1, <1>2, <1>5
  <2>2. QED
    BY <1>1, <1>2, <1>3, <1>5, <2>1 DEF n, d, l
<1>6. QED
  BY <1>1, <1>2, <1>4, <1>5

-----------------------------------------------------------------------------
(* AnswerInv is kept.                                                      *)
LEMMA AnswerStep ==
    TypeOK /\ KindInv /\ Ownership /\ FutureMatchesVerdict /\ StreamInv /\ AnswerInv
      /\ [Next]_vars => AnswerInv'
<1> SUFFICES ASSUME TypeOK, KindInv, Ownership, FutureMatchesVerdict, StreamInv, AnswerInv,
                    [Next]_vars
             PROVE  AnswerInv'
  OBVIOUS
<1>1. ASSUME NEW S, Settles(S) PROVE AnswerInv'
  BY <1>1 DEF Settles, AnswerInv
<1>2. ASSUME NEW w \in Workers, NEW r \in Requests, BackendToken(w, r) PROVE AnswerInv'
  BY <1>2 DEF BackendToken, AnswerInv
<1>3. CASE Untouched
  BY <1>3 DEF Untouched, AnswerInv
<1>4. ASSUME NEW r \in Requests, Accept(r) \/ Reject(r) \/ StreamOpen(r) \/ StreamDropped(r)
      PROVE  AnswerInv'
  <2>1. /\ api[r] \in {"idle", "opening"}
        /\ \E a \in HandlerLocs \ {"idle", "closing"} : api' = [api EXCEPT ![r] = a]
        /\ UNCHANGED <<answer, completed, cancelled, verdict>>
    BY <1>4 DEF Accept, Reject, StreamOpen, StreamDropped, HandlerLocs, NoHandler
  <2>2. QED
    BY <2>1 DEF AnswerInv, TypeOK, NoHandler
<1>5. ASSUME NEW r \in Requests, JsonAnswer(r) PROVE AnswerInv'
  <2>1. verdict[r] # "none" /\ ~cancelled[r] /\ ~completed[r]
    <3>1. ~cancelled[r] /\ ~completed[r] /\ r \notin Streaming
      BY <1>5 DEF JsonAnswer, AnswerInv, KindInv
    <3>2. future[r] # "pending"
      BY <1>5 DEF JsonAnswer
    <3>3. QED
      BY <3>1, <3>2 DEF FutureMatchesVerdict
  <2>2. /\ api' = [api EXCEPT ![r] = "ended"]
        /\ \E a \in {"ok", "error"} : answer' = [answer EXCEPT ![r] = a]
        /\ UNCHANGED <<completed, cancelled, verdict>>
    BY <1>5 DEF JsonAnswer
  <2>3. QED
    BY <2>1, <2>2 DEF AnswerInv, TypeOK, NoHandler
<1>6. ASSUME NEW r \in Requests, JsonTimeout(r) \/ JsonCancelled(r) PROVE AnswerInv'
  <2>1. answer[r] = "none" /\ ~completed[r]
    BY <1>6 DEF JsonTimeout, JsonCancelled, JsonAbort, AnswerInv
  <2>2. /\ api' = [api EXCEPT ![r] = "ended"]
        /\ answer' = answer \/ answer' = [answer EXCEPT ![r] = "timeout"]
        /\ cancelled' = [cancelled EXCEPT ![r] = TRUE]
        /\ UNCHANGED <<completed, verdict>>
    BY <1>6 DEF JsonTimeout, JsonCancelled, JsonAbort, CancelCompletion
  <2>3. QED
    BY <2>1, <2>2 DEF AnswerInv, TypeOK, NoHandler
<1>7. ASSUME NEW r \in Requests, StreamToken(r) PROVE AnswerInv'
  BY <1>7 DEF StreamToken, AnswerInv
<1>8. ASSUME NEW r \in Requests, StreamTerminal(r) PROVE AnswerInv'
  <2>1. r \in Streaming /\ ~cancelled[r] /\ ~completed[r]
    BY <1>8 DEF StreamTerminal, KindInv, AnswerInv
  <2>2. verdict[r] # "none"
    BY <1>8, <2>1, FrontOfStream DEF StreamTerminal
  <2>3. /\ api' = [api EXCEPT ![r] = "closing"]
        /\ \E a \in {"ok", "error"} : answer' = [answer EXCEPT ![r] = a]
        /\ completed' = [completed EXCEPT ![r] = TRUE]
        /\ UNCHANGED <<cancelled, verdict>>
    BY <1>8 DEF StreamTerminal, MarkCompleted
  <2>4. QED
    BY <2>1, <2>2, <2>3 DEF AnswerInv, TypeOK, NoHandler
<1>9. ASSUME NEW r \in Requests, StreamClose(r) \/ StreamDisconnect(r) PROVE AnswerInv'
  <2>1. /\ completed[r] \/ (~completed[r] /\ answer[r] = "none")
        /\ api' = [api EXCEPT ![r] = "ended"]
        /\ \/ UNCHANGED cancelled
           \/ ~completed[r] /\ cancelled' = [cancelled EXCEPT ![r] = TRUE]
        /\ UNCHANGED <<answer, completed, verdict>>
    BY <1>9 DEF StreamClose, StreamDisconnect, StreamFinally, AnswerInv
  <2>2. QED
    BY <2>1 DEF AnswerInv, TypeOK, NoHandler
<1>10. QED
  BY <1>1, <1>2, <1>3, <1>4, <1>5, <1>6, <1>7, <1>8, <1>9, StepKinds DEF Handler

-----------------------------------------------------------------------------
(* WorkInv is kept.                                                        *)

(* What a worker or the backend does to the requests of one batch.         *)
LEMMA WorkerKeepsWork ==
    ASSUME TypeOK, Ownership, WorkInv, NEW w \in Workers, Worker(w) \/ BackendStep(w)
    PROVE  WorkInv'
<1>o. \A r \in orphans : r \in Requests /\ verdict[r] = "none" /\ r \notin pending[w]
  BY DEF Ownership, NoDuplicateWork, HeldBy, TypeOK, WorkInv
<1>1. ASSUME NEW P \in SUBSET Requests, NEW O \in SUBSET Requests,
             P \subseteq O, \A r \in O : r \in P \/ cancelled[r],
             pending' = [pending EXCEPT ![w] = P], open' = [open EXCEPT ![w] = O],
             UNCHANGED <<cancelled, orphans>>, \A r \in orphans : verdict'[r] = "none"
      PROVE  WorkInv'
  BY <1>1 DEF WorkInv, TypeOK
<1>2. ASSUME NEW items, StartBatch(w, items), UNCHANGED <<cancelled, orphans, verdict>>,
             ToSet(items) \subseteq Requests
      PROVE  WorkInv'
  <2>1. Live(ToSet(items)) \in SUBSET Requests /\ \A r \in Live(ToSet(items)) : ~cancelled[r]
    BY <1>2 DEF Live
  <2>2. \A r \in orphans : verdict'[r] = "none"
    BY <1>2 DEF WorkInv
  <2>3. pending' = [pending EXCEPT ![w] = Live(ToSet(items))]
        /\ open' = [open EXCEPT ![w] = Live(ToSet(items))]
    BY <1>2 DEF StartBatch
  <2>4. QED
    BY <1>1, <1>2, <2>1, <2>2, <2>3
<1>3. CASE UNCHANGED <<pending, open, cancelled, orphans, verdict>>
  BY <1>3 DEF WorkInv
<1>4. CASE Collect(w)
  <2>1. PICK k \in 1 .. Len(queue) : \E q \in Rearranged(k) :
          \/ StartBatch(w, batch[w] \o SubSeq(q, 1, k))
          \/ UNCHANGED <<pending, open>>
    BY <1>4 DEF Collect
  <2>2. PICK q \in Rearranged(k) :
          \/ StartBatch(w, batch[w] \o SubSeq(q, 1, k))
          \/ UNCHANGED <<pending, open>>
    BY <2>1
  <2>3. q \in Seq(Requests) /\ Len(q) = Len(queue)
    BY RearrangedSeq DEF TypeOK
  <2>a. SubSeq(q, 1, k) \in Seq(Requests)
    BY <2>3, SubSeqProperties
  <2>b. batch[w] \in Seq(Requests)
    BY DEF TypeOK
  <2>4. batch[w] \o SubSeq(q, 1, k) \in Seq(Requests)
    BY <2>a, <2>b
  <2>5. ToSet(batch[w] \o SubSeq(q, 1, k)) \subseteq Requests
    <3>1. \A s \in Seq(Requests) : ToSet(s) \subseteq Requests
      BY DEF ToSet
    <3>2. QED
      BY <2>4, <3>1
  <2>6. UNCHANGED <<cancelled, orphans, verdict>>
    BY <1>4 DEF Collect
  <2>7. QED
    BY <1>2, <1>3, <2>2, <2>5, <2>6
<1>5. CASE Deadline(w)
  <2>1. ToSet(batch[w]) \subseteq Requests
    BY DEF TypeOK, ToSet
  <2>2. QED
    BY <1>2, <1>5, <2>1 DEF Deadline
<1>6. ASSUME NEW r \in Requests, BackendToken(w, r) PROVE WorkInv'
  <2>1. CASE r \in Live(pending[w])
    BY <1>3, <1>6, <2>1 DEF BackendToken
  <2>2. CASE r \notin Live(pending[w])
    <3>1. pending' = [pending EXCEPT ![w] = pending[w] \ {r}]
          /\ UNCHANGED <<open, cancelled, orphans, verdict>>
      BY <1>6, <2>2 DEF BackendToken, Discard
    <3>2. r \in pending[w] => cancelled[r]
      BY <2>2 DEF Live
    <3>3. QED
      BY <3>1, <3>2 DEF WorkInv, TypeOK
  <2>3. QED
    BY <2>1, <2>2
<1>7. ASSUME NEW r \in Requests, BackendCompleted(w, r) PROVE WorkInv'
  <2>1. /\ pending' = [pending EXCEPT ![w] = pending[w] \ {r}]
        /\ open' = [open EXCEPT ![w] = open[w] \ {r}]
        /\ CompleteItems(Live(pending[w] \cap {r}))
        /\ UNCHANGED <<cancelled, orphans>>
    BY <1>7 DEF BackendCompleted, Discard
  <2>2. \A q \in orphans : verdict'[q] = "none"
    BY <1>o, <2>1 DEF CompleteItems, Live
  <2>3. QED
    BY <2>1, <2>2 DEF WorkInv, TypeOK
<1>8. CASE BackendReturn(w) \/ BackendRaise(w)
  <2>1. /\ pending' = [pending EXCEPT ![w] = {}]
        /\ open' = [open EXCEPT ![w] = {}]
        /\ CompleteItems(Live(pending[w])) \/ FailItems(Live(pending[w]))
        /\ UNCHANGED <<cancelled, orphans>>
    BY <1>8 DEF BackendReturn, BackendRaise, EndBatch
  <2>2. \A q \in orphans : verdict'[q] = "none"
    BY <1>o, <2>1 DEF CompleteItems, FailItems, Live
  <2>3. QED
    BY <2>1, <2>2 DEF WorkInv, TypeOK
<1>9. QED
  BY <1>4, <1>5, <1>6, <1>7, <1>8 DEF Worker, BackendStep

(* A handler only ever cancels.                                            *)
LEMMA HandlerCancels ==
    ASSUME TypeOK, NEW r \in Requests, Handler(r)
    PROVE  /\ UNCHANGED <<pending, open, orphans, verdict>>
           /\ \A q \in Requests : cancelled[q] => cancelled'[q]
<1>1. UNCHANGED <<pending, open, orphans, verdict>>
  BY DEF Handler, Accept, Reject, JsonAnswer, JsonTimeout, JsonCancelled, JsonAbort, StreamOpen,
         StreamDropped, StreamToken, StreamTerminal, StreamClose, StreamDisconnect, StreamFinally
<1>2. cancelled' = cancelled \/ cancelled' = [cancelled EXCEPT ![r] = TRUE]
  BY DEF Handler, Accept, Reject, JsonAnswer, JsonTimeout, JsonCancelled, JsonAbort, StreamOpen,
         StreamDropped, StreamToken, StreamTerminal, StreamClose, StreamDisconnect, StreamFinally,
         CancelCompletion
<1>3. QED
  BY <1>1, <1>2 DEF TypeOK

(* No step leaves the backend with work that is neither pending nor gone.  *)
LEMMA WorkStep == TypeOK /\ Ownership /\ WorkInv /\ [Next]_vars => WorkInv'
<1> SUFFICES ASSUME TypeOK, Ownership, WorkInv, [Next]_vars PROVE WorkInv'
  OBVIOUS
<1>1. ASSUME NEW w \in Workers, Worker(w) \/ BackendStep(w) PROVE WorkInv'
  BY <1>1, WorkerKeepsWork
<1>2. ASSUME NEW r \in Requests, Handler(r) PROVE WorkInv'
  BY <1>2, HandlerCancels DEF WorkInv, TypeOK
<1>3. CASE Stop
  <2>1. /\ orphans' = orphans \cup UNION {HeldBy(w) : w \in Workers}
        /\ pending' = [w \in Workers |-> {}] /\ open' = [w \in Workers |-> {}]
        /\ UNCHANGED verdict
    BY <1>3 DEF Stop, StopTasks
  <2>2. ASSUME NEW w \in Workers, NEW r \in HeldBy(w) PROVE verdict[r] = "none"
    <3>1. r \in Requests
      BY <2>2 DEF HeldBy, TypeOK, ToSet
    <3>2. QED
      BY <2>2, <3>1 DEF Ownership, NoDuplicateWork
  <2>3. QED
    BY <2>1, <2>2 DEF WorkInv
<1>4. CASE UNCHANGED <<pending, open, orphans, verdict, cancelled>>
  BY <1>4 DEF WorkInv
<1>5. QED
  BY <1>1, <1>2, <1>3, <1>4 DEF Next, Start, Quiescent, vars

-----------------------------------------------------------------------------
(* StreamInv is kept.                                                      *)

(* A step does not touch the stream of r.                                  *)
Same(r) == UNCHANGED <<tokens[r], delivered[r], events[r], emitted[r], verdict[r],
                       cancelled[r], completed[r], answer[r]>>

(* A step that leaves the channel of a request alone keeps its content.    *)
LEMMA SameStream == ASSUME NEW r, StreamOf(r), Same(r) PROVE StreamOf(r)'
BY DEF Same, StreamOf

(* The worker appends the terminal event.                                  *)
LEMMA SettledStream ==
    ASSUME TypeOK, AnswerInv, NEW r \in Requests, StreamOf(r), NEW S, Settles(S)
    PROVE  StreamOf(r)'
<1>1. UNCHANGED <<tokens, delivered, emitted, cancelled, completed, answer>>
  BY DEF Settles
<1>2. PICK e \in {CompletedEvent, ErrorEvent} : \E v \in {"success", "failure"} :
         /\ verdict'[r] = IF r \in S THEN v ELSE verdict[r]
         /\ events'[r] = IF r \in S \cap Streaming THEN Append(events[r], e) ELSE events[r]
  BY DEF Settles
<1>3. CASE r \notin S
  BY <1>1, <1>2, <1>3, SameStream DEF Same
<1>4. CASE r \in S /\ r \notin Streaming
  BY <1>1, <1>2, <1>4 DEF StreamOf
<1>5. CASE r \in S /\ r \in Streaming
  <2> DEFINE n == Len(tokens[r])
             d == Len(delivered[r])
             l == Len(events[r])
             new == Append(events[r], e)
  <2>1. verdict[r] = "none" /\ ~completed[r] /\ verdict'[r] # "none" /\ events'[r] = new
    BY <1>2, <1>5 DEF Settles, AnswerInv
  <2>2. n \in Nat /\ d \in Nat /\ l \in Nat /\ d <= n /\ l = n - d
    BY <1>5, <2>1 DEF StreamOf, TypeOK
  <2>3. events[r] \in Seq(StreamEvent) /\ e \in StreamEvent
    BY DEF TypeOK, StreamEvent
  <2>4. Len(new) = l + 1 /\ new[l + 1] = e /\ \A i \in 1 .. l : new[i] = events[r][i]
    BY <2>3
  <2> HIDE DEF n, d, l, new
  <2>5. /\ \A i \in 1 .. n - d : new[i] = TokenEvent(<<r, d + i>>)
        /\ Len(new) = n - d + 1 /\ new[Len(new)] \in {CompletedEvent, ErrorEvent}
    BY <1>5, <2>2, <2>4 DEF StreamOf, n, d, l
  <2>6. QED
    BY <1>1, <1>5, <2>1, <2>5 DEF StreamOf, n, d
<1>6. QED
  BY <1>3, <1>4, <1>5

(* The worker appends a token, unless the client is gone.                  *)
LEMMA TokenStream ==
    ASSUME TypeOK, Ownership, AnswerInv, WorkInv, NEW w \in Workers, NEW q \in Requests,
           BackendToken(w, q), NEW r \in Requests, StreamOf(r)
    PROVE  StreamOf(r)'
<1>1. UNCHANGED <<delivered, verdict, cancelled, completed, answer>>
  BY DEF BackendToken
<1>2. emitted' = [emitted EXCEPT ![q] = emitted[q] + 1]
  BY DEF BackendToken
<1>3. CASE q \notin Live(pending[w])
  <2>1. UNCHANGED <<tokens, events>>
    BY <1>3 DEF BackendToken
  <2>2. cancelled[q]
    BY <1>3 DEF WorkInv, BackendToken, Live
  <2>3. QED
    BY <1>1, <1>2, <2>1, <2>2 DEF StreamOf, TypeOK
<1>4. CASE q \in Live(pending[w])
  <2> DEFINE t == <<q, emitted[q] + 1>>
  <2>1. /\ tokens' = [tokens EXCEPT ![q] = Append(tokens[q], t)]
        /\ events' = IF q \in Streaming
                     THEN [events EXCEPT ![q] = Append(events[q], TokenEvent(t))]
                     ELSE events
    BY <1>4 DEF BackendToken, Put
  <2>2. /\ verdict[q] = "none" /\ ~cancelled[q] /\ ~completed[q] /\ answer[q] # "ok"
        /\ q \in Requests
    BY <1>4 DEF Live, Ownership, NoDuplicateWork, HeldBy, AnswerInv
  <2>t. t \in Token /\ TokenEvent(t) \in StreamEvent
    <3>1. emitted[q] + 1 \in 1 .. MaxTokens
      BY RuntimeAssumption DEF BackendToken, TypeOK
    <3>2. QED
      BY <3>1 DEF Token, StreamEvent
  <2>3. CASE r # q
    <3>1. /\ tokens'[r] = tokens[r] /\ events'[r] = events[r] /\ emitted'[r] = emitted[r]
          /\ UNCHANGED <<delivered[r], verdict[r], cancelled[r], completed[r], answer[r]>>
      BY <1>1, <1>2, <2>1, <2>3 DEF TypeOK
    <3>2. QED
      BY <3>1, SameStream DEF Same
  <2>4. CASE r = q
    <3> DEFINE n == Len(tokens[r])
               d == Len(delivered[r])
               l == Len(events[r])
               toks == Append(tokens[r], t)
               new == Append(events[r], TokenEvent(t))
    <3>1. tokens'[r] = toks /\ emitted'[r] = emitted[r] + 1
      BY <1>2, <2>1, <2>4 DEF TypeOK
    <3>2. r \in Streaming => events'[r] = new
      BY <2>1, <2>4 DEF TypeOK
    <3>3. n \in Nat /\ d \in Nat /\ l \in Nat /\ n = emitted[r]
      BY <2>2, <2>4 DEF StreamOf, TypeOK
    <3>4. /\ Len(toks) = n + 1 /\ toks[n + 1] = t
          /\ \A i \in 1 .. n : toks[i] = tokens[r][i]
      BY <2>t DEF TypeOK
    <3>5. /\ Len(new) = l + 1 /\ new[l + 1] = TokenEvent(t)
          /\ \A i \in 1 .. l : new[i] = events[r][i]
      BY <2>t DEF TypeOK
    <3>6. t = <<r, n + 1>>
      BY <2>4, <3>3
    <3>7. /\ \A i \in 1 .. n : tokens[r][i] = <<r, i>>
          /\ r \in Streaming =>
               /\ d <= n /\ l = n - d
               /\ \A i \in 1 .. d : delivered[r][i] = <<r, i>>
               /\ \A i \in 1 .. n - d : events[r][i] = TokenEvent(<<r, d + i>>)
      BY <2>2, <2>4 DEF StreamOf
    <3>8. /\ verdict'[r] = "none" /\ ~completed'[r] /\ answer'[r] # "ok"
          /\ delivered'[r] = delivered[r]
      BY <1>1, <2>2, <2>4
    <3> HIDE DEF n, d, l, toks, new, t
    <3>9. Len(toks) = n + 1 /\ \A i \in 1 .. n + 1 : toks[i] = <<r, i>>
      <4>1. ASSUME NEW i \in 1 .. n + 1 PROVE toks[i] = <<r, i>>
        <5>1. CASE i = n + 1
          BY <3>4, <3>6, <5>1
        <5>2. CASE i \in 1 .. n
          BY <3>4, <3>7, <5>2
        <5>3. QED
          BY <3>3, <5>1, <5>2
      <4>2. QED
        BY <3>4, <4>1
    <3>10. ASSUME r \in Streaming
           PROVE  /\ d <= n + 1 /\ Len(new) = n + 1 - d
                  /\ \A i \in 1 .. n + 1 - d : new[i] = TokenEvent(<<r, d + i>>)
      <4>1. l = n - d /\ d <= n
        BY <3>7, <3>10
      <4>2. ASSUME NEW i \in 1 .. l + 1 PROVE new[i] = TokenEvent(<<r, d + i>>)
        <5>1. CASE i = l + 1
          <6>1. d + i = n + 1
            BY <3>3, <4>1, <5>1
          <6>2. QED
            BY <3>5, <3>6, <5>1, <6>1
        <5>2. CASE i \in 1 .. l
          BY <3>5, <3>7, <3>10, <4>1, <5>2
        <5>3. QED
          BY <3>3, <5>1, <5>2
      <4>3. QED
        BY <3>3, <3>5, <4>1, <4>2
    <3>11. /\ Len(tokens'[r]) = n + 1 /\ Len(delivered'[r]) = d
           /\ \A i \in 1 .. n + 1 : tokens'[r][i] = <<r, i>>
           /\ n + 1 = emitted'[r]
      BY <3>1, <3>3, <3>8, <3>9 DEF d
    <3>12. r \in Streaming =>
             /\ d <= n + 1 /\ Len(events'[r]) = n + 1 - d
             /\ \A i \in 1 .. d : delivered'[r][i] = <<r, i>>
             /\ \A i \in 1 .. n + 1 - d : events'[r][i] = TokenEvent(<<r, d + i>>)
      BY <3>2, <3>7, <3>8, <3>10
    <3>v. verdict'[r] = "none" /\ completed'[r] = FALSE /\ answer'[r] # "ok"
      BY <1>1, <2>2, <2>4 DEF TypeOK
    <3>13. CASE r \in Streaming
      <4>1. /\ Len(tokens'[r]) - Len(delivered'[r]) = n + 1 - d
            /\ Len(delivered'[r]) = d /\ Len(tokens'[r]) = n + 1
        BY <3>3, <3>11
      <4> HIDE DEF d
      <4>2. QED
        BY <3>v, <3>11, <3>12, <3>13, <4>1 DEF StreamOf
    <3>14. CASE r \notin Streaming
      BY <3>v, <3>11, <3>14 DEF StreamOf
    <3>15. QED
      BY <3>13, <3>14
  <2>5. QED
    BY <2>3, <2>4
<1>5. QED
  BY <1>3, <1>4

(* The client reads the front of its stream.                               *)
LEMMA ReadStream ==
    ASSUME TypeOK, KindInv, AnswerInv, StreamInv, NEW r \in Requests,
           StreamToken(r) \/ StreamTerminal(r)
    PROVE  StreamOf(r)'
<1> DEFINE n == Len(tokens[r])
           d == Len(delivered[r])
           l == Len(events[r])
           rest == Tail(events[r])
<1>1. /\ r \in Streaming /\ events[r] # <<>> /\ api[r] = "streaming"
      /\ UNCHANGED <<tokens, emitted, verdict, cancelled>>
      /\ events' = [events EXCEPT ![r] = rest]
  BY DEF StreamToken, StreamTerminal, KindInv
<1>2. ~completed[r] /\ answer[r] = "none"
  BY <1>1 DEF AnswerInv
<1>3. /\ n \in Nat /\ d \in Nat /\ l \in Nat /\ l > 0 /\ d <= n
      /\ \A i \in 1 .. n : tokens[r][i] = <<r, i>>
      /\ \A i \in 1 .. d : delivered[r][i] = <<r, i>>
      /\ \A i \in 1 .. n - d : events[r][i] = TokenEvent(<<r, d + i>>)
      /\ Head(events[r]).type = "token" =>
           d < n /\ Head(events[r]).token = <<r, d + 1>>
      /\ Head(events[r]).type # "token" =>
           d = n /\ verdict[r] # "none" /\ l = 1
  BY <1>1, <1>2, FrontOfStream
<1>4. /\ verdict[r] = "none" => l = n - d
      /\ verdict[r] # "none" => l = n - d + 1 /\ events[r][l] \in {CompletedEvent, ErrorEvent}
      /\ ~cancelled[r] => n = emitted[r]
  BY <1>1, <1>2 DEF StreamInv, StreamOf
<1>5. Len(rest) = l - 1 /\ (\A i \in 1 .. l - 1 : rest[i] = events[r][i + 1])
      /\ events'[r] = rest
  BY <1>1 DEF TypeOK
<1>6. UNCHANGED <<tokens[r], emitted[r], verdict[r], cancelled[r]>>
  BY <1>1
<1>7. CASE StreamToken(r)
  <2> DEFINE t == Head(events[r]).token
             more == Append(delivered[r], t)
  <2>1. delivered'[r] = more /\ ~completed'[r] /\ answer'[r] = "none"
    BY <1>2, <1>7 DEF StreamToken, TypeOK
  <2>2. d < n /\ t = <<r, d + 1>>
    BY <1>3, <1>7 DEF StreamToken
  <2>3. Len(more) = d + 1 /\ more[d + 1] = t /\ \A i \in 1 .. d : more[i] = delivered[r][i]
    BY DEF TypeOK
  <2> HIDE DEF n, d, l, rest, t, more
  <2>4. \A i \in 1 .. d + 1 : more[i] = <<r, i>>
    BY <1>3, <2>2, <2>3
  <2>5. ASSUME NEW i \in 1 .. n - (d + 1) PROVE rest[i] = TokenEvent(<<r, (d + 1) + i>>)
    <3>1. i + 1 \in 1 .. n - d /\ i \in 1 .. l - 1 /\ d + (i + 1) = (d + 1) + i
      BY <1>3, <1>4, <2>2
    <3>2. QED
      BY <1>3, <1>5, <3>1
  <2>6. /\ verdict[r] = "none" => Len(rest) = n - (d + 1)
        /\ verdict[r] # "none" => /\ Len(rest) = n - (d + 1) + 1
                                  /\ rest[Len(rest)] \in {CompletedEvent, ErrorEvent}
    <3>1. ASSUME verdict[r] # "none"
          PROVE  l - 1 \in 1 .. l - 1 /\ (l - 1) + 1 = l
      BY <1>3, <1>4, <2>2, <3>1
    <3>2. QED
      BY <1>3, <1>4, <1>5, <2>2, <3>1
  <2>7. d + 1 <= n
    BY <1>3, <2>2
  <2>8. QED
    BY <1>1, <1>3, <1>4, <1>5, <1>6, <2>1, <2>3, <2>4, <2>5, <2>6, <2>7
       DEF StreamOf, n
<1>8. CASE StreamTerminal(r)
  <2>1. completed'[r] /\ UNCHANGED delivered[r]
    BY <1>8 DEF StreamTerminal, MarkCompleted, TypeOK
  <2>2. d = n /\ l = 1 /\ verdict[r] # "none"
    BY <1>3, <1>8 DEF StreamTerminal
  <2>s. delivered[r] \in Seq(Token) /\ tokens[r] \in Seq(Token)
    BY DEF TypeOK
  <2>3. delivered[r] = tokens[r]
    BY <1>3, <2>2, <2>s, SeqEqual
  <2> HIDE DEF n, d, l, rest
  <2>4. Len(rest) = 0 /\ n - d = 0
    BY <1>3, <1>5, <2>2
  <2>5. QED
    BY <1>1, <1>3, <1>4, <1>5, <1>6, <2>1, <2>2, <2>3, <2>4 DEF StreamOf, n, d
<1>9. QED
  BY <1>7, <1>8

(* Every step of a handler keeps the streams.                              *)
LEMMA HandlerStreams ==
    ASSUME TypeOK, KindInv, AnswerInv, StreamInv, NEW q \in Requests, Handler(q),
           NEW r \in Requests
    PROVE  StreamOf(r)'
<1>s. StreamOf(r)
  BY DEF StreamInv
<1>1. CASE Accept(q) \/ Reject(q) \/ StreamOpen(q) \/ StreamDropped(q)
  <2>1. Same(r)
    BY <1>1 DEF Accept, Reject, StreamOpen, StreamDropped, Same
  <2>2. QED
    BY <1>s, <2>1, SameStream
<1>2. CASE JsonAnswer(q)
  <2>1. q \notin Streaming /\ delivered' \in [Requests -> Seq(Token)]
    BY <1>2 DEF JsonAnswer, KindInv, TypeOK
  <2>2. UNCHANGED <<tokens, events, emitted, verdict, cancelled, completed>>
    BY <1>2 DEF JsonAnswer
  <2>3. CASE r # q
    <3>1. UNCHANGED <<delivered[r], answer[r]>>
      BY <1>2, <2>3 DEF JsonAnswer, TypeOK
    <3>2. QED
      BY <1>s, <2>2, <3>1, SameStream DEF Same
  <2>4. CASE r = q
    <3>1. answer'[r] = "ok" => delivered'[r] = tokens[r]
      BY <1>2, <2>4 DEF JsonAnswer, TypeOK
    <3>2. QED
      BY <1>s, <2>1, <2>2, <2>4, <3>1 DEF StreamOf
  <2>5. QED
    BY <2>3, <2>4
<1>3. CASE \/ JsonTimeout(q) \/ JsonCancelled(q)
           \/ StreamClose(q) \/ StreamDisconnect(q)
  <2>1. UNCHANGED <<tokens, delivered, events, emitted, verdict, completed>>
    BY <1>3 DEF JsonTimeout, JsonCancelled, JsonAbort, StreamClose, StreamDisconnect,
                StreamFinally
  <2>2. cancelled[r] => cancelled'[r]
    BY <1>3, HandlerCancels
  <2>3. answer' = answer \/ answer' = [answer EXCEPT ![q] = "timeout"]
    BY <1>3 DEF JsonTimeout, JsonCancelled, JsonAbort, StreamClose, StreamDisconnect,
                StreamFinally
  <2>4. answer'[r] = "ok" => answer[r] = "ok"
    BY <2>3 DEF TypeOK
  <2>5. QED
    BY <1>s, <2>1, <2>2, <2>4 DEF StreamOf
<1>4. CASE StreamToken(q) \/ StreamTerminal(q)
  <2>1. CASE r = q
    BY <1>4, <2>1, ReadStream
  <2>2. CASE r # q
    <3>1. Same(r)
      BY <1>4, <2>2 DEF StreamToken, StreamTerminal, MarkCompleted, Same, TypeOK
    <3>2. QED
      BY <1>s, <3>1, SameStream
  <2>3. QED
    BY <2>1, <2>2
<1>5. QED
  BY <1>1, <1>2, <1>3, <1>4 DEF Handler

(* Every step keeps the content of every channel.                          *)
LEMMA StreamStep ==
    TypeOK /\ KindInv /\ Ownership /\ AnswerInv /\ WorkInv /\ StreamInv /\ [Next]_vars
      => StreamInv'
<1> SUFFICES ASSUME TypeOK, KindInv, Ownership, AnswerInv, WorkInv, StreamInv, [Next]_vars,
                    NEW r \in Requests
             PROVE  StreamOf(r)'
  BY DEF StreamInv
<1>s. StreamOf(r)
  BY DEF StreamInv
<1>1. ASSUME NEW S, Settles(S) PROVE StreamOf(r)'
  BY <1>s, <1>1, SettledStream
<1>2. ASSUME NEW w \in Workers, NEW q \in Requests, BackendToken(w, q) PROVE StreamOf(r)'
  BY <1>s, <1>2, TokenStream
<1>3. ASSUME NEW q \in Requests, Handler(q) PROVE StreamOf(r)'
  BY <1>3, HandlerStreams
<1>4. CASE Untouched
  BY <1>s, <1>4, SameStream DEF Untouched, Same
<1>5. QED
  BY <1>1, <1>2, <1>3, <1>4, StepKinds

-----------------------------------------------------------------------------
(* All of it holds of every behaviour.                                     *)

(* The invariants on handlers, work and channels in every state.           *)
LEMMA AnswersInvariant == Spec => [](KindInv /\ AnswerInv /\ WorkInv /\ StreamInv)
<1>1. Init => KindInv /\ AnswerInv /\ WorkInv /\ StreamInv
  BY DEF Init, KindInv, AnswerInv, WorkInv, StreamInv, StreamOf, NoHandler
<1>2. QED
  BY <1>1, TypeCorrect, OwnershipInvariant, FuturesAgree, KindStep, AnswerStep, WorkStep,
     StreamStep, PTL DEF Spec

(* An SSE stream carries one terminal event, put when the worker settles   *)
(* the request and last: no client of streaming.py waits after the end, or *)
(* is sent a token after [DONE].                                           *)
THEOREM StreamsEndOnce == Spec => []OneTerminalEvent
<1>1. TypeOK /\ AnswerInv /\ StreamInv => OneTerminalEvent
  <2> SUFFICES ASSUME TypeOK, AnswerInv, StreamInv, NEW r \in Streaming
               PROVE  LET terminals == {i \in DOMAIN events[r] : events[r][i].type # "token"}
                      IN  /\ verdict[r] = "none" \/ completed[r] => terminals = {}
                          /\ verdict[r] # "none" /\ ~completed[r] =>
                               terminals = {Len(events[r])}
                          /\ completed[r] => verdict[r] # "none" /\ events[r] = <<>>
    BY DEF OneTerminalEvent
  <2> DEFINE n == Len(tokens[r])
             d == Len(delivered[r])
             l == Len(events[r])
  <2>1. r \in Requests /\ StreamOf(r)
    BY RuntimeAssumption DEF StreamInv
  <2>2. n \in Nat /\ d \in Nat /\ l \in Nat /\ DOMAIN events[r] = 1 .. l
    BY <2>1 DEF TypeOK
  <2>3. /\ \A t : TokenEvent(t).type = "token"
        /\ CompletedEvent.type # "token" /\ ErrorEvent.type # "token"
    BY DEF TokenEvent, CompletedEvent, ErrorEvent
  <2>4. \A i \in 1 .. n - d : events[r][i].type = "token"
    BY <2>1, <2>3 DEF StreamOf
  <2>5. CASE verdict[r] = "none" \/ completed[r]
    <3>1. l = n - d /\ (completed[r] => d = n /\ verdict[r] # "none")
      BY <2>1, <2>5 DEF StreamOf, AnswerInv
    <3>2. completed[r] => events[r] = <<>>
      BY <2>1, <2>2, <3>1 DEF TypeOK
    <3> HIDE DEF n, d, l
    <3>3. QED
      BY <2>2, <2>4, <2>5, <3>1, <3>2
  <2>6. CASE verdict[r] # "none" /\ ~completed[r]
    <3>1. d <= n /\ l = n - d + 1 /\ events[r][l].type # "token"
      BY <2>1, <2>3, <2>6 DEF StreamOf
    <3> HIDE DEF n, d
    <3>2. QED
      BY <2>2, <2>4, <2>6, <3>1
  <2>7. QED
    BY <2>5, <2>6
<1>2. QED
  BY <1>1, TypeCorrect, AnswersInvariant, PTL

(* No token is lost, duplicated, reordered or sent to another client, and  *)
(* a response that ends well carries all the backend has generated for it. *)
THEOREM TokensReachTheirClient == Spec => []TokensIntact
<1>1. TypeOK /\ AnswerInv /\ StreamInv => TokensIntact
  <2> SUFFICES ASSUME TypeOK, AnswerInv, StreamInv, NEW r \in Requests
               PROVE  LET n == Len(tokens[r])
                          d == Len(delivered[r])
                      IN  /\ tokens[r] = [i \in 1 .. n |-> <<r, i>>]
                          /\ ~cancelled[r] => n = emitted[r]
                          /\ r \in Streaming =>
                               /\ d <= n /\ delivered[r] = SubSeq(tokens[r], 1, d)
                               /\ {i \in DOMAIN events[r] : events[r][i].type = "token"}
                                    = 1 .. n - d
                               /\ \A i \in 1 .. n - d : events[r][i].token = tokens[r][d + i]
                          /\ answer[r] = "ok" => delivered[r] = tokens[r] /\ n = emitted[r]
    BY DEF TokensIntact
  <2> DEFINE n == Len(tokens[r])
             d == Len(delivered[r])
             l == Len(events[r])
  <2>1. StreamOf(r)
    BY DEF StreamInv
  <2>2. /\ n \in Nat /\ d \in Nat /\ l \in Nat /\ DOMAIN events[r] = 1 .. l
        /\ tokens[r] \in Seq(Token) /\ delivered[r] \in Seq(Token)
        /\ DOMAIN tokens[r] = 1 .. n
    BY DEF TypeOK
  <2>3. tokens[r] = [i \in 1 .. n |-> <<r, i>>]
    <3>1. \A i \in 1 .. n : tokens[r][i] = <<r, i>>
      BY <2>1 DEF StreamOf
    <3>2. tokens[r] = [i \in 1 .. n |-> tokens[r][i]]
      BY <2>2
    <3> HIDE DEF n
    <3>3. QED
      BY <3>1, <3>2
  <2>4. /\ ~cancelled[r] => n = emitted[r]
        /\ answer[r] = "ok" => delivered[r] = tokens[r] /\ n = emitted[r]
    BY <2>1 DEF StreamOf, AnswerInv
  <2>5. ASSUME r \in Streaming
        PROVE  /\ d <= n /\ delivered[r] = SubSeq(tokens[r], 1, d)
               /\ {i \in DOMAIN events[r] : events[r][i].type = "token"} = 1 .. n - d
               /\ \A i \in 1 .. n - d : events[r][i].token = tokens[r][d + i]
    <3>1. /\ d <= n
          /\ \A i \in 1 .. n : tokens[r][i] = <<r, i>>
          /\ \A i \in 1 .. d : delivered[r][i] = <<r, i>>
          /\ \A i \in 1 .. n - d : events[r][i] = TokenEvent(<<r, d + i>>)
          /\ verdict[r] = "none" \/ completed[r] => l = n - d
          /\ verdict[r] # "none" /\ ~completed[r] =>
                  l = n - d + 1 /\ events[r][l] \in {CompletedEvent, ErrorEvent}
      BY <2>1, <2>5 DEF StreamOf
    <3>2. /\ \A t : TokenEvent(t).type = "token" /\ TokenEvent(t).token = t
          /\ CompletedEvent.type # "token" /\ ErrorEvent.type # "token"
      BY DEF TokenEvent, CompletedEvent, ErrorEvent
    <3>3. delivered[r] = SubSeq(tokens[r], 1, d)
      <4> DEFINE sub == SubSeq(tokens[r], 1, d)
      <4>1. sub \in Seq(Token) /\ Len(sub) = d /\ \A i \in 1 .. d : sub[i] = tokens[r][i]
        BY <2>2, <3>1, SubSeqProperties
      <4> HIDE DEF sub
      <4>i. 1 .. d \subseteq 1 .. n
        BY <2>2, <3>1
      <4>2. ASSUME NEW i \in 1 .. d PROVE delivered[r][i] = sub[i]
        <5> HIDE DEF d, n
        <5>1. i \in 1 .. n
          BY <4>i
        <5>2. delivered[r][i] = <<r, i>> /\ tokens[r][i] = <<r, i>> /\ sub[i] = tokens[r][i]
          BY <3>1, <4>1, <5>1
        <5>3. QED
          BY <5>2
      <4>c. Len(delivered[r]) = Len(sub) /\ delivered[r] \in Seq(Token)
        BY <2>2, <4>1
      <4>e. \A i \in 1 .. Len(delivered[r]) : delivered[r][i] = sub[i]
        BY <4>2
      <4> HIDE DEF d
      <4>3. delivered[r] = sub
        BY <4>1, <4>c, <4>e, SeqEqual
      <4>4. QED
        BY <4>3 DEF sub
    <3> HIDE DEF n, d, l
    <3>4. \A i \in 1 .. n - d : i \in 1 .. l /\ d + i \in 1 .. n
      BY <2>2, <3>1
    <3>5. \A i \in 1 .. l : i \notin 1 .. n - d => events[r][i].type # "token"
      BY <2>2, <3>1, <3>2
    <3>6. \A i \in 1 .. n - d : events[r][i].type = "token"
      BY <3>1, <3>2
    <3>7. {i \in DOMAIN events[r] : events[r][i].type = "token"} = 1 .. n - d
      BY <2>2, <3>4, <3>5, <3>6
    <3>8. \A i \in 1 .. n - d : events[r][i].token = tokens[r][d + i]
      BY <3>1, <3>2, <3>4
    <3>9. QED
      BY <3>1, <3>3, <3>7, <3>8
  <2>6. QED
    BY <2>3, <2>4, <2>5
<1>2. QED
  BY <1>1, TypeCorrect, AnswersInvariant, PTL

-----------------------------------------------------------------------------
(* What is cancelled, and what a stopped worker held.                      *)

(* A step of a handler changes the future, the response and the stream of  *)
(* its own request only, and only while that is not cancelled.             *)
LEMMA HandlerMindsItsOwn ==
    ASSUME TypeOK, AnswerInv, NEW q \in Requests, Handler(q), NEW r \in Requests,
           cancelled[r] \/ r # q
    PROVE  UNCHANGED <<future[r], delivered[r], answer[r], events[r]>>
<1>1. CASE r # q
  BY <1>1 DEF Handler, Accept, Reject, JsonAnswer, JsonTimeout, JsonCancelled, JsonAbort,
              CancelCompletion, StreamOpen, StreamDropped, StreamToken, StreamTerminal,
              StreamClose, StreamDisconnect, StreamFinally, TypeOK
<1>2. CASE r = q /\ cancelled[r]
  <2>1. api[q] \notin NoHandler \cup {"waiting", "opening", "streaming"}
    BY <1>2 DEF AnswerInv
  <2>2. StreamClose(q)
    BY <2>1 DEF Handler, Accept, Reject, JsonAnswer, JsonTimeout, JsonCancelled, JsonAbort,
                StreamOpen, StreamDropped, StreamToken, StreamTerminal, StreamDisconnect,
                NoHandler
  <2>3. QED
    BY <2>2 DEF StreamClose, StreamFinally
<1>3. QED
  BY <1>1, <1>2

(* No handler touches what the worker keeps.                               *)
LEMMA HandlerLeavesWork ==
    ASSUME NEW q \in Requests, Handler(q)
    PROVE  UNCHANGED <<tokens, verdict>>
BY DEF Handler, Accept, Reject, JsonAnswer, JsonTimeout, JsonCancelled, JsonAbort, StreamOpen,
       StreamDropped, StreamToken, StreamTerminal, StreamClose, StreamDisconnect, StreamFinally

(* Worker, backend, start and stop leave a request alone that is cancelled *)
(* or that no worker holds.                                                *)
LEMMA OthersLeaveAlone ==
    ASSUME TypeOK, Ownership, AnswerInv, WorkInv, [Next]_vars, \A q \in Requests : ~Handler(q),
           NEW r \in Requests, cancelled[r] \/ \A w \in Workers : r \notin pending[w]
    PROVE  UNCHANGED <<tokens[r], future[r], verdict[r], delivered[r], answer[r], events[r]>>
<1>1. ASSUME NEW w \in Workers, NEW S \in SUBSET pending[w], Settles(S)
      PROVE  UNCHANGED <<tokens[r], future[r], verdict[r], delivered[r], answer[r], events[r]>>
  <2>1. r \notin S
    BY <1>1 DEF Settles
  <2>2. QED
    BY <1>1, <2>1 DEF Settles
<1>2. ASSUME NEW w \in Workers, NEW q \in Requests, BackendToken(w, q)
      PROVE  UNCHANGED <<tokens[r], future[r], verdict[r], delivered[r], answer[r], events[r]>>
  <2>1. CASE q \in Live(pending[w])
    <3>1. r # q
      BY <2>1 DEF Live
    <3>2. QED
      BY <1>2, <2>1, <3>1 DEF BackendToken, TypeOK
  <2>2. CASE q \notin Live(pending[w])
    BY <1>2, <2>2 DEF BackendToken
  <2>3. QED
    BY <2>1, <2>2
<1>3. CASE Stop \/ Start \/ (\E w \in Workers : Worker(w)) \/ UNCHANGED vars
  BY <1>3 DEF Stop, StopTasks, Start, Worker, Collect, Deadline, vars
<1>4. ASSUME NEW w \in Workers, BackendStep(w)
      PROVE  UNCHANGED <<tokens[r], future[r], verdict[r], delivered[r], answer[r], events[r]>>
  BY <1>1, <1>2, <1>4, WorkerSettles DEF BackendStep
<1>5. QED
  BY <1>3, <1>4 DEF Next, Quiescent

(* Nothing more reaches a request once its handle is cancelled, not even   *)
(* an entry in the metrics: its worker drops it at the next event.         *)
THEOREM CancelledStaysCancelled == Spec => CancelledIsLeftAlone
<1>1. TypeOK /\ Ownership /\ AnswerInv /\ WorkInv /\ [Next]_vars =>
        [\A r \in Requests : cancelled[r] =>
            /\ UNCHANGED <<tokens[r], future[r], verdict[r], delivered[r], answer[r]>>
            /\ Len(events'[r]) <= Len(events[r])]_vars
  <2> SUFFICES ASSUME TypeOK, Ownership, AnswerInv, WorkInv, [Next]_vars,
                      NEW r \in Requests, cancelled[r]
               PROVE  /\ UNCHANGED <<tokens[r], future[r], verdict[r], delivered[r], answer[r]>>
                      /\ Len(events'[r]) <= Len(events[r])
    OBVIOUS
  <2>1. UNCHANGED <<tokens[r], future[r], verdict[r], delivered[r], answer[r], events[r]>>
    <3>1. CASE \E q \in Requests : Handler(q)
      BY <3>1, HandlerMindsItsOwn, HandlerLeavesWork
    <3>2. CASE \A q \in Requests : ~Handler(q)
      BY <3>2, OthersLeaveAlone
    <3>3. QED
      BY <3>1, <3>2
  <2>2. Len(events[r]) \in Nat
    BY DEF TypeOK
  <2>3. QED
    BY <2>1, <2>2
<1>2. QED
  BY <1>1, TypeCorrect, OwnershipInvariant, AnswersInvariant, PTL DEF Spec, CancelledIsLeftAlone

(* What stop() takes from a worker is never settled, by that worker or by  *)
(* one that is started later: its client waits for its own handler.        *)
THEOREM StoppedIsAbandoned == Spec => OrphansAreAbandoned
<1>1. TypeOK /\ Ownership /\ AnswerInv /\ WorkInv /\ AnswerInv' /\ WorkInv' /\ TypeOK'
        /\ FutureMatchesVerdict /\ KindInv /\ [Next]_vars =>
        [\A r \in orphans :
            /\ UNCHANGED <<tokens[r], verdict[r]>>
            /\ future'[r] # future[r] => future'[r] = "cancelled"
            /\ answer'[r] \notin {"ok", "error"}]_vars
  <2> SUFFICES ASSUME TypeOK, Ownership, AnswerInv, WorkInv, AnswerInv', WorkInv', [Next]_vars,
                      FutureMatchesVerdict, KindInv, NEW r \in orphans
               PROVE  /\ UNCHANGED <<tokens[r], verdict[r]>>
                      /\ future'[r] # future[r] => future'[r] = "cancelled"
                      /\ answer'[r] \notin {"ok", "error"}
    OBVIOUS
  <2>1. /\ r \in Requests /\ verdict[r] = "none"
        /\ \A w \in Workers : r \notin pending[w]
    BY DEF TypeOK, WorkInv, Ownership, NoDuplicateWork, HeldBy
  <2>2. UNCHANGED <<tokens[r], verdict[r]>> /\ (future'[r] # future[r] => future'[r] = "cancelled")
    <3>1. ASSUME NEW q \in Requests, Handler(q)
          PROVE  /\ UNCHANGED <<tokens[r], verdict[r]>>
                 /\ future'[r] # future[r] => future'[r] = "cancelled"
      <4>1. UNCHANGED <<tokens, verdict>>
        BY <3>1, HandlerLeavesWork
      <4>2. \/ UNCHANGED future
            \/ future' = [future EXCEPT ![q] = IF @ = "pending" THEN "cancelled" ELSE @]
        BY <3>1 DEF Handler, Accept, Reject, JsonAnswer, JsonTimeout, JsonCancelled, JsonAbort,
                    CancelCompletion, StreamOpen, StreamDropped, StreamToken, StreamTerminal,
                    StreamClose, StreamDisconnect, StreamFinally
      <4>3. QED
        BY <2>1, <4>1, <4>2 DEF TypeOK
    <3>2. CASE \A q \in Requests : ~Handler(q)
      BY <2>1, <3>2, OthersLeaveAlone
    <3>3. QED
      BY <3>1, <3>2
  <2>3. answer'[r] \notin {"ok", "error"}
    BY <2>1, <2>2 DEF AnswerInv
  <2>4. QED
    BY <2>2, <2>3
<1>2. QED
  BY <1>1, TypeCorrect, OwnershipInvariant, FuturesAgree, AnswersInvariant, PTL
     DEF Spec, OrphansAreAbandoned

(* What was settled stays as it was.                                       *)
LEMMA SettledStays ==
    ASSUME TypeOK, Ownership, [Next]_vars, NEW r \in Requests, verdict[r] # "none"
    PROVE  UNCHANGED <<verdict[r], tokens[r]>>
<1>1. \A w \in Workers : r \notin pending[w]
  BY DEF Ownership, NoDuplicateWork, HeldBy
<1>2. ASSUME NEW w \in Workers, NEW S \in SUBSET pending[w], Settles(S)
      PROVE  UNCHANGED <<verdict[r], tokens[r]>>
  BY <1>1, <1>2 DEF Settles
<1>3. ASSUME NEW w \in Workers, NEW q \in Requests, BackendToken(w, q)
      PROVE  UNCHANGED <<verdict[r], tokens[r]>>
  <2>1. CASE q \in Live(pending[w])
    <3>1. q # r
      BY <1>1, <2>1 DEF Live
    <3>2. QED
      BY <1>3, <2>1, <3>1 DEF BackendToken, TypeOK
  <2>2. CASE q \notin Live(pending[w])
    BY <1>3, <2>2 DEF BackendToken
  <2>3. QED
    BY <2>1, <2>2
<1>4. ASSUME NEW q \in Requests, Handler(q) PROVE UNCHANGED <<verdict[r], tokens[r]>>
  BY <1>4, HandlerLeavesWork
<1>5. CASE Untouched
  BY <1>5 DEF Untouched
<1>6. QED
  BY <1>2, <1>3, <1>4, <1>5, StepKinds

-----------------------------------------------------------------------------
(* The counters.                                                           *)

(* The requests counted both as settled and as cancelled.                  *)
CountedTwice == (Succeeded \cup Failed) \cap Aborted

(* What a step does to the sets that the counters count.                   *)
Admits(r) ==
    /\ r \notin Accepted /\ Accepted' = Accepted \cup {r}
    /\ r \notin InProgress /\ InProgress' = InProgress \cup {r}
    /\ UNCHANGED <<Succeeded, Failed, Aborted, CountedTwice>>
    /\ metrics' = RecordRequest(metrics)

Succeeds(S) ==
    /\ S \cap Succeeded = {} /\ Succeeded' = Succeeded \cup S
    /\ S \subseteq InProgress /\ InProgress' = InProgress \ S
    /\ UNCHANGED <<Accepted, Failed, Aborted, CountedTwice>>
    /\ metrics' = RecordSuccess(metrics, Cardinality(S))

Fails(S) ==
    /\ S \cap Failed = {} /\ Failed' = Failed \cup S
    /\ S \subseteq InProgress /\ InProgress' = InProgress \ S
    /\ UNCHANGED <<Accepted, Succeeded, Aborted, CountedTwice>>
    /\ metrics' = RecordFailure(metrics, Cardinality(S))

Aborts(r) ==
    /\ r \notin Aborted /\ Aborted' = Aborted \cup {r}
    /\ \/ r \in InProgress /\ InProgress' = InProgress \ {r} /\ UNCHANGED CountedTwice
       \/ /\ UNCHANGED InProgress
          /\ r \notin CountedTwice /\ CountedTwice' = CountedTwice \cup {r}
    /\ UNCHANGED <<Accepted, Succeeded, Failed>>
    /\ metrics' = RecordFailure(metrics, 1)

CountsNothing ==
    /\ UNCHANGED <<Accepted, Succeeded, Failed, Aborted, InProgress, CountedTwice>>
    /\ UNCHANGED <<metrics.request_count, metrics.completed_count, metrics.failed_count,
                   metrics.active_requests>>

(* The sets have natural numbers of members.                               *)
LEMMA CountedSets ==
    ASSUME NEW S \in {Accepted, Succeeded, Failed, Aborted, InProgress, CountedTwice}
    PROVE  S \in SUBSET Requests /\ IsFiniteSet(S) /\ Cardinality(S) \in Nat
<1>1. S \in SUBSET Requests
  BY DEF Accepted, Succeeded, Failed, Aborted, InProgress, CountedTwice
<1>2. QED
  BY <1>1, CardinalityIsNat

(* The counts agree with the counters, whichever of the four it is.        *)
LEMMA CountsKept ==
    ASSUME TypeOK, CountsExact, GaugeBounds,
           \/ \E r \in Requests : Admits(r) \/ Aborts(r)
           \/ \E S \in SUBSET Requests : Succeeds(S) \/ Fails(S)
           \/ CountsNothing
    PROVE  CountsExact' /\ GaugeBounds'
<1> DEFINE a == Cardinality(Accepted)
           s == Cardinality(Succeeded)
           f == Cardinality(Failed)
           c == Cardinality(Aborted)
           p == Cardinality(InProgress)
           t == Cardinality(CountedTwice)
<1>n. a \in Nat /\ s \in Nat /\ f \in Nat /\ c \in Nat /\ p \in Nat /\ t \in Nat
  BY CountedSets
<1>f. /\ IsFiniteSet(Accepted) /\ IsFiniteSet(Succeeded) /\ IsFiniteSet(Failed)
      /\ IsFiniteSet(Aborted) /\ IsFiniteSet(InProgress) /\ IsFiniteSet(CountedTwice)
  BY CountedSets
<1>m. metrics \in Counters
  BY DEF TypeOK
<1>i. /\ metrics.request_count = a /\ metrics.completed_count = s
      /\ metrics.failed_count = f + c
      /\ metrics.active_requests <= p /\ metrics.active_requests + t >= p
      /\ metrics.active_requests \in Nat
  BY <1>m DEF CountsExact, GaugeBounds, CountedTwice, Counters
<1>g. ASSUME /\ metrics'.request_count = a' /\ metrics'.completed_count = s'
             /\ metrics'.failed_count = f' + c'
             /\ metrics'.active_requests <= p' /\ metrics'.active_requests + t' >= p'
      PROVE  CountsExact' /\ GaugeBounds'
  BY <1>g DEF CountsExact, GaugeBounds, CountedTwice
<1>r. /\ RecordRequest(metrics).request_count = metrics.request_count + 1
      /\ RecordRequest(metrics).completed_count = metrics.completed_count
      /\ RecordRequest(metrics).failed_count = metrics.failed_count
      /\ RecordRequest(metrics).active_requests = metrics.active_requests + 1
  BY <1>m DEF RecordRequest, Counters
<1>s. ASSUME NEW k \in Nat
      PROVE  /\ RecordSuccess(metrics, k).request_count = metrics.request_count
             /\ RecordSuccess(metrics, k).completed_count = metrics.completed_count + k
             /\ RecordSuccess(metrics, k).failed_count = metrics.failed_count
             /\ RecordSuccess(metrics, k).active_requests = Dec(metrics.active_requests, k)
             /\ RecordFailure(metrics, k).request_count = metrics.request_count
             /\ RecordFailure(metrics, k).completed_count = metrics.completed_count
             /\ RecordFailure(metrics, k).failed_count = metrics.failed_count + k
             /\ RecordFailure(metrics, k).active_requests = Dec(metrics.active_requests, k)
  BY <1>m DEF RecordSuccess, RecordFailure, Counters
<1>d. ASSUME NEW k \in Nat, k <= p
      PROVE  /\ Dec(metrics.active_requests, k) <= p - k
             /\ Dec(metrics.active_requests, k) + t >= p - k
  <2> HIDE DEF p, t
  <2>1. QED
    BY <1>d, <1>n, <1>i DEF Dec
<1>1. ASSUME NEW r \in Requests, Admits(r) PROVE CountsExact' /\ GaugeBounds'
  <2>1. a' = a + 1 /\ p' = p + 1
    BY <1>1, <1>f, FS_AddElement DEF Admits
  <2>2. s' = s /\ f' = f /\ c' = c /\ t' = t
    BY <1>1 DEF Admits
  <2>3. metrics' = RecordRequest(metrics)
    BY <1>1 DEF Admits
  <2> HIDE DEF a, s, f, c, p, t
  <2>4. QED
    BY <1>g, <1>i, <1>n, <1>r, <2>1, <2>2, <2>3
<1>2. ASSUME NEW S \in SUBSET Requests, Succeeds(S) \/ Fails(S)
      PROVE  CountsExact' /\ GaugeBounds'
  <2> DEFINE k == Cardinality(S)
  <2>1. IsFiniteSet(S) /\ k \in Nat
    BY CardinalityIsNat
  <2>2. S \subseteq InProgress /\ InProgress' = InProgress \ S
    BY <1>2 DEF Succeeds, Fails
  <2>3. InProgress \cap S = S /\ S \in SUBSET InProgress
    BY <2>2
  <2>k. k <= p
    BY <1>f, <2>3, FS_Subset
  <2>d. Cardinality(InProgress \ S) = p - Cardinality(InProgress \cap S)
    BY <1>f, FS_Difference
  <2>4. k <= p /\ p' = p - k
    BY <2>2, <2>3, <2>k, <2>d
  <2>5. CASE Succeeds(S)
    <3>1. Succeeded \cap S = {} /\ Cardinality({}) = 0
      BY <2>5, FS_EmptySet DEF Succeeds
    <3>2. Cardinality(Succeeded \cup S) = s + k - 0
      BY <1>f, <2>1, <3>1, FS_Union
    <3>3. s' = s + k - 0 /\ a' = a /\ f' = f /\ c' = c /\ t' = t
      BY <2>5, <3>2 DEF Succeeds
    <3>4. metrics' = RecordSuccess(metrics, k)
      BY <2>5 DEF Succeeds
    <3> HIDE DEF a, s, f, c, p, t, k
    <3>5. QED
      BY <1>d, <1>g, <1>i, <1>n, <1>s, <2>1, <2>4, <3>3, <3>4
  <2>6. CASE Fails(S)
    <3>1. Failed \cap S = {} /\ Cardinality({}) = 0
      BY <2>6, FS_EmptySet DEF Fails
    <3>2. Cardinality(Failed \cup S) = f + k - 0
      BY <1>f, <2>1, <3>1, FS_Union
    <3>3. f' = f + k - 0 /\ a' = a /\ s' = s /\ c' = c /\ t' = t
      BY <2>6, <3>2 DEF Fails
    <3>4. metrics' = RecordFailure(metrics, k)
      BY <2>6 DEF Fails
    <3> HIDE DEF a, s, f, c, p, t, k
    <3>5. QED
      BY <1>d, <1>g, <1>i, <1>n, <1>s, <2>1, <2>4, <3>3, <3>4
  <2>7. QED
    BY <1>2, <2>5, <2>6
<1>3. ASSUME NEW r \in Requests, Aborts(r) PROVE CountsExact' /\ GaugeBounds'
  <2>1. c' = c + 1
    BY <1>3, <1>f, FS_AddElement DEF Aborts
  <2>2. a' = a /\ s' = s /\ f' = f
    BY <1>3 DEF Aborts
  <2>3. metrics' = RecordFailure(metrics, 1)
    BY <1>3 DEF Aborts
  <2>4. CASE r \in InProgress /\ InProgress' = InProgress \ {r} /\ UNCHANGED CountedTwice
    <3>1. p' = p - 1 /\ t' = t
      BY <1>f, <2>4, FS_RemoveElement
    <3>2. 1 <= p
      <4>1. p # 0
        BY <1>f, <2>4, FS_EmptySet
      <4> HIDE DEF p
      <4>2. QED
        BY <1>n, <4>1
    <3> HIDE DEF a, s, f, c, p, t
    <3>3. QED
      BY <1>d, <1>g, <1>i, <1>n, <1>s, <2>1, <2>2, <2>3, <3>1, <3>2
  <2>5. CASE /\ UNCHANGED InProgress
             /\ r \notin CountedTwice /\ CountedTwice' = CountedTwice \cup {r}
    <3>1. p' = p /\ t' = t + 1
      BY <1>f, <2>5, FS_AddElement
    <3> HIDE DEF a, s, f, c, p, t
    <3>2. /\ Dec(metrics.active_requests, 1) <= p
          /\ Dec(metrics.active_requests, 1) + (t + 1) >= p
      BY <1>i, <1>n DEF Dec
    <3>3. QED
      BY <1>g, <1>i, <1>n, <1>s, <2>1, <2>2, <2>3, <3>1, <3>2
  <2>6. QED
    BY <1>3, <2>4, <2>5 DEF Aborts
<1>4. CASE CountsNothing
  <2>1. a' = a /\ s' = s /\ f' = f /\ c' = c /\ p' = p /\ t' = t
    BY <1>4 DEF CountsNothing
  <2>2. /\ metrics'.request_count = metrics.request_count
        /\ metrics'.completed_count = metrics.completed_count
        /\ metrics'.failed_count = metrics.failed_count
        /\ metrics'.active_requests = metrics.active_requests
    BY <1>4 DEF CountsNothing
  <2> HIDE DEF a, s, f, c, p, t
  <2>3. QED
    BY <1>g, <1>i, <2>1, <2>2
<1>5. QED
  BY <1>1, <1>2, <1>3, <1>4

(* What the worker settles was in progress.                                *)
LEMMA SettleCounts ==
    ASSUME TypeOK, NEW S \in SUBSET Requests, CompleteItems(S) \/ FailItems(S),
           \A r \in S : r \in Accepted /\ verdict[r] = "none" /\ ~cancelled[r],
           UNCHANGED <<api, cancelled>>
    PROVE  Succeeds(S) \/ Fails(S)
<1>1. PICK v \in {"success", "failure"} :
         /\ \A r \in Requests : verdict'[r] = IF r \in S THEN v ELSE verdict[r]
         /\ v = "success" => metrics' = RecordSuccess(metrics, Cardinality(S))
         /\ v = "failure" => metrics' = RecordFailure(metrics, Cardinality(S))
  <2>1. CASE CompleteItems(S)
    <3>1. \A r \in Requests : verdict'[r] = IF r \in S THEN "success" ELSE verdict[r]
      BY <2>1 DEF CompleteItems
    <3>2. metrics' = RecordSuccess(metrics, Cardinality(S))
      BY <2>1 DEF CompleteItems
    <3>3. QED
      BY <3>1, <3>2
  <2>2. CASE FailItems(S)
    <3>1. \A r \in Requests : verdict'[r] = IF r \in S THEN "failure" ELSE verdict[r]
      BY <2>2 DEF FailItems
    <3>2. metrics' = RecordFailure(metrics, Cardinality(S))
      BY <2>2 DEF FailItems
    <3>3. "failure" \in {"success", "failure"} /\ "failure" # "success"
      OBVIOUS
    <3>4. QED
      BY <3>1, <3>2, <3>3
  <2>3. QED
    BY <2>1, <2>2
<1>2. UNCHANGED <<Accepted, Aborted>>
  BY DEF Accepted, Aborted
<1>3. S \subseteq InProgress
  BY DEF InProgress
<1>a. Accepted \subseteq Requests
  BY DEF Accepted
<1>4. InProgress' = InProgress \ S
  BY <1>1, <1>2, <1>a DEF InProgress
<1>5. S \cap Succeeded = {} /\ S \cap Failed = {} /\ S \cap Aborted = {}
  BY DEF Succeeded, Failed, Aborted
<1>6. CASE v = "success"
  <2>1. Succeeded' = Succeeded \cup S /\ UNCHANGED Failed
    BY <1>1, <1>5, <1>6 DEF Succeeded, Failed
  <2>2. UNCHANGED CountedTwice
    BY <1>2, <1>5, <2>1 DEF CountedTwice
  <2>3. QED
    BY <1>1, <1>2, <1>3, <1>4, <1>5, <1>6, <2>1, <2>2 DEF Succeeds
<1>7. CASE v = "failure"
  <2>1. Failed' = Failed \cup S /\ UNCHANGED Succeeded
    BY <1>1, <1>5, <1>7 DEF Succeeded, Failed
  <2>2. UNCHANGED CountedTwice
    BY <1>2, <1>5, <2>1 DEF CountedTwice
  <2>3. QED
    BY <1>1, <1>2, <1>3, <1>4, <1>5, <1>7, <2>1, <2>2 DEF Fails
<1>8. QED
  BY <1>6, <1>7

(* What a worker settles is counted once.                                  *)
LEMMA WorkerCounts ==
    ASSUME TypeOK, Ownership, NEW w \in Workers,
           \/ \E r \in Requests : BackendCompleted(w, r)
           \/ BackendReturn(w) \/ BackendRaise(w)
    PROVE  \E S \in SUBSET Requests : Succeeds(S) \/ Fails(S)
<1>1. \A q \in Live(pending[w]) :
         q \in Accepted /\ verdict[q] = "none" /\ ~cancelled[q] /\ q \in Requests
  BY DEF Ownership, NoDuplicateWork, HeldBy, Live, TypeOK
<1>2. \E S \in SUBSET Live(pending[w]) : CompleteItems(S) \/ FailItems(S)
  <2>1. /\ \A r \in Requests : Live(pending[w] \cap {r}) \in SUBSET Live(pending[w])
        /\ Live(pending[w]) \in SUBSET Live(pending[w])
    BY DEF Live
  <2>2. \/ \E r \in Requests : CompleteItems(Live(pending[w] \cap {r}))
        \/ CompleteItems(Live(pending[w])) \/ FailItems(Live(pending[w]))
    BY DEF BackendCompleted, BackendReturn, BackendRaise
  <2>3. QED
    BY <2>1, <2>2
<1>3. UNCHANGED <<api, cancelled>>
  BY DEF BackendCompleted, BackendReturn, BackendRaise, EndBatch
<1>4. PICK S \in SUBSET Live(pending[w]) : CompleteItems(S) \/ FailItems(S)
  BY <1>2
<1>5. S \in SUBSET Requests /\ \A q \in S : q \in Accepted /\ verdict[q] = "none" /\ ~cancelled[q]
  BY <1>1
<1>6. QED
  BY <1>3, <1>4, <1>5, SettleCounts

(* Steps that neither admit, settle nor cancel a request.                  *)
LEMMA NothingCounted ==
    ASSUME TypeOK, UNCHANGED <<Accepted, verdict, cancelled>>,
           \/ UNCHANGED metrics
           \/ metrics' = RecordBatch(metrics)
           \/ metrics' = RecordRejection(metrics)
    PROVE  CountsNothing
<1>1. UNCHANGED <<Succeeded, Failed, Aborted>>
  BY DEF Succeeded, Failed, Aborted
<1>2. UNCHANGED <<InProgress, CountedTwice>>
  BY <1>1 DEF InProgress, CountedTwice
<1>3. UNCHANGED <<metrics.request_count, metrics.completed_count, metrics.failed_count,
                  metrics.active_requests>>
  BY DEF RecordBatch, RecordRejection, TypeOK, Counters
<1>4. QED
  BY <1>1, <1>2, <1>3 DEF CountsNothing

(* What a handler admits or cancels is counted once.                       *)
LEMMA HandlerCounts ==
    ASSUME TypeOK, Ownership, AnswerInv, NEW r \in Requests, Handler(r)
    PROVE  Admits(r) \/ Aborts(r) \/ CountsNothing
<1>1. CASE Accept(r)
  <2>1. /\ r \notin Accepted /\ verdict[r] = "none" /\ ~cancelled[r]
        /\ Accepted' = Accepted \cup {r} /\ UNCHANGED <<verdict, cancelled>>
    BY <1>1 DEF Accept, Accepted, Ownership, SettledAccepted, AnswerInv, NoHandler, TypeOK
  <2>2. UNCHANGED <<Succeeded, Failed, Aborted>>
    BY <2>1 DEF Succeeded, Failed, Aborted
  <2>3. r \notin InProgress /\ InProgress' = InProgress \cup {r}
    BY <2>1 DEF InProgress
  <2>4. UNCHANGED CountedTwice
    BY <2>2 DEF CountedTwice
  <2>5. metrics' = RecordRequest(metrics)
    BY <1>1 DEF Accept
  <2>6. QED
    BY <2>1, <2>2, <2>3, <2>4, <2>5 DEF Admits
<1>2. CASE Reject(r)
  <2>1. UNCHANGED <<Accepted, verdict, cancelled>>
    BY <1>2 DEF Reject, Accepted, NoHandler, TypeOK
  <2>2. QED
    BY <1>2, <2>1, NothingCounted DEF Reject
<1>3. CASE \/ JsonAnswer(r) \/ StreamOpen(r) \/ StreamDropped(r) \/ StreamToken(r)
           \/ StreamTerminal(r)
  <2>1. UNCHANGED <<Accepted, verdict, cancelled>> /\ UNCHANGED metrics
    BY <1>3 DEF JsonAnswer, StreamOpen, StreamDropped, StreamToken, StreamTerminal, Accepted,
                NoHandler, TypeOK
  <2>2. QED
    BY <2>1, NothingCounted
<1>4. CASE JsonTimeout(r) \/ JsonCancelled(r) \/ StreamClose(r) \/ StreamDisconnect(r)
  <2>1. r \in Accepted /\ UNCHANGED <<Accepted, verdict>>
    BY <1>4 DEF JsonTimeout, JsonCancelled, JsonAbort, StreamClose, StreamDisconnect,
                StreamFinally, Accepted, NoHandler, TypeOK
  <2>2. \/ UNCHANGED <<cancelled, metrics>>
        \/ /\ ~cancelled[r] /\ cancelled' = [cancelled EXCEPT ![r] = TRUE]
           /\ metrics' = RecordFailure(metrics, 1)
    BY <1>4 DEF JsonTimeout, JsonCancelled, JsonAbort, CancelCompletion, StreamClose,
                StreamDisconnect, StreamFinally, AnswerInv
  <2>3. CASE UNCHANGED <<cancelled, metrics>>
    BY <2>1, <2>3, NothingCounted
  <2>4. CASE /\ ~cancelled[r] /\ cancelled' = [cancelled EXCEPT ![r] = TRUE]
             /\ metrics' = RecordFailure(metrics, 1)
    <3>1. \A q \in Requests : cancelled'[q] <=> cancelled[q] \/ q = r
      BY <2>4 DEF TypeOK
    <3>2. r \notin Aborted /\ Aborted' = Aborted \cup {r}
      BY <2>4, <3>1 DEF Aborted
    <3>3. UNCHANGED <<Succeeded, Failed>>
      BY <2>1 DEF Succeeded, Failed
    <3>a. Accepted \subseteq Requests
      BY DEF Accepted
    <3>4. InProgress' = InProgress \ {r}
      BY <2>1, <3>1, <3>a DEF InProgress
    <3>5. CASE verdict[r] = "none"
      <4>1. r \in InProgress /\ r \notin Succeeded \cup Failed
        BY <2>1, <2>4, <3>5 DEF InProgress, Succeeded, Failed
      <4>2. UNCHANGED CountedTwice
        BY <3>2, <3>3, <4>1 DEF CountedTwice
      <4>3. QED
        BY <2>1, <2>4, <3>2, <3>3, <3>4, <4>1, <4>2 DEF Aborts
    <3>6. CASE verdict[r] # "none"
      <4>1. r \notin InProgress /\ r \in Succeeded \cup Failed
        BY <3>6 DEF InProgress, Succeeded, Failed, TypeOK
      <4>2. r \notin CountedTwice /\ CountedTwice' = CountedTwice \cup {r}
        BY <3>2, <3>3, <4>1 DEF CountedTwice
      <4>3. InProgress' = InProgress
        BY <3>4, <4>1
      <4>4. QED
        BY <2>1, <2>4, <3>2, <3>3, <4>2, <4>3 DEF Aborts
    <3>7. QED
      BY <3>5, <3>6
  <2>5. QED
    BY <2>2, <2>3, <2>4
<1>5. QED
  BY <1>1, <1>2, <1>3, <1>4 DEF Handler

(* Every step keeps the counters exact.                                    *)
LEMMA CountStep ==
    TypeOK /\ Ownership /\ AnswerInv /\ CountsExact /\ GaugeBounds /\ [Next]_vars
      => CountsExact' /\ GaugeBounds'
<1> SUFFICES ASSUME TypeOK, Ownership, AnswerInv, CountsExact, GaugeBounds, [Next]_vars
             PROVE  CountsExact' /\ GaugeBounds'
  OBVIOUS
<1>1. ASSUME NEW r \in Requests, Handler(r) PROVE CountsExact' /\ GaugeBounds'
  BY <1>1, HandlerCounts, CountsKept
<1>2. ASSUME NEW w \in Workers,
             \/ \E r \in Requests : BackendCompleted(w, r)
             \/ BackendReturn(w) \/ BackendRaise(w)
      PROVE  CountsExact' /\ GaugeBounds'
  BY <1>2, WorkerCounts, CountsKept
<1>3. CASE \/ \E w \in Workers : Worker(w) \/ \E r \in Requests : BackendToken(w, r)
           \/ Stop \/ Start \/ UNCHANGED vars
  <2>1. UNCHANGED <<api, verdict, cancelled>>
    BY <1>3 DEF Worker, Collect, Deadline, BackendToken, Stop, StopTasks, Start, vars
  <2>m. UNCHANGED metrics \/ metrics' = RecordBatch(metrics)
    <3>1. ASSUME NEW w \in Workers, Collect(w) PROVE UNCHANGED metrics \/ metrics' = RecordBatch(metrics)
      BY <3>1 DEF Collect, StartBatch
    <3>2. QED
      BY <1>3, <3>1 DEF Worker, Deadline, StartBatch, BackendToken, Stop, StopTasks, Start, vars
  <2>2. UNCHANGED Accepted
    BY <2>1 DEF Accepted
  <2>3. QED
    BY <2>1, <2>2, <2>m, NothingCounted, CountsKept
<1>4. QED
  BY <1>1, <1>2, <1>3 DEF Next, BackendStep, Quiescent

(* The counters and the bounds on the gauge in every state.                *)
LEMMA CountersInvariant == Spec => [](CountsExact /\ GaugeBounds)
<1>1. Init => CountsExact /\ GaugeBounds
  <2> SUFFICES ASSUME Init PROVE CountsExact /\ GaugeBounds
    OBVIOUS
  <2>1. /\ Accepted = {} /\ Succeeded = {} /\ Failed = {} /\ Aborted = {} /\ InProgress = {}
        /\ (Succeeded \cup Failed) \cap Aborted = {}
    BY DEF Init, Accepted, Succeeded, Failed, Aborted, InProgress, NoHandler
  <2>2. Cardinality({}) = 0
    BY FS_EmptySet
  <2>3. QED
    BY <2>1, <2>2 DEF Init, CountsExact, GaugeBounds
<1>2. QED
  BY <1>1, TypeCorrect, OwnershipInvariant, AnswersInvariant, CountStep, PTL DEF Spec

(* request_count, completed_count and failed_count: nothing is missed and  *)
(* nothing is counted twice in one of them, for all the ways in which the  *)
(* worker and the handlers race for a request.                             *)
THEOREM CountersExact == Spec => []CountsExact
BY CountersInvariant, PTL

(* generated_tokens_total.                                                 *)
GeneratedInv == generated = SumFunctionOnSet(TokenCount, Succeeded)

(* The number of a response's tokens is a natural.                         *)
LEMMA TokenCountTyped ==
    ASSUME TypeOK
    PROVE  \A r \in Requests : TokenCount[r] \in Nat
BY DEF TypeOK, TokenCount

(* A completed request adds its tokens, once: it had not succeeded before. *)
LEMMA CompletionGenerates ==
    ASSUME TypeOK, GeneratedInv, NEW S \in SUBSET Requests, CompleteItems(S),
           \A r \in S : verdict[r] = "none", UNCHANGED tokens
    PROVE  GeneratedInv'
<1>1. UNCHANGED TokenCount
  BY DEF TokenCount
<1>2. Succeeded' = Succeeded \cup S /\ Succeeded \cap S = {} /\ Succeeded \in SUBSET Requests
  BY DEF CompleteItems, Succeeded
<1>3. IsFiniteSet(Succeeded) /\ IsFiniteSet(S)
  BY <1>2, CardinalityIsNat
<1>4. \A r \in Succeeded \cup S : TokenCount[r] \in Nat
  BY <1>2, TokenCountTyped
<1>5. SumFunctionOnSet(TokenCount, Succeeded \cup S)
        = SumFunctionOnSet(TokenCount, Succeeded) + SumFunctionOnSet(TokenCount, S)
  BY <1>2, <1>3, <1>4, SumUnion
<1>6. generated' = generated + SumFunctionOnSet(TokenCount, S)
  BY DEF CompleteItems, GeneratedBy
<1>7. GeneratedInv' <=> generated' = SumFunctionOnSet(TokenCount, Succeeded \cup S)
  BY <1>1, <1>2 DEF GeneratedInv
<1>8. QED
  BY <1>5, <1>6, <1>7 DEF GeneratedInv

(* A step that completes nothing changes neither side: the tokens of a     *)
(* request that has succeeded stay as they are.                            *)
LEMMA NothingGenerated ==
    ASSUME TypeOK, Ownership, GeneratedInv, [Next]_vars,
           UNCHANGED <<generated, Succeeded>>
    PROVE  GeneratedInv'
<1>1. \A r \in Succeeded : TokenCount'[r] = TokenCount[r]
  BY SettledStays DEF Succeeded, TokenCount
<1>2. Succeeded \in SUBSET Requests
  BY DEF Succeeded
<1>3. IsFiniteSet(Succeeded)
  BY <1>2, CardinalityIsNat
<1>4. SumFunctionOnSet(TokenCount', Succeeded) = SumFunctionOnSet(TokenCount, Succeeded)
  <2>1. \A r \in Succeeded : TokenCount[r] \in Nat /\ TokenCount'[r] = TokenCount[r]
    BY <1>1, <1>2, TokenCountTyped
  <2>2. QED
    BY <1>3, <2>1, SumSame
<1>5. GeneratedInv' <=> generated' = SumFunctionOnSet(TokenCount', Succeeded)
  BY DEF GeneratedInv
<1>6. QED
  BY <1>4, <1>5 DEF GeneratedInv

(* Every step keeps the sum of generated tokens.                           *)
LEMMA GeneratedStep == TypeOK /\ Ownership /\ GeneratedInv /\ [Next]_vars => GeneratedInv'
<1> SUFFICES ASSUME TypeOK, Ownership, GeneratedInv, [Next]_vars PROVE GeneratedInv'
  OBVIOUS
<1>1. ASSUME NEW w \in Workers,
             \/ \E r \in Requests : BackendCompleted(w, r)
             \/ BackendReturn(w) \/ BackendRaise(w)
      PROVE  GeneratedInv'
  <2>1. \A r \in Live(pending[w]) : verdict[r] = "none" /\ r \in Requests
    BY DEF Ownership, NoDuplicateWork, HeldBy, Live, TypeOK
  <2>2. \E S \in SUBSET Live(pending[w]) : CompleteItems(S) \/ FailItems(S)
    <3>1. \A r \in Requests : Live(pending[w] \cap {r}) \in SUBSET Live(pending[w])
      BY DEF Live
    <3>2. QED
      BY <1>1, <3>1 DEF BackendCompleted, BackendReturn, BackendRaise
  <2>3. PICK S \in SUBSET Live(pending[w]) : CompleteItems(S) \/ FailItems(S)
    BY <2>2
  <2>4. UNCHANGED tokens
    BY <1>1 DEF BackendCompleted, BackendReturn, BackendRaise, EndBatch
  <2>5. CASE CompleteItems(S)
    BY <2>1, <2>4, <2>5, CompletionGenerates
  <2>6. CASE FailItems(S)
    <3>1. UNCHANGED Succeeded
      BY <2>1, <2>6 DEF FailItems, Succeeded
    <3>2. UNCHANGED generated
      BY <2>6 DEF FailItems
    <3>3. QED
      BY <3>1, <3>2, NothingGenerated
  <2>7. QED
    BY <2>3, <2>5, <2>6
<1>2. CASE UNCHANGED <<generated, verdict>>
  <2>1. UNCHANGED Succeeded
    BY <1>2 DEF Succeeded
  <2>2. QED
    BY <1>2, <2>1, NothingGenerated
<1>3. ASSUME NEW r \in Requests, Handler(r) PROVE UNCHANGED <<generated, verdict>>
  BY <1>3 DEF Handler, Accept, Reject, JsonAnswer, JsonTimeout, JsonCancelled, JsonAbort,
              StreamOpen, StreamDropped, StreamToken, StreamTerminal, StreamClose,
              StreamDisconnect, StreamFinally
<1>4. ASSUME NEW w \in Workers, Worker(w) \/ \E r \in Requests : BackendToken(w, r)
      PROVE  UNCHANGED <<generated, verdict>>
  BY <1>4 DEF Worker, Collect, Deadline, BackendToken
<1>5. CASE Stop \/ Start \/ UNCHANGED vars
  BY <1>2, <1>5 DEF Stop, StopTasks, Start, vars
<1>6. QED
  BY <1>1, <1>2, <1>3, <1>4, <1>5 DEF Next, BackendStep, Quiescent

(* All that a scrape of /metrics reports of the requests agrees with what  *)
(* happened to them: each success is counted once, with all its tokens.    *)
THEOREM CountersAgree == Spec => []CountersAccount
<1>1. Init => GeneratedInv
  <2> SUFFICES ASSUME Init PROVE GeneratedInv
    OBVIOUS
  <2>1. Succeeded = {} /\ generated = 0
    BY DEF Init, Succeeded
  <2>2. QED
    BY <2>1, SumEmpty DEF GeneratedInv
<1>2. CountsExact /\ GeneratedInv => CountersAccount
  BY DEF CountersAccount, GeneratedInv
<1>3. QED
  BY <1>1, <1>2, GeneratedStep, CountersExact, TypeCorrect, OwnershipInvariant, PTL DEF Spec

(* active_requests never overcounts, and what it undercounts is at most    *)
(* the requests that were counted as settled and as cancelled.             *)
THEOREM GaugeIsBounded == Spec => []GaugeBounds
BY CountersInvariant, PTL

-----------------------------------------------------------------------------
(* The queue, as a scheduler.                                              *)

(* Only admission changes which requests have been accepted.               *)
LEMMA AcceptedKept ==
    ASSUME TypeOK, NEW r \in Requests, Handler(r), ~Accept(r)
    PROVE  UNCHANGED <<Accepted, queue, taken, batch>>
<1>1. UNCHANGED <<queue, taken, batch>>
  BY DEF Handler, Reject, JsonAnswer, JsonTimeout, JsonCancelled, JsonAbort, StreamOpen,
         StreamDropped, StreamToken, StreamTerminal, StreamClose, StreamDisconnect,
         StreamFinally
<1>2. UNCHANGED Accepted
  BY DEF Handler, Reject, JsonAnswer, JsonTimeout, JsonCancelled, JsonAbort, StreamOpen,
         StreamDropped, StreamToken, StreamTerminal, StreamClose, StreamDisconnect,
         StreamFinally, Accepted, NoHandler, TypeOK
<1>3. QED
  BY <1>1, <1>2

(* A worker that takes requests from the queue.                            *)
LEMMA CollectTakes ==
    ASSUME TypeOK, Ownership, NEW w \in Workers, Collect(w)
    PROVE  \E S \in SUBSET Waiting : Scheduler!Take(w, S)
<1>1. PICK k \in 1 .. Len(queue) : \E q \in Rearranged(k) :
        LET items == batch[w] \o SubSeq(q, 1, k)
        IN  /\ Fits(items)
            /\ queue' = SubSeq(q, k + 1, Len(q))
            /\ taken' = taken \cup ToSet(SubSeq(q, 1, k))
            /\ batch' = [batch EXCEPT ![w] = <<>>] \/ batch' = [batch EXCEPT ![w] = items]
  BY DEF Collect, StartBatch
<1>2. PICK q \in Rearranged(k) :
        LET items == batch[w] \o SubSeq(q, 1, k)
        IN  /\ Fits(items)
            /\ queue' = SubSeq(q, k + 1, Len(q))
            /\ taken' = taken \cup ToSet(SubSeq(q, 1, k))
            /\ batch' = [batch EXCEPT ![w] = <<>>] \/ batch' = [batch EXCEPT ![w] = items]
  BY <1>1
<1> DEFINE front == SubSeq(q, 1, k)
           F == ToSet(front)
           items == batch[w] \o front
<1>3. /\ queue \in Seq(Requests) /\ IsInjective(queue)
      /\ batch[w] \in Seq(Requests) /\ IsInjective(batch[w])
      /\ ToSet(batch[w]) \cap ToSet(queue) = {}
      /\ ToSet(queue) \subseteq Accepted
  <2>1. /\ queue \in Seq(Requests) /\ batch[w] \in Seq(Requests)
    BY DEF TypeOK
  <2>2. ToSet(queue) \subseteq Requests
    BY <2>1 DEF ToSet
  <2>3. QED
    BY <2>1, <2>2 DEF Ownership, NoDuplicateWork, HeldBy
<1>4. /\ q \in Seq(Requests) /\ k \in 1 .. Len(q) /\ Len(q) = Len(queue)
      /\ IsInjective(q) /\ ToSet(q) = ToSet(queue)
  BY <1>3, RearrangedSeq
<1>5. /\ front \in Seq(Requests) /\ IsInjective(front)
      /\ F \subseteq ToSet(queue) /\ ToSet(queue') = ToSet(queue) \ F
  BY <1>2, <1>4, SplitSeq
<1>6. F # {}
  <2>1. Len(front) = k /\ k \in Nat /\ k > 0
    BY <1>4, SubSeqProperties
  <2> HIDE DEF front
  <2>2. 1 \in DOMAIN front
    BY <1>5, <2>1
  <2>3. front[1] \in F
    BY <2>2 DEF ToSet
  <2>4. QED
    BY <2>3
<1>7. /\ Fits(items)
      /\ taken' = taken \cup F
      /\ batch' = [batch EXCEPT ![w] = <<>>] \/ batch' = [batch EXCEPT ![w] = items]
  BY <1>2
<1> HIDE DEF front
<1>8. ToSet(batch[w]) \cap F = {}
  BY <1>3, <1>5
<1>9. items \in Seq(Requests) /\ ToSet(items) = ToSet(batch[w]) \cup F
  BY <1>3, <1>5, <1>8, JoinSeq
<1> HIDE DEF F, items
<1>10. Cardinality(ToSet(batch[w]) \cup F) <= MaxBatchSize
  <2>1. IsFiniteSet(ToSet(items)) /\ Cardinality(ToSet(items)) <= Len(items)
    BY <1>9, MembersBound
  <2>2. Cardinality(ToSet(items)) \in Nat /\ Len(items) \in Nat /\ Len(items) <= MaxBatchSize
    BY <1>7, <1>9, <2>1, FS_CardinalityType DEF Fits
  <2>3. Cardinality(ToSet(items)) <= MaxBatchSize
    BY <2>1, <2>2, RuntimeAssumption
  <2>4. QED
    BY <1>9, <2>3
<1>11. \E c \in {{}, Collecting[w] \cup F} : Collecting' = [Collecting EXCEPT ![w] = c]
  <2>1. CASE batch' = [batch EXCEPT ![w] = <<>>]
    <3>1. \A v \in Workers : ToSet(batch'[v]) = IF v = w THEN {} ELSE ToSet(batch[v])
      BY <2>1, EmptySeqMembers DEF TypeOK
    <3>2. Collecting' = [Collecting EXCEPT ![w] = {}]
      BY <3>1 DEF Collecting
    <3>3. QED
      BY <3>2
  <2>2. CASE batch' = [batch EXCEPT ![w] = items]
    <3>1. \A v \in Workers :
            ToSet(batch'[v]) = IF v = w THEN ToSet(batch[w]) \cup F ELSE ToSet(batch[v])
      BY <1>9, <2>2 DEF TypeOK
    <3>2. Collecting' = [Collecting EXCEPT ![w] = Collecting[w] \cup F]
      BY <3>1 DEF Collecting
    <3>3. QED
      BY <3>2
  <2>3. QED
    BY <1>7, <2>1, <2>2
<1>12. Waiting' = Waiting \ F /\ F \in SUBSET Waiting
  BY <1>5 DEF Waiting
<1>13. Cardinality(Collecting[w] \cup F) <= MaxBatchSize
  BY <1>10 DEF Collecting
<1>14. Scheduler!Take(w, F)
  BY <1>6, <1>7, <1>11, <1>12, <1>13, Zenon
     DEF Scheduler!Take, Scheduler!Cardinality, Cardinality
<1>15. QED
  BY <1>12, <1>14

(* No request vanishes from the queue: each that was accepted waits there, *)
(* or a worker has taken it.                                               *)
TakenInv == Accepted = Waiting \cup taken

(* Every step is a step of the interface or leaves it alone.               *)
LEMMA QueueStep ==
    TypeOK /\ Ownership /\ TakenInv /\ [Next]_vars
      => TakenInv' /\ [Scheduler!Next]_(Scheduler!vars)
<1> DEFINE Goal == TakenInv' /\ [Scheduler!Next]_(Scheduler!vars)
<1> SUFFICES ASSUME TypeOK, Ownership, TakenInv, [Next]_vars PROVE Goal
  OBVIOUS
<1>1. ASSUME NEW r \in Requests, Accept(r) PROVE Goal
  <2>1. r \notin Accepted /\ Accepted' = Accepted \cup {r}
    BY <1>1 DEF Accept, Accepted, NoHandler, TypeOK
  <2>2. r \notin Waiting \cup taken
    BY <2>1 DEF TakenInv
  <2>3. ToSet(queue') = ToSet(queue) \cup {r} /\ UNCHANGED <<taken, batch>>
    BY <1>1, <2>2, AppendNew DEF Waiting, Accept, TypeOK, Ownership, NoDuplicateWork
  <2>4. Waiting' = Waiting \cup {r} /\ UNCHANGED <<taken, Collecting>>
    BY <2>3 DEF Waiting, Collecting
  <2>5. Scheduler!Submit(r)
    BY <2>2, <2>4 DEF Scheduler!Submit
  <2>6. QED
    BY <2>1, <2>4, <2>5 DEF TakenInv, Scheduler!Next
<1>2. ASSUME NEW w \in Workers, Collect(w) PROVE Goal
  <2>1. PICK S \in SUBSET Waiting : Scheduler!Take(w, S)
    BY <1>2, CollectTakes
  <2>2. Waiting' = Waiting \ S /\ taken' = taken \cup S
    BY <2>1 DEF Scheduler!Take
  <2>3. UNCHANGED Accepted
    BY <1>2 DEF Collect, Accepted
  <2>4. QED
    BY <2>1, <2>2, <2>3 DEF TakenInv, Scheduler!Next
<1>3. ASSUME NEW w \in Workers, Deadline(w) PROVE Goal
  <2>1. batch' = [batch EXCEPT ![w] = <<>>] /\ UNCHANGED <<queue, taken, api>>
    BY <1>3 DEF Deadline, StartBatch
  <2>2. \A v \in Workers : ToSet(batch'[v]) = IF v = w THEN {} ELSE ToSet(batch[v])
    BY <2>1, EmptySeqMembers DEF TypeOK
  <2>3. Collecting' = [Collecting EXCEPT ![w] = {}]
    BY <2>2 DEF Collecting
  <2>4. UNCHANGED <<Waiting, taken, Accepted>>
    BY <2>1 DEF Waiting, Accepted
  <2>5. Scheduler!HandOver(w)
    BY <2>3, <2>4 DEF Scheduler!HandOver
  <2>6. QED
    BY <2>4, <2>5 DEF TakenInv, Scheduler!Next
<1>4. CASE Stop
  <2>1. batch' = [w \in Workers |-> <<>>] /\ UNCHANGED <<queue, taken, api>>
    BY <1>4 DEF Stop, StopTasks
  <2>2. Collecting' = [w \in Workers |-> {}]
    BY <2>1, EmptySeqMembers DEF Collecting
  <2>3. UNCHANGED <<Waiting, taken, Accepted>>
    BY <2>1 DEF Waiting, Accepted
  <2>4. QED
    BY <2>2, <2>3 DEF TakenInv, Scheduler!Next, Scheduler!Cancel
<1>5. CASE UNCHANGED <<queue, taken, batch, Accepted>>
  BY <1>5 DEF TakenInv, Scheduler!vars, Waiting, Collecting
<1>6. ASSUME NEW r \in Requests, Handler(r), ~Accept(r) PROVE Goal
  BY <1>5, <1>6, AcceptedKept
<1>7. CASE (\E w \in Workers : BackendStep(w)) \/ Start \/ UNCHANGED vars
  <2>1. UNCHANGED <<queue, taken, batch, api>>
    BY <1>7 DEF BackendStep, BackendToken, BackendCompleted, BackendReturn, BackendRaise,
                EndBatch, Start, vars
  <2>2. QED
    BY <1>5, <2>1 DEF Accepted
<1> HIDE DEF Goal
<1>8. QED
  BY <1>1, <1>2, <1>3, <1>4, <1>6, <1>7 DEF Next, Worker, Quiescent

(* The serving path uses its queue as the interface Scheduler allows,      *)
(* through batches that wait for more, deadlines, stops and restarts: a    *)
(* request leaves the queue in a call of next_batch that has taken it.     *)
THEOREM ServingUsesScheduler == Spec => ImplementsScheduler
<1>1. Init => Scheduler!Init /\ TakenInv
  <2> SUFFICES ASSUME Init PROVE Scheduler!Init /\ TakenInv
    OBVIOUS
  <2>1. /\ Waiting = {} /\ Accepted = {} /\ taken = {}
        /\ Collecting = [w \in Workers |-> {}]
    BY EmptySeqMembers DEF Init, Waiting, Accepted, NoHandler, Collecting
  <2>2. QED
    BY <2>1 DEF Scheduler!Init, TakenInv
<1>2. QED
  BY <1>1, QueueStep, TypeCorrect, OwnershipInvariant, PTL
     DEF Spec, Scheduler!Spec, ImplementsScheduler

-----------------------------------------------------------------------------
(* The responses, as their clients see them.                               *)

(* The outcome of a response, by where its handler is.                     *)
StatusInv ==
    \A r \in Requests :
        /\ api[r] = "idle" => Status[r] = "new"
        /\ api[r] = "rejected" => Status[r] = "refused"
        /\ answer[r] = "ok" => Status[r] = "done"
        /\ answer[r] = "error" => Status[r] = "failed"
        /\ api[r] = "ended" /\ answer[r] \in {"none", "timeout"} => Status[r] = "abandoned"
        /\ api[r] \in {"waiting", "opening", "streaming"} => Status[r] = "open"

(* A handler's position and answer fit its status in the contract.         *)
LEMMA StatusByHandler == TypeOK /\ AnswerInv => StatusInv
<1> SUFFICES ASSUME TypeOK, AnswerInv, NEW r \in Requests
             PROVE  /\ api[r] = "idle" => Status[r] = "new"
                    /\ api[r] = "rejected" => Status[r] = "refused"
                    /\ answer[r] = "ok" => Status[r] = "done"
                    /\ answer[r] = "error" => Status[r] = "failed"
                    /\ api[r] = "ended" /\ answer[r] \in {"none", "timeout"}
                         => Status[r] = "abandoned"
                    /\ api[r] \in {"waiting", "opening", "streaming"} => Status[r] = "open"
  BY DEF StatusInv
<1>1. Status[r] = StatusOf(r)
  BY DEF Status
<1>2. api[r] \in NoHandler \cup {"waiting", "opening", "streaming"} => answer[r] = "none"
  BY DEF AnswerInv
<1>3. QED
  BY <1>1, <1>2 DEF StatusOf, NoHandler, TypeOK, HandlerLocs

(* A step that gives r the outcome s, and nobody else another one.         *)
LEMMA StatusStep ==
    ASSUME NEW r \in Requests, NEW s, Status'[r] = s,
           \A q \in Requests \ {r} : api'[q] = api[q] /\ answer'[q] = answer[q]
    PROVE  Status' = [Status EXCEPT ![r] = s]
<1>1. \A q \in Requests \ {r} : Status'[q] = Status[q]
  BY DEF Status, StatusOf
<1>2. Status = [q \in Requests |-> Status[q]] /\ Status' = [q \in Requests |-> Status'[q]]
  BY DEF Status
<1> HIDE DEF Status
<1>3. QED
  BY <1>1, <1>2

(* The status is a matter of the handler and the answer alone.             *)
LEMMA StatusSame == UNCHANGED <<api, answer>> => UNCHANGED Status
BY DEF Status, StatusOf

(* What the backend has produced for r.                                    *)
LEMMA ProducedSeq ==
    ASSUME TypeOK, NEW r \in Requests
    PROVE  /\ Produced[r] \in Seq(Token) /\ Len(Produced[r]) = emitted[r]
           /\ emitted[r] \in 0 .. MaxTokens
           /\ \A i \in 1 .. emitted[r] : Produced[r][i] = <<r, i>>
<1>1. emitted[r] \in Nat /\ emitted[r] <= MaxTokens
  BY RuntimeAssumption DEF TypeOK
<1>2. \A i \in 1 .. emitted[r] : <<r, i>> \in Token
  BY <1>1, RuntimeAssumption DEF Token
<1>3. Produced[r] = [i \in 1 .. emitted[r] |-> <<r, i>>]
  BY DEF Produced
<1>4. QED
  BY <1>1, <1>2, <1>3, RuntimeAssumption

(* A request that is not cancelled has it all in the worker's list.        *)
LEMMA AllProduced ==
    ASSUME TypeOK, StreamInv, NEW r \in Requests, ~cancelled[r]
    PROVE  tokens[r] = Produced[r] /\ Len(tokens[r]) = emitted[r]
<1>1. /\ Len(tokens[r]) = emitted[r]
      /\ \A i \in 1 .. Len(tokens[r]) : tokens[r][i] = <<r, i>>
  BY DEF StreamInv, StreamOf
<1>2. tokens[r] \in Seq(Token) /\ Produced[r] \in Seq(Token)
      /\ Len(Produced[r]) = emitted[r]
  BY ProducedSeq DEF TypeOK
<1>3. \A i \in 1 .. Len(tokens[r]) : tokens[r][i] = Produced[r][i]
  BY <1>1, ProducedSeq
<1>4. tokens[r] = Produced[r]
  BY <1>1, <1>2, <1>3, SeqEqual
<1>5. QED
  BY <1>1, <1>4

(* The steps of the JSON handler.                                          *)
LEMMA JsonSimulates ==
    ASSUME TypeOK, KindInv, AnswerInv, AnswerInv', StreamInv, FutureMatchesVerdict,
           StatusInv, StatusInv', NEW r \in Requests,
           JsonAnswer(r) \/ JsonTimeout(r) \/ JsonCancelled(r)
    PROVE  Contract!Finish(r) \/ Contract!Break(r)
<1>1. /\ Status[r] = "open" /\ ~cancelled[r]
      /\ \A q \in Requests \ {r} : api'[q] = api[q] /\ answer'[q] = answer[q]
      /\ UNCHANGED Produced
  <2>1. api[r] = "waiting" /\ UNCHANGED emitted
    BY DEF JsonAnswer, JsonTimeout, JsonCancelled, JsonAbort
  <2>2. Status[r] = "open" /\ ~cancelled[r]
    BY <2>1 DEF StatusInv, AnswerInv
  <2>3. \A q \in Requests \ {r} : api'[q] = api[q] /\ answer'[q] = answer[q]
    BY DEF JsonAnswer, JsonTimeout, JsonCancelled, JsonAbort, TypeOK
  <2>4. UNCHANGED Produced
    BY <2>1 DEF Produced
  <2>5. QED
    BY <2>2, <2>3, <2>4
<1>2. CASE JsonAnswer(r) /\ future[r] = "result"
  <2>1. answer'[r] = "ok" /\ delivered' = [delivered EXCEPT ![r] = tokens[r]]
    BY <1>2 DEF JsonAnswer, TypeOK
  <2>2. Status' = [Status EXCEPT ![r] = "done"]
    BY <1>1, <2>1, StatusStep DEF StatusInv
  <2>3. delivered' = [delivered EXCEPT ![r] = Produced[r]]
    BY <1>1, <2>1, AllProduced
  <2>4. QED
    BY <1>1, <2>2, <2>3 DEF Contract!Finish
<1>3. CASE JsonAnswer(r) /\ future[r] # "result"
  <2>1. answer'[r] = "error" /\ UNCHANGED delivered
    BY <1>3 DEF JsonAnswer, TypeOK
  <2>2. Status' = [Status EXCEPT ![r] = "failed"]
    BY <1>1, <2>1, StatusStep DEF StatusInv
  <2>3. QED
    BY <1>1, <2>1, <2>2 DEF Contract!Break
<1>4. CASE JsonTimeout(r) \/ JsonCancelled(r)
  <2>1. api'[r] = "ended" /\ answer'[r] \in {"none", "timeout"} /\ UNCHANGED delivered
    BY <1>4 DEF JsonTimeout, JsonCancelled, JsonAbort, AnswerInv, TypeOK
  <2>2. Status' = [Status EXCEPT ![r] = "abandoned"]
    BY <1>1, <2>1, StatusStep DEF StatusInv
  <2>3. QED
    BY <1>1, <2>1, <2>2 DEF Contract!Break
<1>5. QED
  BY <1>2, <1>3, <1>4

(* The steps of the SSE generator.                                         *)
LEMMA StreamSimulates ==
    ASSUME TypeOK, KindInv, AnswerInv, AnswerInv', StreamInv, StatusInv, StatusInv',
           NEW r \in Requests,
           \/ StreamOpen(r) \/ StreamDropped(r) \/ StreamToken(r) \/ StreamTerminal(r)
           \/ StreamClose(r) \/ StreamDisconnect(r)
    PROVE  \/ Contract!Deliver(r) \/ Contract!Finish(r) \/ Contract!Break(r)
           \/ UNCHANGED Contract!vars
<1>1. /\ \A q \in Requests \ {r} : api'[q] = api[q] /\ answer'[q] = answer[q]
      /\ UNCHANGED emitted
  BY DEF StreamOpen, StreamDropped, StreamToken, StreamTerminal, StreamClose, StreamDisconnect,
         StreamFinally, TypeOK
<1>p. UNCHANGED Produced
  BY <1>1 DEF Produced
<1>s. Status = [Status EXCEPT ![r] = Status[r]]
  BY DEF Status
<1>2. CASE StreamOpen(r) \/ StreamClose(r)
  <2>1. /\ Status'[r] = Status[r] /\ UNCHANGED delivered
    <3>1. CASE StreamOpen(r)
      BY <3>1 DEF StreamOpen, StatusInv, TypeOK
    <3>2. CASE StreamClose(r)
      <4>1. api[r] = "closing" /\ UNCHANGED <<answer, delivered>>
        BY <3>2 DEF StreamClose, StreamFinally
      <4>2. answer[r] \in {"ok", "error"}
        BY <4>1 DEF AnswerInv
      <4>3. QED
        BY <4>1, <4>2 DEF StatusInv
    <3>3. QED
      BY <1>2, <3>1, <3>2
  <2>2. Status' = [Status EXCEPT ![r] = Status[r]]
    BY <1>1, <2>1, StatusStep
  <2>3. QED
    BY <1>p, <1>s, <2>1, <2>2 DEF Contract!vars
<1>3. CASE StreamDropped(r) \/ StreamDisconnect(r)
  <2>1. /\ api[r] \in {"opening", "streaming"} /\ api'[r] = "ended"
        /\ UNCHANGED <<answer, delivered>>
    BY <1>3 DEF StreamDropped, StreamDisconnect, StreamFinally, TypeOK
  <2>2. Status[r] = "open" /\ Status'[r] = "abandoned"
    BY <2>1 DEF StatusInv, AnswerInv
  <2>3. Status' = [Status EXCEPT ![r] = "abandoned"]
    BY <1>1, <2>2, StatusStep
  <2>4. QED
    BY <1>p, <2>1, <2>2, <2>3 DEF Contract!Break
<1>4. CASE StreamToken(r) \/ StreamTerminal(r)
  <2> DEFINE n == Len(tokens[r])
             d == Len(delivered[r])
  <2>1. /\ api[r] = "streaming" /\ events[r] # <<>> /\ r \in Streaming
    BY <1>4 DEF StreamToken, StreamTerminal, KindInv
  <2>2. /\ ~cancelled[r] /\ ~completed[r] /\ Status[r] = "open"
    BY <2>1 DEF AnswerInv, StatusInv
  <2>3. tokens[r] = Produced[r] /\ n = emitted[r]
    BY <2>2, AllProduced
  <2>4. /\ n \in Nat /\ d \in Nat /\ d <= n
        /\ \A i \in 1 .. n : tokens[r][i] = <<r, i>>
        /\ \A i \in 1 .. d : delivered[r][i] = <<r, i>>
        /\ Head(events[r]).type = "token" =>
             d < n /\ Head(events[r]).token = <<r, d + 1>>
        /\ Head(events[r]).type # "token" => d = n
    BY <2>1, <2>2, FrontOfStream
  <2>s. tokens[r] \in Seq(Token) /\ delivered[r] \in Seq(Token)
    BY DEF TypeOK
  <2>5. CASE StreamToken(r)
    <3> DEFINE t == Head(events[r]).token
               more == Append(delivered[r], t)
               part == SubSeq(Produced[r], 1, d + 1)
    <3>1. d < n /\ t = <<r, d + 1>> /\ delivered' = [delivered EXCEPT ![r] = more]
          /\ UNCHANGED <<api, answer>>
      BY <2>4, <2>5 DEF StreamToken
    <3>2. d + 1 \in 1 .. n /\ t \in Token
      <4>1. d + 1 \in 1 .. n
        BY <2>4, <3>1
      <4>2. tokens[r][d + 1] \in Token
        BY <2>s, <4>1
      <4>3. tokens[r][d + 1] = <<r, d + 1>>
        BY <2>4, <4>1
      <4>4. QED
        BY <3>1, <4>1, <4>2, <4>3
    <3>3. /\ more \in Seq(Token) /\ Len(more) = d + 1 /\ more[d + 1] = t
          /\ \A i \in 1 .. d : more[i] = delivered[r][i]
      BY <2>s, <3>2
    <3>4. /\ part \in Seq(Token) /\ Len(part) = d + 1
          /\ \A i \in 1 .. d + 1 : part[i] = tokens[r][i]
      BY <2>3, <2>4, <2>s, <3>2, SubSeqProperties
    <3> HIDE DEF n, d, t, more, part
    <3>5. ASSUME NEW i \in 1 .. d + 1 PROVE more[i] = part[i]
      <4>1. part[i] = <<r, i>>
        BY <2>4, <3>2, <3>4
      <4>2. more[i] = <<r, i>>
        BY <2>4, <3>1, <3>3
      <4>3. QED
        BY <4>1, <4>2
    <3>6. more = part
      BY <3>3, <3>4, <3>5, SeqEqual
    <3>7. delivered' = [delivered EXCEPT ![r] = SubSeq(Produced[r], 1, d + 1)]
      BY <3>1, <3>6 DEF part
    <3>8. Len(Produced[r]) = n
      BY <2>3 DEF n
    <3>9. d + 1 \in Len(delivered[r]) + 1 .. Len(Produced[r])
      BY <2>4, <3>2, <3>8 DEF d
    <3>10. UNCHANGED Status
      BY <3>1, StatusSame
    <3>11. QED
      BY <1>p, <2>2, <3>7, <3>9, <3>10 DEF Contract!Deliver
  <2>6. CASE StreamTerminal(r)
    <3>1. d = n /\ UNCHANGED delivered
      BY <2>4, <2>6 DEF StreamTerminal
    <3>2. CASE Head(events[r]).type = "completed"
      <4>1. answer'[r] = "ok"
        BY <2>6, <3>2 DEF StreamTerminal, TypeOK
      <4>2. Status' = [Status EXCEPT ![r] = "done"]
        BY <1>1, <4>1, StatusStep DEF StatusInv
      <4>3. \A i \in 1 .. Len(delivered[r]) : delivered[r][i] = tokens[r][i]
        BY <2>4, <3>1
      <4>4. delivered[r] = tokens[r]
        BY <2>s, <3>1, <4>3, SeqEqual
      <4>5. delivered' = [delivered EXCEPT ![r] = Produced[r]]
        BY <2>3, <3>1, <4>4 DEF TypeOK
      <4>6. QED
        BY <1>p, <2>2, <4>2, <4>5 DEF Contract!Finish
    <3>3. CASE Head(events[r]).type # "completed"
      <4>1. answer'[r] = "error"
        BY <2>6, <3>3 DEF StreamTerminal, TypeOK
      <4>2. Status' = [Status EXCEPT ![r] = "failed"]
        BY <1>1, <4>1, StatusStep DEF StatusInv
      <4>3. QED
        BY <1>p, <2>2, <3>1, <4>2 DEF Contract!Break
    <3>4. QED
      BY <3>2, <3>3
  <2>7. QED
    BY <1>4, <2>5, <2>6
<1>5. QED
  BY <1>2, <1>3, <1>4

(* A token of the backend: its request is open, or its client has left.    *)
LEMMA TokenSimulates ==
    ASSUME TypeOK, Ownership, AnswerInv, WorkInv, StatusInv, NEW w \in Workers,
           NEW r \in Requests, BackendToken(w, r)
    PROVE  Contract!Produce(r)
<1> DEFINE n == emitted[r]
           old == Produced[r]
           new == Append(old, <<r, n + 1>>)
<1>1. /\ emitted' = [emitted EXCEPT ![r] = n + 1] /\ n < MaxTokens
      /\ UNCHANGED <<api, answer, delivered>> /\ r \in open[w]
  BY DEF BackendToken
<1>2. Status[r] \in {"open", "abandoned"}
  <2>1. r \in pending[w] \/ cancelled[r]
    BY <1>1 DEF WorkInv
  <2>2. api[r] \notin NoHandler /\ answer[r] \notin {"ok", "error"}
    <3>1. CASE r \in pending[w]
      <4>1. r \in Accepted /\ verdict[r] = "none"
        BY <3>1 DEF Ownership, NoDuplicateWork, HeldBy
      <4>2. QED
        BY <4>1 DEF Accepted, AnswerInv
    <3>2. CASE cancelled[r]
      BY <3>2 DEF AnswerInv
    <3>3. QED
      BY <2>1, <3>1, <3>2
  <2>3. api[r] \in {"waiting", "opening", "streaming", "ended"} /\ answer[r] \in {"none", "timeout"}
    BY <2>2 DEF AnswerInv, TypeOK, HandlerLocs, NoHandler
  <2>4. QED
    BY <2>3 DEF StatusInv
<1>3. /\ old \in Seq(Token) /\ Len(old) = n /\ n \in 0 .. MaxTokens
      /\ \A i \in 1 .. n : old[i] = <<r, i>>
  BY ProducedSeq
<1>4. <<r, n + 1>> \in Token /\ n + 1 \in Nat
  BY <1>1, <1>3, RuntimeAssumption DEF Token
<1>5. /\ new \in Seq(Token) /\ Len(new) = n + 1 /\ new[n + 1] = <<r, n + 1>>
      /\ \A i \in 1 .. n : new[i] = old[i]
  BY <1>3, <1>4
<1>6. emitted'[r] = n + 1 /\ \A q \in Requests \ {r} : emitted'[q] = emitted[q]
  BY <1>1 DEF TypeOK
<1> HIDE DEF n, old, new
<1>7. new = [i \in 1 .. n + 1 |-> <<r, i>>]
  <2>1. new = [i \in 1 .. n + 1 |-> new[i]]
    BY <1>5
  <2>2. \A i \in 1 .. n + 1 : new[i] = <<r, i>>
    BY <1>3, <1>4, <1>5
  <2>3. QED
    BY <2>1, <2>2
<1>8. \A q \in Requests : Produced'[q] = IF q = r THEN new ELSE Produced[q]
  BY <1>6, <1>7 DEF Produced
<1>9. Produced' = [Produced EXCEPT ![r] = new]
  <2>1. /\ Produced = [q \in Requests |-> Produced[q]]
        /\ Produced' = [q \in Requests |-> Produced'[q]]
    BY DEF Produced
  <2>2. QED
    BY <1>8, <2>1
<1>10. Produced' = [Produced EXCEPT ![r] = Append(Produced[r], <<r, Len(Produced[r]) + 1>>)]
  BY <1>3, <1>9 DEF old, new
<1>11. Len(Produced[r]) < MaxTokens
  BY <1>1, <1>3 DEF old, n
<1>12. UNCHANGED Status
  BY <1>1, StatusSame
<1>13. QED
  BY <1>1, <1>2, <1>10, <1>11, <1>12 DEF Contract!Produce

(* A client receives a prefix of the tokens produced for its request, then *)
(* one outcome, and everything if the response ends well: from the events  *)
(* of the backend, through workers and handles, to routes.py and           *)
(* streaming.py, nothing else can happen.                                  *)
THEOREM ServingKeepsContract == Spec => ImplementsContract
<1>1. Init => Contract!Init
  BY DEF Init, Contract!Init, Status, StatusOf, Produced
<1>2. TypeOK /\ KindInv /\ Ownership /\ FutureMatchesVerdict /\ AnswerInv /\ AnswerInv'
        /\ WorkInv /\ StreamInv /\ StatusInv /\ StatusInv' /\ [Next]_vars
        => [Contract!Next]_(Contract!vars)
  <2> SUFFICES ASSUME TypeOK, KindInv, Ownership, FutureMatchesVerdict, AnswerInv, AnswerInv',
                      WorkInv, StreamInv, StatusInv, StatusInv', [Next]_vars
               PROVE  [Contract!Next]_(Contract!vars)
    OBVIOUS
  <2>1. CASE UNCHANGED <<api, answer, emitted, delivered>>
    BY <2>1, StatusSame DEF Contract!vars, Produced
  <2>2. ASSUME NEW r \in Requests, Accept(r) \/ Reject(r) PROVE Contract!Next
    <3>1. /\ api[r] = "idle" /\ UNCHANGED <<answer, emitted, delivered>>
          /\ \A q \in Requests \ {r} : api'[q] = api[q]
      BY <2>2 DEF Accept, Reject, TypeOK
    <3>2. Status[r] = "new" /\ UNCHANGED Produced
      BY <3>1 DEF StatusInv, Produced
    <3>3. CASE Accept(r)
      <4>1. api'[r] \in {"opening", "waiting"}
        BY <3>3 DEF Accept, TypeOK
      <4>2. Status' = [Status EXCEPT ![r] = "open"]
        BY <3>1, <4>1, StatusStep DEF StatusInv
      <4>3. QED
        BY <3>1, <3>2, <4>2 DEF Contract!Admit, Contract!Next
    <3>4. CASE Reject(r)
      <4>1. api'[r] = "rejected"
        BY <3>4 DEF Reject, TypeOK
      <4>2. Status' = [Status EXCEPT ![r] = "refused"]
        BY <3>1, <4>1, StatusStep DEF StatusInv
      <4>3. QED
        BY <3>1, <3>2, <4>2 DEF Contract!Refuse, Contract!Next
    <3>5. QED
      BY <2>2, <3>3, <3>4
  <2>3. ASSUME NEW r \in Requests, Handler(r) PROVE [Contract!Next]_(Contract!vars)
    <3>1. CASE Accept(r) \/ Reject(r)
      BY <2>2, <3>1
    <3>2. CASE JsonAnswer(r) \/ JsonTimeout(r) \/ JsonCancelled(r)
      BY <3>2, JsonSimulates DEF Contract!Next
    <3>3. CASE \/ StreamOpen(r) \/ StreamDropped(r) \/ StreamToken(r) \/ StreamTerminal(r)
               \/ StreamClose(r) \/ StreamDisconnect(r)
      BY <3>3, StreamSimulates DEF Contract!Next
    <3>4. QED
      BY <2>3, <3>1, <3>2, <3>3 DEF Handler
  <2>4. ASSUME NEW w \in Workers, NEW r \in Requests, BackendToken(w, r) PROVE Contract!Next
    BY <2>4, TokenSimulates DEF Contract!Next
  <2>5. CASE \/ \E w \in Workers : \/ Worker(w) \/ BackendReturn(w) \/ BackendRaise(w)
                                   \/ \E r \in Requests : BackendCompleted(w, r)
             \/ Stop \/ Start \/ UNCHANGED vars
    <3>1. UNCHANGED <<api, answer, emitted, delivered>>
      BY <2>5 DEF Worker, Collect, Deadline, BackendCompleted, BackendReturn, BackendRaise,
                  EndBatch, Stop, StopTasks, Start, vars
    <3>2. QED
      BY <2>1, <3>1
  <2>6. QED
    BY <2>3, <2>4, <2>5 DEF Next, BackendStep, Quiescent
<1>3. QED
  BY <1>1, <1>2, StatusByHandler, TypeCorrect, OwnershipInvariant, FuturesAgree,
     AnswersInvariant, PTL DEF Spec, Contract!Spec, ImplementsContract

-----------------------------------------------------------------------------
(* The contracts.                                                          *)

(* What the two abstract specifications promise follows from them alone,   *)
(* and so holds of whatever implements them.                               *)
ContractTyped ==
    /\ Status \in [Requests -> Contract!Statuses]
    /\ Produced \in [Requests -> Seq(Requests \X Nat)]
    /\ delivered \in [Requests -> Seq(Requests \X Nat)]

(* The first n tokens of request r.                                        *)
Stream(r, n) == [i \in 1 .. n |-> <<r, i>>]

(* A stream's type, its next token and its prefixes.                       *)
LEMMA StreamPieces ==
    ASSUME NEW r \in Requests, NEW n \in Nat, NEW s, s = Stream(r, n)
    PROVE  /\ s \in Seq(Requests \X Nat) /\ Len(s) = n
           /\ Append(s, <<r, n + 1>>) = Stream(r, n + 1)
           /\ \A d \in 0 .. n : SubSeq(s, 1, d) = Stream(r, d)
<1>1. s \in [1 .. n -> Requests \X Nat]
  BY DEF Stream
<1>2. s \in Seq(Requests \X Nat) /\ Len(s) = n
  BY <1>1
<1>3. Append(s, <<r, n + 1>>) = Stream(r, n + 1)
  <2>1. PICK t : t = Append(s, <<r, n + 1>>)
    OBVIOUS
  <2>2. /\ DOMAIN t = 1 .. n + 1 /\ t[n + 1] = <<r, n + 1>>
        /\ \A i \in 1 .. n : t[i] = s[i]
        /\ t = [i \in 1 .. n + 1 |-> t[i]]
    <3>1. <<r, n + 1>> \in Requests \X Nat
      OBVIOUS
    <3>2. t \in Seq(Requests \X Nat) /\ Len(t) = n + 1
      BY <1>2, <2>1, <3>1
    <3>3. QED
      BY <1>2, <2>1, <3>1, <3>2
  <2>3. \A i \in 1 .. n + 1 : t[i] = <<r, i>>
    <3>1. \A i \in 1 .. n + 1 : i \in 1 .. n \/ i = n + 1
      OBVIOUS
    <3>2. QED
      BY <2>2, <3>1 DEF Stream
  <2>4. QED
    BY <2>1, <2>2, <2>3 DEF Stream
<1>4. ASSUME NEW d \in 0 .. n PROVE SubSeq(s, 1, d) = Stream(r, d)
  <2>1. \A i \in 1 .. d : s[i] = <<r, i>>
    BY DEF Stream
  <2>2. SubSeq(s, 1, d) = [i \in 1 .. d |-> s[i]]
    <3>1. PICK t : t = SubSeq(s, 1, d)
      OBVIOUS
    <3>2. t \in Seq(Requests \X Nat) /\ Len(t) = d /\ \A i \in 1 .. d : t[i] = s[i]
      BY <1>2, <3>1, SubSeqProperties
    <3>3. QED
      BY <3>1, <3>2
  <2>3. QED
    BY <2>1, <2>2 DEF Stream
<1>5. QED
  BY <1>2, <1>3, <1>4

(* ServingContract: a client holds a prefix of the stream of its own       *)
(* request, all of it if the response ended well, and its outcome stays.   *)
OwnStream(r) ==
    \E n, d \in Nat :
        /\ d <= n
        /\ Produced[r] = Stream(r, n)
        /\ delivered[r] = Stream(r, d)
        /\ Status[r] = "done" => d = n

ContractInv ==
    /\ ContractTyped
    /\ \A r \in Requests : OwnStream(r)

(* Initially every stream is empty.                                        *)
LEMMA ContractStarts == Contract!Init => ContractInv
<1> SUFFICES ASSUME Contract!Init PROVE ContractInv
  OBVIOUS
<1>1. ContractTyped
  BY DEF Contract!Init, ContractTyped, Contract!Statuses
<1>2. ASSUME NEW r \in Requests PROVE OwnStream(r)
  <2>1. Stream(r, 0) = <<>>
    BY DEF Stream
  <2>2. 0 \in Nat /\ 0 <= 0
    OBVIOUS
  <2>3. Produced[r] = Stream(r, 0) /\ delivered[r] = Stream(r, 0)
    BY <2>1 DEF Contract!Init
  <2>4. QED
    BY <2>2, <2>3 DEF OwnStream
<1>3. QED
  BY <1>1, <1>2 DEF ContractInv

(* And every step of the contract keeps them prefixes of one stream.       *)
LEMMA ContractStep == ContractInv /\ [Contract!Next]_(Contract!vars) => ContractInv'
<1> SUFFICES ASSUME ContractInv, [Contract!Next]_(Contract!vars) PROVE ContractInv'
  OBVIOUS
<1>1. CASE UNCHANGED Contract!vars
  BY <1>1 DEF ContractInv, ContractTyped, OwnStream, Contract!vars
<1>2. ASSUME NEW r \in Requests,
             \/ Contract!Admit(r) \/ Contract!Refuse(r) \/ Contract!Produce(r)
             \/ Contract!Deliver(r) \/ Contract!Finish(r) \/ Contract!Break(r)
      PROVE  ContractInv'
  <2>1. ContractTyped
    BY DEF ContractInv
  <2>2. PICK n \in Nat, d \in Nat :
           /\ d <= n
           /\ Produced[r] = Stream(r, n) /\ delivered[r] = Stream(r, d)
           /\ Status[r] = "done" => d = n
    BY DEF ContractInv, OwnStream
  <2>3. \A k \in Nat : Stream(r, k) \in Seq(Requests \X Nat)
    BY StreamPieces
  <2>4. \E m \in Nat, e \in Nat, st \in Contract!Statuses :
           /\ e <= m
           /\ Produced' = [Produced EXCEPT ![r] = Stream(r, m)]
           /\ delivered' = [delivered EXCEPT ![r] = Stream(r, e)]
           /\ Status' = [Status EXCEPT ![r] = st]
           /\ st = "done" => e = m
    <3>1. /\ Produced = [Produced EXCEPT ![r] = Stream(r, n)]
          /\ delivered = [delivered EXCEPT ![r] = Stream(r, d)]
          /\ Status = [Status EXCEPT ![r] = Status[r]]
          /\ Status[r] \in Contract!Statuses /\ d <= n /\ d \in Nat /\ n \in Nat
      BY <2>1, <2>2 DEF ContractTyped
    <3>2. CASE Contract!Admit(r) \/ Contract!Refuse(r) \/ Contract!Break(r)
      <4>1. \E st \in Contract!Statuses \ {"done"} : Status' = [Status EXCEPT ![r] = st]
        BY <3>2 DEF Contract!Admit, Contract!Refuse, Contract!Break, Contract!Statuses
      <4>2. UNCHANGED <<Produced, delivered>>
        BY <3>2 DEF Contract!Admit, Contract!Refuse, Contract!Break
      <4>3. QED
        BY <2>2, <3>1, <4>1, <4>2
    <3>3. CASE Contract!Produce(r)
      <4>1. Len(Produced[r]) = n /\ Append(Produced[r], <<r, n + 1>>) = Stream(r, n + 1)
        BY <2>2, StreamPieces
      <4>2. /\ Produced' = [Produced EXCEPT ![r] = Stream(r, n + 1)]
            /\ UNCHANGED <<Status, delivered>> /\ Status[r] # "done"
        BY <3>3, <4>1 DEF Contract!Produce
      <4>3. n + 1 \in Nat /\ d <= n + 1
        BY <2>2
      <4>4. QED
        BY <3>1, <4>2, <4>3
    <3>4. CASE Contract!Deliver(r)
      <4>1. Len(Produced[r]) = n /\ Len(delivered[r]) = d
        BY <2>2, StreamPieces
      <4>2. PICK e \in d + 1 .. n : delivered' = [delivered EXCEPT ![r] = SubSeq(Produced[r], 1, e)]
        BY <3>4, <4>1 DEF Contract!Deliver
      <4>3. e \in 0 .. n /\ e \in Nat /\ e <= n
        BY <2>2
      <4>4. SubSeq(Produced[r], 1, e) = Stream(r, e)
        BY <2>2, <4>3, StreamPieces
      <4>5. UNCHANGED <<Status, Produced>> /\ Status[r] # "done"
        BY <3>4 DEF Contract!Deliver
      <4>6. QED
        BY <3>1, <4>2, <4>3, <4>4, <4>5
    <3>5. CASE Contract!Finish(r)
      <4>1. /\ delivered' = [delivered EXCEPT ![r] = Stream(r, n)] /\ UNCHANGED Produced
            /\ Status' = [Status EXCEPT ![r] = "done"] /\ "done" \in Contract!Statuses
        BY <2>2, <3>5 DEF Contract!Finish, Contract!Statuses
      <4>2. n <= n
        OBVIOUS
      <4>3. QED
        BY <3>1, <4>1, <4>2
    <3>6. QED
      BY <1>2, <3>2, <3>3, <3>4, <3>5
  <2>5. PICK m \in Nat, e \in Nat, st \in Contract!Statuses :
           /\ e <= m
           /\ Produced' = [Produced EXCEPT ![r] = Stream(r, m)]
           /\ delivered' = [delivered EXCEPT ![r] = Stream(r, e)]
           /\ Status' = [Status EXCEPT ![r] = st]
           /\ st = "done" => e = m
    BY <2>4
  <2>6. ContractTyped'
    <3>1. Stream(r, m) \in Seq(Requests \X Nat) /\ Stream(r, e) \in Seq(Requests \X Nat)
      BY <2>3
    <3>2. QED
      BY <2>1, <2>5, <3>1 DEF ContractTyped
  <2>7. ASSUME NEW q \in Requests PROVE OwnStream(q)'
    <3>1. CASE q = r
      <4>1. Produced'[q] = Stream(q, m) /\ delivered'[q] = Stream(q, e) /\ Status'[q] = st
        BY <2>1, <2>5, <3>1 DEF ContractTyped
      <4>2. QED
        BY <2>5, <4>1 DEF OwnStream, Stream
    <3>2. CASE q # r
      <4>1. /\ Produced'[q] = Produced[q] /\ delivered'[q] = delivered[q]
            /\ Status'[q] = Status[q]
        BY <2>1, <2>5, <3>2 DEF ContractTyped
      <4>2. QED
        BY <4>1 DEF ContractInv, OwnStream, Stream
    <3>3. QED
      BY <3>1, <3>2
  <2>8. QED
    BY <2>6, <2>7 DEF ContractInv
<1>3. QED
  BY <1>1, <1>2 DEF Contract!Next

(* What ServingContract lets a client rely on: it only ever holds a prefix *)
(* of its own stream, and its outcome stays once it has one.               *)
THEOREM ContractPromises == Contract!Spec => []Contract!OwnPrefix /\ Contract!OutcomeIsFinal
<1>1. ContractInv => Contract!OwnPrefix
  <2> SUFFICES ASSUME ContractInv, NEW r \in Requests
               PROVE  LET n == Len(Produced[r])
                          d == Len(delivered[r])
                      IN  /\ Produced[r] = [i \in 1 .. n |-> <<r, i>>]
                          /\ d <= n /\ delivered[r] = [i \in 1 .. d |-> <<r, i>>]
                          /\ Status[r] = "done" => d = n
    BY DEF Contract!OwnPrefix
  <2>1. PICK n \in Nat, d \in Nat :
           /\ d <= n
           /\ Produced[r] = Stream(r, n) /\ delivered[r] = Stream(r, d)
           /\ Status[r] = "done" => d = n
    BY DEF ContractInv, OwnStream
  <2>2. Len(Produced[r]) = n /\ Len(delivered[r]) = d
    BY <2>1, StreamPieces
  <2>3. QED
    BY <2>1, <2>2 DEF Stream
<1>2. ContractTyped /\ [Contract!Next]_(Contract!vars) =>
        [\A r \in Requests : Status[r] \notin {"new", "open"} =>
            Status'[r] = Status[r] /\ delivered'[r] = delivered[r]]_(Contract!vars)
  <2> SUFFICES ASSUME ContractTyped, NEW q \in Requests,
                      \/ Contract!Admit(q) \/ Contract!Refuse(q) \/ Contract!Produce(q)
                      \/ Contract!Deliver(q) \/ Contract!Finish(q) \/ Contract!Break(q),
                      NEW r \in Requests, Status[r] \notin {"new", "open"}
               PROVE  Status'[r] = Status[r] /\ delivered'[r] = delivered[r]
    BY DEF Contract!Next
  <2>1. Contract!Produce(q) => UNCHANGED <<Status, delivered>>
    BY DEF Contract!Produce
  <2>2. ASSUME ~Contract!Produce(q) PROVE Status[q] \in {"new", "open"}
    BY <2>2 DEF Contract!Admit, Contract!Refuse, Contract!Deliver, Contract!Finish,
                Contract!Break
  <2>3. ASSUME q # r PROVE Status'[r] = Status[r] /\ delivered'[r] = delivered[r]
    BY <2>3 DEF ContractTyped, Contract!Admit, Contract!Refuse, Contract!Produce,
                Contract!Deliver, Contract!Finish, Contract!Break
  <2>4. QED
    BY <2>1, <2>2, <2>3
<1>3. Contract!Spec => []ContractInv
  BY ContractStarts, ContractStep, PTL DEF Contract!Spec
<1>4. ContractInv => ContractTyped
  BY DEF ContractInv
<1>5. QED
  BY <1>1, <1>2, <1>3, <1>4, PTL DEF Contract!Spec, Contract!OutcomeIsFinal

(* Therefore every client of the serving path may rely on it.              *)
THEOREM ClientsMayRely == Spec => []Contract!OwnPrefix /\ Contract!OutcomeIsFinal
BY ServingKeepsContract, ContractPromises DEF ImplementsContract

(* SchedulerContract: whatever order a scheduler follows, a request leaves *)
(* its queue to one worker, for good, and batches being collected share    *)
(* none and are not too big.                                               *)
THEOREM SchedulerPromises == Scheduler!Spec => []Scheduler!TakenOnce /\ Scheduler!LeavesToWorker
<1> DEFINE Typed == Collecting \in [Workers -> SUBSET Requests] /\ Waiting \subseteq Requests
<1>1. Scheduler!Cardinality({}) = 0
  BY FS_EmptySet, Zenon DEF Scheduler!Cardinality, Cardinality
<1>2. 0 <= MaxBatchSize
  BY RuntimeAssumption
<1>3. Scheduler!Init => Typed /\ Scheduler!TakenOnce
  BY <1>1, <1>2 DEF Scheduler!Init, Scheduler!TakenOnce
<1>4. Typed /\ Scheduler!TakenOnce /\ [Scheduler!Next]_(Scheduler!vars)
        => Typed' /\ Scheduler!TakenOnce'
  <2> SUFFICES ASSUME Typed, Scheduler!TakenOnce, [Scheduler!Next]_(Scheduler!vars)
               PROVE  Typed' /\ Scheduler!TakenOnce'
    OBVIOUS
  <2>1. /\ Waiting \cap taken = {}
        /\ \A v \in Workers : Collecting[v] \subseteq taken
        /\ \A v \in Workers : Scheduler!Cardinality(Collecting[v]) <= MaxBatchSize
        /\ \A u, v \in Workers : u # v => Collecting[u] \cap Collecting[v] = {}
    BY DEF Scheduler!TakenOnce
  <2>2. CASE UNCHANGED Scheduler!vars
    BY <2>2 DEF Scheduler!TakenOnce, Scheduler!vars
  <2>3. CASE \E r \in Requests : Scheduler!Submit(r)
    BY <2>3 DEF Scheduler!TakenOnce, Scheduler!Submit
  <2>4. ASSUME NEW w \in Workers, NEW S \in SUBSET Waiting, Scheduler!Take(w, S)
        PROVE  Typed' /\ Scheduler!TakenOnce'
    <3>1. PICK c \in {{}, Collecting[w] \cup S} : Collecting' = [Collecting EXCEPT ![w] = c]
      BY <2>4 DEF Scheduler!Take
    <3>2. Waiting' = Waiting \ S /\ taken' = taken \cup S
      BY <2>4 DEF Scheduler!Take
    <3>3. Scheduler!Cardinality(c) <= MaxBatchSize
      BY <1>1, <1>2, <2>4, <3>1 DEF Scheduler!Take
    <3>4. \A v \in Workers : Collecting'[v] = IF v = w THEN c ELSE Collecting[v]
      BY <3>1
    <3>5. Typed'
      BY <3>1, <3>2
    <3>6. /\ Waiting' \cap taken' = {}
          /\ \A v \in Workers : Collecting'[v] \subseteq taken'
      BY <2>1, <3>1, <3>2, <3>4
    <3>7. \A v \in Workers : Scheduler!Cardinality(Collecting'[v]) <= MaxBatchSize
      BY <2>1, <3>3, <3>4
    <3>8. \A u, v \in Workers : u # v => Collecting'[u] \cap Collecting'[v] = {}
      <4>1. \A v \in Workers \ {w} : c \cap Collecting[v] = {}
        BY <2>1, <3>1
      <4>2. QED
        BY <2>1, <3>4, <4>1
    <3>9. QED
      BY <3>5, <3>6, <3>7, <3>8 DEF Scheduler!TakenOnce
  <2>5. CASE (\E w \in Workers : Scheduler!HandOver(w)) \/ Scheduler!Cancel
    <3>1. UNCHANGED <<Waiting, taken>>
      BY <2>5 DEF Scheduler!HandOver, Scheduler!Cancel
    <3>2. /\ Collecting' \in [Workers -> SUBSET Requests]
          /\ \A v \in Workers : Collecting'[v] = {} \/ Collecting'[v] = Collecting[v]
      BY <2>5 DEF Scheduler!HandOver, Scheduler!Cancel
    <3>3. \A v \in Workers : Scheduler!Cardinality(Collecting'[v]) <= MaxBatchSize
      BY <1>1, <1>2, <2>1, <3>2
    <3>4. /\ \A v \in Workers : Collecting'[v] \subseteq taken
          /\ \A u, v \in Workers : u # v => Collecting'[u] \cap Collecting'[v] = {}
      BY <2>1, <3>2
    <3>5. QED
      BY <2>1, <3>1, <3>2, <3>3, <3>4 DEF Scheduler!TakenOnce
  <2>6. QED
    BY <2>2, <2>3, <2>4, <2>5 DEF Scheduler!Next
<1>5. Scheduler!TakenOnce /\ [Scheduler!Next]_(Scheduler!vars)
        => [ /\ Waiting \ Waiting' = taken' \ taken
             /\ taken \subseteq taken']_(Scheduler!vars)
  <2> SUFFICES ASSUME Scheduler!TakenOnce, Scheduler!Next
               PROVE  Waiting \ Waiting' = taken' \ taken /\ taken \subseteq taken'
    OBVIOUS
  <2>1. ASSUME NEW w \in Workers, NEW S \in SUBSET Waiting, Scheduler!Take(w, S)
        PROVE  Waiting \ Waiting' = taken' \ taken /\ taken \subseteq taken'
    <3>1. Waiting \cap taken = {}
      BY DEF Scheduler!TakenOnce
    <3>2. Waiting' = Waiting \ S /\ taken' = taken \cup S
      BY <2>1 DEF Scheduler!Take
    <3>3. QED
      BY <3>1, <3>2
  <2>2. QED
    BY <2>1 DEF Scheduler!Next, Scheduler!Submit, Scheduler!HandOver, Scheduler!Cancel
<1>6. QED
  BY <1>3, <1>4, <1>5, PTL DEF Scheduler!Spec, Scheduler!LeavesToWorker

(* Which therefore holds of the queue of the serving path.                 *)
THEOREM WorkersMayRely == Spec => []Scheduler!TakenOnce /\ Scheduler!LeavesToWorker
BY ServingUsesScheduler, SchedulerPromises DEF ImplementsScheduler
=============================================================================
