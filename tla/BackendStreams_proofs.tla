------------------------ MODULE BackendStreams_proofs ------------------------
(***************************************************************************)
(* Theorems about the shipped backends, for all requests, workers, batch   *)
(* sizes and token limits.  A runtime with one of them is a ServingRuntime *)
(* with some backend, so every theorem about Spec holds of it too.         *)
(***************************************************************************)
EXTENDS BackendStreams, ServingAnswers_proofs

USE DEF handlerVars, channelVars, workerVars, backendVars, managerVars

-----------------------------------------------------------------------------
(* A step of a shipped generate_batch is one ServingRuntime allows.        *)
LEMMA GenerateIsBackend == ASSUME NEW w \in Workers, Generate(w) PROVE BackendStep(w)
BY DEF Generate, GenerateSerial, GenerateMock, SerialToken, SerialCompleted, SerialRaise,
       MockToken, MockCompleted, BackendStep

(* The shipped backends do what ServingRuntime lets a backend do.          *)
THEOREM StreamsServe == StreamsSpec => Spec
<1>1. StreamsInit => Init
  BY DEF StreamsInit
<1>2. [StreamsNext]_allVars => [Next]_vars
  <2>1. ASSUME NEW w \in Workers, Schedule(w) PROVE Next
    BY <2>1 DEF Schedule, Next
  <2>2. ASSUME NEW w \in Workers, Generate(w) PROVE Next
    BY <2>2, GenerateIsBackend DEF Next
  <2>3. CASE UNCHANGED allVars
    BY <2>3 DEF allVars
  <2>4. QED
    BY <2>1, <2>2, <2>3 DEF StreamsNext, Next
<1>3. QED
  BY <1>1, <1>2, PTL DEF StreamsSpec, Spec

-----------------------------------------------------------------------------
(* The batch that the backend works on.                                    *)

(* Between two batches the backend has nothing to complete.                *)
OpenInv == \A w \in Workers : phase[w] # "executing" => open[w] = {}

(* No step leaves anything open between two batches.                       *)
LEMMA OpenStep == TypeOK /\ OpenInv /\ [Next]_vars => OpenInv'
<1> SUFFICES ASSUME TypeOK, OpenInv, [Next]_vars PROVE OpenInv'
  OBVIOUS
<1>1. ASSUME NEW w \in Workers, NEW items, StartBatch(w, items) PROVE OpenInv'
  BY <1>1 DEF StartBatch, OpenInv, TypeOK
<1>2. ASSUME NEW w \in Workers, Collect(w) PROVE OpenInv'
  <2>1. \/ \E items : StartBatch(w, items)
        \/ phase' = [phase EXCEPT ![w] = "collecting"] /\ UNCHANGED open
    BY <1>2 DEF Collect
  <2>2. phase[w] \in {"idle", "collecting"}
    BY <1>2 DEF Collect
  <2>3. CASE phase' = [phase EXCEPT ![w] = "collecting"] /\ UNCHANGED open
    BY <2>2, <2>3 DEF OpenInv, TypeOK
  <2>4. QED
    BY <1>1, <2>1, <2>3
<1>3. ASSUME NEW w \in Workers, Deadline(w) PROVE OpenInv'
  BY <1>1, <1>3 DEF Deadline
<1>4. ASSUME NEW w \in Workers, NEW r \in Requests, BackendCompleted(w, r) PROVE OpenInv'
  BY <1>4 DEF BackendCompleted, OpenInv, TypeOK
<1>5. ASSUME NEW w \in Workers, EndBatch(w) PROVE OpenInv'
  BY <1>5 DEF EndBatch, OpenInv, TypeOK
<1>6. CASE Stop
  BY <1>6 DEF Stop, StopTasks, OpenInv
<1>7. CASE UNCHANGED <<phase, open>>
  BY <1>7 DEF OpenInv
<1>8. ASSUME NEW w \in Workers, NEW r \in Requests, BackendToken(w, r)
      PROVE  UNCHANGED <<phase, open>>
  BY <1>8 DEF BackendToken
<1>9. ASSUME NEW r \in Requests, Handler(r) PROVE UNCHANGED <<phase, open>>
  BY <1>9 DEF Handler, Accept, Reject, JsonAnswer, JsonTimeout, JsonCancelled, JsonAbort,
              StreamOpen, StreamDropped, StreamToken, StreamTerminal, StreamClose,
              StreamDisconnect, StreamFinally
<1>10. QED
  BY <1>2, <1>3, <1>4, <1>5, <1>6, <1>7, <1>8, <1>9
     DEF Next, Worker, BackendStep, BackendReturn, BackendRaise, Start, Quiescent, vars

(* OpenInv, with what it rests on, in every state.                         *)
LEMMA OpenInvariant == StreamsSpec => [](TypeOK /\ Ownership /\ OpenInv)
<1>1. Init => OpenInv
  BY DEF Init, OpenInv
<1>2. QED
  BY <1>1, StreamsServe, TypeCorrect, OwnershipInvariant, OpenStep, PTL DEF Spec

(* The list of a batch names each of its requests once.                    *)
LEMMA ListOfSet ==
    ASSUME NEW S \in SUBSET Requests, NEW s \in SetToSeqs(S)
    PROVE  s \in Seq(Requests) /\ IsInjective(s) /\ ToSet(s) = S
<1> DEFINE D == 1 .. Cardinality(S)
<1>1. Cardinality(S) \in Nat /\ IsFiniteSet(S)
  BY CardinalityIsNat
<1>2. s \in [D -> S] /\ \A i, j \in D : i # j => s[i] # s[j]
  BY DEF SetToSeqs
<1>3. IsInjective(s) /\ DOMAIN s = D
  BY <1>2 DEF IsInjective
<1>4. s \in Injection(D, S)
  BY <1>2, <1>3 DEF Injection
<1>5. IsFiniteSet(D) /\ Cardinality(D) = Cardinality(S)
  BY <1>1, FS_Interval
<1>6. s \in Surjection(D, S)
  BY <1>1, <1>4, <1>5, FS_Injection
<1>7. ToSet(s) = S
  BY <1>2, <1>3, <1>6 DEF Surjection, ToSet
<1>8. s \in Seq(Requests)
  <2>1. s \in [D -> Requests]
    BY <1>2
  <2>2. QED
    BY <1>1, <2>1
<1>9. QED
  BY <1>3, <1>7, <1>8

(* Therefore the runtime keeps its contracts with the shipped backends.    *)
THEOREM StreamsKeepContracts == StreamsSpec => ImplementsContract /\ ImplementsScheduler
BY StreamsServe, ServingKeepsContract, ServingUsesScheduler

(* What the backend has still to complete is in the list it was called     *)
(* with: generate_batch cannot complete a request of another batch.        *)
THEOREM StreamsTyped == StreamsSpec => []StreamsTypeOK
<1>1. StreamsInit => StreamsTypeOK
  <2> SUFFICES ASSUME StreamsInit PROVE StreamsTypeOK
    OBVIOUS
  <2>1. \A w \in Workers : open[w] = {} /\ order[w] = <<>>
    BY DEF StreamsInit, Init
  <2>2. QED
    BY <2>1, EmptySeqMembers DEF StreamsInit, StreamsTypeOK
<1>2. StreamsTypeOK /\ TypeOK /\ TypeOK' /\ OpenInv' /\ [StreamsNext]_allVars => StreamsTypeOK'
  <2> SUFFICES ASSUME StreamsTypeOK, TypeOK, TypeOK', OpenInv', [StreamsNext]_allVars
               PROVE  StreamsTypeOK'
    OBVIOUS
  <2>1. ASSUME NEW w \in Workers, NEW s \in Seq(Requests), IsInjective(s),
               order' = [order EXCEPT ![w] = s], UNCHANGED kind, open'[w] \subseteq ToSet(s),
               \A v \in Workers \ {w} : open'[v] = open[v]
        PROVE  StreamsTypeOK'
    <3>1. \A v \in Workers : order'[v] = IF v = w THEN s ELSE order[v]
      BY <2>1 DEF StreamsTypeOK
    <3>2. order' \in [Workers -> Seq(Requests)]
      BY <2>1 DEF StreamsTypeOK
    <3>3. QED
      BY <2>1, <3>1, <3>2 DEF StreamsTypeOK
  <2>2. ASSUME NEW w \in Workers, Schedule(w) PROVE StreamsTypeOK'
    <3>1. PICK s \in SetToSeqs(open'[w]) : order' = [order EXCEPT ![w] = s]
      BY <2>2 DEF Schedule
    <3>2. open'[w] \in SUBSET Requests
      BY DEF TypeOK
    <3>3. s \in Seq(Requests) /\ IsInjective(s) /\ ToSet(s) = open'[w]
      BY <3>1, <3>2, ListOfSet
    <3>4. \A v \in Workers \ {w} : open'[v] = open[v]
      <4>1. UNCHANGED open \/ \E items : StartBatch(w, items)
        BY <2>2 DEF Schedule, Worker, Collect, Deadline
      <4>2. QED
        BY <4>1 DEF StartBatch, TypeOK
    <3>5. UNCHANGED kind
      BY <2>2 DEF Schedule
    <3>6. QED
      BY <2>1, <3>1, <3>3, <3>4, <3>5
  <2>3. ASSUME NEW w \in Workers, Generate(w) PROVE StreamsTypeOK'
    <3>1. /\ open'[w] \subseteq open[w] /\ \A v \in Workers \ {w} : open'[v] = open[v]
      <4>1. \/ UNCHANGED open
            \/ \E r \in Requests : open' = [open EXCEPT ![w] = open[w] \ {r}]
            \/ open' = [open EXCEPT ![w] = {}]
        BY <2>3, GenerateIsBackend DEF BackendStep, BackendToken, BackendCompleted,
           BackendReturn, BackendRaise, EndBatch
      <4>2. QED
        BY <4>1 DEF TypeOK
    <3>2. UNCHANGED kind
      BY <2>3 DEF Generate
    <3>3. CASE phase'[w] = "executing"
      <4>1. order' = [order EXCEPT ![w] = order[w]]
        BY <2>3, <3>3 DEF Generate
      <4>2. order[w] \in Seq(Requests) /\ IsInjective(order[w]) /\ open[w] \subseteq ToSet(order[w])
        BY DEF StreamsTypeOK
      <4>3. QED
        BY <2>1, <3>1, <3>2, <4>1, <4>2
    <3>4. CASE phase'[w] # "executing"
      <4>1. order' = [order EXCEPT ![w] = <<>>]
        BY <2>3, <3>4 DEF Generate
      <4>2. open'[w] = {}
        BY <3>4 DEF OpenInv
      <4>3. <<>> \in Seq(Requests) /\ IsInjective(<<>>)
        BY EmptySeqMembers
      <4>4. QED
        BY <2>1, <3>1, <3>2, <4>1, <4>2, <4>3
    <3>5. QED
      BY <3>3, <3>4
  <2>4. CASE Stop /\ order' = [w \in Workers |-> <<>>] /\ UNCHANGED kind
    <3>1. \A w \in Workers : open'[w] = {} /\ order'[w] = <<>>
      BY <2>4 DEF Stop, StopTasks
    <3>2. order' \in [Workers -> Seq(Requests)]
      BY <2>4
    <3>3. QED
      BY <2>4, <3>1, <3>2, EmptySeqMembers DEF StreamsTypeOK
  <2>5. CASE UNCHANGED <<kind, order, open>>
    BY <2>5 DEF StreamsTypeOK
  <2>6. CASE /\ (\E r \in Requests : Handler(r)) \/ Start \/ Quiescent
             /\ UNCHANGED <<kind, order>>
    <3>1. UNCHANGED open
      BY <2>6 DEF Handler, Accept, Reject, JsonAnswer, JsonTimeout, JsonCancelled, JsonAbort,
                  StreamOpen, StreamDropped, StreamToken, StreamTerminal, StreamClose,
                  StreamDisconnect, StreamFinally, Start, Quiescent, vars
    <3>2. QED
      BY <2>5, <2>6, <3>1
  <2>7. QED
    BY <2>2, <2>3, <2>4, <2>5, <2>6 DEF StreamsNext, allVars, vars
<1>3. QED
  BY <1>1, <1>2, OpenInvariant, PTL DEF StreamsSpec

-----------------------------------------------------------------------------
(* What the shipped backends promise about a good response.                *)

(* A step makes a request succeed only by its own BatchCompleted.          *)
LEMMA SuccessStep ==
    ASSUME TypeOK, Ownership, WorkInv, OpenInv, [StreamsNext]_allVars,
           NEW r \in Requests, verdict[r] = "none", verdict'[r] = "success"
    PROVE  \E w \in Workers :
             /\ r \in Live(pending[w]) /\ UNCHANGED tokens
             /\ r \in open[w] /\ open'[w] = open[w] \ {r} /\ phase'[w] = "executing"
             /\ kind = "mock" => Due(r)
<1>1. ASSUME NEW w \in Workers, Generate(w)
      PROVE  \E v \in Workers :
               /\ r \in Live(pending[v]) /\ UNCHANGED tokens
               /\ r \in open[v] /\ open'[v] = open[v] \ {r} /\ phase'[v] = "executing"
               /\ kind = "mock" => Due(r)
  <2>1. ASSUME NEW q \in Requests, BackendCompleted(w, q), kind = "mock" => Due(q)
        PROVE  /\ r \in Live(pending[w]) /\ UNCHANGED tokens
               /\ r \in open[w] /\ open'[w] = open[w] \ {r} /\ phase'[w] = "executing"
               /\ kind = "mock" => Due(r)
    <3>1. r \in Live(pending[w] \cap {q})
      BY <2>1 DEF BackendCompleted, CompleteItems
    <3>2. r = q /\ r \in Live(pending[w])
      BY <3>1 DEF Live
    <3>3. /\ q \in open[w] /\ open' = [open EXCEPT ![w] = open[w] \ {q}]
          /\ UNCHANGED <<phase, tokens>>
      BY <2>1 DEF BackendCompleted
    <3>4. phase[w] = "executing"
      BY <3>3 DEF OpenInv
    <3>5. QED
      BY <2>1, <3>2, <3>3, <3>4 DEF TypeOK
  <2>2. ASSUME BackendReturn(w), open[w] = {} PROVE FALSE
    <3>1. Live(pending[w]) = {}
      BY <2>2 DEF WorkInv, Live
    <3>2. QED
      BY <2>2, <3>1 DEF BackendReturn, CompleteItems
  <2>3. ASSUME BackendRaise(w) PROVE FALSE
    BY <2>3 DEF BackendRaise, FailItems
  <2>4. ASSUME NEW q \in Requests, BackendToken(w, q) PROVE FALSE
    BY <2>4 DEF BackendToken
  <2>5. QED
    BY <1>1, <2>1, <2>2, <2>3, <2>4
       DEF Generate, GenerateSerial, GenerateMock, SerialToken, SerialCompleted, SerialRaise,
           MockToken, MockCompleted, Exhausted
<1>2. ASSUME NEW w \in Workers, Schedule(w) PROVE FALSE
  BY <1>2 DEF Schedule, Worker, Collect, Deadline
<1>3. ASSUME NEW q \in Requests, Handler(q) PROVE FALSE
  BY <1>3, HandlerLeavesWork
<1>4. ASSUME Stop \/ Start \/ UNCHANGED vars PROVE FALSE
  BY <1>4 DEF Stop, StopTasks, Start, vars
<1>5. QED
  BY <1>1, <1>2, <1>3, <1>4 DEF StreamsNext, Quiescent, allVars

(* The loop after `async for` in _execute_batch has nothing to complete: a *)
(* stream that was cut short raises, and is reported as an error.          *)
THEOREM SuccessAnnounced == StreamsSpec => SuccessIsAnnounced
<1>1. TypeOK /\ Ownership /\ WorkInv /\ OpenInv /\ [StreamsNext]_allVars =>
        [\A r \in Requests : verdict[r] = "none" /\ verdict'[r] = "success" =>
            \E w \in Workers : /\ r \in open[w] /\ open'[w] = open[w] \ {r}
                               /\ phase'[w] = "executing"]_allVars
  BY SuccessStep
<1>2. QED
  BY <1>1, OpenInvariant, StreamsServe, AnswersInvariant, PTL
     DEF StreamsSpec, SuccessIsAnnounced

(* A response of the mock backend that ends well has max_tokens tokens,    *)
(* whatever the other requests of its batch and their clients do.          *)
THEOREM MockServes == StreamsSpec => []MockServesAll
<1>1. StreamsInit => MockServesAll
  BY DEF StreamsInit, Init, MockServesAll
<1>2. TypeOK /\ Ownership /\ WorkInv /\ StreamInv /\ OpenInv /\ MockServesAll
        /\ [Next]_vars /\ [StreamsNext]_allVars => MockServesAll'
  <2> SUFFICES ASSUME TypeOK, Ownership, WorkInv, StreamInv, OpenInv, MockServesAll,
                      [Next]_vars, [StreamsNext]_allVars, kind' = "mock",
                      NEW r \in Requests, verdict'[r] = "success"
               PROVE  Len(tokens'[r]) = Wanted[r]
    BY DEF MockServesAll
  <2>1. kind = "mock"
    BY DEF StreamsNext, Schedule, Generate, allVars
  <2>2. CASE verdict[r] = "none"
    <3>1. ~cancelled[r] /\ UNCHANGED tokens /\ Due(r)
      BY <2>1, <2>2, SuccessStep DEF Live
    <3>2. Len(tokens[r]) = emitted[r]
      BY <3>1 DEF StreamInv, StreamOf
    <3>3. QED
      BY <3>1, <3>2 DEF Due
  <2>3. CASE verdict[r] # "none"
    BY <2>1, <2>3, SettledStays DEF MockServesAll
  <2>4. QED
    BY <2>2, <2>3
<1>3. QED
  BY <1>1, <1>2, OpenInvariant, StreamsServe, AnswersInvariant, PTL DEF StreamsSpec, Spec

-----------------------------------------------------------------------------
(* The lock step of a batch.                                               *)

(* The requests that no worker has given to a backend yet.                 *)
Ahead == {r \in Requests : \/ r \notin Accepted \/ r \in ToSet(queue)
                           \/ \E v \in Workers : r \in ToSet(batch[v])}

(* They have no tokens, and those at a backend are at one only: even a     *)
(* cancelled request, which its worker has dropped, is there once.         *)
ApartInv ==
    /\ \A r \in Ahead : emitted[r] = 0
    /\ \A w \in Workers : /\ open[w] \cap Ahead = {}
                          /\ \A v \in Workers \ {w} : open[w] \cap open[v] = {}

(* next_batch takes requests that are queued, or that it holds.            *)
LEMMA CollectsFromQueue ==
    ASSUME TypeOK, Ownership, NEW w \in Workers, Collect(w)
    PROVE  /\ ToSet(queue') \subseteq ToSet(queue)
           /\ \E items : /\ ToSet(items) \subseteq ToSet(batch[w]) \cup ToSet(queue)
                         /\ \/ StartBatch(w, items)
                            \/ /\ batch' = [batch EXCEPT ![w] = items]
                               /\ phase[w] # "executing" /\ UNCHANGED open
<1>1. PICK k \in 1 .. Len(queue) : \E q \in Rearranged(k) :
        LET items == batch[w] \o SubSeq(q, 1, k)
        IN  /\ queue' = SubSeq(q, k + 1, Len(q))
            /\ \/ StartBatch(w, items)
               \/ batch' = [batch EXCEPT ![w] = items] /\ UNCHANGED open
  BY DEF Collect
<1>2. PICK q \in Rearranged(k) :
        LET items == batch[w] \o SubSeq(q, 1, k)
        IN  /\ queue' = SubSeq(q, k + 1, Len(q))
            /\ \/ StartBatch(w, items)
               \/ batch' = [batch EXCEPT ![w] = items] /\ UNCHANGED open
  BY <1>1
<1> DEFINE front == SubSeq(q, 1, k)
           items == batch[w] \o front
<1>3. /\ queue \in Seq(Requests) /\ IsInjective(queue)
      /\ batch[w] \in Seq(Requests) /\ IsInjective(batch[w])
      /\ ToSet(batch[w]) \cap ToSet(queue) = {}
  BY DEF TypeOK, Ownership, NoDuplicateWork, HeldBy
<1>4. /\ q \in Seq(Requests) /\ k \in 1 .. Len(q)
      /\ IsInjective(q) /\ ToSet(q) = ToSet(queue)
  BY <1>3, RearrangedSeq
<1>5. /\ front \in Seq(Requests) /\ IsInjective(front)
      /\ ToSet(front) \subseteq ToSet(queue) /\ ToSet(queue') \subseteq ToSet(queue)
  BY <1>2, <1>4, SplitSeq
<1> HIDE DEF front
<1>6. ToSet(items) = ToSet(batch[w]) \cup ToSet(front)
  BY <1>3, <1>5, JoinSeq
<1>7. phase[w] # "executing"
  BY DEF Collect
<1>8. StartBatch(w, items) \/ (batch' = [batch EXCEPT ![w] = items] /\ UNCHANGED open)
  BY <1>2 DEF front
<1> HIDE DEF items
<1>9. QED
  BY <1>5, <1>6, <1>7, <1>8

(* A worker gives its backend requests that were ahead and are its own.    *)
LEMMA BatchWasAhead ==
    ASSUME TypeOK, Ownership, OpenInv, NEW w \in Workers, Worker(w)
    PROVE  /\ Ahead' \subseteq Ahead /\ UNCHANGED emitted
           /\ open'[w] \subseteq Ahead \cap pending'[w]
           /\ \A v \in Workers \ {w} : open'[v] = open[v]
<1>1. ASSUME NEW items, StartBatch(w, items), UNCHANGED <<api, emitted>>,
             ToSet(items) \subseteq ToSet(batch[w]) \cup ToSet(queue),
             ToSet(queue') \subseteq ToSet(queue)
      PROVE  /\ Ahead' \subseteq Ahead /\ UNCHANGED emitted
             /\ open'[w] \subseteq Ahead \cap pending'[w]
             /\ \A v \in Workers \ {w} : open'[v] = open[v]
  <2>1. /\ batch' = [batch EXCEPT ![w] = <<>>]
        /\ open' = [open EXCEPT ![w] = Live(ToSet(items))]
        /\ pending' = [pending EXCEPT ![w] = Live(ToSet(items))]
    BY <1>1 DEF StartBatch
  <2>2. \A v \in Workers : ToSet(batch'[v]) \subseteq ToSet(batch[v])
    BY <2>1, EmptySeqMembers DEF TypeOK
  <2>3. UNCHANGED Accepted
    BY <1>1 DEF Accepted
  <2>4. Ahead' \subseteq Ahead
    BY <1>1, <2>2, <2>3 DEF Ahead
  <2>5. \A v \in Workers : open'[v] = IF v = w THEN Live(ToSet(items)) ELSE open[v]
    BY <2>1 DEF TypeOK
  <2>6. pending'[w] = Live(ToSet(items))
    BY <2>1 DEF TypeOK
  <2>7. Live(ToSet(items)) \subseteq Ahead
    <3>1. ToSet(batch[w]) \subseteq Requests /\ ToSet(queue) \subseteq Requests
      <4>1. batch[w] \in Seq(Requests) /\ queue \in Seq(Requests)
        BY DEF TypeOK
      <4>2. QED
        BY <4>1 DEF ToSet
    <3>2. QED
      BY <1>1, <3>1 DEF Live, Ahead
  <2>8. QED
    BY <1>1, <2>4, <2>5, <2>6, <2>7
<1>2. CASE Collect(w)
  <2>1. PICK items : /\ ToSet(items) \subseteq ToSet(batch[w]) \cup ToSet(queue)
                     /\ \/ StartBatch(w, items)
                        \/ /\ batch' = [batch EXCEPT ![w] = items]
                           /\ phase[w] # "executing" /\ UNCHANGED open
    BY <1>2, CollectsFromQueue
  <2>2. UNCHANGED <<api, emitted>> /\ ToSet(queue') \subseteq ToSet(queue)
    BY <1>2, CollectsFromQueue DEF Collect
  <2>3. CASE /\ batch' = [batch EXCEPT ![w] = items]
             /\ phase[w] # "executing" /\ UNCHANGED open
    <3>1. open'[w] = {}
      BY <2>3 DEF OpenInv
    <3>2. \A v \in Workers : batch'[v] = IF v = w THEN items ELSE batch[v]
      BY <2>3 DEF TypeOK
    <3>3. UNCHANGED Accepted
      BY <2>2 DEF Accepted
    <3>4. Ahead' \subseteq Ahead
      BY <2>1, <2>2, <3>2, <3>3 DEF Ahead
    <3>5. QED
      BY <2>2, <2>3, <3>1, <3>4
  <2>4. QED
    BY <1>1, <2>1, <2>2, <2>3
<1>3. CASE Deadline(w)
  BY <1>1, <1>3 DEF Deadline
<1>4. QED
  BY <1>2, <1>3 DEF Worker

(* No step of backend, worker or handler puts a request at two backends.   *)
LEMMA ApartStep ==
    TypeOK /\ Ownership /\ Ownership' /\ OpenInv /\ ApartInv /\ [Next]_vars => ApartInv'
<1> SUFFICES ASSUME TypeOK, Ownership, Ownership', OpenInv, ApartInv, [Next]_vars
             PROVE  ApartInv'
  OBVIOUS
<1>1. ASSUME NEW w \in Workers, Worker(w) PROVE ApartInv'
  <2>1. /\ Ahead' \subseteq Ahead /\ UNCHANGED emitted
        /\ open'[w] \subseteq Ahead /\ open'[w] \subseteq pending'[w]
        /\ \A v \in Workers \ {w} : open'[v] = open[v]
    BY <1>1, BatchWasAhead
  <2>2. pending'[w] \cap Ahead' = {}
    <3> SUFFICES ASSUME NEW r \in Requests, r \in pending'[w], r \in Ahead' PROVE FALSE
      BY DEF Ahead
    <3>1. r \in HeldBy(w)' /\ r \in Accepted' /\ r \notin ToSet(queue')
      BY DEF Ownership, NoDuplicateWork, HeldBy
    <3>2. PICK v \in Workers : r \in ToSet(batch'[v])
      BY <3>1 DEF Ahead
    <3>3. v = w
      BY <3>1, <3>2 DEF Ownership, NoDuplicateWork, HeldBy
    <3>4. QED
      BY <3>2, <3>3 DEF Ownership, NoDuplicateWork
  <2>3. QED
    BY <2>1, <2>2 DEF ApartInv
<1>2. ASSUME UNCHANGED <<api, queue, batch, emitted>>,
             \A w \in Workers : open'[w] \subseteq open[w]
      PROVE  ApartInv'
  <2>1. UNCHANGED Ahead
    BY <1>2 DEF Ahead, Accepted
  <2>2. QED
    BY <1>2, <2>1 DEF ApartInv
<1>3. ASSUME NEW w \in Workers, NEW r \in Requests, BackendToken(w, r) PROVE ApartInv'
  <2>1. r \in open[w] /\ UNCHANGED <<api, queue, batch, open>>
        /\ emitted' = [emitted EXCEPT ![r] = @ + 1]
    BY <1>3 DEF BackendToken
  <2>2. UNCHANGED Ahead
    BY <2>1 DEF Ahead, Accepted
  <2>3. r \notin Ahead
    BY <2>1 DEF ApartInv
  <2>4. \A q \in Ahead : emitted'[q] = emitted[q]
    BY <2>1, <2>3 DEF TypeOK
  <2>5. QED
    BY <2>1, <2>2, <2>4 DEF ApartInv
<1>4. ASSUME NEW w \in Workers, NEW r \in Requests, BackendCompleted(w, r) PROVE ApartInv'
  BY <1>2, <1>4 DEF BackendCompleted, TypeOK
<1>5. ASSUME NEW w \in Workers, EndBatch(w) PROVE ApartInv'
  BY <1>2, <1>5 DEF EndBatch, TypeOK
<1>6. ASSUME NEW r \in Requests, Handler(r) PROVE ApartInv'
  <2>1. UNCHANGED <<batch, open, emitted>>
    BY <1>6 DEF Handler, Accept, Reject, JsonAnswer, JsonTimeout, JsonCancelled, JsonAbort,
                StreamOpen, StreamDropped, StreamToken, StreamTerminal, StreamClose,
                StreamDisconnect, StreamFinally
  <2>2. Ahead' \subseteq Ahead
    <3>1. CASE Accept(r)
      <4>1. r \in Ahead /\ Accepted \subseteq Accepted'
        BY <3>1 DEF Accept, Ahead, Accepted, NoHandler, TypeOK
      <4>2. IsInjective(queue) /\ r \notin ToSet(queue) /\ queue' = Append(queue, r)
        BY <3>1 DEF Accept, Ownership, NoDuplicateWork, Accepted, NoHandler
      <4>3. ToSet(queue') = ToSet(queue) \cup {r}
        BY <4>2, AppendNew DEF TypeOK
      <4>4. QED
        BY <2>1, <4>1, <4>3 DEF Ahead
    <3>2. CASE ~Accept(r)
      <4>1. UNCHANGED queue
        BY <1>6, <3>2 DEF Handler, Reject, JsonAnswer, JsonTimeout, JsonCancelled, JsonAbort,
              StreamOpen, StreamDropped, StreamToken, StreamTerminal, StreamClose,
              StreamDisconnect, StreamFinally
      <4>2. Accepted \subseteq Accepted'
        BY <1>6, <3>2 DEF Handler, Reject, JsonAnswer, JsonTimeout, JsonCancelled, JsonAbort,
              StreamOpen, StreamDropped, StreamToken, StreamTerminal, StreamClose,
              StreamDisconnect, StreamFinally, Accepted, NoHandler, TypeOK
      <4>3. QED
        BY <2>1, <4>1, <4>2 DEF Ahead
    <3>3. QED
      BY <3>1, <3>2
  <2>3. QED
    BY <2>1, <2>2 DEF ApartInv
<1>7. CASE Stop
  <2>1. /\ UNCHANGED <<api, queue, emitted>>
        /\ batch' = [w \in Workers |-> <<>>] /\ open' = [w \in Workers |-> {}]
    BY <1>7 DEF Stop, StopTasks
  <2>2. \A w \in Workers : open'[w] = {} /\ ToSet(batch'[w]) = {}
    BY <2>1, EmptySeqMembers
  <2>3. Ahead' \subseteq Ahead
    BY <2>1, <2>2 DEF Ahead, Accepted
  <2>4. QED
    BY <2>1, <2>2, <2>3 DEF ApartInv
<1>8. CASE Start \/ UNCHANGED vars
  BY <1>2, <1>8 DEF Start, vars
<1>9. QED
  BY <1>1, <1>3, <1>4, <1>5, <1>6, <1>7, <1>8
     DEF Next, BackendStep, BackendReturn, BackendRaise, Quiescent

(* ApartInv in every state.                                                *)
LEMMA ApartInvariant == StreamsSpec => []ApartInv
<1>1. Init => ApartInv
  BY DEF Init, ApartInv, Ahead
<1>2. QED
  BY <1>1, StreamsServe, OpenInvariant, ApartStep, PTL DEF Spec

(* The mock backend never lets a request of a batch get ahead of another   *)
(* by more than one token, for batches of any size and lengths.            *)
THEOREM MockKeepsStep == StreamsSpec => []MockLockStep
<1>1. StreamsInit => MockLockStep
  BY DEF StreamsInit, Init, MockLockStep
<1>2. TypeOK /\ Ownership /\ OpenInv /\ ApartInv /\ StreamsTypeOK /\ MockLockStep
        /\ [StreamsNext]_allVars => MockLockStep'
  <2> SUFFICES ASSUME TypeOK, Ownership, OpenInv, ApartInv, StreamsTypeOK, MockLockStep,
                      [StreamsNext]_allVars, kind' = "mock",
                      NEW v \in Workers, NEW x \in open'[v], NEW y \in open'[v]
               PROVE  /\ emitted'[x] <= emitted'[y] + 1
                      /\ Precedes(v, x, y)' => emitted'[y] <= emitted'[x]
    BY DEF MockLockStep
  <2>1. kind = "mock"
    BY DEF StreamsNext, Schedule, Generate, allVars
  <2>2. CASE open'[v] \subseteq open[v] /\ order'[v] = order[v] /\ UNCHANGED emitted
    BY <2>1, <2>2 DEF MockLockStep, Precedes
  <2>3. ASSUME NEW w \in Workers, Schedule(w)
        PROVE  /\ emitted'[x] <= emitted'[y] + 1
               /\ Precedes(v, x, y)' => emitted'[y] <= emitted'[x]
    <3>1. /\ open'[w] \subseteq Ahead /\ UNCHANGED emitted
          /\ \A u \in Workers \ {w} : open'[u] = open[u]
      BY <2>3, BatchWasAhead DEF Schedule
    <3>2. CASE v = w
      <4>1. emitted'[x] = 0 /\ emitted'[y] = 0
        BY <3>1, <3>2 DEF ApartInv
      <4>2. QED
        BY <4>1
    <3>3. CASE v # w
      <4>1. order'[v] = order[v]
        BY <2>3, <3>3 DEF Schedule, StreamsTypeOK
      <4>2. QED
        BY <2>2, <3>1, <3>3, <4>1
    <3>4. QED
      BY <3>2, <3>3
  <2>4. ASSUME NEW w \in Workers, NEW r \in Requests, MockToken(w, r), order'[v] = order[v]
        PROVE  /\ emitted'[x] <= emitted'[y] + 1
               /\ Precedes(v, x, y)' => emitted'[y] <= emitted'[x]
    <3>1. /\ r \in open[w] /\ UNCHANGED open
          /\ emitted' = [emitted EXCEPT ![r] = @ + 1]
      BY <2>4 DEF MockToken, BackendToken
    <3>2. x \in open[v] /\ y \in open[v] /\ x \in Requests /\ y \in Requests
      BY <3>1 DEF TypeOK
    <3>3. /\ emitted[x] \in Nat /\ emitted[y] \in Nat
          /\ emitted'[x] = IF x = r THEN emitted[x] + 1 ELSE emitted[x]
          /\ emitted'[y] = IF y = r THEN emitted[y] + 1 ELSE emitted[y]
      BY <3>1, <3>2 DEF TypeOK
    <3>4. /\ emitted[x] <= emitted[y] + 1 /\ emitted[y] <= emitted[x] + 1
          /\ Precedes(v, x, y) => emitted[y] <= emitted[x]
      BY <2>1, <3>2 DEF MockLockStep
    <3>5. Precedes(v, x, y)' = Precedes(v, x, y)
      BY <2>4 DEF Precedes
    <3>6. CASE x = r /\ y # r
      <4>1. v = w
        BY <3>1, <3>2, <3>6 DEF ApartInv
      <4>2. emitted[r] <= emitted[y]
        BY <2>4, <3>2, <3>3, <3>6, <4>1 DEF MockToken, MockTurn
      <4>3. QED
        BY <3>3, <3>4, <3>6, <4>2
    <3>7. CASE x # r /\ y = r
      <4>1. v = w
        BY <3>1, <3>2, <3>7 DEF ApartInv
      <4>2. emitted[r] < emitted[x] \/ (emitted[r] = emitted[x] /\ Precedes(v, r, x))
        BY <2>4, <3>2, <3>7, <4>1 DEF MockToken, MockTurn
      <4>3. ~(Precedes(v, r, x) /\ Precedes(v, x, r))
        <5> SUFFICES ASSUME Precedes(v, r, x), Precedes(v, x, r) PROVE FALSE
          OBVIOUS
        <5>1. PICK i, j \in DOMAIN order[v] : i < j /\ order[v][i] = r /\ order[v][j] = x
          BY DEF Precedes
        <5>2. PICK k, l \in DOMAIN order[v] : k < l /\ order[v][k] = x /\ order[v][l] = r
          BY DEF Precedes
        <5>3. order[v] \in Seq(Requests) /\ IsInjective(order[v])
          BY DEF StreamsTypeOK
        <5>4. i = l /\ j = k
          BY <5>1, <5>2, <5>3 DEF IsInjective
        <5>5. i \in Nat /\ j \in Nat
          BY <5>1, <5>3
        <5>6. QED
          BY <5>1, <5>2, <5>4, <5>5
      <4>4. QED
        BY <3>3, <3>4, <3>5, <3>7, <4>2, <4>3
    <3>8. CASE x = y \/ (x # r /\ y # r)
      BY <3>3, <3>4, <3>5, <3>8
    <3>9. QED
      BY <3>6, <3>7, <3>8
  <2>5. ASSUME NEW w \in Workers, Generate(w)
        PROVE  /\ emitted'[x] <= emitted'[y] + 1
               /\ Precedes(v, x, y)' => emitted'[y] <= emitted'[x]
    <3>1. \/ \E r \in Requests : MockToken(w, r) \/ BackendCompleted(w, r)
          \/ BackendReturn(w)
      BY <2>1, <2>5 DEF Generate, GenerateSerial, GenerateMock, MockCompleted
    <3>2. order'[v] = order[v] \/ open'[v] = {}
      <4>1. CASE v # w
        BY <2>5, <4>1 DEF Generate, StreamsTypeOK
      <4>2. CASE v = w /\ phase'[w] = "executing"
        BY <2>5, <4>2 DEF Generate, StreamsTypeOK
      <4>3. CASE v = w /\ phase'[w] # "executing"
        <5>1. CASE BackendReturn(w)
          BY <4>3, <5>1 DEF BackendReturn, EndBatch, TypeOK
        <5>2. ASSUME NEW r \in Requests, MockToken(w, r) \/ BackendCompleted(w, r)
              PROVE  phase'[w] = "executing"
          BY <5>2 DEF MockToken, BackendToken, BackendCompleted, OpenInv
        <5>3. QED
          BY <3>1, <4>3, <5>1, <5>2
      <4>4. QED
        BY <4>1, <4>2, <4>3
    <3>3. order'[v] = order[v]
      BY <3>2
    <3>4. ASSUME NEW r \in Requests, BackendCompleted(w, r)
          PROVE  open'[v] \subseteq open[v] /\ UNCHANGED emitted
      BY <3>4 DEF BackendCompleted, TypeOK
    <3>5. CASE BackendReturn(w)
      <4>1. open'[v] \subseteq open[v] /\ UNCHANGED emitted
        BY <3>5 DEF BackendReturn, EndBatch, TypeOK
      <4>2. QED
        BY <2>2, <3>3, <4>1
    <3>6. QED
      BY <2>2, <2>4, <3>1, <3>3, <3>4, <3>5
  <2>6. CASE Stop
    BY <2>6 DEF Stop, StopTasks
  <2>7. ASSUME NEW r \in Requests, Handler(r) PROVE UNCHANGED <<open, emitted>>
    BY <2>7 DEF Handler, Accept, Reject, JsonAnswer, JsonTimeout, JsonCancelled, JsonAbort,
                StreamOpen, StreamDropped, StreamToken, StreamTerminal, StreamClose,
                StreamDisconnect, StreamFinally
  <2>8. Start \/ UNCHANGED vars => UNCHANGED <<open, emitted>>
    BY DEF Start, vars
  <2>9. CASE UNCHANGED <<open, emitted, order>>
    BY <2>2, <2>9
  <2>10. QED
    BY <2>3, <2>5, <2>6, <2>7, <2>8, <2>9 DEF StreamsNext, Quiescent, allVars
<1>3. QED
  BY <1>1, <1>2, OpenInvariant, ApartInvariant, StreamsTyped, PTL DEF StreamsSpec
=============================================================================
