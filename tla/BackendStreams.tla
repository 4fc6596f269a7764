--------------------------- MODULE BackendStreams ---------------------------
(***************************************************************************)
(* The order of the events that the shipped backends yield for a batch.    *)
(* ServingRuntime lets a backend yield anything; here generate_batch is    *)
(* MockBackend's, which advances the whole batch token by token, or the    *)
(* one that LlamaCppBackend and VLLMBackend inherit from Backend, which    *)
(* streams one request after the other from a server.                      *)
(***************************************************************************)
EXTENDS ServingRuntime

CONSTANT Wanted     \* sampling.max_tokens of a request

ASSUME BackendAssumption == Wanted \in [Requests -> 1 .. MaxTokens]

VARIABLES
    kind,   \* the backend the runtime was configured with
    order   \* the list that generate_batch was called with, while it runs

allVars == <<vars, kind, order>>

(* What the backend has still to complete is in the list it was called     *)
(* with, which names no request twice.                                     *)
StreamsTypeOK ==
    /\ kind \in {"mock", "serial"}
    /\ order \in [Workers -> Seq(Requests)]
    /\ \A w \in Workers : IsInjective(order[w]) /\ open[w] \subseteq ToSet(order[w])

StreamsInit ==
    /\ Init
    /\ kind \in {"mock", "serial"}
    /\ order = [w \in Workers |-> <<>>]

-----------------------------------------------------------------------------
(* next_batch, and the call of generate_batch once some item is live.  How *)
(* the scheduler ordered the items of the batch is left open.              *)
Schedule(w) ==
    /\ Worker(w)
    /\ \E s \in SetToSeqs(open'[w]) : order' = [order EXCEPT ![w] = s]
    /\ UNCHANGED kind

(* r comes before q in the batch of w.                                     *)
Precedes(w, r, q) ==
    \E i, j \in DOMAIN order[w] : i < j /\ order[w][i] = r /\ order[w][j] = q

(* Backend.generate_batch is at the first request that it has not          *)
(* completed.                                                              *)
Current(w, r) == r \in open[w] /\ \A q \in open[w] \ {r} : Precedes(w, r, q)

(* The server sends a token, ends its stream, or fails the request: an     *)
(* HTTP error status, a lost connection, a line that is not JSON.          *)
SerialToken(w, r)     == Current(w, r) /\ BackendToken(w, r)
SerialCompleted(w, r) == Current(w, r) /\ BackendCompleted(w, r)
SerialRaise(w)        == open[w] # {} /\ BackendRaise(w)

(* MockBackend.generate_batch has yielded r's last token: BatchCompleted   *)
(* is the next event.                                                      *)
Due_Early(r) == emitted[r] + 1 = Wanted[r]

Due(r) == emitted[r] = Wanted[r]

(* index is the number of tokens of the requests that are behind; of those *)
(* the first in the list comes next.                                       *)
MockTurn(w, r) ==
    /\ r \in open[w]
    /\ \A q \in open[w] : ~Due(q)
    /\ \A q \in open[w] \ {r} :
         emitted[r] < emitted[q] \/ (emitted[r] = emitted[q] /\ Precedes(w, r, q))

MockToken(w, r)     == MockTurn(w, r) /\ BackendToken(w, r)

MockCompleted_Skipped(w, r) == Due(r) /\ UNCHANGED vars

MockCompleted(w, r) == Due(r) /\ BackendCompleted(w, r)

Exhausted_Anytime(w) == phase[w] = "executing"

(* The generator returns when it has completed every request.              *)
Exhausted(w) == phase[w] = "executing" /\ open[w] = {}

GenerateSerial(w) ==
    /\ kind = "serial"
    /\ \/ \E r \in Requests : SerialToken(w, r) \/ SerialCompleted(w, r)
       \/ SerialRaise(w)

GenerateMock(w) ==
    /\ kind = "mock"
    /\ \E r \in Requests : MockToken(w, r) \/ MockCompleted(w, r)

Generate(w) ==
    /\ GenerateSerial(w) \/ GenerateMock(w) \/ (Exhausted(w) /\ BackendReturn(w))
    /\ order' = [order EXCEPT ![w] = IF phase'[w] = "executing" THEN @ ELSE <<>>]
    /\ UNCHANGED kind

-----------------------------------------------------------------------------
StreamsNext ==
    \/ \E w \in Workers : Schedule(w) \/ Generate(w)
    \/ /\ (\E r \in Requests : Handler(r)) \/ Start \/ Quiescent
       /\ UNCHANGED <<kind, order>>
    \/ /\ Stop
       /\ order' = [w \in Workers |-> <<>>]
       /\ UNCHANGED kind

StreamsSpec == StreamsInit /\ [][StreamsNext]_allVars

(* A sleep ends, and a server that has accepted a request answers it.      *)
GenerateFairness == \A w \in Workers : WF_allVars(Generate(w))

StreamsFairSpec == StreamsSpec /\ GenerateFairness

-----------------------------------------------------------------------------
(* Every success was announced by a BatchCompleted for that request while  *)
(* the batch was running: with the shipped backends the loop after         *)
(* `async for` in _execute_batch, which completes whatever is still        *)
(* pending, finds nothing, so a request that the backend left out is never *)
(* taken for complete.  This says nothing of what the server meant: when   *)
(* it reports an error inside the stream, or closes it early, the backend  *)
(* skips the line and announces the completion itself.                     *)
SuccessIsAnnounced ==
    [][\A r \in Requests : verdict[r] = "none" /\ verdict'[r] = "success" =>
          \E w \in Workers : /\ r \in open[w] /\ open'[w] = open[w] \ {r}
                             /\ phase'[w] = "executing"]_allVars

(* With the mock backend a response that ends well has max_tokens tokens.  *)
MockServesAll ==
    kind = "mock" => \A r \in Requests :
        verdict[r] = "success" => Len(tokens[r]) = Wanted[r]

(* The mock backend is fair to the requests of a batch: of two it has not  *)
(* completed, none is more than one token ahead, even if the client of one *)
(* is gone.                                                                *)
MockLockStep ==
    kind = "mock" => \A w \in Workers : \A r, q \in open[w] :
        emitted[r] <= emitted[q] + 1 /\ (Precedes(w, r, q) => emitted[q] <= emitted[r])

(* Once generate_batch is called it ends, whatever the handlers do: a      *)
(* cancelled request is generated to its end but does not keep the worker. *)
BatchesEnd ==
    \A w \in Workers : phase[w] = "executing" ~> phase[w] = "idle"
=============================================================================
