------------------------- MODULE SchedulerContract --------------------------
(***************************************************************************)
(* The interface Scheduler (scheduler/base.py): submit a request; wait for *)
(* the first request, then collect a bounded micro-batch.  In whatever     *)
(* order a scheduler hands requests over, each one submitted is taken out  *)
(* of the queue once, by one worker, and none leaves the queue otherwise.  *)
(***************************************************************************)
EXTENDS Integers, FiniteSets

CONSTANTS Requests, Workers, MaxBatchSize

VARIABLES
    waiting,      \* submitted, and not yet taken by any worker
    collecting,   \* what the pending next_batch of each worker has taken
    taken         \* everything any worker has taken

vars == <<waiting, collecting, taken>>

Init ==
    /\ waiting = {}
    /\ collecting = [w \in Workers |-> {}]
    /\ taken = {}

Submit(r) ==
    /\ r \notin waiting \cup taken
    /\ waiting' = waiting \cup {r}
    /\ UNCHANGED <<collecting, taken>>

(* next_batch takes the requests S, and returns or waits for more.         *)
Take(w, S) ==
    /\ S # {}
    /\ Cardinality(collecting[w] \cup S) <= MaxBatchSize
    /\ waiting' = waiting \ S
    /\ taken' = taken \cup S
    /\ \E c \in {{}, collecting[w] \cup S} : collecting' = [collecting EXCEPT ![w] = c]

(* next_batch returns what it has collected.                               *)
HandOver(w) ==
    /\ collecting' = [collecting EXCEPT ![w] = {}]
    /\ UNCHANGED <<waiting, taken>>

(* The tasks that called next_batch are cancelled: what they have taken is *)
(* gone, what waits stays.                                                 *)
Cancel ==
    /\ collecting' = [w \in Workers |-> {}]
    /\ UNCHANGED <<waiting, taken>>

Next ==
    \/ \E r \in Requests : Submit(r)
    \/ \E w \in Workers : HandOver(w) \/ \E S \in SUBSET waiting : Take(w, S)
    \/ Cancel

Spec == Init /\ [][Next]_vars

-----------------------------------------------------------------------------
(* What the workers may rely on: a request that was taken does not wait    *)
(* any more, and no two batches being collected share one or are too big.  *)
TakenOnce ==
    /\ waiting \cap taken = {}
    /\ \A w \in Workers : collecting[w] \subseteq taken
                          /\ Cardinality(collecting[w]) <= MaxBatchSize
    /\ \A v, w \in Workers : v # w => collecting[v] \cap collecting[w] = {}

(* And the handlers: a request that leaves the queue is one that a worker  *)
(* takes in the same step, and once taken it does not come back.           *)
LeavesToWorker ==
    [][/\ waiting \ waiting' = taken' \ taken
       /\ taken \subseteq taken']_vars
=============================================================================
