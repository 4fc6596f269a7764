-------------------------- MODULE ServingRefinement -------------------------
(* ServingRuntime implements ServingContract and SchedulerContract.        *)
EXTENDS ServingRuntime

(* A response is decided when its client sees the end of it: the 200 or    *)
(* [DONE], the error, the 504 or the disconnect.                           *)
StatusOf(r) ==
    CASE api[r] = "idle"         -> "new"
      [] api[r] = "rejected"     -> "refused"
      [] answer[r] = "ok"        -> "done"
      [] answer[r] = "error"     -> "failed"
      [] api[r] = "ended" /\ answer[r] \in {"none", "timeout"} -> "abandoned"
      [] OTHER                   -> "open"

Status   == [r \in Requests |-> StatusOf(r)]
Produced == [r \in Requests |-> [i \in 1 .. emitted[r] |-> <<r, i>>]]

Contract == INSTANCE ServingContract WITH
    status <- Status, produced <- Produced, received <- delivered

(* The client of every request sees what ServingContract allows: a prefix  *)
(* of the backend's stream for it, everything if the response ends well,   *)
(* and no change once it has its outcome.  This is about the whole path    *)
(* from the backend's events through handles to routes.py and streaming.py.*)
ImplementsContract == Contract!Spec

Waiting    == ToSet(queue)
Collecting == [w \in Workers |-> ToSet(batch[w])]

(* The rest of the serving path relies on its scheduler for nothing but    *)
(* what every Scheduler promises: its workers, started and stopped, use    *)
(* the queue as that interface allows.  What leaves the queue is what they *)
(* have taken from it, in a call of next_batch.                            *)
Scheduler == INSTANCE SchedulerContract WITH
    waiting <- Waiting, collecting <- Collecting, taken <- taken

ImplementsScheduler == Scheduler!Spec
=============================================================================
