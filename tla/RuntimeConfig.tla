---------------------------- MODULE RuntimeConfig ----------------------------
(***************************************************************************)
(* What core/lifecycle.py makes of the settings (config.py): the scheduler *)
(* and its constants, how the workers batch and how many there are.  Times *)
(* are in milliseconds, or any other unit.                                 *)
(***************************************************************************)
EXTENDS Integers

Settings == [backend : {"mock", "llama.cpp", "vllm"},
             scheduler : {"fifo", "priority"},
             priority_aging_boost_interval : Nat,
             enable_batching : BOOLEAN,
             max_batch_size : Nat \ {0},
             batch_timeout : Nat,
             native_backend_concurrency : Nat \ {0}]

(* BackendCapability.NATIVE_BATCHING is in the backend's capabilities.     *)
NativeBatching(s) == s.backend = "vllm"

(* _build_scheduler; only the PriorityScheduler is given an aging interval. *)
UsesFifo(s) == s.scheduler # "priority"

AgingIntervalOf(s) == IF UsesFifo(s) THEN 0 ELSE s.priority_aging_boost_interval

(* _dispatch_batch_params.                                                 *)
Batches(s) == s.enable_batching /\ ~NativeBatching(s)

BatchSizeOf(s)    == IF Batches(s) THEN s.max_batch_size ELSE 1
BatchTimeoutOf(s) == IF Batches(s) THEN s.batch_timeout ELSE 0

(* _dispatch_worker_count, and max(1, worker_count) of WorkerManager.      *)
AtLeastOne(n) == IF n > 1 THEN n ELSE 1

WorkerCountOf(s) ==
    AtLeastOne(IF NativeBatching(s) THEN s.native_backend_concurrency ELSE 1)

(* No two workers collect batches that wait for more: the runtime has one  *)
(* worker, or its workers take one request at a time and never wait for a  *)
(* second one.  PriorityScheduler's analysis relies on it.                 *)
NoTwoCollectors(s) ==
    WorkerCountOf(s) = 1 \/ (BatchSizeOf(s) = 1 /\ BatchTimeoutOf(s) = 0)
=============================================================================
