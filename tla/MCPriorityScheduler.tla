------------------------- MODULE MCPriorityScheduler -------------------------
(* Small instances of the priority scheduler for TLC, with the constants   *)
(* that core/lifecycle.py derives from two configurations.                 *)
EXTENDS PriorityScheduler, RuntimeConfig, TLC

CONSTANTS w1, w2, w3

(* llama.cpp with micro-batching and aging: one worker.                    *)
Llama == [backend |-> "llama.cpp", scheduler |-> "priority",
          priority_aging_boost_interval |-> 1, enable_batching |-> TRUE,
          max_batch_size |-> 2, batch_timeout |-> 2, native_backend_concurrency |-> 3]

(* vLLM, which batches itself: three workers, whatever the batch settings. *)
Vllm == [Llama EXCEPT !.backend = "vllm", !.priority_aging_boost_interval = 0]

LlamaAging     == AgingIntervalOf(Llama)
LlamaBatchSize == BatchSizeOf(Llama)
LlamaTimeout   == BatchTimeoutOf(Llama)
VllmAging      == AgingIntervalOf(Vllm)
VllmBatchSize  == BatchSizeOf(Vllm)
VllmTimeout    == BatchTimeoutOf(Vllm)

LlamaWorkers   == {<<w1, w2, w3>>[i] : i \in 1 .. WorkerCountOf(Llama)}
VllmWorkers    == {<<w1, w2, w3>>[i] : i \in 1 .. WorkerCountOf(Vllm)}

Symmetry == Permutations(Requests) \cup Permutations(Workers)
=============================================================================
