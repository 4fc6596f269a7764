CONSTANTS
    Requests = {r1, r2, r3}
    w1 = w1
    w2 = w2
    w3 = w3
    Workers <- LlamaWorkers
    Priorities = {0, 1, 2}
    AgingInterval <- LlamaAging
    MaxBatchSize <- LlamaBatchSize
    BatchTimeout <- LlamaTimeout
    MaxTime = 4
SPECIFICATION FairSpec
INVARIANTS
    TypeOK
    OvertakenOnlyByUrgent
    NothingLeftBehind
PROPERTIES
    AllReturned
CHECK_DEADLOCK FALSE
