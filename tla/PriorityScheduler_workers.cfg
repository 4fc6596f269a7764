CONSTANTS
    Requests = {r1, r2, r3, r4}
    w1 = w1
    w2 = w2
    w3 = w3
    Workers <- VllmWorkers
    Priorities = {0, 1}
    AgingInterval <- VllmAging
    MaxBatchSize <- VllmBatchSize
    BatchTimeout <- VllmTimeout
    MaxTime = 0
SYMMETRY Symmetry
SPECIFICATION Spec
INVARIANTS
    WorkConserving
PROPERTIES
    ImplementsScheduler
CHECK_DEADLOCK FALSE
