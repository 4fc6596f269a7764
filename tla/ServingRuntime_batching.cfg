CONSTANTS
    j1 = j1
    j2 = j2
    s1 = s1
    s2 = s2
    w1 = w1
    w2 = w2
    Requests = {j1, s1, s2}
    Streaming = {s1, s2}
    Workers = {w1, w2}
    Fifo = FALSE
    MaxBatchSize = 2
    BatchTimeout = TRUE
    MaxQueueSize = 2
    RateLimit = TRUE
    MaxTokens = 2
    MaxStops = 0
SPECIFICATION Spec
SYMMETRY Symmetry
INVARIANTS
    TypeOK
    NoLostRequest
    NoDuplicateWork
    FutureMatchesVerdict
    OneTerminalEvent
    TokensIntact
    CountersAccount
    GaugeBounds
PROPERTIES
    CancelledIsLeftAlone
    ImplementsContract
    ImplementsScheduler
