CONSTANTS
    j1 = j1
    s1 = s1
    w1 = w1
    w2 = w2
    Requests = {j1, s1}
    Streaming = {s1}
    Workers = {w1, w2}
    Fifo = TRUE
    MaxBatchSize = 2
    BatchTimeout = TRUE
    MaxQueueSize = 0
    RateLimit = FALSE
    MaxTokens = 3
    MaxStops = 1
    Wanted <- MCWanted
SPECIFICATION StreamsFairSpec
INVARIANTS
    NoLostRequest
    NoDuplicateWork
    MockServesAll
PROPERTIES
    SuccessIsAnnounced
    OrphansAreAbandoned
    BatchesEnd
