CONSTANTS
    j1 = j1
    j2 = j2
    s1 = s1
    s2 = s2
    w1 = w1
    w2 = w2
    Requests = {j1, s1}
    Streaming = {s1}
    Workers = {w1, w2}
    Fifo = TRUE
    MaxBatchSize = 2
    BatchTimeout = TRUE
    MaxQueueSize = 0
    RateLimit = FALSE
    MaxTokens = 2
    MaxStops = 1
SPECIFICATION HandlerSpec
PROPERTIES
    JsonAnswered
    StreamEnds
    AllWorkFinishes
