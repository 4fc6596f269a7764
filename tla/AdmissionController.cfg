CONSTANTS
    MaxQueueSize = 1
    TokenUnits = 3
    RefillPerTick = 2
    TicksPerSecond = 2
    Burst = 0
    MaxDepth = 1
    MaxTime = 7
SPECIFICATION Spec
INVARIANTS
    TypeOK
    WindowBound
PROPERTY RefinesTokenBucket
