CONSTANTS
    Procs = {p1, p2}
    NoProc = NoProc
    Tasks = {t1, t2, t3, t4, t5, t6}
    WorkerCount = 2
    MaxAttempts = 2
SPECIFICATION FairSpec
INVARIANTS
    TypeOK
    OnlyFailedStartsLeak
    OnlyFailedStartsUnchecked
    ServedByItsWorkers
PROPERTIES
    StartEnds
    StopEnds
CHECK_DEADLOCK FALSE
