CONSTANTS
    Procs = {p1, p2}
    NoProc = NoProc
    Tasks = {t1, t2}
    WorkerCount = 1
    MaxAttempts = 2
SPECIFICATION Spec
INVARIANT HealthWasChecked
CHECK_DEADLOCK FALSE
