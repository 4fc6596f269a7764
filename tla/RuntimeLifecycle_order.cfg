CONSTANTS
    Procs = {p1}
    NoProc = NoProc
    Tasks = {t1, t2}
    WorkerCount = 2
    MaxAttempts = 1
SPECIFICATION Spec
INVARIANT WorkersEndFirst
CHECK_DEADLOCK FALSE
