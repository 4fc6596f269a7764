--------------------------- MODULE RuntimeLifecycle ---------------------------
(***************************************************************************)
(* The lifespan of the application (main.py, core/lifecycle.py), the       *)
(* start and stop of the worker tasks (workers/manager.py), and the start  *)
(* and stop of a backend that owns a server process.  LlamaCppBackend and  *)
(* VLLMBackend have the same code for it.  The server processes belong to  *)
(* the operating system and outlive the runtime's references to them.      *)
(***************************************************************************)
EXTENDS Integers, FiniteSets

CONSTANTS
    Procs,         \* the server processes there may ever be
    NoProc,        \* None
    Tasks,         \* the worker tasks there may ever be
    WorkerCount,   \* worker_count of WorkerManager
    MaxAttempts    \* health checks before start() gives up: 120, or 600

ASSUME LifecycleAssumption ==
    /\ NoProc \notin Procs
    /\ IsFiniteSet(Tasks)
    /\ WorkerCount \in Nat \ {0}
    /\ MaxAttempts \in Nat \ {0}

VARIABLES
    stage,      \* where the lifespan coroutine is
    client,     \* Backend._client is not None
    process,    \* Backend._process
    proc,       \* the state of each server process
    attempts,   \* health checks made by this start()
    tasks,      \* WorkerManager._tasks
    task,       \* the state of each worker task
    healthy,    \* history: a health check succeeded since the server was spawned
    failed      \* history: the processes whose start() raised

backendVars == <<client, process, attempts, healthy>>
taskVars == <<tasks, task>>
vars == <<stage, backendVars, proc, taskVars, failed>>

Stages == {"down", "starting", "polling", "serving", "gathering", "closing",
           "terminating", "killing"}

Alive(p) == proc[p] \in {"loading", "ready"}

TypeOK ==
    /\ stage \in Stages
    /\ client \in BOOLEAN
    /\ process \in Procs \cup {NoProc}
    /\ proc \in [Procs -> {"unused", "loading", "ready", "dead"}]
    /\ attempts \in 0 .. MaxAttempts
    /\ tasks \subseteq Tasks
    /\ task \in [Tasks -> {"unused", "running", "cancelling", "done"}]
    /\ healthy \in BOOLEAN
    /\ failed \subseteq Procs
    /\ stage \in {"polling", "terminating", "killing"} => process # NoProc

Init ==
    /\ stage = "down"
    /\ client = FALSE
    /\ process = NoProc
    /\ proc = [p \in Procs |-> "unused"]
    /\ attempts = 0
    /\ tasks = {}
    /\ task = [t \in Tasks |-> "unused"]
    /\ healthy = FALSE
    /\ failed = {}

-----------------------------------------------------------------------------
(* The operating system and the server.                                    *)

(* A server can listen if no other holds the port.                         *)
Load(p) ==
    /\ proc[p] = "loading"
    /\ \A q \in Procs : proc[q] # "ready"
    /\ proc' = [proc EXCEPT ![p] = "ready"]
    /\ UNCHANGED <<stage, backendVars, taskVars, failed>>

(* It may exit whenever it likes, and when it is terminated, or not.       *)
Exit(p) ==
    /\ Alive(p)
    /\ proc' = [proc EXCEPT ![p] = "dead"]
    /\ UNCHANGED <<stage, backendVars, taskVars, failed>>

-----------------------------------------------------------------------------
(* RuntimeServices.start.                                                  *)

UnusedTasks == {t \in Tasks : task[t] = "unused"}

(* There are tasks for another lifespan: a bound.                          *)
MayBegin ==
    /\ stage = "down"
    /\ \E T \in SUBSET UnusedTasks : Cardinality(T) = WorkerCount

(* A lifespan begins with services of its own,                             *)
BeginNew ==
    /\ MayBegin
    /\ stage' = "starting"
    /\ client' = FALSE /\ process' = NoProc /\ healthy' = FALSE
    /\ tasks' = {}
    /\ UNCHANGED <<attempts, task, proc, failed>>

(* or with those create_app was given, which an earlier one may have used. *)
BeginAgain ==
    /\ MayBegin
    /\ stage' = "starting"
    /\ UNCHANGED <<backendVars, taskVars, proc, failed>>

(* WorkerManager.start, right after the backend's start().                 *)
StartWorkers ==
    /\ stage' = "serving"
    /\ IF tasks # {}
       THEN UNCHANGED taskVars
       ELSE \E T \in SUBSET UnusedTasks :
              /\ Cardinality(T) = WorkerCount
              /\ tasks' = T
              /\ task' = [t \in Tasks |-> IF t \in T THEN "running" ELSE task[t]]

(* start() finds a client and takes the server for started.                *)
AlreadyStarted ==
    /\ stage = "starting"
    /\ client
    /\ StartWorkers
    /\ UNCHANGED <<backendVars, proc, failed>>

SpawnFails ==
    /\ stage = "starting"
    /\ ~client
    /\ stage' = "down"
    /\ UNCHANGED <<backendVars, proc, taskVars, failed>>

(* The client is created before the first health check.                    *)
Spawn(p) ==
    /\ stage = "starting"
    /\ ~client
    /\ proc[p] = "unused"
    /\ proc' = [proc EXCEPT ![p] = "loading"]
    /\ process' = p
    /\ client' = TRUE
    /\ attempts' = 0
    /\ healthy' = FALSE
    /\ stage' = "polling"
    /\ UNCHANGED <<taskVars, failed>>

(* GET /health answers 200: whoever has the port.                          *)
PollAnswered ==
    /\ stage = "polling"
    /\ attempts < MaxAttempts
    /\ \E p \in Procs : proc[p] = "ready"
    /\ healthy' = TRUE
    /\ StartWorkers
    /\ UNCHANGED <<client, process, attempts, proc, failed>>

(* Faulty: the attempts start over instead of running out.                 *)
PollRetry_Forever ==
    /\ stage = "polling"
    /\ attempts' = (attempts + 1) % MaxAttempts
    /\ UNCHANGED <<stage, client, process, healthy, proc, taskVars, failed>>

(* Faulty: one attempt too many.                                           *)
PollRetry_OffByOne ==
    /\ stage = "polling"
    /\ attempts <= MaxAttempts
    /\ attempts' = attempts + 1
    /\ UNCHANGED <<stage, client, process, healthy, proc, taskVars, failed>>

(* A connection error or another status, then a second's sleep.            *)
PollRetry ==
    /\ stage = "polling"
    /\ attempts < MaxAttempts
    /\ attempts' = attempts + 1
    /\ UNCHANGED <<stage, client, process, healthy, proc, taskVars, failed>>

(* Faulty: the last attempt is followed by a return.                       *)
GiveUp_Returns ==
    /\ stage = "polling"
    /\ attempts = MaxAttempts
    /\ StartWorkers
    /\ UNCHANGED <<backendVars, proc, failed>>

(* start() raises: its RuntimeError after the last attempt.                *)
(* runtime.start() is outside of lifespan's try, so nothing is stopped.    *)
GiveUp ==
    /\ stage = "polling"
    /\ attempts = MaxAttempts
    /\ stage' = "down"
    /\ failed' = failed \cup {process}
    /\ UNCHANGED <<backendVars, proc, taskVars>>

(* So does a health check that fails with anything else than ConnectError, *)
(* a ReadTimeout or a ConnectTimeout.                                      *)
PollRaises ==
    /\ stage = "polling"
    /\ attempts < MaxAttempts
    /\ stage' = "down"
    /\ failed' = failed \cup {process}
    /\ UNCHANGED <<backendVars, proc, taskVars>>

-----------------------------------------------------------------------------
(* RuntimeServices.stop.                                                   *)

(* WorkerManager.stop cancels every task and awaits gather(tasks).         *)
Shutdown ==
    /\ stage = "serving"
    /\ stage' = "gathering"
    /\ task' = [t \in Tasks |-> IF t \in tasks THEN "cancelling" ELSE task[t]]
    /\ UNCHANGED <<backendVars, proc, tasks, failed>>

(* A task ends when its cancellation has got through the backend's         *)
(* generator and its HTTP response.                                        *)
TaskEnds(t) ==
    /\ task[t] = "cancelling"
    /\ task' = [task EXCEPT ![t] = "done"]
    /\ UNCHANGED <<stage, backendVars, proc, tasks, failed>>

(* Faulty: the list keeps the tasks that were cancelled.                   *)
Gathered_KeepsTasks ==
    /\ stage = "gathering"
    /\ \E t \in tasks : task[t] = "done"
    /\ stage' = "closing"
    /\ UNCHANGED <<backendVars, proc, taskVars, failed>>

(* gather raises CancelledError when the first of the tasks has ended.     *)
Gathered ==
    /\ stage = "gathering"
    /\ \E t \in tasks : task[t] = "done"
    /\ tasks' = {}
    /\ stage' = "closing"
    /\ UNCHANGED <<backendVars, proc, task, failed>>

(* The client is closed; a process that has not exited is terminated.      *)
CloseClient ==
    /\ stage = "closing"
    /\ client' = FALSE
    /\ stage' = IF process # NoProc /\ Alive(process) THEN "terminating" ELSE "down"
    /\ UNCHANGED <<process, attempts, healthy, proc, taskVars, failed>>

(* Faulty: nobody kills a server that ignores terminate().                 *)
TermTimeout_Forgets ==
    /\ stage = "terminating"
    /\ process' = NoProc
    /\ stage' = "down"
    /\ UNCHANGED <<client, attempts, healthy, proc, taskVars, failed>>

(* Faulty: terminate() is given no time limit.                             *)
TermTimeout_WaitsOn ==
    /\ stage = "terminating"
    /\ UNCHANGED vars

(* wait() has taken too long: kill().  The timer may win over an exit that *)
(* has just happened: then kill() has no effect, or raises                 *)
(* ProcessLookupError out of stop(), with _process still set.              *)
TermTimeout ==
    /\ stage = "terminating"
    /\ stage' = "killing" \/ (~Alive(process) /\ stage' = "down")
    /\ UNCHANGED <<backendVars, proc, taskVars, failed>>

(* wait() returns.                                                         *)
Waited ==
    /\ stage \in {"terminating", "killing"}
    /\ ~Alive(process)
    /\ process' = NoProc
    /\ stage' = "down"
    /\ UNCHANGED <<client, attempts, healthy, proc, taskVars, failed>>

-----------------------------------------------------------------------------
Start == \/ AlreadyStarted \/ SpawnFails \/ \E p \in Procs : Spawn(p)
         \/ PollAnswered \/ PollRetry \/ PollRaises \/ GiveUp

Stop == Gathered \/ CloseClient \/ TermTimeout \/ Waited

Next ==
    \/ BeginNew \/ BeginAgain \/ Start \/ Shutdown \/ Stop
    \/ \E t \in Tasks : TaskEnds(t)
    \/ \E p \in Procs : Load(p) \/ Exit(p)

Spec == Init /\ [][Next]_vars

(* The lifespan coroutine runs when it can and its timers fire; cancelled  *)
(* tasks unwind; a killed process exits.  A server need not come up, nor   *)
(* heed terminate().                                                       *)
FairSpec ==
    /\ Spec
    /\ WF_vars(Start) /\ WF_vars(Stop)
    /\ \A t \in Tasks : WF_vars(TaskEnds(t))
    /\ \A p \in Procs : WF_vars(stage = "killing" /\ process = p /\ Exit(p))

-----------------------------------------------------------------------------
(* A server process that lives is in the hands of a runtime that is not    *)
(* down, unless its start() raised: no other path through stop(), not one  *)
(* with a server that ignores terminate(), leaves one behind.              *)
OnlyFailedStartsLeak ==
    \A p \in Procs : Alive(p) => p \in failed \/ (p = process /\ stage # "down")

(* A runtime that serves has all of its worker tasks, and none of an       *)
(* earlier lifespan; one that does not serve has none that still runs its  *)
(* loop.  WorkerManager.start does nothing if it finds tasks, so each stop *)
(* must cancel all of them and forget them, whichever ends first.          *)
ServedByItsWorkers ==
    LET running == {t \in Tasks : task[t] = "running"}
    IN  /\ stage = "serving" => running = tasks /\ Cardinality(running) = WorkerCount
        /\ stage # "serving" => running = {}

(* RuntimeServices.stop: "Stop the worker loop, then backend-dependent     *)
(* services."  No worker task is still running when the client goes, not   *)
(* even to get its cancellation through the backend's generator.           *)
WorkersEndFirst ==
    stage \in {"closing", "terminating", "killing"} =>
        \A t \in Tasks : task[t] \notin {"running", "cancelling"}

(* start(): "wait for it to become healthy."  The application serves only  *)
(* if a health check has succeeded since its server was spawned.           *)
HealthWasChecked == stage = "serving" => healthy

(* The application does so unless the start of that server has raised      *)
(* before: no other sequence of starts and stops skips the health check.   *)
OnlyFailedStartsUnchecked ==
    stage = "serving" => healthy \/ process \in failed

(* LlamaCppBackend: "The subprocess is started / stopped via start /       *)
(* stop, which are called by RuntimeServices during the FastAPI lifespan." *)
(* When the lifespan is over, no server is left.                           *)
NoServerLeft == stage = "down" => \A p \in Procs : ~Alive(p)

(* A start comes to an end, whatever the server does.                      *)
StartEnds == stage = "starting" ~> stage \in {"serving", "down"}

(* So does a stop.                                                         *)
StopEnds == stage = "gathering" ~> stage = "down"
=============================================================================
