----------------------- MODULE RuntimeLifecycle_proofs -----------------------
(***************************************************************************)
(* Theorems about RuntimeLifecycle, for any number of server processes,    *)
(* tasks, lifespans and health checks.                                     *)
(***************************************************************************)
EXTENDS RuntimeLifecycle, TLAPS

(* Every step keeps the types.                                             *)
LEMMA TypeStep == TypeOK /\ [Next]_vars => TypeOK'
<1> SUFFICES ASSUME TypeOK, [Next]_vars PROVE TypeOK'
  OBVIOUS
<1>1. ASSUME StartWorkers
      PROVE  /\ stage' = "serving" /\ tasks' \subseteq Tasks
             /\ task' \in [Tasks -> {"unused", "running", "cancelling", "done"}]
  BY <1>1 DEF StartWorkers, UnusedTasks, TypeOK, taskVars
<1>2. CASE BeginNew \/ BeginAgain
  BY <1>2 DEF BeginNew, BeginAgain, TypeOK, Stages, backendVars, taskVars
<1>3. CASE AlreadyStarted
  <2>1. UNCHANGED <<client, process, attempts, healthy, proc, failed>>
    BY <1>3 DEF AlreadyStarted, backendVars
  <2>2. StartWorkers
    BY <1>3 DEF AlreadyStarted
  <2>3. QED
    BY <1>1, <2>1, <2>2 DEF TypeOK, Stages
<1>4. CASE SpawnFails
  BY <1>4 DEF SpawnFails, TypeOK, Stages, backendVars, taskVars
<1>5. ASSUME NEW p \in Procs, Spawn(p) PROVE TypeOK'
  <2>1. attempts' \in 0 .. MaxAttempts
    BY <1>5, LifecycleAssumption DEF Spawn
  <2>2. process' \in Procs /\ process' # NoProc
    BY <1>5, LifecycleAssumption DEF Spawn
  <2>3. proc' \in [Procs -> {"unused", "loading", "ready", "dead"}]
    BY <1>5 DEF Spawn, TypeOK
  <2>4. QED
    BY <1>5, <2>1, <2>2, <2>3 DEF Spawn, TypeOK, Stages, taskVars
<1>6. CASE PollAnswered
  BY <1>1, <1>6 DEF PollAnswered, TypeOK, Stages
<1>7. CASE PollRetry
  BY <1>7, LifecycleAssumption DEF PollRetry, TypeOK, taskVars
<1>8. CASE GiveUp \/ PollRaises
  BY <1>8 DEF GiveUp, PollRaises, TypeOK, Stages, backendVars, taskVars
<1>9. CASE Shutdown
  BY <1>9 DEF Shutdown, TypeOK, Stages, backendVars
<1>10. CASE Gathered
  BY <1>10 DEF Gathered, TypeOK, Stages, backendVars
<1>11. CASE CloseClient
  BY <1>11 DEF CloseClient, TypeOK, Stages, taskVars
<1>12. CASE TermTimeout
  BY <1>12 DEF TermTimeout, TypeOK, Stages, backendVars, taskVars
<1>13. CASE Waited
  BY <1>13 DEF Waited, TypeOK, Stages, taskVars
<1>14. ASSUME NEW t \in Tasks, TaskEnds(t) PROVE TypeOK'
  BY <1>14 DEF TaskEnds, TypeOK, backendVars
<1>15. ASSUME NEW p \in Procs, Load(p) \/ Exit(p) PROVE TypeOK'
  BY <1>15 DEF Load, Exit, TypeOK, backendVars, taskVars
<1>16. CASE UNCHANGED vars
  BY <1>16 DEF vars, backendVars, taskVars, TypeOK
<1>17. QED
  BY <1>2, <1>3, <1>4, <1>5, <1>6, <1>7, <1>8, <1>9, <1>10, <1>11, <1>12, <1>13,
     <1>14, <1>15, <1>16 DEF Next, Start, Stop

(* The lifecycle's state is well-formed: in particular the number of       *)
(* health checks is bounded, and stop() waits only for a process it has.   *)
THEOREM LifecycleTyped == Spec => []TypeOK
<1>1. Init => TypeOK
  <2> SUFFICES ASSUME Init PROVE TypeOK
    OBVIOUS
  <2>1. attempts \in 0 .. MaxAttempts
    BY LifecycleAssumption DEF Init
  <2>2. QED
    BY <2>1 DEF Init, TypeOK, Stages
<1>2. QED
  BY <1>1, TypeStep, PTL DEF Spec

-----------------------------------------------------------------------------
(* The inductive invariant for OnlyFailedStartsLeak: a lifespan that has   *)
(* not spawned its server yet has none either.                             *)
Owned ==
    \A p \in Procs :
        Alive(p) => p \in failed \/ (p = process /\ stage \notin {"down", "starting"})

(* Every step keeps each live server owned, or known as a failed start's.  *)
LEMMA OwnedStep == TypeOK /\ Owned /\ [Next]_vars => Owned'
<1> SUFFICES ASSUME TypeOK, Owned, [Next]_vars PROVE Owned'
  OBVIOUS
<1>1. CASE BeginNew \/ BeginAgain
  BY <1>1 DEF BeginNew, BeginAgain, MayBegin, Owned, Alive, backendVars
<1>2. CASE AlreadyStarted \/ PollAnswered
  BY <1>2 DEF AlreadyStarted, PollAnswered, StartWorkers, Owned, Alive, backendVars
<1>3. CASE SpawnFails
  BY <1>3 DEF SpawnFails, Owned, Alive, backendVars
<1>4. ASSUME NEW p \in Procs, Spawn(p) PROVE Owned'
  BY <1>4 DEF Spawn, Owned, Alive, TypeOK
<1>5. CASE PollRetry
  BY <1>5 DEF PollRetry, Owned, Alive
<1>6. CASE GiveUp \/ PollRaises
  BY <1>6 DEF GiveUp, PollRaises, Owned, Alive, backendVars
<1>7. CASE Shutdown \/ Gathered
  BY <1>7 DEF Shutdown, Gathered, Owned, Alive, backendVars
<1>8. CASE CloseClient
  BY <1>8, LifecycleAssumption DEF CloseClient, Owned, Alive
<1>9. CASE TermTimeout
  BY <1>9 DEF TermTimeout, Owned, Alive, backendVars
<1>10. CASE Waited
  BY <1>10 DEF Waited, Owned, Alive
<1>11. ASSUME NEW t \in Tasks, TaskEnds(t) PROVE Owned'
  BY <1>11 DEF TaskEnds, Owned, Alive, backendVars
<1>12. ASSUME NEW p \in Procs, Load(p) \/ Exit(p) PROVE Owned'
  BY <1>12 DEF Load, Exit, Owned, Alive, TypeOK, backendVars
<1>13. CASE UNCHANGED vars
  BY <1>13 DEF vars, backendVars, Owned, Alive
<1>14. QED
  BY <1>1, <1>2, <1>3, <1>4, <1>5, <1>6, <1>7, <1>8, <1>9, <1>10, <1>11, <1>12, <1>13
     DEF Next, Start, Stop

(* Whatever the servers do and however often the application starts and    *)
(* stops, only a start that raised leaves a server process behind.         *)
THEOREM StopLeavesNoServer == Spec => []OnlyFailedStartsLeak
<1>1. Init => Owned
  BY DEF Init, Owned, Alive
<1>2. Owned => OnlyFailedStartsLeak
  BY DEF Owned, OnlyFailedStartsLeak
<1>3. QED
  BY <1>1, <1>2, LifecycleTyped, OwnedStep, PTL DEF Spec

-----------------------------------------------------------------------------
(* The inductive invariant for ServedByItsWorkers: the list is empty unless *)
(* the lifespan serves or stops its workers, it holds every task that runs, *)
(* and while the lifespan serves exactly worker_count of them.              *)
Managed ==
    /\ stage \notin {"serving", "gathering"} => tasks = {}
    /\ \A t \in Tasks : task[t] = "running" => stage = "serving" /\ t \in tasks
    /\ stage = "serving" => /\ \A t \in tasks : task[t] = "running"
                            /\ Cardinality(tasks) = WorkerCount

(* Every step keeps the list of tasks and what runs in agreement.          *)
LEMMA ManagedStep == TypeOK /\ Managed /\ [Next]_vars => Managed'
<1> SUFFICES ASSUME TypeOK, Managed, [Next]_vars PROVE Managed'
  OBVIOUS
<1>1. ASSUME StartWorkers, stage # "serving", tasks = {} PROVE Managed'
  <2>1. PICK T \in SUBSET UnusedTasks :
          /\ Cardinality(T) = WorkerCount /\ tasks' = T
          /\ task' = [t \in Tasks |-> IF t \in T THEN "running" ELSE task[t]]
    BY <1>1 DEF StartWorkers
  <2>2. T \subseteq Tasks
    BY DEF UnusedTasks
  <2>3. \A t \in Tasks : task[t] # "running"
    BY <1>1 DEF Managed
  <2>4. stage' = "serving"
    BY <1>1 DEF StartWorkers
  <2>5. QED
    BY <2>1, <2>2, <2>3, <2>4 DEF Managed
<1>2. CASE BeginNew \/ BeginAgain
  BY <1>2 DEF BeginNew, BeginAgain, MayBegin, Managed, taskVars
<1>3. CASE AlreadyStarted \/ PollAnswered
  BY <1>1, <1>3 DEF AlreadyStarted, PollAnswered, Managed
<1>4. CASE SpawnFails \/ PollRetry \/ GiveUp \/ PollRaises \/ \E p \in Procs : Spawn(p)
  BY <1>4 DEF SpawnFails, PollRetry, GiveUp, PollRaises, Spawn, Managed, taskVars
<1>5. CASE Shutdown
  <2>1. /\ stage' = "gathering" /\ tasks' = tasks
        /\ task' = [t \in Tasks |-> IF t \in tasks THEN "cancelling" ELSE task[t]]
    BY <1>5 DEF Shutdown
  <2>2. QED
    BY <2>1 DEF Managed
<1>6. CASE Gathered
  BY <1>6 DEF Gathered, Managed
<1>7. CASE CloseClient \/ TermTimeout \/ Waited
  BY <1>7 DEF CloseClient, TermTimeout, Waited, Managed, taskVars
<1>8. ASSUME NEW t \in Tasks, TaskEnds(t) PROVE Managed'
  <2>1. task[t] = "cancelling" /\ task' = [task EXCEPT ![t] = "done"]
    BY <1>8 DEF TaskEnds
  <2>2. stage = "serving" => t \notin tasks
    BY <2>1 DEF Managed
  <2>3. QED
    BY <1>8, <2>1, <2>2 DEF TaskEnds, Managed, TypeOK
<1>9. ASSUME NEW p \in Procs, Load(p) \/ Exit(p) PROVE Managed'
  BY <1>9 DEF Load, Exit, Managed, taskVars
<1>10. CASE UNCHANGED vars
  BY <1>10 DEF vars, taskVars, Managed
<1>11. QED
  BY <1>2, <1>3, <1>4, <1>5, <1>6, <1>7, <1>8, <1>9, <1>10 DEF Next, Start, Stop

(* For any number of workers and lifespans: a runtime serves with exactly  *)
(* its worker_count tasks, and no task runs its loop when it does not.     *)
THEOREM WorkersAreManaged == Spec => []ServedByItsWorkers
<1>1. Init => Managed
  BY DEF Init, Managed
<1>2. TypeOK /\ Managed => ServedByItsWorkers
  <2> SUFFICES ASSUME TypeOK, Managed PROVE ServedByItsWorkers
    OBVIOUS
  <2> DEFINE running == {t \in Tasks : task[t] = "running"}
  <2>1. stage = "serving" => running = tasks
    BY DEF Managed, TypeOK
  <2>2. stage # "serving" => running = {}
    BY DEF Managed
  <2>3. QED
    BY <2>1, <2>2 DEF ServedByItsWorkers, Managed
<1>3. QED
  BY <1>1, <1>2, LifecycleTyped, ManagedStep, PTL DEF Spec

-----------------------------------------------------------------------------
(* The inductive invariant for OnlyFailedStartsUnchecked: a client that is *)
(* there when no server is being started is left from a failed start.      *)
Checked ==
    /\ stage \in {"down", "starting"} /\ client => process \in failed
    /\ stage \in {"terminating", "killing"} => ~client
    /\ OnlyFailedStartsUnchecked

(* Every step keeps the invariant.                                         *)
LEMMA CheckedStep == Checked /\ [Next]_vars => Checked'
<1> SUFFICES ASSUME Checked, [Next]_vars PROVE Checked'
  OBVIOUS
<1> USE DEF Checked, OnlyFailedStartsUnchecked
<1>1. CASE BeginNew \/ BeginAgain
  BY <1>1 DEF BeginNew, BeginAgain, MayBegin, backendVars
<1>2. CASE AlreadyStarted
  BY <1>2 DEF AlreadyStarted, StartWorkers, backendVars
<1>3. CASE PollAnswered
  BY <1>3 DEF PollAnswered, StartWorkers
<1>4. CASE SpawnFails \/ PollRetry \/ \E p \in Procs : Spawn(p)
  BY <1>4 DEF SpawnFails, PollRetry, Spawn, backendVars
<1>5. CASE GiveUp \/ PollRaises
  BY <1>5 DEF GiveUp, PollRaises, backendVars
<1>6. CASE Shutdown \/ Gathered
  BY <1>6 DEF Shutdown, Gathered, backendVars
<1>7. CASE CloseClient \/ TermTimeout \/ Waited
  BY <1>7 DEF CloseClient, TermTimeout, Waited, backendVars
<1>8. CASE \/ \E t \in Tasks : TaskEnds(t)
           \/ \E p \in Procs : Load(p) \/ Exit(p)
           \/ UNCHANGED vars
  BY <1>8 DEF TaskEnds, Load, Exit, vars, backendVars
<1>9. QED
  BY <1>1, <1>2, <1>3, <1>4, <1>5, <1>6, <1>7, <1>8 DEF Next, Start, Stop

(* However often the application starts and stops, with services of its    *)
(* own or not, it serves unchecked only after a start that raised.         *)
THEOREM OnlyFailedStartsSkipHealth == Spec => []OnlyFailedStartsUnchecked
<1>1. Init => Checked
  BY DEF Init, Checked, OnlyFailedStartsUnchecked
<1>2. Checked => OnlyFailedStartsUnchecked
  BY DEF Checked
<1>3. QED
  BY <1>1, <1>2, CheckedStep, PTL DEF Spec
=============================================================================
