-------------------------- MODULE PriorityScheduler --------------------------
(***************************************************************************)
(* scheduler/priority.py, called by the tasks of WorkerManager.  The list  *)
(* of queued requests is a set of entries: every pop scans it for the      *)
(* least (effective priority, sequence).  The lock of the                  *)
(* asyncio.Condition is held by the worker whose state is "locked"; a      *)
(* submit that finds it taken takes effect when it is released.            *)
(***************************************************************************)
EXTENDS Integers, Sequences, FiniteSets

CONSTANTS
    Requests,
    Workers,
    Priorities,       \* what a client may ask for
    AgingInterval,    \* aging_boost_interval_s in ticks, 0 is "no aging"
    MaxBatchSize,
    BatchTimeout,     \* batch_timeout_ms in ticks
    MaxTime           \* bound on the clock

(* lifecycle.py: several workers only with a backend that batches itself,  *)
(* and then each worker takes one request at a time and does not wait.     *)
ASSUME SchedulerAssumption ==
    /\ IsFiniteSet(Workers)
    /\ Priorities \subseteq Nat
    /\ AgingInterval \in Nat
    /\ MaxBatchSize \in Nat \ {0}
    /\ BatchTimeout \in Nat
    /\ MaxTime \in Nat
    /\ (\A v, w \in Workers : v = w) \/ (MaxBatchSize = 1 /\ BatchTimeout = 0)

VARIABLES
    now,         \* _time_fn()
    items,       \* _items
    counter,     \* _counter
    worker,      \* where each worker is in next_batch, "away" when not in it
    batch,       \* items of the next_batch call of each worker
    deadline,    \* deadline of the next_batch call of each worker
    popped,      \* history: every entry taken from _items, in order
    returned     \* history: the requests next_batch has given to a worker

vars == <<now, items, counter, worker, batch, deadline, popped, returned>>

Entry == [req : Requests, priority : Priorities, sequence : Nat, queued_at : Nat]

-----------------------------------------------------------------------------
(* _effective_priority, at the current time.                               *)
EffectivePriority(e) ==
    IF AgingInterval = 0 THEN e.priority
    ELSE LET boost == (now - e.queued_at) \div AgingInterval
         IN  IF boost < e.priority THEN e.priority - boost ELSE 0

(* The key _pop_next_locked takes the minimum of.                          *)
NoLater(e, f) ==
    \/ EffectivePriority(e) < EffectivePriority(f)
    \/ EffectivePriority(e) = EffectivePriority(f) /\ e.sequence <= f.sequence

(* Faulty: the newest of the most urgent goes first.                       *)
MostUrgent_Newest(e) ==
    \A f \in items : \/ EffectivePriority(e) < EffectivePriority(f)
                     \/ EffectivePriority(e) = EffectivePriority(f) /\ e.sequence >= f.sequence

MostUrgent(e) == \A f \in items : NoLater(e, f)

Waiting == {w \in Workers : worker[w] = "waiting"}    \* in Condition.wait()
Notified == {w \in Workers : worker[w] = "notified"}  \* its future is done

LockIsFree == \A w \in Workers : worker[w] # "locked"

(* Faulty: a second request does not notify, one was called already.       *)
Notify_OnlyFirst == IF Waiting = {} \/ items # {} THEN {worker}
                    ELSE {[worker EXCEPT ![w] = "notified"] : w \in Waiting}

(* Condition.notify(): one of those that wait, if there is one.            *)
Notify == IF Waiting = {} THEN {worker}
          ELSE {[worker EXCEPT ![w] = "notified"] : w \in Waiting}

TypeOK ==
    /\ now \in 0 .. MaxTime
    /\ items \subseteq Entry
    /\ counter \in Nat
    /\ worker \in [Workers -> {"away", "locked", "waiting", "notified"}]
    /\ batch \in [Workers -> Seq(Requests)]
    /\ \A w \in Workers : Len(batch[w]) <= MaxBatchSize
    /\ \A v, w \in Workers : worker[v] = "locked" /\ worker[w] = "locked" => v = w
    /\ deadline \in [Workers -> Nat]
    /\ popped \in Seq(Entry)
    /\ returned \subseteq Requests

Init ==
    /\ now = 0
    /\ items = {}
    /\ counter = 0
    /\ worker = [w \in Workers |-> "away"]
    /\ batch = [w \in Workers |-> <<>>]
    /\ deadline = [w \in Workers |-> 0]
    /\ popped = <<>>
    /\ returned = {}

Queued == {e.req : e \in items}
Popped == {popped[i].req : i \in 1 .. Len(popped)}
InBatchOf(w) == {batch[w][i] : i \in 1 .. Len(batch[w])}

Submitted == Queued \cup Popped

(* submit                                                                  *)
Submit(r, p) ==
    /\ r \notin Submitted
    /\ LockIsFree
    /\ counter' = counter + 1
    /\ items' = items \cup {[req |-> r, priority |-> p,
                             sequence |-> counter + 1, queued_at |-> now]}
    /\ worker' \in Notify
    /\ UNCHANGED <<now, batch, deadline, popped, returned>>

(* A worker calls next_batch, or wakes up in Condition.wait(): it takes    *)
(* the lock.                                                               *)
TakeLock(w) ==
    /\ worker[w] \in {"away", "notified"}
    /\ LockIsFree
    /\ worker' = [worker EXCEPT ![w] = "locked"]
    /\ UNCHANGED <<now, items, counter, batch, deadline, popped, returned>>

HasRoom(w) == Len(batch[w]) < MaxBatchSize

Later(t) == IF t < MaxTime THEN t ELSE MaxTime

(* Faulty: a full batch takes one more.                                    *)
Pop_Overfull(w) ==
    /\ worker[w] = "locked"
    /\ \E e \in items :
         /\ MostUrgent(e)
         /\ items' = items \ {e}
         /\ batch' = [batch EXCEPT ![w] = Append(@, e.req)]
         /\ popped' = Append(popped, e)
    /\ deadline' = [deadline EXCEPT ![w] = Later(now + BatchTimeout)]
    /\ UNCHANGED <<now, counter, worker, returned>>

(* Faulty: the entry chosen stays in _items.                               *)
Pop_LeavesQueued(w) ==
    /\ worker[w] = "locked"
    /\ HasRoom(w)
    /\ \E e \in items :
         /\ MostUrgent(e)
         /\ batch' = [batch EXCEPT ![w] = Append(@, e.req)]
         /\ popped' = Append(popped, e)
    /\ deadline' = IF batch[w] = <<>>
                   THEN [deadline EXCEPT ![w] = Later(now + BatchTimeout)]
                   ELSE deadline
    /\ UNCHANGED <<now, items, counter, worker, returned>>

(* _pop_next_locked, for the first request of a batch, which sets the      *)
(* deadline for the others, or for another one.                            *)
Pop(w) ==
    /\ worker[w] = "locked"
    /\ HasRoom(w)
    /\ \E e \in items :
         /\ MostUrgent(e)
         /\ items' = items \ {e}
         /\ batch' = [batch EXCEPT ![w] = Append(@, e.req)]
         /\ popped' = Append(popped, e)
    /\ deadline' = IF batch[w] = <<>>
                   THEN [deadline EXCEPT ![w] = Later(now + BatchTimeout)]
                   ELSE deadline
    /\ UNCHANGED <<now, counter, worker, returned>>

(* Nothing is queued: wait, without a limit for the first request and      *)
(* until the deadline for another one.                                     *)
Wait(w) ==
    /\ worker[w] = "locked"
    /\ HasRoom(w)
    /\ items = {}
    /\ batch[w] # <<>> => BatchTimeout > 0 /\ now < deadline[w]
    /\ worker' = [worker EXCEPT ![w] = "waiting"]
    /\ UNCHANGED <<now, items, counter, batch, deadline, popped, returned>>

Leave(w) ==
    /\ worker' = [worker EXCEPT ![w] = "away"]
    /\ returned' = returned \cup InBatchOf(w)
    /\ batch' = [batch EXCEPT ![w] = <<>>]
    /\ UNCHANGED <<now, items, counter, deadline, popped>>

(* The batch is full, or nothing is queued and its time is up.             *)
Return(w) ==
    /\ worker[w] = "locked"
    /\ batch[w] # <<>>
    /\ \/ ~HasRoom(w)
       \/ items = {} /\ (BatchTimeout = 0 \/ now >= deadline[w])
    /\ Leave(w)

(* Faulty: the requests collected before the deadline are dropped.         *)
TimedOut_Drops(w) ==
    /\ worker[w] \in {"waiting", "notified"}
    /\ LockIsFree
    /\ batch[w] # <<>>
    /\ now >= deadline[w]
    /\ worker' = [worker EXCEPT ![w] = "away"]
    /\ batch' = [batch EXCEPT ![w] = <<>>]
    /\ UNCHANGED <<now, items, counter, deadline, popped, returned>>

(* wait_for cancels Condition.wait() at the deadline, also when it has     *)
(* been notified and has not run since: the batch goes without the request *)
(* it was notified of.                                                     *)
TimedOut(w) ==
    /\ worker[w] \in {"waiting", "notified"}
    /\ LockIsFree
    /\ batch[w] # <<>>
    /\ now >= deadline[w]
    /\ Leave(w)

Tick ==
    /\ now < MaxTime
    /\ now' = now + 1
    /\ UNCHANGED <<items, counter, worker, batch, deadline, popped, returned>>

Step(w) == TakeLock(w) \/ Pop(w) \/ Wait(w) \/ Return(w) \/ TimedOut(w)

Next ==
    \/ \E r \in Requests, p \in Priorities : Submit(r, p)
    \/ \E w \in Workers : Step(w)
    \/ Tick

Spec == Init /\ [][Next]_vars

(* A worker that is ready to run is run by the event loop, a worker that   *)
(* has got a batch comes back for the next one (a backend that never       *)
(* answers is the subject of ServingRuntime), and the clock goes on.       *)
FairSpec == Spec /\ WF_vars(Tick) /\ \A w \in Workers : WF_vars(Step(w))

-----------------------------------------------------------------------------
(* How e may get ahead of f, which was submitted before it: it asked for   *)
(* more urgency, and with aging it came before f had waited long enough to *)
(* be of the highest priority.                                             *)
MayOvertake(e, f) ==
    /\ e.priority < f.priority
    /\ AgingInterval > 0 => e.queued_at < f.queued_at + f.priority * AgingInterval

(* The class comment's promises: requests of one priority leave in the     *)
(* order they came, whatever their ages, and aging lets an old request of  *)
(* low priority be overtaken only for a bounded time.                      *)
OvertakenOnlyByUrgent ==
    \A i \in 1 .. Len(popped) :
        /\ \A f \in items : f.sequence < popped[i].sequence => MayOvertake(popped[i], f)
        /\ \A j \in i + 1 .. Len(popped) :
             popped[j].sequence < popped[i].sequence => MayOvertake(popped[i], popped[j])

(* No wakeup is lost: while a worker sits in Condition.wait() uncalled,    *)
(* every queued request has a worker awake to take it.                     *)
WorkConserving ==
    Waiting # {} =>
        Cardinality(items) <=
            Cardinality(Notified \cup {w \in Workers : worker[w] = "locked" /\ HasRoom(w)})

(* Each request submitted is in one place: queued, in the batch that one   *)
(* worker is collecting, or handed to a worker, whichever way the deadline *)
(* and the notification race.  _counter is the number of submits, so none  *)
(* has vanished from _items and none is there beside its own copy.         *)
NothingLeftBehind ==
    /\ Cardinality(Submitted) = counter
    /\ Queued \cap Popped = {}
    /\ Popped = returned \cup UNION {InBatchOf(w) : w \in Workers}
    /\ \A w \in Workers : returned \cap InBatchOf(w) = {}
    /\ \A v, w \in Workers : v # w => InBatchOf(v) \cap InBatchOf(w) = {}

Collecting == [w \in Workers |-> InBatchOf(w)]

(* The scheduler does what its interface says, whatever the priorities,    *)
(* ages and deadlines: each request leaves the queue once, into one batch, *)
(* and batches are bounded.                                                *)
Scheduler == INSTANCE SchedulerContract WITH
    waiting    <- Queued,
    collecting <- Collecting,
    taken      <- Popped

ImplementsScheduler == Scheduler!Spec

(* Every request that is submitted reaches a worker.                       *)
AllReturned == \A r \in Requests : r \in Submitted ~> r \in returned
=============================================================================
