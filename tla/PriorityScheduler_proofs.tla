---------------------- MODULE PriorityScheduler_proofs ----------------------
(***************************************************************************)
(* Theorems about PriorityScheduler, for any number of requests, workers,  *)
(* priorities and any aging interval, batch size and timeout.              *)
(***************************************************************************)
EXTENDS PriorityScheduler, RuntimeConfig, FiniteSetTheorems, TLAPS

-----------------------------------------------------------------------------
(* What a worker that leaves next_batch does to the variables.             *)
LEMMA LeaveTyped ==
    ASSUME TypeOK, NEW w \in Workers, Leave(w)
    PROVE  TypeOK'
<1>1. /\ worker' \in [Workers -> {"away", "locked", "waiting", "notified"}]
      /\ \A v \in Workers : worker'[v] = IF v = w THEN "away" ELSE worker[v]
  BY DEF TypeOK, Leave
<1>2. /\ batch' \in [Workers -> Seq(Requests)]
      /\ \A v \in Workers : batch'[v] = IF v = w THEN <<>> ELSE batch[v]
  BY DEF TypeOK, Leave
<1>3. \A v \in Workers : Len(batch'[v]) <= MaxBatchSize
  <2>1. Len(<<>>) = 0
    OBVIOUS
  <2>2. QED
    BY <1>2, <2>1, SchedulerAssumption DEF TypeOK
<1>4. \A u, v \in Workers : worker'[u] = "locked" /\ worker'[v] = "locked" => u = v
  BY <1>1 DEF TypeOK
<1>5. returned' \subseteq Requests
  <2>1. \A i \in 1 .. Len(batch[w]) : batch[w][i] \in Requests
    BY DEF TypeOK
  <2>2. QED
    BY <2>1 DEF TypeOK, Leave, InBatchOf
<1>6. QED
  BY <1>1, <1>2, <1>3, <1>4, <1>5 DEF TypeOK, Leave

(* Condition.notify() changes the state of one waiting worker at most, to  *)
(* "notified", and of one when there is one.                               *)
LEMMA NotifyFacts ==
    ASSUME TypeOK, worker' \in Notify
    PROVE  \/ Waiting = {} /\ worker' = worker
           \/ \E w \in Waiting : worker' = [worker EXCEPT ![w] = "notified"]
<1>1. CASE Waiting = {}
  BY <1>1 DEF Notify
<1>2. CASE Waiting # {}
  BY <1>2 DEF Notify
<1>3. QED
  BY <1>1, <1>2

(* Every step keeps the types, the size of the batches and the lock's      *)
(* single holder.                                                          *)
LEMMA TypeStep == TypeOK /\ [Next]_vars => TypeOK'
<1> SUFFICES ASSUME TypeOK, [Next]_vars PROVE TypeOK'
  OBVIOUS
<1>1. ASSUME NEW r \in Requests, NEW p \in Priorities, Submit(r, p) PROVE TypeOK'
  <2>1. [req |-> r, priority |-> p, sequence |-> counter + 1, queued_at |-> now] \in Entry
    BY SchedulerAssumption DEF TypeOK, Entry
  <2>2. items' \subseteq Entry /\ counter' \in Nat
    BY <1>1, <2>1 DEF Submit, TypeOK
  <2>3. /\ worker' \in [Workers -> {"away", "locked", "waiting", "notified"}]
        /\ \A v \in Workers : worker'[v] = "locked" => worker[v] = "locked"
    <3>1. CASE worker' = worker
      BY <3>1 DEF TypeOK
    <3>2. ASSUME NEW w \in Waiting, worker' = [worker EXCEPT ![w] = "notified"]
          PROVE  <2>3!1 /\ <2>3!2
      BY <3>2 DEF TypeOK, Waiting
    <3>3. QED
      BY <1>1, <3>1, <3>2, NotifyFacts DEF Submit
  <2>4. QED
    BY <1>1, <2>2, <2>3 DEF Submit, TypeOK
<1>2. ASSUME NEW w \in Workers, Step(w) PROVE TypeOK'
  <2>1. CASE TakeLock(w)
    BY <2>1 DEF TakeLock, TypeOK, LockIsFree
  <2>2. CASE Pop(w)
    <3>1. PICK e \in items : batch' = [batch EXCEPT ![w] = Append(@, e.req)]
                             /\ items' = items \ {e} /\ popped' = Append(popped, e)
      BY <2>2 DEF Pop
    <3>2. e \in Entry /\ e.req \in Requests
      BY <3>1 DEF TypeOK, Entry
    <3>3. /\ batch[w] \in Seq(Requests) /\ Len(batch[w]) < MaxBatchSize
          /\ Append(batch[w], e.req) \in Seq(Requests)
          /\ Len(Append(batch[w], e.req)) = Len(batch[w]) + 1
          /\ Len(batch[w]) \in Nat
      BY <2>2, <3>2 DEF Pop, HasRoom, TypeOK
    <3>4. /\ batch' \in [Workers -> Seq(Requests)]
          /\ \A v \in Workers : batch'[v] = IF v = w THEN Append(batch[w], e.req) ELSE batch[v]
      BY <3>1, <3>3 DEF TypeOK
    <3>5. \A v \in Workers : Len(batch'[v]) <= MaxBatchSize
      BY <3>3, <3>4, SchedulerAssumption DEF TypeOK
    <3>6. deadline' \in [Workers -> Nat]
      <4>1. Later(now + BatchTimeout) \in Nat
        BY SchedulerAssumption DEF TypeOK, Later
      <4>2. QED
        BY <2>2, <4>1 DEF Pop, TypeOK
    <3>7. popped' \in Seq(Entry) /\ items' \subseteq Entry
      BY <3>1, <3>2 DEF TypeOK
    <3>8. QED
      BY <2>2, <3>4, <3>5, <3>6, <3>7 DEF Pop, TypeOK
  <2>3. CASE Wait(w)
    BY <2>3 DEF Wait, TypeOK
  <2>4. CASE Return(w)
    BY <2>4, LeaveTyped DEF Return
  <2>5. CASE TimedOut(w)
    BY <2>5, LeaveTyped DEF TimedOut
  <2>6. QED
    BY <1>2, <2>1, <2>2, <2>3, <2>4, <2>5 DEF Step
<1>3. CASE Tick
  BY <1>3, SchedulerAssumption DEF Tick, TypeOK
<1>4. CASE UNCHANGED vars
  BY <1>4 DEF vars, TypeOK
<1>5. QED
  BY <1>1, <1>2, <1>3, <1>4 DEF Next

(* Batches never exceed their size and the condition's lock has one holder *)
(* at most.                                                                *)
THEOREM SchedulerTyped == Spec => []TypeOK
<1>1. Init => TypeOK
  BY SchedulerAssumption DEF Init, TypeOK
<1>2. QED
  BY <1>1, TypeStep, PTL DEF Spec

-----------------------------------------------------------------------------
(* The levels a request has gained by waiting: more for a longer wait, and *)
(* all of p levels after p intervals.                                      *)
LEMMA BoostFacts ==
    ASSUME NEW I \in Nat, I > 0, NEW x \in Nat, NEW y \in Nat, NEW p \in Nat
    PROVE  /\ x \div I \in Nat
           /\ x <= y => x \div I <= y \div I
           /\ p * I <= x => p <= x \div I
<1> DEFINE a == x \div I
           b == y \div I
<1>1. /\ a \in Int /\ I * a <= x /\ x < I * a + I
      /\ b \in Int /\ I * b <= y /\ y < I * b + I
  OBVIOUS
<1> HIDE DEF a, b
<1>2. a \in Nat
  <2> SUFFICES ASSUME a <= -1 PROVE FALSE
    BY <1>1
  <2>1. I * a <= I * (-1)
    BY <1>1
  <2>2. QED
    BY <1>1, <2>1
<1>3. x <= y => a <= b
  <2> SUFFICES ASSUME x <= y, b + 1 <= a PROVE FALSE
    BY <1>1
  <2>1. I * (b + 1) <= I * a
    BY <1>1
  <2>2. I * (b + 1) = I * b + I
    BY <1>1
  <2>3. QED
    BY <1>1, <2>1, <2>2
<1>4. p * I <= x => p <= a
  <2> SUFFICES ASSUME p * I <= x, a + 1 <= p PROVE FALSE
    BY <1>1
  <2>1. I * (a + 1) <= I * p
    BY <1>1
  <2>2. I * (a + 1) = I * a + I /\ I * p = p * I
    BY <1>1
  <2>3. QED
    BY <1>1, <2>1, <2>2
<1>5. QED
  BY <1>2, <1>3, <1>4 DEF a, b

(* The entry a pop chooses may overtake every entry it leaves behind that  *)
(* is older.                                                               *)
LEMMA PopOvertakes ==
    ASSUME TypeOK, NEW e \in items, NEW f \in items, MostUrgent(e),
           f.sequence < e.sequence, f.queued_at <= e.queued_at, e.queued_at <= now
    PROVE  MayOvertake(e, f)
<1>1. /\ e.priority \in Nat /\ f.priority \in Nat /\ e.sequence \in Nat /\ f.sequence \in Nat
      /\ e.queued_at \in Nat /\ f.queued_at \in Nat /\ now \in Nat
  <2>1. e \in Entry /\ f \in Entry /\ now \in Nat
    BY SchedulerAssumption DEF TypeOK
  <2>2. e.priority \in Priorities /\ f.priority \in Priorities
    BY <2>1 DEF Entry
  <2>3. /\ e.sequence \in Nat /\ f.sequence \in Nat
        /\ e.queued_at \in Nat /\ f.queued_at \in Nat
    BY <2>1 DEF Entry
  <2>4. QED
    BY <2>1, <2>2, <2>3, SchedulerAssumption
<1>2. NoLater(e, f)
  BY DEF MostUrgent
<1>3. CASE AgingInterval = 0
  BY <1>1, <1>2, <1>3 DEF NoLater, EffectivePriority, MayOvertake
<1>4. CASE AgingInterval > 0
  <2> DEFINE x == now - e.queued_at
             y == now - f.queued_at
             a == x \div AgingInterval
             b == y \div AgingInterval
             need == f.priority * AgingInterval
  <2>1. x \in Nat /\ y \in Nat /\ x <= y /\ need \in Nat
    BY <1>1, SchedulerAssumption
  <2>2. /\ a \in Nat /\ b \in Nat /\ a <= b
        /\ need <= y => f.priority <= b
    BY <1>1, <1>4, <2>1, BoostFacts, SchedulerAssumption
  <2>3. /\ EffectivePriority(e) = IF a < e.priority THEN e.priority - a ELSE 0
        /\ EffectivePriority(f) = IF b < f.priority THEN f.priority - b ELSE 0
    BY <1>4 DEF EffectivePriority
  <2> HIDE DEF a, b, need
  <2>4. EffectivePriority(e) < EffectivePriority(f)
    <3>1. EffectivePriority(e) \in Nat /\ EffectivePriority(f) \in Nat
      BY <1>1, <2>2, <2>3
    <3>2. QED
      BY <1>1, <1>2, <3>1 DEF NoLater
  <2>5. e.priority < f.priority /\ b < f.priority
    BY <1>1, <2>2, <2>3, <2>4
  <2>6. y < need
    BY <1>1, <2>1, <2>2, <2>5
  <2>7. e.queued_at < f.queued_at + need
    BY <1>1, <2>1, <2>6
  <2>8. QED
    BY <2>5, <2>7 DEF MayOvertake, need
<1>5. QED
  BY <1>3, <1>4, SchedulerAssumption

(* The inductive invariant for OvertakenOnlyByUrgent: sequence numbers and *)
(* arrival times grow together, and neither is from the future.            *)
Seen == items \cup {popped[i] : i \in 1 .. Len(popped)}

InOrder ==
    /\ \A e \in Seen : e.sequence <= counter /\ e.queued_at <= now
    /\ \A e, f \in Seen : e.sequence < f.sequence => e.queued_at <= f.queued_at

OrderInv == InOrder /\ OvertakenOnlyByUrgent

(* Steps that leave the entries and the counter alone keep the order.      *)
LEMMA OrderKept ==
    ASSUME OrderInv, UNCHANGED <<now, items, counter, popped>>
    PROVE  OrderInv'
  BY DEF OrderInv, InOrder, Seen, OvertakenOnlyByUrgent, MayOvertake

(* Every step keeps the order invariant.                                   *)
LEMMA OrderStep == TypeOK /\ OrderInv /\ [Next]_vars => OrderInv'
<1> SUFFICES ASSUME TypeOK, OrderInv, [Next]_vars PROVE OrderInv'
  OBVIOUS
<1>0. \A e \in Seen : e.sequence \in Nat /\ e.queued_at \in Nat
  <2>1. Seen \subseteq Entry
    BY DEF Seen, TypeOK
  <2>2. QED
    BY <2>1 DEF Entry
<1>1. ASSUME NEW r \in Requests, NEW p \in Priorities, Submit(r, p) PROVE OrderInv'
  <2> DEFINE new == [req |-> r, priority |-> p, sequence |-> counter + 1, queued_at |-> now]
  <2>1. /\ items' = items \cup {new} /\ popped' = popped
        /\ counter' = counter + 1 /\ now' = now
        /\ new.sequence = counter + 1 /\ new.queued_at = now
        /\ counter \in Nat /\ now \in Nat
    BY <1>1 DEF Submit, TypeOK
  <2> HIDE DEF new
  <2>2. Seen' = Seen \cup {new}
    BY <2>1 DEF Seen
  <2>3. InOrder'
    BY <1>0, <2>1, <2>2 DEF OrderInv, InOrder
  <2>4. \A i \in 1 .. Len(popped) : popped[i] \in Seen
    BY DEF Seen
  <2>5. \A i \in 1 .. Len(popped) : ~(new.sequence < popped[i].sequence)
    BY <1>0, <2>1, <2>4 DEF OrderInv, InOrder
  <2>6. OvertakenOnlyByUrgent'
    BY <2>1, <2>5 DEF OrderInv, OvertakenOnlyByUrgent, MayOvertake
  <2>7. QED
    BY <2>3, <2>6 DEF OrderInv
<1>2. ASSUME NEW w \in Workers, Pop(w) PROVE OrderInv'
  <2>1. PICK e \in items : /\ MostUrgent(e) /\ items' = items \ {e}
                           /\ popped' = Append(popped, e)
    BY <1>2 DEF Pop
  <2> DEFINE n == Len(popped)
  <2>2. /\ n \in Nat /\ Len(popped') = n + 1 /\ popped'[n + 1] = e
        /\ \A i \in 1 .. n : popped'[i] = popped[i]
    BY <2>1 DEF TypeOK
  <2>3. now' = now /\ counter' = counter
    BY <1>2 DEF Pop
  <2> HIDE DEF n
  <2>4. Seen' = Seen
    <3>1. {popped'[i] : i \in 1 .. Len(popped')} = {popped[i] : i \in 1 .. n} \cup {e}
      BY <2>2
    <3>2. QED
      BY <2>1, <3>1 DEF Seen, n
  <2>5. InOrder'
    BY <2>3, <2>4 DEF OrderInv, InOrder
  <2>6. \A f \in items' : f.sequence < e.sequence => MayOvertake(e, f)
    BY <2>1, PopOvertakes DEF OrderInv, InOrder, Seen
  <2>7. ASSUME NEW i \in 1 .. n + 1
        PROVE  /\ \A f \in items' : f.sequence < popped'[i].sequence => MayOvertake(popped'[i], f)
               /\ \A j \in i + 1 .. n + 1 :
                    popped'[j].sequence < popped'[i].sequence
                      => MayOvertake(popped'[i], popped'[j])
    <3>1. CASE i = n + 1
      BY <3>1, <2>2, <2>6
    <3>2. CASE i \in 1 .. n
      <4>1. /\ \A f \in items : f.sequence < popped[i].sequence => MayOvertake(popped[i], f)
            /\ \A j \in i + 1 .. n :
                 popped[j].sequence < popped[i].sequence => MayOvertake(popped[i], popped[j])
        BY <3>2 DEF OrderInv, OvertakenOnlyByUrgent, n
      <4>2. popped'[i] = popped[i]
        BY <3>2, <2>2
      <4>3. \A j \in i + 1 .. n + 1 :
              \/ j = n + 1 /\ popped'[j] = e
              \/ j \in i + 1 .. n /\ popped'[j] = popped[j]
        BY <3>2, <2>2
      <4>4. QED
        BY <2>1, <4>1, <4>2, <4>3
    <3>3. QED
      BY <3>1, <3>2, <2>2
  <2>8. OvertakenOnlyByUrgent'
    BY <2>2, <2>7 DEF OvertakenOnlyByUrgent, MayOvertake
  <2>9. QED
    BY <2>5, <2>8 DEF OrderInv
<1>3. ASSUME NEW w \in Workers, TakeLock(w) \/ Wait(w) \/ Return(w) \/ TimedOut(w)
      PROVE  OrderInv'
  BY <1>3, OrderKept DEF TakeLock, Wait, Return, TimedOut, Leave
<1>4. CASE Tick
  <2>1. Seen' = Seen /\ counter' = counter /\ now' = now + 1 /\ now \in Nat
    BY <1>4, SchedulerAssumption DEF Tick, Seen, TypeOK
  <2>2. InOrder'
    BY <1>0, <2>1 DEF OrderInv, InOrder
  <2>3. OvertakenOnlyByUrgent'
    BY <1>4 DEF Tick, OrderInv, OvertakenOnlyByUrgent, MayOvertake
  <2>4. QED
    BY <2>2, <2>3 DEF OrderInv
<1>5. CASE UNCHANGED vars
  BY <1>5, OrderKept DEF vars
<1>6. QED
  BY <1>1, <1>2, <1>3, <1>4, <1>5 DEF Next, Step

(* Whatever the load, requests of one priority leave in the order they     *)
(* came, and with aging a request is overtaken only by more urgent ones    *)
(* that came within as many intervals as it has levels to gain.            *)
THEOREM AgingBoundsOvertaking == Spec => []OvertakenOnlyByUrgent
<1>1. Init => OrderInv
  BY DEF Init, OrderInv, InOrder, Seen, OvertakenOnlyByUrgent
<1>2. OrderInv => OvertakenOnlyByUrgent
  BY DEF OrderInv
<1>3. QED
  BY <1>1, <1>2, SchedulerTyped, OrderStep, PTL DEF Spec

-----------------------------------------------------------------------------
(* The inductive invariant for WorkConserving: the queue is finite, and a  *)
(* worker that waits, called or not, has room for another request.         *)
Awake == Notified \cup {w \in Workers : worker[w] = "locked" /\ HasRoom(w)}

WakeInv ==
    /\ IsFiniteSet(items)
    /\ \A w \in Workers : worker[w] \in {"waiting", "notified"} => HasRoom(w)
    /\ WorkConserving

(* The awake workers are finitely many, and a set of them is no larger.    *)
LEMMA AwakeFinite ==
    /\ IsFiniteSet(Awake) /\ Cardinality(Awake) \in Nat
    /\ \A S \in SUBSET Awake : IsFiniteSet(S) /\ Cardinality(S) <= Cardinality(Awake)
<1>1. Awake \subseteq Workers
  BY DEF Awake, Notified
<1>2. IsFiniteSet(Awake)
  BY <1>1, FS_Subset, SchedulerAssumption
<1>3. QED
  BY <1>2, FS_Subset, FS_CardinalityType

(* When nothing is queued there is nothing to conserve.                    *)
LEMMA EmptyConserves == ASSUME items' = {} PROVE WorkConserving'
<1>1. Awake \subseteq Workers /\ Awake' \subseteq Workers
  BY DEF Awake, Notified
<1>2. IsFiniteSet(Awake') /\ Cardinality(Awake') \in Nat
  BY <1>1, FS_Subset, FS_CardinalityType, SchedulerAssumption
<1>3. Cardinality(items') = 0
  BY FS_EmptySet
<1>4. QED
  BY <1>2, <1>3 DEF WorkConserving, Awake

(* More workers awake, the same queue and nobody new who waits.            *)
LEMMA MoreAwakeConserves ==
    ASSUME WakeInv, items' = items, Waiting' = {} \/ Waiting # {}, Awake \subseteq Awake'
    PROVE  WorkConserving'
<1>1. Awake' \subseteq Workers
  BY DEF Awake, Notified
<1>2. IsFiniteSet(Awake') /\ Cardinality(Awake') \in Nat
  BY <1>1, FS_Subset, FS_CardinalityType, SchedulerAssumption
<1>3. Cardinality(Awake) <= Cardinality(Awake')
  BY <1>2, FS_Subset
<1>4. Cardinality(Awake) \in Nat /\ Cardinality(items) \in Nat
  BY AwakeFinite, FS_CardinalityType DEF WakeInv
<1>5. QED
  BY <1>2, <1>3, <1>4 DEF WakeInv, WorkConserving, Awake

(* Every step keeps the wakeup invariant.                                  *)
LEMMA WakeStep == TypeOK /\ WakeInv /\ [Next]_vars => WakeInv'
<1> SUFFICES ASSUME TypeOK, WakeInv, [Next]_vars PROVE WakeInv'
  OBVIOUS
<1>1. ASSUME NEW r \in Requests, NEW p \in Priorities, Submit(r, p) PROVE WakeInv'
  <2> DEFINE new == [req |-> r, priority |-> p, sequence |-> counter + 1, queued_at |-> now]
  <2>1. items' = items \cup {new} /\ batch' = batch
    BY <1>1 DEF Submit
  <2> HIDE DEF new
  <2>2. IsFiniteSet(items') /\ Cardinality(items') <= Cardinality(items) + 1
    <3>1. IsFiniteSet(items) /\ Cardinality(items) \in Nat
      BY FS_CardinalityType DEF WakeInv
    <3>2. Cardinality(items \cup {new}) = IF new \in items THEN Cardinality(items)
                                          ELSE Cardinality(items) + 1
      BY <3>1, FS_AddElement
    <3>3. IsFiniteSet(items \cup {new})
      BY <3>1, FS_AddElement
    <3>4. QED
      BY <2>1, <3>1, <3>2, <3>3
  <2>3. CASE Waiting = {} /\ worker' = worker
    BY <2>1, <2>2, <2>3 DEF WakeInv, WorkConserving, Waiting, HasRoom
  <2>4. ASSUME NEW w \in Waiting, worker' = [worker EXCEPT ![w] = "notified"] PROVE WakeInv'
    <3>1. \A v \in Workers : worker'[v] = IF v = w THEN "notified" ELSE worker[v]
      BY <2>4 DEF TypeOK
    <3>2. w \in Workers /\ worker[w] = "waiting" /\ w \notin Awake
      BY <2>4 DEF Waiting, Awake, Notified
    <3>3. Awake' = Awake \cup {w}
      BY <2>1, <3>1, <3>2 DEF Awake, Notified, HasRoom
    <3>4. Cardinality(Awake') = Cardinality(Awake) + 1
      BY <3>2, <3>3, AwakeFinite, FS_AddElement
    <3>5. Cardinality(items) <= Cardinality(Awake)
      BY <2>4 DEF WakeInv, WorkConserving, Awake
    <3>6. Cardinality(items) \in Nat /\ Cardinality(items') \in Nat /\ Cardinality(Awake) \in Nat
      BY <2>2, AwakeFinite, FS_CardinalityType DEF WakeInv
    <3>7. Cardinality(items') <= Cardinality(Awake')
      BY <2>2, <3>4, <3>5, <3>6
    <3>8. WorkConserving'
      BY <3>7 DEF WorkConserving, Awake
    <3>9. \A v \in Workers : worker'[v] \in {"waiting", "notified"} => HasRoom(v)'
      BY <2>1, <3>1, <3>2 DEF WakeInv, HasRoom
    <3>10. QED
      BY <2>2, <3>8, <3>9 DEF WakeInv
  <2>5. QED
    BY <1>1, <2>3, <2>4, NotifyFacts DEF Submit
<1>2. ASSUME NEW w \in Workers, TakeLock(w) PROVE WakeInv'
  <2>1. \A v \in Workers : worker'[v] = IF v = w THEN "locked" ELSE worker[v]
    BY <1>2 DEF TakeLock, TypeOK
  <2>2. items' = items /\ batch' = batch
    BY <1>2 DEF TakeLock
  <2>3. Awake \subseteq Awake' /\ Waiting' = Waiting
    BY <1>2, <2>1, <2>2 DEF TakeLock, WakeInv, Awake, Notified, Waiting, HasRoom
  <2>4. WorkConserving'
    BY <2>2, <2>3, MoreAwakeConserves
  <2>5. QED
    BY <2>1, <2>2, <2>4 DEF WakeInv, HasRoom
<1>3. ASSUME NEW w \in Workers, Pop(w) PROVE WakeInv'
  <2>1. PICK e \in items : /\ items' = items \ {e}
                           /\ batch' = [batch EXCEPT ![w] = Append(@, e.req)]
    BY <1>3 DEF Pop
  <2>2. /\ worker' = worker /\ worker[w] = "locked"
        /\ \A v \in Workers : v # w => batch'[v] = batch[v]
    BY <1>3, <2>1 DEF Pop, TypeOK
  <2>3. IsFiniteSet(items') /\ Cardinality(items') = Cardinality(items) - 1
    BY <2>1, FS_RemoveElement DEF WakeInv
  <2>4. Awake \ {w} \subseteq Awake' /\ Awake' \subseteq Awake
    BY <1>3, <2>2 DEF Pop, Awake, Notified, HasRoom
  <2>5. IsFiniteSet(Awake') /\ Cardinality(Awake') \in Nat
    BY <2>4, AwakeFinite, FS_Subset, FS_CardinalityType
  <2>6. Cardinality(Awake \ {w}) <= Cardinality(Awake')
    BY <2>4, <2>5, FS_Subset
  <2>7. Cardinality(Awake \ {w}) >= Cardinality(Awake) - 1 /\ Cardinality(Awake \ {w}) \in Nat
    <3>1. IsFiniteSet(Awake \ {w})
      BY AwakeFinite
    <3>2. Cardinality(Awake \ {w}) = IF w \in Awake THEN Cardinality(Awake) - 1
                                     ELSE Cardinality(Awake)
      BY AwakeFinite, FS_RemoveElement
    <3>3. Cardinality(Awake) \in Nat /\ Cardinality(Awake \ {w}) \in Nat
      BY <3>1, AwakeFinite, FS_CardinalityType
    <3>4. QED
      BY <3>2, <3>3
  <2>8. Cardinality(items) \in Nat /\ Cardinality(items') \in Nat /\ Cardinality(Awake) \in Nat
    BY <2>3, AwakeFinite, FS_CardinalityType DEF WakeInv
  <2>9. WorkConserving'
    BY <2>2, <2>3, <2>5, <2>6, <2>7, <2>8 DEF WakeInv, WorkConserving, Waiting, Awake
  <2>10. \A v \in Workers : worker'[v] \in {"waiting", "notified"} => HasRoom(v)'
    BY <2>2 DEF WakeInv, HasRoom
  <2>11. QED
    BY <2>3, <2>9, <2>10 DEF WakeInv
<1>4. ASSUME NEW w \in Workers, Wait(w) PROVE WakeInv'
  <2>1. items' = {} /\ batch' = batch /\ IsFiniteSet(items')
    BY <1>4, FS_EmptySet DEF Wait
  <2>2. \A v \in Workers : worker'[v] = IF v = w THEN "waiting" ELSE worker[v]
    BY <1>4 DEF Wait, TypeOK
  <2>3. \A v \in Workers : worker'[v] \in {"waiting", "notified"} => HasRoom(v)'
    BY <1>4, <2>1, <2>2 DEF Wait, WakeInv, HasRoom
  <2>4. QED
    BY <2>1, <2>3, EmptyConserves DEF WakeInv
<1>5. ASSUME NEW w \in Workers, Return(w) \/ TimedOut(w) PROVE WakeInv'
  <2>1. /\ items' = items
        /\ \A v \in Workers : worker'[v] = IF v = w THEN "away" ELSE worker[v]
        /\ \A v \in Workers : v # w => batch'[v] = batch[v]
    BY <1>5 DEF Return, TimedOut, Leave, TypeOK
  <2>2. \A v \in Workers : worker'[v] \in {"waiting", "notified"} => HasRoom(v)'
    BY <2>1 DEF WakeInv, HasRoom
  <2>3. Waiting' = Waiting \ {w}
    BY <2>1 DEF Waiting
  <2>4. CASE Return(w) /\ ~HasRoom(w)
    <3>1. w \notin Awake /\ w \notin Waiting
      BY <2>4 DEF Return, Awake, Notified, Waiting
    <3>2. Awake \subseteq Awake'
      BY <2>1, <3>1 DEF Awake, Notified, HasRoom
    <3>3. QED
      BY <2>1, <2>2, <2>3, <3>1, <3>2, MoreAwakeConserves DEF WakeInv
  <2>5. CASE Return(w) /\ items = {}
    BY <2>1, <2>2, <2>5, EmptyConserves DEF WakeInv
  <2>6. CASE TimedOut(w)
    <3>1. HasRoom(w) /\ batch[w] \in Seq(Requests) /\ batch[w] # <<>>
      BY <2>6 DEF TimedOut, WakeInv, TypeOK
    <3>2. MaxBatchSize # 1
      BY <3>1 DEF HasRoom
    <3>3. \A u, v \in Workers : u = v
      BY <3>2, SchedulerAssumption
    <3>4. Waiting' = {}
      BY <2>3, <3>3 DEF Waiting
    <3>5. QED
      BY <2>1, <2>2, <3>4 DEF WakeInv, WorkConserving
  <2>7. QED
    BY <1>5, <2>4, <2>5, <2>6 DEF Return
<1>6. CASE UNCHANGED <<items, worker, batch>>
  BY <1>6 DEF WakeInv, WorkConserving, Waiting, Notified, HasRoom
<1>7. QED
  BY <1>1, <1>2, <1>3, <1>4, <1>5, <1>6 DEF Next, Step, Tick, vars

(* No wakeup is lost, for any number of workers.                           *)
THEOREM NoLostWakeup == Spec => []WorkConserving
<1>1. Init => WakeInv
  BY FS_EmptySet, SchedulerAssumption DEF Init, WakeInv, WorkConserving, Waiting
<1>2. WakeInv => WorkConserving
  BY DEF WakeInv
<1>3. QED
  BY <1>1, <1>2, SchedulerTyped, WakeStep, PTL DEF Spec

-----------------------------------------------------------------------------
(* A sequence with one more element.                                       *)
LEMMA AppendMembers ==
    ASSUME NEW S, NEW s \in Seq(S), NEW x \in S
    PROVE  /\ Len(Append(s, x)) = Len(s) + 1
           /\ \A i \in 1 .. Len(s) : Append(s, x)[i] = s[i]
           /\ Append(s, x)[Len(s) + 1] = x
           /\ {Append(s, x)[i] : i \in 1 .. Len(Append(s, x))}
                = {s[i] : i \in 1 .. Len(s)} \cup {x}
<1> DEFINE t == Append(s, x)
<1>1. /\ t \in Seq(S) /\ Len(t) = Len(s) + 1 /\ Len(s) \in Nat
      /\ \A i \in 1 .. Len(s) : t[i] = s[i]
      /\ t[Len(s) + 1] = x
  OBVIOUS
<1> HIDE DEF t
<1>2. \A i : i \in 1 .. Len(t) <=> i \in 1 .. Len(s) \/ i = Len(s) + 1
  BY <1>1
<1>3. {t[i] : i \in 1 .. Len(t)} = {s[i] : i \in 1 .. Len(s)} \cup {x}
  BY <1>1, <1>2
<1>4. QED
  BY <1>1, <1>3 DEF t

(* A sequence has no more members than elements.                           *)
LEMMA MembersBound ==
    ASSUME NEW S, NEW s \in Seq(S)
    PROVE  Cardinality({s[i] : i \in 1 .. Len(s)}) <= Len(s)
<1> DEFINE T == {s[i] : i \in 1 .. Len(s)}
           f == [i \in 1 .. Len(s) |-> s[i]]
<1>1. f \in Surjection(1 .. Len(s), T)
  BY DEF Surjection
<1>2. Len(s) \in Nat
  OBVIOUS
<1> HIDE DEF T, f
<1>3. IsFiniteSet(1 .. Len(s)) /\ Cardinality(1 .. Len(s)) = Len(s)
  BY <1>2, FS_Interval
<1>4. Cardinality(T) <= Len(s)
  BY <1>1, <1>2, <1>3, FS_Surjection
<1>5. QED
  BY <1>4 DEF T

(* What Pop does to the places of requests.                                *)
LEMMA PopMoves ==
    ASSUME TypeOK, NEW w \in Workers, Pop(w)
    PROVE  \E e \in items :
             /\ items' = items \ {e}
             /\ Popped' = Popped \cup {e.req}
             /\ InBatchOf(w)' = InBatchOf(w) \cup {e.req}
             /\ \A v \in Workers \ {w} : InBatchOf(v)' = InBatchOf(v)
<1>1. PICK e \in items : /\ items' = items \ {e}
                         /\ batch' = [batch EXCEPT ![w] = Append(@, e.req)]
                         /\ popped' = Append(popped, e)
  BY DEF Pop
<1>2. e \in Entry /\ e.req \in Requests /\ popped \in Seq(Entry) /\ batch[w] \in Seq(Requests)
  BY <1>1 DEF TypeOK, Entry
<1>3. Popped' = Popped \cup {e.req}
  <2>1. /\ Len(popped') = Len(popped) + 1 /\ Len(popped) \in Nat
        /\ \A i \in 1 .. Len(popped) : popped'[i] = popped[i]
        /\ popped'[Len(popped) + 1] = e
    BY <1>1, <1>2, AppendMembers
  <2>2. \A i : i \in 1 .. Len(popped') <=> i \in 1 .. Len(popped) \/ i = Len(popped) + 1
    BY <2>1
  <2>3. QED
    BY <2>1, <2>2 DEF Popped
<1>4. batch'[w] = Append(batch[w], e.req) /\ \A v \in Workers \ {w} : batch'[v] = batch[v]
  BY <1>1 DEF TypeOK
<1>5. InBatchOf(w)' = InBatchOf(w) \cup {e.req}
  BY <1>2, <1>4, AppendMembers DEF InBatchOf
<1>6. \A v \in Workers \ {w} : InBatchOf(v)' = InBatchOf(v)
  BY <1>4 DEF InBatchOf
<1>7. QED
  BY <1>1, <1>3, <1>5, <1>6

(* What a worker that leaves next_batch does to them.                      *)
LEMMA LeaveMoves ==
    ASSUME TypeOK, NEW w \in Workers, Leave(w)
    PROVE  /\ returned' = returned \cup InBatchOf(w)
           /\ InBatchOf(w)' = {}
           /\ \A v \in Workers \ {w} : InBatchOf(v)' = InBatchOf(v)
           /\ UNCHANGED <<items, popped>>
<1>1. batch'[w] = <<>> /\ \A v \in Workers \ {w} : batch'[v] = batch[v]
  BY DEF Leave, TypeOK
<1>2. QED
  BY <1>1 DEF Leave, InBatchOf

(* A request has one entry in the queue, and none once it was taken.       *)
OnceInv ==
    /\ \A e, f \in items : e.req = f.req => e = f
    /\ Queued \cap Popped = {}

(* Every step keeps it: only a request not seen before is submitted.       *)
LEMMA OnceStep == TypeOK /\ OnceInv /\ [Next]_vars => OnceInv'
<1> SUFFICES ASSUME TypeOK, OnceInv, [Next]_vars PROVE OnceInv'
  OBVIOUS
<1>1. ASSUME NEW r \in Requests, NEW p \in Priorities, Submit(r, p) PROVE OnceInv'
  <2> DEFINE x == [req |-> r, priority |-> p, sequence |-> counter + 1, queued_at |-> now]
  <2>1. r \notin Queued /\ r \notin Popped /\ items' = items \cup {x} /\ UNCHANGED popped
    BY <1>1 DEF Submit, Submitted, Queued, Popped
  <2>2. x.req = r
    OBVIOUS
  <2> HIDE DEF x
  <2>3. QED
    BY <2>1, <2>2 DEF OnceInv, Queued, Popped
<1>2. ASSUME NEW w \in Workers, Pop(w) PROVE OnceInv'
  BY <1>2, PopMoves DEF OnceInv, Queued
<1>3. CASE UNCHANGED <<items, popped>>
  BY <1>3 DEF OnceInv, Queued, Popped
<1>4. QED
  BY <1>1, <1>2, <1>3 DEF Next, Step, TakeLock, Wait, Return, TimedOut, Leave, Tick, vars

(* The inductive invariant for NothingLeftBehind.                          *)
PlaceInv == OnceInv /\ IsFiniteSet(Submitted) /\ NothingLeftBehind

(* Every step keeps it: a submit adds a request that is nowhere yet, a pop *)
(* moves one from the queue to one batch, and a worker that leaves takes   *)
(* over its own batch.                                                     *)
LEMMA PlaceStep == TypeOK /\ PlaceInv /\ [Next]_vars => PlaceInv'
<1> SUFFICES ASSUME TypeOK, PlaceInv, [Next]_vars PROVE PlaceInv'
  OBVIOUS
<1>o. OnceInv'
  BY OnceStep DEF PlaceInv
<1>p. /\ IsFiniteSet(Submitted) /\ Cardinality(Submitted) = counter
      /\ Submitted = Queued \cup Popped /\ Queued \cap Popped = {}
      /\ Popped = returned \cup UNION {InBatchOf(w) : w \in Workers}
      /\ \A w \in Workers : returned \cap InBatchOf(w) = {}
      /\ \A v, w \in Workers : v # w => InBatchOf(v) \cap InBatchOf(w) = {}
  BY DEF PlaceInv, NothingLeftBehind, Submitted
<1>s. SUFFICES /\ IsFiniteSet(Submitted') /\ Cardinality(Submitted') = counter'
               /\ Popped' = returned' \cup UNION {InBatchOf(w)' : w \in Workers}
               /\ \A w \in Workers : returned' \cap InBatchOf(w)' = {}
               /\ \A v, w \in Workers : v # w => InBatchOf(v)' \cap InBatchOf(w)' = {}
  BY <1>o, Zenon DEF PlaceInv, NothingLeftBehind, OnceInv
<1> DEFINE Goal == <1>s!1
<1>1. ASSUME NEW r \in Requests, NEW p \in Priorities, Submit(r, p) PROVE Goal
  <2> DEFINE x == [req |-> r, priority |-> p, sequence |-> counter + 1, queued_at |-> now]
  <2>1. /\ r \notin Submitted /\ items' = items \cup {x} /\ counter' = counter + 1
        /\ UNCHANGED <<popped, returned, batch>>
    BY <1>1 DEF Submit
  <2>2. x.req = r
    OBVIOUS
  <2> HIDE DEF x
  <2>3. Submitted' = Submitted \cup {r} /\ Popped' = Popped
    BY <2>1, <2>2 DEF Submitted, Queued, Popped
  <2>4. IsFiniteSet(Submitted') /\ Cardinality(Submitted') = counter'
    BY <1>p, <2>1, <2>3, FS_AddElement
  <2>5. \A w \in Workers : InBatchOf(w)' = InBatchOf(w)
    BY <2>1 DEF InBatchOf
  <2>6. QED
    BY <1>p, <2>1, <2>3, <2>4, <2>5
<1>2. ASSUME NEW w \in Workers, Pop(w) PROVE Goal
  <2>1. PICK e \in items : /\ items' = items \ {e}
                           /\ Popped' = Popped \cup {e.req}
                           /\ InBatchOf(w)' = InBatchOf(w) \cup {e.req}
                           /\ \A v \in Workers \ {w} : InBatchOf(v)' = InBatchOf(v)
    BY <1>2, PopMoves
  <2>2. UNCHANGED <<returned, counter>>
    BY <1>2 DEF Pop
  <2>3. e.req \in Queued /\ e.req \notin Popped
    BY <1>p, <2>1 DEF Queued
  <2>4. Submitted' = Submitted
    BY <2>1 DEF Submitted, Queued
  <2>5. \A v \in Workers : InBatchOf(v) \subseteq Popped
    BY <1>p
  <2>6. e.req \notin returned /\ \A v \in Workers : e.req \notin InBatchOf(v)
    BY <1>p, <2>3, <2>5
  <2>7. QED
    BY <1>p, <2>1, <2>2, <2>4, <2>6
<1>3. ASSUME NEW w \in Workers, Return(w) \/ TimedOut(w) PROVE Goal
  <2>1. Leave(w)
    BY <1>3 DEF Return, TimedOut
  <2>2. /\ returned' = returned \cup InBatchOf(w) /\ InBatchOf(w)' = {}
        /\ \A v \in Workers \ {w} : InBatchOf(v)' = InBatchOf(v)
        /\ UNCHANGED <<items, popped>>
    BY <2>1, LeaveMoves
  <2>3. Popped' = Popped /\ Submitted' = Submitted /\ counter' = counter
    BY <2>1, <2>2 DEF Leave, Submitted, Queued, Popped
  <2>4. QED
    BY <1>p, <2>2, <2>3
<1>4. CASE UNCHANGED <<items, counter, popped, returned, batch>>
  <2>1. Submitted' = Submitted /\ Popped' = Popped /\ UNCHANGED <<counter, returned>>
    BY <1>4 DEF Submitted, Queued, Popped
  <2>2. \A w \in Workers : InBatchOf(w)' = InBatchOf(w)
    BY <1>4 DEF InBatchOf
  <2>3. QED
    BY <1>p, <2>1, <2>2
<1>5. QED
  BY <1>1, <1>2, <1>3, <1>4 DEF Next, Step, TakeLock, Wait, Tick, vars

(* However the deadline and a notification race, each request submitted is *)
(* in one place: queued, in one worker's batch, or handed to a worker.     *)
THEOREM NothingDropped == Spec => []NothingLeftBehind
<1>1. Init => PlaceInv
  <2> SUFFICES ASSUME Init PROVE PlaceInv
    OBVIOUS
  <2>1. Queued = {} /\ Popped = {} /\ Submitted = {} /\ returned = {} /\ counter = 0
    BY DEF Init, Queued, Popped, Submitted
  <2>2. \A w \in Workers : InBatchOf(w) = {}
    BY DEF Init, InBatchOf
  <2>3. QED
    BY <2>1, <2>2, FS_EmptySet DEF Init, PlaceInv, OnceInv, NothingLeftBehind
<1>2. PlaceInv => NothingLeftBehind
  BY DEF PlaceInv
<1>3. QED
  BY <1>1, <1>2, SchedulerTyped, PlaceStep, PTL DEF Spec

-----------------------------------------------------------------------------
(* The scheduler implements its interface.                                 *)

(* Each request leaves the queue once, into one batch, and no batch is     *)
(* larger than max_batch_size: PriorityScheduler is a Scheduler in the     *)
(* sense of SchedulerContract, by a step simulation.                       *)
THEOREM PriorityIsScheduler == Spec => ImplementsScheduler
<1>1. Init => OnceInv /\ Scheduler!Init
  BY DEF Init, OnceInv, Queued, Popped, Collecting, InBatchOf, Scheduler!Init
<1>2. TypeOK /\ OnceInv /\ [Next]_vars => [Scheduler!Next]_(Scheduler!vars)
  <2> SUFFICES ASSUME TypeOK, OnceInv, [Next]_vars PROVE [Scheduler!Next]_(Scheduler!vars)
    OBVIOUS
  <2>1. ASSUME NEW r \in Requests, NEW p \in Priorities, Submit(r, p)
        PROVE  Scheduler!Submit(r)
    <3> DEFINE x == [req |-> r, priority |-> p, sequence |-> counter + 1, queued_at |-> now]
    <3>1. /\ r \notin Queued \cup Popped /\ items' = items \cup {x}
          /\ UNCHANGED <<batch, popped>>
      BY <2>1 DEF Submit, Submitted, Queued, Popped
    <3>2. x.req = r
      OBVIOUS
    <3> HIDE DEF x
    <3>3. Queued' = Queued \cup {r}
      BY <3>1, <3>2 DEF Queued
    <3>4. QED
      BY <3>1, <3>3 DEF Scheduler!Submit, Popped, Collecting, InBatchOf
  <2>2. ASSUME NEW w \in Workers, Pop(w)
        PROVE  \E S \in SUBSET Queued : Scheduler!Take(w, S)
    <3>1. PICK e \in items :
             /\ items' = items \ {e}
             /\ Popped' = Popped \cup {e.req}
             /\ InBatchOf(w)' = InBatchOf(w) \cup {e.req}
             /\ \A v \in Workers \ {w} : InBatchOf(v)' = InBatchOf(v)
      BY <2>2, PopMoves
    <3>2. Queued' = Queued \ {e.req} /\ e.req \in Queued
      BY <3>1 DEF OnceInv, Queued
    <3>3. Cardinality(InBatchOf(w) \cup {e.req}) <= MaxBatchSize
      <4>1. TypeOK'
        BY TypeStep
      <4>2. batch'[w] \in Seq(Requests) /\ Len(batch'[w]) <= MaxBatchSize
        BY <4>1 DEF TypeOK
      <4>3. Cardinality(InBatchOf(w)') <= Len(batch'[w])
        BY <4>2, MembersBound DEF InBatchOf
      <4>4. IsFiniteSet(InBatchOf(w)') /\ Cardinality(InBatchOf(w)') \in Nat
        <5>1. IsFiniteSet(1 .. Len(batch'[w])) /\ Len(batch'[w]) \in Nat
          BY <4>2, FS_Interval
        <5>2. [i \in 1 .. Len(batch'[w]) |-> batch'[w][i]]
                \in Surjection(1 .. Len(batch'[w]), InBatchOf(w)')
          BY DEF Surjection, InBatchOf
        <5>3. QED
          BY <5>1, <5>2, FS_Surjection, FS_CardinalityType
      <4>5. QED
        BY <3>1, <4>2, <4>3, <4>4, SchedulerAssumption
    <3>4. Collecting' = [Collecting EXCEPT ![w] = InBatchOf(w) \cup {e.req}]
      BY <3>1 DEF Collecting
    <3>5. Scheduler!Take(w, {e.req})
      <4>1. Cardinality(Collecting[w] \cup {e.req}) <= MaxBatchSize
        BY <3>3 DEF Collecting
      <4>2. Queued' = Queued \ {e.req} /\ Popped' = Popped \cup {e.req}
        BY <3>1, <3>2
      <4>3. \E d \in {{}, Collecting[w] \cup {e.req}} : Collecting' = [Collecting EXCEPT ![w] = d]
        BY <3>4 DEF Collecting
      <4>4. {e.req} # {}
        OBVIOUS
      <4>5. QED
        BY <4>1, <4>2, <4>3, <4>4, Zenon
           DEF Scheduler!Take, Scheduler!Cardinality, Cardinality
    <3>6. {e.req} \in SUBSET Queued
      BY <3>2
    <3>7. QED
      BY <3>5, <3>6
  <2>3. ASSUME NEW w \in Workers, Return(w) \/ TimedOut(w)
        PROVE  Scheduler!HandOver(w)
    <3>1. Leave(w)
      BY <2>3 DEF Return, TimedOut
    <3>2. /\ InBatchOf(w)' = {} /\ UNCHANGED <<items, popped>>
          /\ \A v \in Workers \ {w} : InBatchOf(v)' = InBatchOf(v)
      BY <3>1, LeaveMoves
    <3>3. Collecting' = [Collecting EXCEPT ![w] = {}]
      BY <3>2 DEF Collecting
    <3>4. QED
      BY <3>2, <3>3 DEF Scheduler!HandOver, Queued, Popped
  <2>4. CASE UNCHANGED <<items, popped, batch>>
    BY <2>4 DEF Scheduler!vars, Queued, Popped, Collecting, InBatchOf
  <2>5. QED
    BY <2>1, <2>2, <2>3, <2>4
       DEF Next, Step, TakeLock, Wait, Tick, vars, Scheduler!Next
<1>3. QED
  BY <1>1, <1>2, SchedulerTyped, OnceStep, PTL DEF Spec, Scheduler!Spec, ImplementsScheduler

-----------------------------------------------------------------------------
(* lifecycle.py never gives two workers batches to collect, whatever the   *)
(* settings: the assumption the theorems above are proved under.           *)
THEOREM DispatchIsSound == \A s \in Settings : NoTwoCollectors(s)
BY DEF Settings, NoTwoCollectors, WorkerCountOf, AtLeastOne, NativeBatching,
       BatchSizeOf, BatchTimeoutOf, Batches

(* What PriorityScheduler assumes of its workers, aging interval, batch    *)
(* size and timeout holds of those derived from any settings, for as many  *)
(* workers as they ask for.                                                *)
THEOREM DispatchMeetsAssumption ==
    ASSUME NEW s \in Settings, NEW W, IsFiniteSet(W), Cardinality(W) = WorkerCountOf(s)
    PROVE  /\ AgingIntervalOf(s) \in Nat
           /\ BatchSizeOf(s) \in Nat \ {0}
           /\ BatchTimeoutOf(s) \in Nat
           /\ W # {}
           /\ (\A v, w \in W : v = w) \/ (BatchSizeOf(s) = 1 /\ BatchTimeoutOf(s) = 0)
<1>1. /\ AgingIntervalOf(s) \in Nat
      /\ BatchSizeOf(s) \in Nat \ {0}
      /\ BatchTimeoutOf(s) \in Nat
  BY DEF Settings, AgingIntervalOf, BatchSizeOf, BatchTimeoutOf
<1>2. WorkerCountOf(s) \in Nat \ {0}
  BY DEF Settings, WorkerCountOf, AtLeastOne
<1>3. W # {}
  BY <1>2, FS_EmptySet
<1>4. CASE WorkerCountOf(s) = 1
  <2>1. \E x : W = {x}
    BY <1>4, FS_Singleton
  <2>2. QED
    BY <1>1, <1>3, <2>1
<1>5. CASE BatchSizeOf(s) = 1 /\ BatchTimeoutOf(s) = 0
  BY <1>1, <1>3, <1>5
<1>6. QED
  BY <1>4, <1>5, DispatchIsSound DEF NoTwoCollectors
=============================================================================
