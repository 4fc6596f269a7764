--------------------- MODULE AdmissionController_proofs ---------------------
(***************************************************************************)
(* Theorems about AdmissionController, for every rate, burst, queue cap    *)
(* and length of time.                                                     *)
(***************************************************************************)
EXTENDS AdmissionController, TLAPS

(* The bucket holds one token at least.                                    *)
LEMMA CapacityFacts == /\ Capacity \in Nat /\ Capacity >= 1
                       /\ Full \in Nat /\ Full >= TokenUnits
<1>1. Capacity \in Nat /\ Capacity >= 1
  <2>1. RatePerSecondUp \in Int
    BY AdmissionAssumption DEF RatePerSecondUp
  <2>2. QED
    BY <2>1, AdmissionAssumption DEF Capacity
<1>2. Full \in Nat /\ Full >= TokenUnits
  BY <1>1, AdmissionAssumption DEF Full
<1>3. QED
  BY <1>1, <1>2

(* What a refill yields: no less than before, no more than the bucket      *)
(* holds or than the elapsed time gives.                                   *)
LEMMA RefilledFacts ==
    ASSUME TypeOK
    PROVE  /\ Refilled \in 0 .. Full
           /\ Refilled <= tokens + (now - lastRefill) * RefillPerTick
<1> DEFINE gain == (now - lastRefill) * RefillPerTick
<1>1. gain \in Nat
  BY AdmissionAssumption DEF TypeOK
<1> HIDE DEF gain
<1>2. Refilled = Smaller(Full, tokens + gain)
  BY DEF Refilled, gain
<1>3. Refilled \in 0 .. Full /\ Refilled <= tokens + gain
  BY <1>1, <1>2, CapacityFacts DEF Smaller, TypeOK
<1>4. QED
  BY <1>3 DEF gain

(* Every step keeps the bucket between empty and full.                     *)
LEMMA TypeStep == TypeOK /\ [Next]_vars => TypeOK'
<1> SUFFICES ASSUME TypeOK, [Next]_vars PROVE TypeOK'
  OBVIOUS
<1>1. CASE Tick
  BY <1>1, AdmissionAssumption DEF Tick, TypeOK
<1>2. ASSUME NEW q \in 0 .. MaxDepth, AdmitQueueFull(q) PROVE TypeOK'
  BY <1>2 DEF AdmitQueueFull, TypeOK
<1>3. ASSUME NEW q \in 0 .. MaxDepth, AdmitRateLimited(q) PROVE TypeOK'
  BY <1>3, RefilledFacts DEF AdmitRateLimited, TypeOK
<1>4. ASSUME NEW q \in 0 .. MaxDepth, AdmitAccepted(q) PROVE TypeOK'
  BY <1>4, RefilledFacts, CapacityFacts, AdmissionAssumption DEF AdmitAccepted, TypeOK
<1>5. CASE UNCHANGED vars
  BY <1>5 DEF vars, TypeOK
<1>6. QED
  BY <1>1, <1>2, <1>3, <1>4, <1>5 DEF Next

(* The bucket is never overdrawn and never overfull.                       *)
THEOREM BucketTyped == Spec => []TypeOK
<1>1. Init => TypeOK
  BY CapacityFacts, AdmissionAssumption DEF Init, TypeOK
<1>2. QED
  BY <1>1, TypeStep, PTL DEF Spec

-----------------------------------------------------------------------------
(* The inductive invariant for WindowBound: the requests admitted since    *)
(* the i-th, with the tokens still there, are within what the i-th found   *)
(* and what has been refilled since.                                       *)
Budget ==
    \A i \in 1 .. Len(grants) :
        /\ grants[i] <= lastRefill
        /\ (Len(grants) - i + 1) * TokenUnits + tokens
             <= Full + (lastRefill - grants[i]) * RefillPerTick

WindowInv == Budget /\ WindowBound

(* A refill keeps the budget: it adds at most what the elapsed time gives. *)
LEMMA RefillKeepsBudget ==
    ASSUME TypeOK, Budget, NEW i \in 1 .. Len(grants)
    PROVE  (Len(grants) - i + 1) * TokenUnits + Refilled
             <= Full + (now - grants[i]) * RefillPerTick
<1>1. grants[i] \in Nat /\ now \in Nat /\ lastRefill \in Nat
  BY AdmissionAssumption DEF TypeOK
<1>2. (now - grants[i]) * RefillPerTick
        = (lastRefill - grants[i]) * RefillPerTick + (now - lastRefill) * RefillPerTick
  BY <1>1, AdmissionAssumption
<1> DEFINE used == (Len(grants) - i + 1) * TokenUnits
           old  == (lastRefill - grants[i]) * RefillPerTick
           gain == (now - lastRefill) * RefillPerTick
<1>3. used \in Int /\ old \in Int /\ gain \in Int
  BY <1>1, AdmissionAssumption DEF TypeOK
<1>4. used + tokens <= Full + old /\ Refilled <= tokens + gain
  BY RefilledFacts DEF Budget
<1>5. Refilled \in Int /\ tokens \in Int /\ Full \in Int
  BY RefilledFacts, CapacityFacts DEF TypeOK
<1> HIDE DEF used, old, gain
<1>6. used + Refilled <= Full + (old + gain)
  BY <1>3, <1>4, <1>5
<1>7. QED
  BY <1>2, <1>6 DEF used, old, gain

(* Every step keeps the window invariant.                                  *)
LEMMA WindowStep == TypeOK /\ WindowInv /\ [Next]_vars => WindowInv'
<1> SUFFICES ASSUME TypeOK, WindowInv, [Next]_vars PROVE WindowInv'
  OBVIOUS
<1>1. CASE Tick
  BY <1>1 DEF Tick, WindowInv, Budget, WindowBound
<1>2. ASSUME NEW q \in 0 .. MaxDepth, AdmitQueueFull(q) PROVE WindowInv'
  BY <1>2 DEF AdmitQueueFull, WindowInv, Budget, WindowBound
<1>3. ASSUME NEW q \in 0 .. MaxDepth, AdmitRateLimited(q) PROVE WindowInv'
  <2>1. grants' = grants /\ lastRefill' = now /\ tokens' = Refilled
    BY <1>3 DEF AdmitRateLimited
  <2>2. \A i \in 1 .. Len(grants) :
          /\ grants[i] <= now
          /\ (Len(grants) - i + 1) * TokenUnits + Refilled
               <= Full + (now - grants[i]) * RefillPerTick
    BY RefillKeepsBudget, AdmissionAssumption DEF WindowInv, Budget, TypeOK
  <2>3. Budget'
    BY <2>1, <2>2 DEF Budget
  <2>4. WindowBound'
    BY <2>1 DEF WindowInv, WindowBound
  <2>5. QED
    BY <2>3, <2>4 DEF WindowInv
<1>4. ASSUME NEW q \in 0 .. MaxDepth, AdmitAccepted(q) PROVE WindowInv'
  <2> DEFINE n == Len(grants)
  <2>1. /\ grants' = Append(grants, now) /\ lastRefill' = now
        /\ tokens' = Refilled - TokenUnits /\ Refilled >= TokenUnits
    BY <1>4 DEF AdmitAccepted
  <2>2. /\ n \in Nat /\ Len(grants') = n + 1 /\ grants'[n + 1] = now
        /\ \A i \in 1 .. n : grants'[i] = grants[i] /\ grants[i] \in Nat
        /\ now \in Nat
    BY <2>1, AdmissionAssumption DEF TypeOK
  <2> HIDE DEF n
  <2>3. \A i \in 1 .. n :
          /\ grants[i] <= now
          /\ (n - i + 1) * TokenUnits + Refilled
               <= Full + (now - grants[i]) * RefillPerTick
    BY RefillKeepsBudget, AdmissionAssumption DEF WindowInv, Budget, TypeOK, n
  <2>4. \A i \in 1 .. n : ((n + 1) - i + 1) * TokenUnits = (n - i + 1) * TokenUnits + TokenUnits
    BY <2>2, AdmissionAssumption
  <2>5. Refilled \in Int /\ Full \in Int /\ TokenUnits \in Int /\ Refilled <= Full
    BY RefilledFacts, CapacityFacts, AdmissionAssumption
  <2>6. ASSUME NEW i \in 1 .. n
        PROVE  ((n + 1) - i + 1) * TokenUnits + tokens'
                 <= Full + (now - grants[i]) * RefillPerTick
    <3>1. (n - i + 1) * TokenUnits \in Int /\ (now - grants[i]) * RefillPerTick \in Int
      BY <2>2, AdmissionAssumption
    <3>2. QED
      BY <3>1, <2>1, <2>3, <2>4, <2>5
  <2>7. /\ ((n + 1) - (n + 1) + 1) * TokenUnits = TokenUnits
        /\ (now - now) * RefillPerTick = 0
    BY <2>2, AdmissionAssumption
  <2>8. ((n + 1) - (n + 1) + 1) * TokenUnits + tokens'
          <= Full + (now - now) * RefillPerTick
    BY <2>1, <2>5, <2>7
  <2>9. \A i \in 1 .. n + 1 :
          /\ grants'[i] <= now
          /\ ((n + 1) - i + 1) * TokenUnits + tokens'
               <= Full + (now - grants'[i]) * RefillPerTick
    <3> SUFFICES ASSUME NEW i \in 1 .. n + 1
                 PROVE  /\ grants'[i] <= now
                        /\ ((n + 1) - i + 1) * TokenUnits + tokens'
                             <= Full + (now - grants'[i]) * RefillPerTick
      OBVIOUS
    <3>1. CASE i = n + 1
      <4>1. grants'[i] = now
        BY <3>1, <2>2
      <4>2. now <= now
        BY <2>2
      <4>3. QED
        BY <3>1, <4>1, <4>2, <2>8
    <3>2. CASE i \in 1 .. n
      <4>1. grants'[i] = grants[i]
        BY <3>2, <2>2
      <4>2. QED
        BY <3>2, <4>1, <2>3, <2>6
    <3>3. QED
      BY <3>1, <3>2, <2>2
  <2>10. Budget'
    BY <2>1, <2>2, <2>9 DEF Budget
  <2>11. WindowBound'
    <3> SUFFICES ASSUME NEW j \in 1 .. n + 1, NEW i \in 1 .. j
                 PROVE  (j - i + 1) * TokenUnits
                          <= Full + (grants'[j] - grants'[i]) * RefillPerTick
      BY <2>2 DEF WindowBound
    <3>1. CASE j = n + 1
      <4> DEFINE used == (j - i + 1) * TokenUnits
                 gain == (now - grants'[i]) * RefillPerTick
                 left == Refilled - TokenUnits
      <4>1. grants'[j] = now
        BY <3>1, <2>2
      <4>2. used + left <= Full + gain
        BY <3>1, <2>9, <2>1
      <4>3. used \in Int /\ gain \in Int
        <5>1. grants'[i] \in Nat /\ now \in Nat
          BY <2>2, <3>1
        <5>2. QED
          BY <4>1, <5>1, <2>2, <3>1, AdmissionAssumption
      <4>4. left \in Int /\ left >= 0 /\ Full \in Int
        BY <2>1, <2>5
      <4> HIDE DEF used, gain, left
      <4>5. used <= Full + gain
        BY <4>2, <4>3, <4>4
      <4>6. QED
        BY <4>1, <4>5 DEF used, gain
    <3>2. CASE j \in 1 .. n
      <4>1. grants'[j] = grants[j] /\ grants'[i] = grants[i] /\ i \in 1 .. j
        BY <3>2, <2>2
      <4>2. (j - i + 1) * TokenUnits <= Full + (grants[j] - grants[i]) * RefillPerTick
        BY <3>2 DEF WindowInv, WindowBound, n
      <4>3. QED
        BY <4>1, <4>2
    <3>3. QED
      BY <3>1, <3>2, <2>2
  <2>12. QED
    BY <2>10, <2>11 DEF WindowInv
<1>5. CASE UNCHANGED vars
  BY <1>5 DEF vars, WindowInv, Budget, WindowBound
<1>6. QED
  BY <1>1, <1>2, <1>3, <1>4, <1>5 DEF Next

(* Whatever the rate, the burst and the pattern of calls, no window of     *)
(* time admits more requests than the capacity and the rate allow.         *)
THEOREM RateRespected == Spec => []WindowBound
<1>1. Init => WindowInv
  BY DEF Init, WindowInv, Budget, WindowBound
<1>2. WindowInv => WindowBound
  BY DEF WindowInv
<1>3. QED
  BY <1>1, <1>2, BucketTyped, WindowStep, PTL DEF Spec

-----------------------------------------------------------------------------
(* A tick of the clock adds one tick's tokens to the level that the next   *)
(* call will find.                                                         *)
LEMMA TickRefills ==
    ASSUME TypeOK, Tick
    PROVE  Refilled' = IF Refilled + RefillPerTick < Full
                       THEN Refilled + RefillPerTick ELSE Full
<1> DEFINE gain == (now - lastRefill) * RefillPerTick
<1>1. gain \in Nat /\ RefillPerTick \in Nat /\ tokens \in Nat /\ Full \in Nat
  BY CapacityFacts, AdmissionAssumption DEF TypeOK
<1>2. ((now + 1) - lastRefill) * RefillPerTick = gain + RefillPerTick
  BY AdmissionAssumption DEF TypeOK
<1>3. Refilled = Smaller(Full, tokens + gain)
  BY DEF Refilled
<1>4. Refilled' = Smaller(Full, tokens + (gain + RefillPerTick))
  BY <1>2 DEF Refilled, Tick, Full, Capacity, RatePerSecondUp, Smaller
<1> HIDE DEF gain
<1>5. QED
  BY <1>1, <1>3, <1>4 DEF Smaller

(* Right after a call has refilled the bucket, a refill adds nothing.      *)
LEMMA RefilledAtOnce ==
    ASSUME TypeOK, now' = now, lastRefill' = now, tokens' \in 0 .. Full
    PROVE  Refilled' = tokens'
<1>1. now \in Nat /\ (now - now) * RefillPerTick = 0
  BY AdmissionAssumption DEF TypeOK
<1>2. Refilled' = Smaller(Full, tokens' + 0)
  BY <1>1 DEF Refilled, Full, Capacity, RatePerSecondUp, Smaller
<1>3. ASSUME NEW t \in 0 .. Full PROVE Smaller(Full, t + 0) = t
  BY CapacityFacts DEF Smaller
<1>4. QED
  BY <1>2, <1>3

(* The lazily refilled bucket of the code decides as a bucket refilled at  *)
(* every tick would.                                                       *)
THEOREM LazyIsEager == Spec => RefinesTokenBucket
<1>1. Init => Bucket!Init
  <2> SUFFICES ASSUME Init PROVE Bucket!Init
    OBVIOUS
  <2>1. Refilled = Smaller(Full, Full)
    BY AdmissionAssumption, CapacityFacts DEF Init, Refilled
  <2>2. QED
    BY <2>1 DEF Init, Bucket!Init, Smaller
<1>2. TypeOK /\ [Next]_vars => [Bucket!Next]_(Bucket!vars)
  <2> SUFFICES ASSUME TypeOK, [Next]_vars PROVE [Bucket!Next]_(Bucket!vars)
    OBVIOUS
  <2>1. CASE Tick
    BY <2>1, TickRefills DEF Tick, Bucket!Next, Bucket!Tick
  <2>2. ASSUME NEW q \in 0 .. MaxDepth, AdmitQueueFull(q) PROVE Bucket!Next
    <3>1. Refilled' = Refilled
      BY <2>2 DEF AdmitQueueFull, Refilled, Full, Capacity, RatePerSecondUp, Smaller
    <3>2. QED
      BY <2>2, <3>1 DEF AdmitQueueFull, Bucket!Next, Bucket!Bypass
  <2>3. ASSUME NEW q \in 0 .. MaxDepth, AdmitRateLimited(q) PROVE Bucket!Next
    <3>1. Refilled' = Refilled
      BY <2>3, RefilledFacts, RefilledAtOnce DEF AdmitRateLimited
    <3>2. QED
      BY <2>3, <3>1 DEF AdmitRateLimited, Bucket!Next, Bucket!Deny
  <2>4. ASSUME NEW q \in 0 .. MaxDepth, AdmitAccepted(q) PROVE Bucket!Next
    <3>1. Refilled - TokenUnits \in 0 .. Full
      BY <2>4, RefilledFacts, CapacityFacts, AdmissionAssumption DEF AdmitAccepted
    <3>2. Refilled' = Refilled - TokenUnits
      BY <2>4, <3>1, RefilledAtOnce DEF AdmitAccepted
    <3>3. QED
      BY <2>4, <3>2 DEF AdmitAccepted, Bucket!Next, Bucket!Grant
  <2>5. CASE UNCHANGED vars
    BY <2>5 DEF vars, Bucket!vars, Refilled, Full, Capacity, RatePerSecondUp, Smaller
  <2>6. QED
    BY <2>1, <2>2, <2>3, <2>4, <2>5 DEF Next
<1>3. QED
  BY <1>1, <1>2, BucketTyped, PTL DEF Spec, Bucket!Spec, RefinesTokenBucket
=============================================================================
