------------------------- MODULE AdmissionController -------------------------
(***************************************************************************)
(* core/admission.py with the rate limiter on (with it off, admit is the   *)
(* queue cap alone, which ServingRuntime models).  The bucket is refilled  *)
(* lazily, for the time since the last call that got as far as the bucket. *)
(* Time is counted in clock ticks and tokens in units, TokenUnits to the   *)
(* token, so that the fractions the code keeps in floats are integers.     *)
(***************************************************************************)
EXTENDS Integers, Sequences

CONSTANTS
    MaxQueueSize,     \* max_queue_size, 0 is "no cap"
    TokenUnits,       \* units per token
    RefillPerTick,    \* request_rate_limit_per_s, in units per tick
    TicksPerSecond,
    Burst,            \* request_rate_limit_burst, 0 is "not set"
    MaxDepth,         \* bound on the queue size a call may see
    MaxTime           \* bound on the clock

ASSUME AdmissionAssumption ==
    /\ MaxQueueSize \in Nat
    /\ TokenUnits \in Nat \ {0}
    /\ RefillPerTick \in Nat \ {0}
    /\ TicksPerSecond \in Nat \ {0}
    /\ Burst \in Nat
    /\ MaxDepth \in Nat
    /\ MaxTime \in Nat

VARIABLES
    now,          \* time_fn()
    tokens,       \* _tokens, in units
    lastRefill,   \* _last_refill_at
    outcome,      \* how the last call was decided
    grants        \* history: when the bucket granted a token

vars == <<now, tokens, lastRefill, outcome, grants>>

-----------------------------------------------------------------------------
Smaller(a, b) == IF a < b THEN a ELSE b

(* math.ceil(request_rate_limit_per_s)                                     *)
RatePerSecondUp == (RefillPerTick * TicksPerSecond + TokenUnits - 1) \div TokenUnits

(* _bucket_capacity, in tokens and in units.                               *)
Capacity == IF Burst > 0 THEN Burst
            ELSE IF RatePerSecondUp > 1 THEN RatePerSecondUp ELSE 1

Full == Capacity * TokenUnits

(* Faulty: no cap.                                                         *)
Refilled_NoCap == tokens + (now - lastRefill) * RefillPerTick

(* _refill_locked                                                          *)
Refilled == Smaller(Full, tokens + (now - lastRefill) * RefillPerTick)

TypeOK ==
    /\ now \in 0 .. MaxTime
    /\ tokens \in 0 .. Full
    /\ lastRefill \in 0 .. now
    /\ outcome \in {"none", "accepted", "rate_limited", "queue_full"}
    /\ grants \in Seq(0 .. MaxTime)

Init ==
    /\ now = 0
    /\ tokens = Full
    /\ lastRefill = 0
    /\ outcome = "none"
    /\ grants = <<>>

Tick ==
    /\ now < MaxTime
    /\ now' = now + 1
    /\ UNCHANGED <<tokens, lastRefill, outcome, grants>>

QueueIsFull(q) == MaxQueueSize > 0 /\ q >= MaxQueueSize

AdmitQueueFull(q) ==
    /\ QueueIsFull(q)
    /\ outcome' = "queue_full"
    /\ UNCHANGED <<now, tokens, lastRefill, grants>>

(* Faulty: the refill is computed but the time of it is not kept.          *)
AdmitRateLimited_StaleClock(q) ==
    /\ ~QueueIsFull(q)
    /\ Refilled < TokenUnits
    /\ tokens' = Refilled
    /\ outcome' = "rate_limited"
    /\ UNCHANGED <<now, lastRefill, grants>>

AdmitRateLimited(q) ==
    /\ ~QueueIsFull(q)
    /\ Refilled < TokenUnits
    /\ tokens' = Refilled
    /\ lastRefill' = now
    /\ outcome' = "rate_limited"
    /\ UNCHANGED <<now, grants>>

(* Faulty: a fraction of a token is enough.                                *)
AdmitAccepted_Fraction(q) ==
    /\ ~QueueIsFull(q)
    /\ Refilled > 0
    /\ tokens' = Refilled - TokenUnits
    /\ lastRefill' = now
    /\ outcome' = "accepted"
    /\ grants' = Append(grants, now)
    /\ UNCHANGED now

AdmitAccepted(q) ==
    /\ ~QueueIsFull(q)
    /\ Refilled >= TokenUnits
    /\ tokens' = Refilled - TokenUnits
    /\ lastRefill' = now
    /\ outcome' = "accepted"
    /\ grants' = Append(grants, now)
    /\ UNCHANGED now

Next ==
    \/ Tick
    \/ \E q \in 0 .. MaxDepth :
         AdmitQueueFull(q) \/ AdmitRateLimited(q) \/ AdmitAccepted(q)

Spec == Init /\ [][Next]_vars

-----------------------------------------------------------------------------
(* In every window of time, the requests admitted are at most the bucket's *)
(* capacity plus what the rate yields in the window: lazy refills, calls   *)
(* that are denied in between and idle periods give no request for free.   *)
WindowBound ==
    \A j \in 1 .. Len(grants) : \A i \in 1 .. j :
        (j - i + 1) * TokenUnits <= Full + (grants[j] - grants[i]) * RefillPerTick

(* The lazy bucket answers as one that is refilled at every tick would: it *)
(* denies only when that one is empty, and a call refused because the      *)
(* queue is full costs no token.                                           *)
Bucket == INSTANCE TokenBucket WITH
    Size <- Full, Refill <- RefillPerTick, Token <- TokenUnits, level <- Refilled

RefinesTokenBucket == Bucket!Spec
=============================================================================
