----------------------------- MODULE TokenBucket -----------------------------
(***************************************************************************)
(* A token bucket that is refilled at every tick of the clock.  A call is  *)
(* granted when there is a whole token and takes it, and is denied only    *)
(* when there is none.  A call refused for another reason takes nothing.   *)
(***************************************************************************)
EXTENDS Integers

CONSTANTS
    Size,     \* what the bucket holds, in units
    Refill,   \* units added per tick
    Token     \* units one call takes

VARIABLES level, outcome

vars == <<level, outcome>>

Init == level = Size /\ outcome = "none"

Tick ==
    /\ level' = IF level + Refill < Size THEN level + Refill ELSE Size
    /\ UNCHANGED outcome

Grant == level >= Token /\ level' = level - Token /\ outcome' = "accepted"

Deny == level < Token /\ outcome' = "rate_limited" /\ UNCHANGED level

Bypass == outcome' = "queue_full" /\ UNCHANGED level

Next == Tick \/ Grant \/ Deny \/ Bypass

Spec == Init /\ [][Next]_vars
=============================================================================
