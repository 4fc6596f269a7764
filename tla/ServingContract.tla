-------------------------- MODULE ServingContract ---------------------------
(***************************************************************************)
(* What the runtime promises the client of each request, whatever happens  *)
(* inside: an open response receives a growing prefix of the tokens the    *)
(* backend produces for that request, and has one outcome, after which     *)
(* nothing changes.  A response that ends well carried every token.        *)
(***************************************************************************)
EXTENDS Integers, SequencesExt

CONSTANTS Requests, MaxTokens

VARIABLES status, produced, received

vars == <<status, produced, received>>

Statuses == {"new", "refused", "open", "done", "failed", "abandoned"}

Init ==
    /\ status = [r \in Requests |-> "new"]
    /\ produced = [r \in Requests |-> <<>>]
    /\ received = [r \in Requests |-> <<>>]

Admit(r) ==
    /\ status[r] = "new"
    /\ status' = [status EXCEPT ![r] = "open"]
    /\ UNCHANGED <<produced, received>>

Refuse(r) ==
    /\ status[r] = "new"
    /\ status' = [status EXCEPT ![r] = "refused"]
    /\ UNCHANGED <<produced, received>>

(* The backend may go on producing for a client that has left.             *)
Produce(r) ==
    /\ status[r] \in {"open", "abandoned"}
    /\ Len(produced[r]) < MaxTokens
    /\ produced' = [produced EXCEPT ![r] = Append(@, <<r, Len(@) + 1>>)]
    /\ UNCHANGED <<status, received>>

(* The client receives some of the tokens produced that it has not got.    *)
Deliver(r) ==
    /\ status[r] = "open"
    /\ \E n \in Len(received[r]) + 1 .. Len(produced[r]) :
         received' = [received EXCEPT ![r] = SubSeq(produced[r], 1, n)]
    /\ UNCHANGED <<status, produced>>

(* The end of a good response may bring the last tokens with it.           *)
Finish(r) ==
    /\ status[r] = "open"
    /\ status' = [status EXCEPT ![r] = "done"]
    /\ received' = [received EXCEPT ![r] = produced[r]]
    /\ UNCHANGED produced

(* An error, a timeout or the client's departure.                          *)
Break(r) ==
    /\ status[r] = "open"
    /\ \E s \in {"failed", "abandoned"} : status' = [status EXCEPT ![r] = s]
    /\ UNCHANGED <<produced, received>>

Next == \E r \in Requests :
    Admit(r) \/ Refuse(r) \/ Produce(r) \/ Deliver(r) \/ Finish(r) \/ Break(r)

Spec == Init /\ [][Next]_vars

-----------------------------------------------------------------------------
(* What a client may rely on: it has received a prefix of the stream that  *)
(* was produced for its own request, all of it if the response ended well. *)
OwnPrefix ==
    \A r \in Requests :
        LET n == Len(produced[r])
            d == Len(received[r])
        IN  /\ produced[r] = [i \in 1 .. n |-> <<r, i>>]
            /\ d <= n /\ received[r] = [i \in 1 .. d |-> <<r, i>>]
            /\ status[r] = "done" => d = n

(* And an outcome stays, with what was received up to it.                  *)
OutcomeIsFinal ==
    [][\A r \in Requests : status[r] \notin {"new", "open"} =>
          status'[r] = status[r] /\ received'[r] = received[r]]_vars
=============================================================================
