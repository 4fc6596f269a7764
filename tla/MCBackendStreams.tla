-------------------------- MODULE MCBackendStreams --------------------------
(* Small instances of the serving path with the shipped backends.          *)
EXTENDS BackendStreams

CONSTANTS j1, s1, w1, w2

(* Requests that want different numbers of tokens.                         *)
MCWanted == j1 :> 2 @@ s1 :> 3
=============================================================================
