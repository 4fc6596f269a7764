-------------------------- MODULE MCServingRuntime --------------------------
(* Small instances of the serving path for TLC.                            *)
EXTENDS ServingRefinement, TLC

CONSTANTS j1, j2, s1, s2, w1, w2

(* JSON requests are interchangeable, and so are SSE requests and workers. *)
(* Runs that check liveness do not use the symmetry.                       *)
Symmetry == Permutations({j1, j2}) \cup Permutations({s1, s2})
              \cup Permutations({w1, w2})
=============================================================================
