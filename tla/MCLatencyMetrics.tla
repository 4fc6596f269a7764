--------------------------- MODULE MCLatencyMetrics ---------------------------
(* Instances of LatencyMetrics for TLC.                                    *)
EXTENDS LatencyMetrics

(* Requests are interchangeable: samples hold times only.                  *)
RequestSymmetry == Permutations(Requests)

(* The bounds of the buckets: short of the horizon, so that +Inf is used.  *)
TwoBounds == <<0, 2>>
=============================================================================
