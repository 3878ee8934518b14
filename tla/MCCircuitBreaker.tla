---------------------------- MODULE MCCircuitBreaker ----------------------------
(***************************************************************************)
(* Instances of CircuitBreaker for TLC: failures degrade at two and open   *)
(* at three, one failure kind has a threshold of its own, and up to four   *)
(* calls overlap.                                                          *)
(***************************************************************************)
EXTENDS CircuitBreaker, TLC

CONSTANT rate_limit

NoThresholds == [k \in {} |-> 1]
RateLimitThreshold == rate_limit :> 2

(* Calls and objects are interchangeable in every run that uses this. *)
Symmetry == Permutations(Call) \cup Permutations(Object)
=============================================================================
