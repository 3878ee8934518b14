----------------------------- MODULE MCProviderCalls -----------------------------
(***************************************************************************)
(* Instances of ProviderCalls for TLC: the breaker of the smallest         *)
(* thresholds that keep CLOSED, DEGRADED and OPEN apart, and two or three  *)
(* requests at a time.                                                     *)
(***************************************************************************)
EXTENDS ProviderCalls, TLC

(* No production caller sets kindThresholds. *)
NoThresholds == [k \in {} |-> 1]
=============================================================================
