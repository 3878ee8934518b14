------------------------------- MODULE MCBreakers -------------------------------
(***************************************************************************)
(* The recovery of the breaker, on small instances.  A behaviour follows   *)
(* one scenario, the component of the other rests:                         *)
(*                                                                         *)
(*   "breaker"  CircuitBreaker: four calls and two probes at a time        *)
(*   "reports"  ProviderCalls: two plain requests and a combo's target     *)
(***************************************************************************)
EXTENDS MCCircuitBreaker, ProviderCalls

VARIABLE scenario

BreakersInit == scenario \in {"breaker", "reports"} /\ Init /\ CallsInit

BreakersNext ==
    /\ UNCHANGED scenario
    /\ \/ scenario = "breaker" /\ Next /\ UNCHANGED callsVars
       \/ scenario = "reports" /\ CallsNext /\ UNCHANGED vars

BreakersSpec ==
    /\ BreakersInit
    /\ [][BreakersNext]_<<scenario, vars, callsVars>>
    /\ scenario = "breaker" => Fairness
    /\ scenario = "reports" => CallsFairness

-----------------------------------------------------------------------------
(* The recovery of either component, where its scenario is followed. *)
BreakerRecovers == scenario = "breaker" => RecoversWithProvider

CallsRecover == scenario = "reports" => CallsRecoverWithProvider
=============================================================================
