------------------------------ MODULE MCLifecycles ------------------------------
(***************************************************************************)
(* Things that are replaced while events of their predecessors are still   *)
(* to come, on small instances.  A behaviour follows one scenario, the     *)
(* component of the other rests:                                           *)
(*                                                                         *)
(*   "registry"  CircuitBreaker: calls on two generations of the breaker   *)
(*               object, with evictions, excused errors and restarts       *)
(*   "service"   ServiceSupervisor: two children, a stranger on the port,  *)
(*               two operations at a time, and crashes of the gateway      *)
(***************************************************************************)
EXTENDS MCCircuitBreaker, ServiceSupervisor

VARIABLE scenario

LifecyclesInit == scenario \in {"registry", "service"} /\ Init /\ ServiceInit

LifecyclesNext ==
    /\ UNCHANGED scenario
    /\ \/ scenario = "registry" /\ Next /\ UNCHANGED serviceVars
       \/ scenario = "service" /\ ServiceNext /\ UNCHANGED vars

(* A poller that does not run has nothing enabled. *)
LifecyclesSpec ==
    /\ LifecyclesInit
    /\ [][LifecyclesNext]_<<scenario, vars, serviceVars>>
    /\ ServiceFairness
=============================================================================
