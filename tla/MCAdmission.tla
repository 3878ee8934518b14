------------------------------ MODULE MCAdmission ------------------------------
(***************************************************************************)
(* What lets requests in, on small instances.  A behaviour follows one     *)
(* scenario, the component of the other rests:                             *)
(*                                                                         *)
(*   "accounts"    AccountSemaphore: calls that disagree about the limits, *)
(*                 bounded queues, quota cooldowns and resets              *)
(*   "controller"  AdmissionControl: three tenants of which one names      *)
(*                 itself, two heavy and two light requests, a limit       *)
(*                 between 1 and 3 that starts where a heavy and a light   *)
(*                 request do not fit together, and configurations that    *)
(*                 differ in the mode, the lanes and the bounds            *)
(***************************************************************************)
EXTENDS MCAccountSemaphore, AdmissionControl

CONSTANTS t1, t2

VARIABLES scenario

Costs == r1 :> 2 @@ r2 :> 1 @@ r3 :> 2 @@ r4 :> 1

AllTenants == {t1, t2, Default, "_existing"}
Tenants == r1 :> t1 @@ r2 :> t2 @@ r3 :> t2 @@ r4 :> Default

Usual == [mode |-> "enforce", virtualLanes |-> FALSE, min |-> 1, max |-> 3, initial |-> 2,
          maxQueueCount |-> 3, maxQueueCost |-> 5]

Reloaded == {Usual,
             [Usual EXCEPT !.virtualLanes = TRUE],
             [Usual EXCEPT !.max = 1, !.initial = 1, !.maxQueueCount = 1],
             [Usual EXCEPT !.mode = "shadow"],
             [Usual EXCEPT !.mode = "off"]}

(* Resets are bounded: calls still hold at most this many places in dropped gates. *)
MaxOrphaned == 2

AdmissionInit ==
    \/ scenario = "controller" /\ Init /\ ControlInit
    \/ scenario = "accounts" /\ Init /\ ControlInit /\ config = Usual

AdmissionNext ==
    /\ UNCHANGED scenario
    /\ \/ scenario = "accounts" /\ Next /\ Cardinality(orphaned') <= MaxOrphaned
          /\ UNCHANGED controlVars
       \/ scenario = "controller" /\ ControlNext /\ UNCHANGED vars

AdmissionSpec == AdmissionInit /\ [][AdmissionNext]_<<scenario, vars, controlVars>>
=============================================================================
