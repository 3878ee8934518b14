-------------------------------- MODULE MCGates --------------------------------
(***************************************************************************)
(* What requests wait for before and instead of their upstream call, on    *)
(* small instances.  A behaviour follows one scenario, the components of   *)
(* the others rest:                                                        *)
(*                                                                         *)
(*   "accounts"  the account gates (AccountSemaphore), as the promise of   *)
(*               atomic admission sees them                                *)
(*   "cooldown"  the gate of a round-robin target (RateLimitSemaphore):    *)
(*               three requests that allow one at a time and one that      *)
(*               allows two, room for two in the queue, two cooldowns      *)
(*   "dedup"     identical requests (RequestDedup): four requests, two     *)
(*               hashes, and a map with room for one entry                 *)
(***************************************************************************)
EXTENDS MCAccountSemaphore, RateLimitSemaphore, RequestDedup

VARIABLE scenario

CappedRequests == r1 :> 1 @@ r2 :> 1 @@ r3 :> 2 @@ r4 :> 1

GatesInit ==
    /\ scenario \in {"accounts", "cooldown", "dedup"}
    /\ Init
    /\ SlotInit
    /\ DedupInit

GatesNext ==
    /\ UNCHANGED scenario
    /\ \/ scenario = "accounts" /\ Service /\ UNCHANGED <<slotVars, dedupVars>>
       \/ scenario = "cooldown" /\ SlotNext /\ UNCHANGED <<vars, dedupVars>>
       \/ scenario = "dedup" /\ DedupNext /\ UNCHANGED <<vars, slotVars>>

(* Accounts and calls that rest have nothing enabled; the clock of a gate that rests has. *)
GatesSpec ==
    /\ GatesInit
    /\ [][GatesNext]_<<scenario, vars, slotVars, dedupVars>>
    /\ Fairness
    /\ scenario = "cooldown" => SlotFairness
    /\ DedupFairness
=============================================================================
