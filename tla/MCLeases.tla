-------------------------------- MODULE MCLeases --------------------------------
(***************************************************************************)
(* Leases on small instances.  A behaviour follows one scenario:           *)
(*                                                                         *)
(*   "table"     ExclusiveLeases: every operation with every argument, the *)
(*               clock of each caller wherever it likes                    *)
(*   "sessions"  ManagedSessions: two calls and the lifecycle route        *)
(***************************************************************************)
EXTENDS MCManagedSessions

VARIABLE scenario

(* Owners, keys and connections are interchangeable: in the first scenario the
   first lease is always that of the same three. *)
Canonical ==
    rows # <<>> =>
        /\ rows[1].owner = CHOOSE o \in Owner : TRUE
        /\ rows[1].key = CHOOSE k \in ApiKey : TRUE
        /\ rows[1].conn = CHOOSE c \in Connection : TRUE

Resting == [phase |-> "idle", mode |-> "acquire", owner |-> CHOOSE o \in Owner : TRUE,
            key |-> CHOOSE k \in ApiKey : TRUE, gen |-> 1, pool |-> Connection,
            conn |-> NoConnection]

LeasesInit ==
    \/ scenario = "table" /\ Init /\ call = [r \in Call |-> Resting]
    \/ scenario = "sessions" /\ SessionInit

LeasesNext ==
    /\ UNCHANGED scenario
    /\ \/ scenario = "table" /\ Next /\ Canonical' /\ UNCHANGED call
       \/ scenario = "sessions" /\ SessionNext

LeasesSpec ==
    /\ LeasesInit
    /\ [][LeasesNext]_<<scenario, vars>>
    /\ scenario = "sessions" => Fairness
=============================================================================
