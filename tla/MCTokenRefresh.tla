----------------------------- MODULE MCTokenRefresh -----------------------------
(***************************************************************************)
(* TokenRefresh on small instances.  A behaviour follows one scenario:     *)
(*                                                                         *)
(*   "faults"  three kinds of caller on one connection, with retries,      *)
(*             abandoned attempts, restarts, revocations and logins        *)
(*   "lane"    a request ahead of time and the sweep on two connections of *)
(*             one rotation group, with restarts                           *)
(***************************************************************************)
EXTENDS TokenRefresh

VARIABLE scenario

OneConnection ==
    \E c \in Revocable : \A k \in Caller : caller[k].conn \in {c, None}

TwoCallers ==
    /\ \A k \in Reactive : caller[k].pc = "idle"
    /\ \A c \in Conn : provider[c].revoked # "user"

Within ==
    \/ scenario = "faults" /\ OneConnection
    \/ scenario = "lane" /\ TwoCallers

ScenarioInit == scenario \in {"faults", "lane"} /\ Init

ScenarioNext == UNCHANGED scenario /\ Next /\ Within'

(* Nothing that fairness asks for leaves a scenario. *)
ScenarioSpec ==
    /\ ScenarioInit
    /\ [][ScenarioNext]_<<scenario, vars>>
    /\ Fairness
=============================================================================
