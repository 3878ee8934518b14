------------------------------ MODULE LeaseOwnership ------------------------------
(***************************************************************************)
(* What the lease table promises: a one-to-one assignment of owners to     *)
(* connections, in which every grant gets a generation of its own, the     *)
(* next of its owner, and a move to another connection keeps it.           *)
(***************************************************************************)
EXTENDS Integers

CONSTANTS Owner, ApiKey, Connection

VARIABLES
    claims,   \* the leases in force, <<owner, key, connection, generation>>
    issued    \* the last generation granted to each owner

Init == claims = {} /\ issued = [o \in Owner |-> 0]

Free(left, c) == \A claim \in left : claim[3] # c

Grant(left, o, k, c) ==
    /\ \A claim \in left : claim[1] # o
    /\ Free(left, c)
    /\ issued' = [issued EXCEPT ![o] = @ + 1]
    /\ claims' = left \cup {<<o, k, c, issued'[o]>>}

Move(left, claim, c) ==
    /\ Free(left, c)
    /\ claims' = (left \ {claim}) \cup {<<claim[1], claim[2], c, claim[4]>>}
    /\ UNCHANGED issued

(* Any leases may end in a step; `left` are the others. *)
Next ==
    \E left \in SUBSET claims :
        \/ claims' = left /\ UNCHANGED issued
        \/ \E o \in Owner, k \in ApiKey, c \in Connection : Grant(left, o, k, c)
        \/ \E claim \in left, c \in Connection : Move(left, claim, c)

Spec == Init /\ [][Next]_<<claims, issued>>
=============================================================================
