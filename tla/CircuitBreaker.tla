----------------------------- MODULE CircuitBreaker -----------------------------
(***************************************************************************)
(* One provider's circuit breaker (src/shared/utils/circuitBreaker.ts):    *)
(* the object in the registry, its row in domain_circuit_breakers, and the *)
(* calls that run inside execute().                                        *)
(*                                                                         *)
(* A caller keeps the breaker object it looked up across its awaits, so a  *)
(* call can outlive the object's stay in the registry; the eviction, the   *)
(* five-minute sweep and resetAllCircuitBreakers() leave such objects      *)
(* behind.                                                                 *)
(***************************************************************************)
EXTENDS BreakerRules, FiniteSets

CONSTANTS
    Object,     \* breaker objects the name can have had at one time
    None,
    Call,       \* concurrent calls of execute()
    Excusable,  \* calls that can end in an error isFailure() excuses
    Evicting,   \* the registry may drop the breaker
    Restarting  \* the process may restart

ASSUME CircuitAssumption ==
    /\ IsFiniteSet(Call)
    /\ None \notin Object
    /\ Excusable \subseteq Call
    /\ Evicting \in BOOLEAN
    /\ Restarting \in BOOLEAN

VARIABLES
    registered, \* the object the registry holds for the name, or None
    breaker,    \* every object's fields
    saved,      \* the row; no row and a row of a fresh breaker restore alike
    calls       \* the object each call runs in, and whether it is a probe of it

vars == <<registered, breaker, saved, calls>>

Idle == [in |-> None, probe |-> FALSE]

Running(c) == calls[c] # Idle

Init ==
    /\ registered = None
    /\ breaker = [o \in Object |-> Fresh]
    /\ saved = Fresh
    /\ calls = [c \in Call |-> Idle]

-----------------------------------------------------------------------------
(* Object o gets the fields b; its probes end with its HALF_OPEN period. *)
Becomes(o, b) == breaker' = [breaker EXCEPT ![o] = b]

Settled(o, b) ==
    [c \in Call |-> IF calls[c].in = o /\ b.state # "HALF_OPEN"
                    THEN [calls[c] EXCEPT !.probe = FALSE] ELSE calls[c]]

(* getCircuitBreaker(name, options) makes the object, unless it is there, and persists. *)
Create(o) ==
    /\ registered = None
    /\ \A c \in Call : calls[c].in # o
    /\ registered' = o
    /\ Becomes(o, Restored(saved))
    /\ UNCHANGED <<saved, calls>>

Configure ==
    /\ registered # None
    /\ saved' = Persisted(breaker[registered])
    /\ UNCHANGED <<registered, breaker, calls>>

(* getStatus(), canExecute(), getRetryAfterMs(), a refused execute() *)
Refresh ==
    /\ registered # None
    /\ RefreshDue(breaker[registered])
    /\ Becomes(registered, Refreshed(breaker[registered]))
    /\ saved' = Persisted(Refreshed(breaker[registered]))
    /\ UNCHANGED <<registered, calls>>

(* execute() lets the call in *)
Execute(c) ==
    /\ registered # None
    /\ ~Running(c)
    /\ LET b == Refreshed(breaker[registered])
       IN  /\ Admits(b)
           /\ Becomes(registered, Admitted(b))
           /\ calls' = [calls EXCEPT ![c] = [in |-> registered, probe |-> b.state = "HALF_OPEN"]]
           /\ saved' = IF RefreshDue(breaker[registered]) THEN Persisted(b) ELSE saved
    /\ UNCHANGED registered

(* A slip: a success is not saved. *)
Succeed_Unsaved(c) ==
    /\ Running(c)
    /\ LET o == calls[c].in
           b == Succeeded(breaker[o])
       IN  Becomes(o, b) /\ calls' = [Settled(o, b) EXCEPT ![c] = Idle]
    /\ UNCHANGED <<registered, saved>>

(* the callback resolved *)
Succeed(c) ==
    /\ Running(c)
    /\ LET o == calls[c].in
           b == Succeeded(breaker[o])
       IN  /\ Becomes(o, b)
           /\ saved' = Persisted(b)
           /\ calls' = [Settled(o, b) EXCEPT ![c] = Idle]
    /\ UNCHANGED registered

(* the callback threw a provider's failure; a kind's threshold returns before the save *)
Fail(c, kind) ==
    /\ Running(c)
    /\ LET o == calls[c].in
           b == Failed(breaker[o], kind)
       IN  /\ Becomes(o, b)
           /\ saved' = IF KindTrips(breaker[o], kind) THEN saved ELSE Persisted(b)
           /\ calls' = [Settled(o, b) EXCEPT ![c] = Idle]
    /\ UNCHANGED registered

(* the callback threw an error isFailure() excuses, such as a client's abort *)
Excuse(c) ==
    /\ Running(c)
    /\ c \in Excusable
    /\ calls' = [calls EXCEPT ![c] = Idle]
    /\ UNCHANGED <<registered, breaker, saved>>

(* reset() *)
Reset ==
    /\ registered # None
    /\ LET b == WasReset(breaker[registered])
       IN  Becomes(registered, b) /\ saved' = Persisted(b) /\ calls' = Settled(registered, b)
    /\ UNCHANGED registered

(* The sweep, or the cap on the registry's size, drops a cold breaker and its row. *)
Cold(b) == b.state = "CLOSED" /\ b.failureCount = 0

Evict ==
    /\ Evicting
    /\ registered # None
    /\ Cold(breaker[registered])
    /\ registered' = None
    /\ saved' = Fresh
    /\ UNCHANGED <<breaker, calls>>

(* resetAllCircuitBreakers() *)
ResetAll ==
    /\ Evicting
    /\ registered # None
    /\ LET b == WasReset(breaker[registered])
       IN  Becomes(registered, b) /\ calls' = Settled(registered, b)
    /\ registered' = None
    /\ saved' = Fresh

(* Every cooldown that is running runs out. *)
CooldownElapses ==
    /\ breaker' = [o \in Object |-> [breaker[o] EXCEPT !.cooled = TRUE]]
    /\ saved' = [saved EXCEPT !.cooled = TRUE]
    /\ UNCHANGED <<registered, calls>>

(* The process ends and starts again: only the row is left. *)
Restart ==
    /\ Restarting
    /\ registered' = None
    /\ breaker' = [o \in Object |-> Fresh]
    /\ calls' = [c \in Call |-> Idle]
    /\ UNCHANGED saved

Return(c) == Succeed(c) \/ (\E kind \in Kind \cup {NoKind} : Fail(c, kind)) \/ Excuse(c)

Next ==
    \/ \E o \in Object : Create(o)
    \/ Configure \/ Refresh \/ Reset \/ Evict \/ ResetAll \/ CooldownElapses \/ Restart
    \/ \E c \in Call : Execute(c) \/ Return(c)

Spec == Init /\ [][Next]_vars

(***************************************************************************)
(* Requests keep coming (every lookup makes the object if it is missing),  *)
(* time passes, and every call inside execute() comes to an end (upstream  *)
(* fetches carry deadlines).                                               *)
(***************************************************************************)
Fairness ==
    /\ WF_vars(\E o \in Object : Create(o))
    /\ WF_vars(\E c \in Call : Execute(c))
    /\ WF_vars(CooldownElapses)
    /\ \A c \in Call : WF_vars(Return(c))

FairSpec == Spec /\ Fairness

-----------------------------------------------------------------------------
(* The types of the variables. *)
TypeOK ==
    /\ registered \in Object \cup {None}
    /\ breaker \in [Object -> Breaker]
    /\ saved \in Breaker
    /\ calls \in [Call -> [in : Object \cup {None}, probe : BOOLEAN]]

Probes(o) == {c \in Call : calls[c].in = o /\ calls[c].probe}

(***************************************************************************)
(* "HALF_OPEN - Probing: limited requests allowed": however refreshes,     *)
(* late answers and restarts fall, the calls let in during one HALF_OPEN   *)
(* period and what is left of its allowance never exceed halfOpenRequests. *)
(***************************************************************************)
ProbesBounded ==
    \A o \in Object : breaker[o].state = "HALF_OPEN" =>
        Cardinality(Probes(o)) + breaker[o].halfOpenAllowed <= HalfOpenRequests

(***************************************************************************)
(* Every object, abandoned ones included, and the row a restart will read  *)
(* have the shape _onSuccess() and _onFailure() rely on: late answers and  *)
(* restored rows never leave a CLOSED breaker past a threshold or with an  *)
(* escalated cooldown.                                                     *)
(***************************************************************************)
InShape == Shape(saved) /\ \A o \in Object : Shape(breaker[o])

(***************************************************************************)
(* "DB-persisted": between two handlers the row is what the registered     *)
(* breaker is, so a restart at any moment loses nothing.                   *)
(***************************************************************************)
RowIsCurrent == registered # None => saved = Persisted(breaker[registered])

(***************************************************************************)
(* A HALF_OPEN breaker that lets nobody in is waiting for a probe it did   *)
(* let in: nothing else can end the state.                                 *)
(***************************************************************************)
ProbeOutstanding ==
    \A o \in Object :
        breaker[o].state = "HALF_OPEN" /\ breaker[o].halfOpenAllowed = 0 => Probes(o) # {}

(***************************************************************************)
(* Once a provider stops failing, and the process restarting, the breaker  *)
(* comes back to CLOSED again and again: refresh needs no timer of its     *)
(* own, late failures of earlier calls delay the cooldown but run out, and *)
(* a probe, of a restored breaker too, closes it.                          *)
(***************************************************************************)
StopsFailing ==
    <>[][~Restart /\ \A c \in Call : \A kind \in Kind \cup {NoKind} : ~Fail(c, kind)]_vars

BackToClosed == registered # None /\ breaker[registered].state = "CLOSED"

RecoversWithProvider == StopsFailing => []<>BackToClosed
=============================================================================
