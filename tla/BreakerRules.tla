------------------------------ MODULE BreakerRules ------------------------------
(***************************************************************************)
(* The rules of class CircuitBreaker (src/shared/utils/circuitBreaker.ts): *)
(* what a success, a failure, a refresh and a reset do to one breaker.     *)
(* There is no state here; CircuitBreaker and ProviderCalls hold breakers  *)
(* in their variables and change them by these rules.                      *)
(*                                                                         *)
(* Time is reduced to what the code asks of it: whether the cooldown has   *)
(* run out since lastFailureTime.  Escalation and per-kind overrides only  *)
(* change how long that takes.                                             *)
(***************************************************************************)
EXTENDS Integers

CONSTANTS
    FailureThreshold,
    DegradationThreshold,
    HalfOpenRequests,
    Kind,           \* failure kinds that classifyError() can return
    NoKind,         \* it returned undefined, or is not configured
    KindThreshold,  \* effective threshold of each kind with a kindThresholds entry
    MaxCount        \* bound: counters stop here

ASSUME RulesAssumption ==
    /\ FailureThreshold \in Nat \ {0}
    /\ DegradationThreshold \in 1..FailureThreshold
    /\ HalfOpenRequests \in Nat \ {0}
    /\ NoKind \notin Kind
    /\ DOMAIN KindThreshold \subseteq Kind
    /\ \A k \in DOMAIN KindThreshold : KindThreshold[k] \in Nat \ {0}
    /\ MaxCount \in Nat
    /\ MaxCount >= FailureThreshold

CircuitState == {"CLOSED", "DEGRADED", "OPEN", "HALF_OPEN"}

(* cooled: lastFailureTime is null or lies a whole cooldown back. *)
Breaker ==
    [state : CircuitState, failureCount : 0..MaxCount, kindFailureCounts : [Kind -> 0..MaxCount],
     openCycleCount : 0..MaxCount, cooled : BOOLEAN, halfOpenAllowed : 0..HalfOpenRequests]

(* The constructor, with no saved row. *)
Fresh ==
    [state |-> "CLOSED", failureCount |-> 0, kindFailureCounts |-> [k \in Kind |-> 0],
     openCycleCount |-> 0, cooled |-> TRUE, halfOpenAllowed |-> 0]

Inc(n) == IF n < MaxCount THEN n + 1 ELSE n

(* _transition() *)
Transition(b, s) ==
    [b EXCEPT !.state = s,
              !.halfOpenAllowed = IF s = "HALF_OPEN" THEN HalfOpenRequests ELSE @]

(* A slip: the probe allowance is not limited to the refresh of an OPEN breaker. *)
RefreshDue_Again(b) == b.state \in {"OPEN", "HALF_OPEN"} /\ b.cooled

(* _refreshOpenState() *)
RefreshDue(b) == b.state = "OPEN" /\ b.cooled
Refreshed(b) == IF RefreshDue(b) THEN Transition(b, "HALF_OPEN") ELSE b

(* Slips: probes are let in without looking at the allowance; never let in. *)
Admits_Unlimited(b) == b.state # "OPEN"
Admits_NoProbe(b) == b.state \in {"CLOSED", "DEGRADED"}

(* execute() lets the call in / canExecute(), on a refreshed breaker. *)
Admits(b) == b.state \in {"CLOSED", "DEGRADED"} \/ (b.state = "HALF_OPEN" /\ b.halfOpenAllowed > 0)

(* execute() takes a probe out of the allowance. *)
Admitted(b) == IF b.state = "HALF_OPEN" THEN [b EXCEPT !.halfOpenAllowed = @ - 1] ELSE b

(* A slip: a recovery keeps the number of open cycles. *)
Forgiven_NotTheCycles(b) ==
    [b EXCEPT !.failureCount = 0, !.kindFailureCounts = [k \in Kind |-> 0]]

(* The counters a recovery forgets. *)
Forgiven(b) ==
    [b EXCEPT !.failureCount = 0, !.openCycleCount = 0, !.kindFailureCounts = [k \in Kind |-> 0]]

(* _onSuccess() *)
Succeeded(b) ==
    CASE b.state = "OPEN" -> [Forgiven(Transition(b, "CLOSED")) EXCEPT !.cooled = TRUE]
      [] b.state = "HALF_OPEN" -> Forgiven(Transition(b, "CLOSED"))
      [] OTHER ->
            LET left == IF b.failureCount > 0 THEN b.failureCount - 1 ELSE 0
            IN  [b EXCEPT !.failureCount = left,
                          !.state = IF left <= DegradationThreshold THEN "CLOSED" ELSE @]

(* The counting at the head of _onFailure(). *)
Counted(b, kind) ==
    [b EXCEPT !.failureCount = Inc(@),
              !.cooled = FALSE,
              !.kindFailureCounts = [k \in Kind |-> IF k = kind THEN Inc(@[k]) ELSE @[k]]]

(* One kind alone has reached its threshold: _onFailure() opens and returns at once. *)
KindTrips(b, kind) ==
    kind \in DOMAIN KindThreshold /\ Counted(b, kind).kindFailureCounts[kind] >= KindThreshold[kind]

(* _onFailure() *)
Failed(b, kind) ==
    LET c == Counted(b, kind)
    IN  CASE KindTrips(b, kind) -> Transition(c, "OPEN")
          [] ~KindTrips(b, kind) /\ b.state = "OPEN" -> c
          [] ~KindTrips(b, kind) /\ b.state = "HALF_OPEN" ->
                [Transition(c, "OPEN") EXCEPT !.openCycleCount = Inc(@)]
          [] OTHER ->
                CASE c.failureCount >= FailureThreshold -> Transition(c, "OPEN")
                  [] c.failureCount \in DegradationThreshold..(FailureThreshold - 1) ->
                        Transition(c, "DEGRADED")
                  [] OTHER -> c

(* reset() *)
WasReset(b) == [Forgiven(Transition(b, "CLOSED")) EXCEPT !.cooled = TRUE]

(***************************************************************************)
(* _persistToDb() writes everything but the probe allowance;               *)
(* _restoreFromDb() hands a HALF_OPEN breaker a new one (its slip does     *)
(* not).                                                                   *)
(***************************************************************************)
Restored_NoAllowance(r) == r
Persisted(b) == [b EXCEPT !.halfOpenAllowed = 0]
Restored(r) == [r EXCEPT !.halfOpenAllowed = IF r.state = "HALF_OPEN" THEN HalfOpenRequests ELSE 0]

(***************************************************************************)
(* What a breaker may look like: while requests pass, the failures counted *)
(* match the state's band and no open cycle is remembered; a breaker that  *)
(* probes has seen its cooldown run out.                                   *)
(***************************************************************************)
Shape(b) ==
    /\ b.state = "CLOSED" => b.failureCount <= DegradationThreshold
    /\ b.state = "DEGRADED" => b.failureCount >= DegradationThreshold
    /\ b.state \in {"CLOSED", "DEGRADED"} => b.failureCount < FailureThreshold /\ b.openCycleCount = 0
    /\ b.state = "HALF_OPEN" => b.cooled
    /\ \A k \in DOMAIN KindThreshold :
          b.state \in {"CLOSED", "DEGRADED"} => b.kindFailureCounts[k] < KindThreshold[k]
=============================================================================
