----------------------------- MODULE AtomicAdmission -----------------------------
(***************************************************************************)
(* What the concurrency gates promise their callers, with nothing of how:  *)
(* a call names a set of gates, is admitted through all of them at once or *)
(* not at all, and no gate is ever held by more calls than its capacity.   *)
(***************************************************************************)
EXTENDS Integers, FiniteSets

CONSTANTS Key, Request, Keys, Capacity

VARIABLE status

Holding(k) == {r \in Request : status[r] = "holding" /\ k \in Keys[r]}

Init == status = [r \in Request |-> "new"]

(* What becomes of one call, apart from being admitted after a wait. *)
Fate(s) == CASE s = "new" -> {"waiting", "holding", "rejected"}
             [] s = "waiting" -> {"waiting", "rejected"}
             [] s = "holding" -> {"released"}
             [] OTHER -> {s}

(***************************************************************************)
(* One call moves to its next state; any set G of waiting calls, possibly  *)
(* the one that has just arrived, is admitted in the same step.            *)
(***************************************************************************)
Move(r) ==
    \E next \in Fate(status[r]) :
        LET after == [status EXCEPT ![r] = next]
        IN  \E G \in SUBSET {q \in Request : after[q] = "waiting"} :
                status' = [q \in Request |-> IF q \in G THEN "holding" ELSE after[q]]

Fitting == \A k \in Key : Cardinality(Holding(k)) <= Capacity[k]

Next == (\E r \in Request : Move(r)) /\ Fitting'

Spec == Init /\ [][Next]_status
=============================================================================
