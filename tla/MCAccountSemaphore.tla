--------------------------- MODULE MCAccountSemaphore ---------------------------
(***************************************************************************)
(* Instances of AccountSemaphore for TLC: two or three gates and four      *)
(* calls, some of which need one gate and some two, so that a call can be  *)
(* first in one queue and second in another.                               *)
(***************************************************************************)
EXTENDS AccountSemaphore, TLC

CONSTANTS r1, r2, r3, r4

AllKeys == {1, 2}

(* A two-gate call, one call on each gate, and a second two-gate call. *)
AllRequests == {r1, r2, r3, r4}
CrossedKeys == r1 :> {1, 2} @@ r2 :> {1} @@ r3 :> {2} @@ r4 :> {1, 2}

(* Every call gives the same limits: one permit at gate 1, two at gate 2. *)
EvenLimits == [r \in AllRequests |-> 1 :> 1 @@ 2 :> 2]

(* Calls disagree, as when the operator edits a limit while requests run. *)
EditedLimits == [r \in AllRequests |-> IF r \in {r1, r3} THEN 1 :> 2 @@ 2 :> 2 ELSE 1 :> 1 @@ 2 :> 1]
=============================================================================
