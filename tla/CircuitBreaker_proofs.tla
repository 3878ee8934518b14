------------------------- MODULE CircuitBreaker_proofs -------------------------
(***************************************************************************)
(* Proofs about the breaker, for any thresholds, kinds, calls, breaker     *)
(* objects and counter bound.  The first part is about BreakerRules: what  *)
(* each rule does to the fields, and that each keeps the shape.  The       *)
(* second is about CircuitBreaker, whose steps apply those lemmas: the     *)
(* types, the shape of every breaker and of the row, the bound on probes,  *)
(* and, where the theorems' assumptions say so, that the row is current    *)
(* and that a spent allowance is awaited.                                  *)
(***************************************************************************)
EXTENDS CircuitBreaker, FiniteSetTheorems, TLAPS

-----------------------------------------------------------------------------
(* One field of a breaker changed. *)
WithState(b, v) == [b EXCEPT !.state = v]
WithFailureCount(b, v) == [b EXCEPT !.failureCount = v]
WithKindFailureCounts(b, v) == [b EXCEPT !.kindFailureCounts = v]
WithOpenCycleCount(b, v) == [b EXCEPT !.openCycleCount = v]
WithCooled(b, v) == [b EXCEPT !.cooled = v]
WithHalfOpenAllowed(b, v) == [b EXCEPT !.halfOpenAllowed = v]

(* A breaker with another state is otherwise the same; so for each field below. *)
LEMMA WithStateFields ==
    ASSUME NEW b \in Breaker, NEW v \in CircuitState
    PROVE  /\ WithState(b, v) \in Breaker
           /\ WithState(b, v).state = v
           /\ WithState(b, v).failureCount = b.failureCount
           /\ WithState(b, v).kindFailureCounts = b.kindFailureCounts
           /\ WithState(b, v).openCycleCount = b.openCycleCount
           /\ (WithState(b, v).cooled <=> b.cooled)
           /\ WithState(b, v).halfOpenAllowed = b.halfOpenAllowed
BY DEF WithState, Breaker, CircuitState

(* ... with another failureCount. *)
LEMMA WithFailureCountFields ==
    ASSUME NEW b \in Breaker, NEW v \in 0..MaxCount
    PROVE  /\ WithFailureCount(b, v) \in Breaker
           /\ WithFailureCount(b, v).failureCount = v
           /\ WithFailureCount(b, v).state = b.state
           /\ WithFailureCount(b, v).kindFailureCounts = b.kindFailureCounts
           /\ WithFailureCount(b, v).openCycleCount = b.openCycleCount
           /\ (WithFailureCount(b, v).cooled <=> b.cooled)
           /\ WithFailureCount(b, v).halfOpenAllowed = b.halfOpenAllowed
BY DEF WithFailureCount, Breaker, CircuitState

(* ... with other counts by kind. *)
LEMMA WithKindFailureCountsFields ==
    ASSUME NEW b \in Breaker, NEW v \in [Kind -> 0..MaxCount]
    PROVE  /\ WithKindFailureCounts(b, v) \in Breaker
           /\ WithKindFailureCounts(b, v).kindFailureCounts = v
           /\ WithKindFailureCounts(b, v).state = b.state
           /\ WithKindFailureCounts(b, v).failureCount = b.failureCount
           /\ WithKindFailureCounts(b, v).openCycleCount = b.openCycleCount
           /\ (WithKindFailureCounts(b, v).cooled <=> b.cooled)
           /\ WithKindFailureCounts(b, v).halfOpenAllowed = b.halfOpenAllowed
BY DEF WithKindFailureCounts, Breaker, CircuitState

(* ... with another number of open cycles. *)
LEMMA WithOpenCycleCountFields ==
    ASSUME NEW b \in Breaker, NEW v \in 0..MaxCount
    PROVE  /\ WithOpenCycleCount(b, v) \in Breaker
           /\ WithOpenCycleCount(b, v).openCycleCount = v
           /\ WithOpenCycleCount(b, v).state = b.state
           /\ WithOpenCycleCount(b, v).failureCount = b.failureCount
           /\ WithOpenCycleCount(b, v).kindFailureCounts = b.kindFailureCounts
           /\ (WithOpenCycleCount(b, v).cooled <=> b.cooled)
           /\ WithOpenCycleCount(b, v).halfOpenAllowed = b.halfOpenAllowed
BY DEF WithOpenCycleCount, Breaker, CircuitState

(* ... with its cooldown run out, or running. *)
LEMMA WithCooledFields ==
    ASSUME NEW b \in Breaker, NEW v \in BOOLEAN
    PROVE  /\ WithCooled(b, v) \in Breaker
           /\ (WithCooled(b, v).cooled <=> v)
           /\ WithCooled(b, v).state = b.state
           /\ WithCooled(b, v).failureCount = b.failureCount
           /\ WithCooled(b, v).kindFailureCounts = b.kindFailureCounts
           /\ WithCooled(b, v).openCycleCount = b.openCycleCount
           /\ WithCooled(b, v).halfOpenAllowed = b.halfOpenAllowed
BY DEF WithCooled, Breaker, CircuitState

(* ... with another allowance of probes. *)
LEMMA WithHalfOpenAllowedFields ==
    ASSUME NEW b \in Breaker, NEW v \in 0..HalfOpenRequests
    PROVE  /\ WithHalfOpenAllowed(b, v) \in Breaker
           /\ WithHalfOpenAllowed(b, v).halfOpenAllowed = v
           /\ WithHalfOpenAllowed(b, v).state = b.state
           /\ WithHalfOpenAllowed(b, v).failureCount = b.failureCount
           /\ WithHalfOpenAllowed(b, v).kindFailureCounts = b.kindFailureCounts
           /\ WithHalfOpenAllowed(b, v).openCycleCount = b.openCycleCount
           /\ (WithHalfOpenAllowed(b, v).cooled <=> b.cooled)
BY DEF WithHalfOpenAllowed, Breaker, CircuitState

-----------------------------------------------------------------------------
(* Inc() stays within the bound, and counts below the failure threshold. *)
LEMMA IncBounded ==
    ASSUME RulesAssumption, NEW n \in 0..MaxCount
    PROVE  Inc(n) \in 0..MaxCount /\ (n < FailureThreshold => Inc(n) = n + 1)
BY DEF RulesAssumption, Inc

(* The fields of a typed breaker. *)
LEMMA Fields ==
    ASSUME NEW b \in Breaker
    PROVE  /\ b.state \in CircuitState
           /\ b.failureCount \in 0..MaxCount
           /\ b.kindFailureCounts \in [Kind -> 0..MaxCount]
           /\ b.openCycleCount \in 0..MaxCount
           /\ b.cooled \in BOOLEAN
           /\ b.halfOpenAllowed \in 0..HalfOpenRequests
BY DEF Breaker

(* _transition() changes the state and, for HALF_OPEN, the allowance. *)
LEMMA TransitionFields ==
    ASSUME RulesAssumption, NEW b \in Breaker, NEW s \in CircuitState
    PROVE  /\ Transition(b, s) \in Breaker
           /\ Transition(b, s).state = s
           /\ Transition(b, s).failureCount = b.failureCount
           /\ Transition(b, s).kindFailureCounts = b.kindFailureCounts
           /\ Transition(b, s).openCycleCount = b.openCycleCount
           /\ (Transition(b, s).cooled <=> b.cooled)
           /\ s = "HALF_OPEN" => Transition(b, s).halfOpenAllowed = HalfOpenRequests
<1> DEFINE v == IF s = "HALF_OPEN" THEN HalfOpenRequests ELSE b.halfOpenAllowed
<1>1. Transition(b, s) = WithHalfOpenAllowed(WithState(b, s), v)
  BY DEF Transition, WithState, WithHalfOpenAllowed
<1>2. v \in 0..HalfOpenRequests
  BY Fields DEF RulesAssumption
<1>3. s = "HALF_OPEN" => v = HalfOpenRequests
  OBVIOUS
<1> HIDE DEF v
<1> QED
  BY <1>1, <1>2, <1>3, WithStateFields, WithHalfOpenAllowedFields

(* A recovery forgets the counters and leaves the rest. *)
LEMMA ForgivenFields ==
    ASSUME RulesAssumption, NEW b \in Breaker
    PROVE  /\ Forgiven(b) \in Breaker
           /\ Forgiven(b).state = b.state
           /\ Forgiven(b).failureCount = 0
           /\ Forgiven(b).kindFailureCounts = [k \in Kind |-> 0]
           /\ Forgiven(b).openCycleCount = 0
           /\ (Forgiven(b).cooled <=> b.cooled)
           /\ Forgiven(b).halfOpenAllowed = b.halfOpenAllowed
<1> DEFINE none == [k \in Kind |-> 0]
<1>1. Forgiven(b) = WithKindFailureCounts(WithOpenCycleCount(WithFailureCount(b, 0), 0), none)
  BY DEF Forgiven, WithKindFailureCounts, WithOpenCycleCount, WithFailureCount
<1>2. 0 \in 0..MaxCount /\ none \in [Kind -> 0..MaxCount]
  BY DEF RulesAssumption
<1>3. none = [k \in Kind |-> 0]
  OBVIOUS
<1> HIDE DEF none
<1> DEFINE b1 == WithFailureCount(b, 0)
           b2 == WithOpenCycleCount(b1, 0)
<1>4. /\ b1 \in Breaker /\ b1.failureCount = 0 /\ b1.state = b.state
      /\ (b1.cooled <=> b.cooled) /\ b1.halfOpenAllowed = b.halfOpenAllowed
  BY <1>2, WithFailureCountFields
<1> HIDE DEF b1
<1>5. /\ b2 \in Breaker /\ b2.failureCount = 0 /\ b2.openCycleCount = 0 /\ b2.state = b.state
      /\ (b2.cooled <=> b.cooled) /\ b2.halfOpenAllowed = b.halfOpenAllowed
  BY <1>2, <1>4, WithOpenCycleCountFields
<1>6. Forgiven(b) = WithKindFailureCounts(b2, none)
  BY <1>1 DEF b1
<1> HIDE DEF b2
<1> QED
  BY <1>2, <1>3, <1>5, <1>6, WithKindFailureCountsFields

(* A forgiven breaker that is CLOSED has the shape of one. *)
LEMMA ForgivenClosed ==
    ASSUME RulesAssumption, NEW b \in Breaker, b.state = "CLOSED"
    PROVE  Shape(Forgiven(b)) /\ Forgiven(b).state = "CLOSED"
<1>1. /\ Forgiven(b).state = "CLOSED" /\ Forgiven(b).failureCount = 0
      /\ Forgiven(b).openCycleCount = 0
  BY ForgivenFields
<1>2. ASSUME NEW k \in DOMAIN KindThreshold
      PROVE  Forgiven(b).kindFailureCounts[k] < KindThreshold[k]
  <2>1. k \in Kind /\ KindThreshold[k] \in Nat \ {0}
    BY DEF RulesAssumption
  <2>2. Forgiven(b).kindFailureCounts = [j \in Kind |-> 0]
    BY ForgivenFields
  <2> QED
    BY <2>1, <2>2
<1> QED
  BY <1>1, <1>2 DEF Shape, RulesAssumption

(***************************************************************************)
(* The shape is a matter of the state, the counters and the cooldown, and  *)
(* a cooldown that has run out never hurts it.                             *)
(***************************************************************************)
LEMMA ShapeKept ==
    ASSUME NEW b \in Breaker, NEW c \in Breaker, Shape(b),
           c.state = b.state, c.failureCount = b.failureCount,
           c.openCycleCount = b.openCycleCount, c.kindFailureCounts = b.kindFailureCounts,
           b.cooled => c.cooled
    PROVE  Shape(c)
BY DEF Shape

(* A breaker that is well typed and well shaped. *)
Sound == {b \in Breaker : Shape(b)}

(* The constructor makes a sound CLOSED breaker. *)
LEMMA FreshSound ==
    ASSUME RulesAssumption
    PROVE  Fresh \in Sound /\ Fresh.state = "CLOSED"
<1>1. Fresh \in Breaker
  BY DEF RulesAssumption, Fresh, Breaker, CircuitState
<1>2. /\ Fresh.state = "CLOSED" /\ Fresh.failureCount = 0 /\ Fresh.openCycleCount = 0
      /\ Fresh.kindFailureCounts = [k \in Kind |-> 0]
  BY DEF Fresh
<1>3. Shape(Fresh)
  <2> SUFFICES ASSUME NEW k \in DOMAIN KindThreshold
               PROVE  Fresh.kindFailureCounts[k] < KindThreshold[k]
    BY <1>2 DEF Shape, RulesAssumption
  <2>1. k \in Kind /\ KindThreshold[k] \in Nat \ {0}
    BY DEF RulesAssumption
  <2> QED
    BY <1>2, <2>1
<1> QED
  BY <1>1, <1>2, <1>3 DEF Sound

(* A refresh keeps a breaker sound and only ever moves it from OPEN to HALF_OPEN. *)
LEMMA RefreshSound ==
    ASSUME RulesAssumption, NEW b \in Sound
    PROVE  /\ Refreshed(b) \in Sound
           /\ \/ Refreshed(b) = b
              \/ /\ b.state = "OPEN"
                 /\ Refreshed(b).state = "HALF_OPEN"
                 /\ Refreshed(b).halfOpenAllowed = HalfOpenRequests
<1>1. b \in Breaker /\ Shape(b)
  BY DEF Sound
<1>2. CASE RefreshDue(b)
  <2>1. Refreshed(b) = Transition(b, "HALF_OPEN") /\ b.state = "OPEN" /\ b.cooled
    BY <1>2 DEF Refreshed, RefreshDue
  <2>2. "HALF_OPEN" \in CircuitState
    BY DEF CircuitState
  <2>3. /\ Refreshed(b) \in Breaker /\ Refreshed(b).state = "HALF_OPEN"
        /\ Refreshed(b).halfOpenAllowed = HalfOpenRequests
    BY <1>1, <2>1, <2>2, TransitionFields
  <2>4. (Refreshed(b).cooled <=> b.cooled)
    BY <1>1, <2>1, <2>2, TransitionFields
  <2>5. Shape(Refreshed(b))
    BY <2>1, <2>3, <2>4 DEF Shape
  <2> QED
    BY <2>1, <2>3, <2>5 DEF Sound
<1>3. CASE ~RefreshDue(b)
  BY <1>3 DEF Refreshed
<1> QED
  BY <1>2, <1>3

(* Letting a call in takes one probe from a HALF_OPEN breaker and nothing from another. *)
LEMMA AdmissionSound ==
    ASSUME RulesAssumption, NEW b \in Sound, Admits(b)
    PROVE  /\ Admitted(b) \in Sound
           /\ Admitted(b).state = b.state
           /\ b.state = "HALF_OPEN" => Admitted(b).halfOpenAllowed = b.halfOpenAllowed - 1
<1>1. b \in Breaker /\ Shape(b)
  BY DEF Sound
<1>2. CASE b.state = "HALF_OPEN"
  <2> DEFINE left == b.halfOpenAllowed - 1
  <2>1. Admitted(b) = WithHalfOpenAllowed(b, left)
    BY <1>2 DEF Admitted, WithHalfOpenAllowed
  <2>2. left \in 0..HalfOpenRequests
    BY <1>1, <1>2, Fields DEF Admits, RulesAssumption
  <2> HIDE DEF left
  <2>3. /\ Admitted(b) \in Breaker /\ Admitted(b).halfOpenAllowed = left
        /\ Admitted(b).state = b.state /\ (Admitted(b).cooled <=> b.cooled)
    BY <1>1, <2>1, <2>2, WithHalfOpenAllowedFields
  <2>4. Shape(Admitted(b))
    BY <1>1, <1>2, <2>3 DEF Shape
  <2> QED
    BY <2>3, <2>4 DEF Sound, left
<1>3. CASE b.state # "HALF_OPEN"
  BY <1>3 DEF Admitted
<1> QED
  BY <1>2, <1>3

(* A cooldown that runs out changes nothing else. *)
LEMMA CooledSound ==
    ASSUME NEW b \in Sound
    PROVE  /\ WithCooled(b, TRUE) \in Sound
           /\ WithCooled(b, TRUE).state = b.state
           /\ WithCooled(b, TRUE).halfOpenAllowed = b.halfOpenAllowed
BY WithCooledFields, ShapeKept DEF Sound

(* Closing a breaker and forgetting its counters makes it sound. *)
LEMMA ClosingSound ==
    ASSUME RulesAssumption, NEW b \in Breaker
    PROVE  /\ Forgiven(Transition(b, "CLOSED")) \in Sound
           /\ Forgiven(Transition(b, "CLOSED")).state = "CLOSED"
BY TransitionFields, ForgivenFields, ForgivenClosed DEF Sound, CircuitState

(* A success leaves a sound breaker that lets requests pass. *)
LEMMA SuccessSound ==
    ASSUME RulesAssumption, NEW b \in Sound
    PROVE  Succeeded(b) \in Sound /\ Succeeded(b).state \in {"CLOSED", "DEGRADED"}
<1> DEFINE f == Forgiven(Transition(b, "CLOSED"))
<1>1. b \in Breaker /\ Shape(b)
  BY DEF Sound
<1>2. f \in Sound /\ f.state = "CLOSED"
  BY <1>1, ClosingSound
<1>3. CASE b.state = "OPEN"
  <2>1. Succeeded(b) = WithCooled(f, TRUE)
    BY <1>3 DEF Succeeded, WithCooled
  <2> HIDE DEF f
  <2> QED
    BY <1>2, <2>1, CooledSound
<1>4. CASE b.state = "HALF_OPEN"
  BY <1>2, <1>4 DEF Succeeded
<1>5. CASE b.state \in {"CLOSED", "DEGRADED"}
  <2> DEFINE left == IF b.failureCount > 0 THEN b.failureCount - 1 ELSE 0
             now == IF left <= DegradationThreshold THEN "CLOSED" ELSE b.state
             c == WithState(WithFailureCount(b, left), now)
  <2>1. Succeeded(b) = c
    BY <1>5 DEF Succeeded, WithState, WithFailureCount
  <2>2. /\ left \in 0..MaxCount /\ left <= b.failureCount /\ now \in {"CLOSED", "DEGRADED"}
        /\ now = "CLOSED" => left <= DegradationThreshold
        /\ now = "DEGRADED" => left >= DegradationThreshold
    <3>1. b.failureCount \in 0..MaxCount /\ b.failureCount <= MaxCount
      BY <1>1, Fields DEF RulesAssumption
    <3> QED
      BY <1>1, <1>5, <3>1 DEF Shape, RulesAssumption
  <2> HIDE DEF left, now
  <2>3. WithFailureCount(b, left) \in Breaker
    BY <1>1, <2>2, WithFailureCountFields
  <2>4. /\ c \in Breaker /\ c.state = now /\ c.failureCount = left
        /\ c.openCycleCount = b.openCycleCount /\ c.kindFailureCounts = b.kindFailureCounts
    BY <1>1, <2>2, <2>3, WithFailureCountFields, WithStateFields DEF CircuitState
  <2> HIDE DEF c
  <2>5. Shape(c)
    BY <1>1, <1>5, <2>2, <2>4, Fields DEF Shape, RulesAssumption
  <2> QED
    BY <2>1, <2>2, <2>4, <2>5 DEF Sound
<1> QED
  BY <1>1, <1>3, <1>4, <1>5, Fields DEF CircuitState

(* A reset leaves a sound CLOSED breaker. *)
LEMMA ResetSound ==
    ASSUME RulesAssumption, NEW b \in Sound
    PROVE  WasReset(b) \in Sound /\ WasReset(b).state = "CLOSED"
<1> DEFINE f == Forgiven(Transition(b, "CLOSED"))
<1>1. f \in Sound /\ f.state = "CLOSED"
  BY ClosingSound DEF Sound
<1>2. WasReset(b) = WithCooled(f, TRUE)
  BY DEF WasReset, WithCooled
<1> HIDE DEF f
<1> QED
  BY <1>1, <1>2, CooledSound

(* What is saved of a sound breaker, and what is restored of a sound row, is sound. *)
LEMMA RowSound ==
    ASSUME RulesAssumption, NEW b \in Sound
    PROVE  /\ Persisted(b) \in Sound
           /\ Restored(b) \in Sound
           /\ Restored(b).halfOpenAllowed <= HalfOpenRequests
<1> DEFINE v == IF b.state = "HALF_OPEN" THEN HalfOpenRequests ELSE 0
<1>1. Persisted(b) = WithHalfOpenAllowed(b, 0) /\ Restored(b) = WithHalfOpenAllowed(b, v)
  BY DEF Persisted, Restored, WithHalfOpenAllowed
<1>2. 0 \in 0..HalfOpenRequests /\ v \in 0..HalfOpenRequests /\ v <= HalfOpenRequests
  BY DEF RulesAssumption
<1> HIDE DEF v
<1>3. ASSUME NEW w \in 0..HalfOpenRequests
      PROVE  /\ WithHalfOpenAllowed(b, w) \in Sound
             /\ WithHalfOpenAllowed(b, w).halfOpenAllowed = w
  <2>1. /\ WithHalfOpenAllowed(b, w) \in Breaker
        /\ WithHalfOpenAllowed(b, w).halfOpenAllowed = w
        /\ WithHalfOpenAllowed(b, w).state = b.state
        /\ WithHalfOpenAllowed(b, w).failureCount = b.failureCount
        /\ WithHalfOpenAllowed(b, w).kindFailureCounts = b.kindFailureCounts
        /\ WithHalfOpenAllowed(b, w).openCycleCount = b.openCycleCount
        /\ b.cooled => WithHalfOpenAllowed(b, w).cooled
    BY WithHalfOpenAllowedFields DEF Sound
  <2>2. Shape(b) /\ b \in Breaker
    BY DEF Sound
  <2>3. Shape(WithHalfOpenAllowed(b, w))
    BY <2>1, <2>2, ShapeKept
  <2> QED
    BY <2>1, <2>3 DEF Sound
<1> QED
  BY <1>1, <1>2, <1>3

(* The counting at the head of _onFailure() touches the counters and lastFailureTime only. *)
LEMMA CountedFields ==
    ASSUME RulesAssumption, NEW b \in Breaker, NEW kind
    PROVE  /\ Counted(b, kind) \in Breaker
           /\ Counted(b, kind).state = b.state
           /\ Counted(b, kind).failureCount = Inc(b.failureCount)
           /\ Counted(b, kind).openCycleCount = b.openCycleCount
           /\ \A k \in Kind : k # kind =>
                 Counted(b, kind).kindFailureCounts[k] = b.kindFailureCounts[k]
<1> DEFINE counts == [k \in Kind |-> IF k = kind THEN Inc(b.kindFailureCounts[k])
                                                ELSE b.kindFailureCounts[k]]
           n == Inc(b.failureCount)
           b1 == WithFailureCount(b, n)
           b2 == WithCooled(b1, FALSE)
<1>1. Counted(b, kind) = WithKindFailureCounts(b2, counts)
  BY DEF Counted, WithFailureCount, WithCooled, WithKindFailureCounts
<1>2. n \in 0..MaxCount
  BY Fields, IncBounded
<1>3. counts \in [Kind -> 0..MaxCount]
  <2>1. \A k \in Kind : b.kindFailureCounts[k] \in 0..MaxCount
    BY Fields
  <2> QED
    BY <2>1, IncBounded
<1>4. \A k \in Kind : k # kind => counts[k] = b.kindFailureCounts[k]
  OBVIOUS
<1>5. n = Inc(b.failureCount)
  OBVIOUS
<1> HIDE DEF counts, n
<1>6. /\ b1 \in Breaker /\ b1.state = b.state /\ b1.failureCount = n
      /\ b1.openCycleCount = b.openCycleCount
  BY <1>2, WithFailureCountFields
<1> HIDE DEF b1
<1>7. /\ b2 \in Breaker /\ b2.state = b.state /\ b2.failureCount = n
      /\ b2.openCycleCount = b.openCycleCount
  BY <1>6, WithCooledFields
<1> HIDE DEF b2
<1> QED
  BY <1>1, <1>3, <1>4, <1>5, <1>7, WithKindFailureCountsFields

(* An OPEN breaker has any shape. *)
LEMMA OpenSound ==
    ASSUME NEW b \in Breaker, b.state = "OPEN"
    PROVE  b \in Sound
BY DEF Sound, Shape

(* A failure leaves a sound breaker that is not probing. *)
LEMMA FailureSound ==
    ASSUME RulesAssumption, NEW b \in Sound, NEW kind
    PROVE  Failed(b, kind) \in Sound /\ Failed(b, kind).state # "HALF_OPEN"
<1> DEFINE c == Counted(b, kind)
<1>1. b \in Breaker /\ Shape(b)
  BY DEF Sound
<1>2. /\ c \in Breaker
      /\ c.state = b.state
      /\ c.failureCount = Inc(b.failureCount)
      /\ c.openCycleCount = b.openCycleCount
      /\ \A k \in Kind : k # kind => c.kindFailureCounts[k] = b.kindFailureCounts[k]
  BY <1>1, CountedFields
<1>3. /\ Transition(c, "OPEN") \in Breaker
      /\ Transition(c, "OPEN").state = "OPEN"
      /\ Transition(c, "OPEN").openCycleCount = c.openCycleCount
  <2>1. "OPEN" \in CircuitState
    BY DEF CircuitState
  <2> HIDE DEF c
  <2> QED
    BY <1>2, <2>1, TransitionFields
<1>4. Transition(c, "OPEN") \in Sound
  BY <1>3, OpenSound
<1>5. CASE KindTrips(b, kind)
  BY <1>3, <1>4, <1>5 DEF Failed
<1>6. CASE ~KindTrips(b, kind) /\ b.state = "OPEN"
  <2>1. Failed(b, kind) = c
    BY <1>6 DEF Failed
  <2> QED
    BY <1>2, <1>6, <2>1, OpenSound
<1>7. CASE ~KindTrips(b, kind) /\ b.state = "HALF_OPEN"
  <2> DEFINE t == Transition(c, "OPEN")
             n == Inc(t.openCycleCount)
  <2>1. Failed(b, kind) = WithOpenCycleCount(t, n)
    BY <1>7 DEF Failed, WithOpenCycleCount
  <2>2. n \in 0..MaxCount
    BY <1>3, Fields, IncBounded
  <2> HIDE DEF t, n
  <2>3. t \in Breaker /\ t.state = "OPEN"
    BY <1>3 DEF t
  <2>4. WithOpenCycleCount(t, n) \in Breaker /\ WithOpenCycleCount(t, n).state = "OPEN"
    BY <2>2, <2>3, WithOpenCycleCountFields
  <2> QED
    BY <2>1, <2>4, OpenSound
<1>8. CASE ~KindTrips(b, kind) /\ b.state \in {"CLOSED", "DEGRADED"}
  <2>1. b.failureCount \in 0..MaxCount /\ b.failureCount < FailureThreshold /\ b.openCycleCount = 0
    BY <1>1, <1>8, Fields DEF Shape
  <2>2. c.failureCount = b.failureCount + 1
    BY <1>2, <2>1, IncBounded
  <2>3. \A k \in DOMAIN KindThreshold : c.kindFailureCounts[k] < KindThreshold[k]
    <3> SUFFICES ASSUME NEW k \in DOMAIN KindThreshold
                 PROVE  c.kindFailureCounts[k] < KindThreshold[k]
      OBVIOUS
    <3>1. k \in Kind /\ KindThreshold[k] \in Nat
      BY DEF RulesAssumption
    <3>2. c.kindFailureCounts[k] \in 0..MaxCount
      BY <1>2, <3>1, Fields
    <3>3. CASE k = kind
      BY <1>8, <3>1, <3>2, <3>3 DEF KindTrips
    <3>4. CASE k # kind
      BY <1>1, <1>2, <1>8, <3>1, <3>4 DEF Shape
    <3> QED
      BY <3>3, <3>4
  <2>4. CASE c.failureCount >= FailureThreshold
    BY <1>3, <1>4, <1>8, <2>4 DEF Failed
  <2>5. CASE c.failureCount \in DegradationThreshold..(FailureThreshold - 1)
    <3> DEFINE d == Transition(c, "DEGRADED")
    <3>1. Failed(b, kind) = d
      BY <1>8, <2>5 DEF Failed, RulesAssumption
    <3>2. /\ d \in Breaker /\ d.state = "DEGRADED" /\ d.failureCount = c.failureCount
          /\ d.openCycleCount = 0 /\ d.kindFailureCounts = c.kindFailureCounts
      <4>1. "DEGRADED" \in CircuitState
        BY DEF CircuitState
      <4> HIDE DEF c
      <4> QED
        BY <1>2, <2>1, <4>1, TransitionFields
    <3> HIDE DEF c, d
    <3>3. Shape(d)
      BY <2>3, <2>5, <3>2 DEF Shape, RulesAssumption
    <3> QED
      BY <3>1, <3>2, <3>3 DEF Sound
  <2>6. CASE /\ ~(c.failureCount >= FailureThreshold)
             /\ c.failureCount \notin DegradationThreshold..(FailureThreshold - 1)
    <3>1. Failed(b, kind) = c
      BY <1>8, <2>6 DEF Failed
    <3>2. c.failureCount < DegradationThreshold
      BY <2>1, <2>2, <2>6 DEF RulesAssumption
    <3>3. b.state = "CLOSED"
      BY <1>1, <1>8, <2>1, <2>2, <3>2 DEF Shape, RulesAssumption
    <3> HIDE DEF c
    <3>4. Shape(c)
      BY <1>2, <2>1, <2>2, <2>3, <2>6, <3>2, <3>3 DEF Shape, RulesAssumption
    <3> QED
      BY <1>2, <3>1, <3>3, <3>4 DEF Sound
  <2> QED
    BY <2>4, <2>5, <2>6
<1> QED
  BY <1>1, <1>5, <1>6, <1>7, <1>8, Fields DEF CircuitState

-----------------------------------------------------------------------------
(***************************************************************************)
(* The inductive invariant.  A probe is a call of the HALF_OPEN period its *)
(* breaker is in: with that, a breaker that starts a period has no probes  *)
(* yet, and the bound can be counted from there.                           *)
(***************************************************************************)
AllSound == saved \in Sound /\ \A o \in Object : breaker[o] \in Sound

ProbesOfThePeriod ==
    \A c \in Call : calls[c].probe =>
        calls[c].in \in Object /\ breaker[calls[c].in].state = "HALF_OPEN"

IInv == TypeOK /\ AllSound /\ ProbesOfThePeriod /\ ProbesBounded

CallRecord == [in : Object \cup {None}, probe : BOOLEAN]

(* The probes of an object are among the finitely many calls. *)
LEMMA FiniteProbes ==
    ASSUME CircuitAssumption, NEW S, S \subseteq Call
    PROVE  IsFiniteSet(S) /\ Cardinality(S) \in Nat
BY FS_Subset, FS_CardinalityType DEF CircuitAssumption

(* Fewer probes, and no greater allowance, keep the bound. *)
LEMMA FewerProbes ==
    ASSUME CircuitAssumption, NEW S, S \subseteq Call, NEW T, T \subseteq S
    PROVE  Cardinality(T) <= Cardinality(S)
BY FiniteProbes, FS_Subset

(* One more probe is at most one more. *)
LEMMA OneMoreProbe ==
    ASSUME CircuitAssumption, NEW S, S \subseteq Call, NEW c \in Call,
           NEW T, T \subseteq S \cup {c}
    PROVE  Cardinality(T) <= Cardinality(S) + 1
<1>1. S \cup {c} \subseteq Call /\ IsFiniteSet(S)
  BY FiniteProbes
<1>2. Cardinality(S \cup {c}) <= Cardinality(S) + 1
  BY <1>1, FS_AddElement, FiniteProbes
<1>3. Cardinality(T) <= Cardinality(S \cup {c})
  BY <1>1, FewerProbes
<1>4. Cardinality(T) \in Nat /\ Cardinality(S) \in Nat /\ Cardinality(S \cup {c}) \in Nat
  BY <1>1, FiniteProbes
<1> QED
  BY <1>2, <1>3, <1>4

(***************************************************************************)
(* The bound on probes survives a step in which every object that ends up  *)
(* HALF_OPEN lost probes or allowance, has no probes, or turned one of its *)
(* allowance into one probe.                                               *)
(***************************************************************************)
LEMMA StaysBounded ==
    ASSUME CircuitAssumption, RulesAssumption, TypeOK, TypeOK', ProbesBounded,
           \A o \in Object : breaker'[o].state = "HALF_OPEN" =>
              \/ Probes(o)' = {}
              \/ /\ breaker[o].state = "HALF_OPEN"
                 /\ breaker'[o].halfOpenAllowed = breaker[o].halfOpenAllowed
                 /\ Probes(o)' \subseteq Probes(o)
              \/ /\ breaker[o].state = "HALF_OPEN"
                 /\ breaker'[o].halfOpenAllowed = breaker[o].halfOpenAllowed - 1
                 /\ \E c \in Call : Probes(o)' \subseteq Probes(o) \cup {c}
              \/ /\ breaker'[o].halfOpenAllowed = HalfOpenRequests - 1
                 /\ \E c \in Call : Probes(o)' \subseteq {c}
    PROVE  ProbesBounded'
<1> SUFFICES ASSUME NEW o \in Object, breaker'[o].state = "HALF_OPEN"
             PROVE  Cardinality(Probes(o)') + breaker'[o].halfOpenAllowed <= HalfOpenRequests
  BY DEF ProbesBounded
<1> DEFINE P == Probes(o)
<1> DEFINE Q == Probes(o)'
<1> DEFINE a == breaker[o].halfOpenAllowed
<1> DEFINE z == breaker'[o].halfOpenAllowed
<1>1. P \subseteq Call /\ Q \subseteq Call
  BY DEF Probes
<1>2. a \in 0..HalfOpenRequests /\ z \in 0..HalfOpenRequests /\ HalfOpenRequests \in Nat
  BY Fields DEF TypeOK, RulesAssumption
<1>3. Cardinality(P) \in Nat /\ Cardinality(Q) \in Nat
  BY <1>1, FiniteProbes
<1>4. breaker[o].state = "HALF_OPEN" => Cardinality(P) + a <= HalfOpenRequests
  BY DEF ProbesBounded
<1>5. \/ Q = {}
      \/ breaker[o].state = "HALF_OPEN" /\ z = a /\ Q \subseteq P
      \/ breaker[o].state = "HALF_OPEN" /\ z = a - 1 /\ \E c \in Call : Q \subseteq P \cup {c}
      \/ z = HalfOpenRequests - 1 /\ \E c \in Call : Q \subseteq {c}
  OBVIOUS
<1> SUFFICES Cardinality(Q) + z <= HalfOpenRequests
  OBVIOUS
<1> HIDE DEF P, Q, a, z
<1>6. CASE Q = {}
  BY <1>6, <1>2, FS_EmptySet
<1>7. CASE breaker[o].state = "HALF_OPEN" /\ z = a /\ Q \subseteq P
  <2>1. Cardinality(Q) <= Cardinality(P)
    BY <1>7, <1>1, FewerProbes
  <2> QED
    BY <2>1, <1>7, <1>2, <1>3, <1>4
<1>8. CASE breaker[o].state = "HALF_OPEN" /\ z = a - 1 /\ \E c \in Call : Q \subseteq P \cup {c}
  <2>1. Cardinality(Q) <= Cardinality(P) + 1
    BY <1>8, <1>1, OneMoreProbe
  <2> QED
    BY <2>1, <1>8, <1>2, <1>3, <1>4
<1>9. CASE z = HalfOpenRequests - 1 /\ \E c \in Call : Q \subseteq {c}
  <2>1. PICK c \in Call : Q \subseteq {} \cup {c}
    BY <1>9
  <2>2. Cardinality(Q) <= Cardinality({}) + 1
    BY <2>1, OneMoreProbe
  <2>3. Cardinality({}) = 0
    BY FS_EmptySet
  <2> QED
    BY <2>2, <2>3, <1>9, <1>2, <1>3
<1> QED
  BY <1>5, <1>6, <1>7, <1>8, <1>9

(***************************************************************************)
(* An object that gets fields that do not probe, and whose probes end with *)
(* it: what a success, a failure and the two resets do.                    *)
(***************************************************************************)
LEMMA PeriodEnds ==
    ASSUME CircuitAssumption, RulesAssumption, IInv, TypeOK', saved' \in Sound,
           NEW o \in Object, NEW b \in Sound, b.state # "HALF_OPEN", Becomes(o, b),
           \A d \in Call : calls'[d].probe =>
              calls[d].probe /\ calls'[d].in = calls[d].in /\ calls[d].in # o
    PROVE  IInv'
<1>1. \A p \in Object : breaker'[p] = IF p = o THEN b ELSE breaker[p]
  BY DEF IInv, TypeOK, Becomes
<1>2. AllSound'
  BY <1>1 DEF IInv, AllSound
<1>3. ProbesOfThePeriod'
  BY <1>1 DEF IInv, ProbesOfThePeriod
<1>4. \A p \in Object : breaker'[p].state = "HALF_OPEN" =>
        /\ breaker[p].state = "HALF_OPEN"
        /\ breaker'[p].halfOpenAllowed = breaker[p].halfOpenAllowed
        /\ Probes(p)' \subseteq Probes(p)
  BY <1>1 DEF Probes
<1>5. ProbesBounded'
  BY <1>4, StaysBounded DEF IInv
<1> QED
  BY <1>2, <1>3, <1>5 DEF IInv

(* Nothing the invariant speaks of changes but the row, or calls that end. *)
LEMMA NothingProbes ==
    ASSUME CircuitAssumption, RulesAssumption, IInv, TypeOK', saved' \in Sound,
           UNCHANGED breaker,
           \A d \in Call : calls'[d].probe => calls[d].probe /\ calls'[d].in = calls[d].in
    PROVE  IInv'
<1>1. AllSound'
  BY DEF IInv, AllSound
<1>2. ProbesOfThePeriod'
  BY DEF IInv, ProbesOfThePeriod
<1>3. \A p \in Object : Probes(p)' \subseteq Probes(p)
  BY DEF Probes
<1>4. ProbesBounded'
  BY <1>3, StaysBounded DEF IInv
<1> QED
  BY <1>1, <1>2, <1>4 DEF IInv
-----------------------------------------------------------------------------
(* Settled() only takes probes away, and all of an object that does not probe. *)
LEMMA SettledCalls ==
    ASSUME TypeOK, NEW o \in Object, NEW b \in Breaker, b.state # "HALF_OPEN"
    PROVE  /\ Settled(o, b) \in [Call -> CallRecord]
           /\ \A d \in Call : Settled(o, b)[d].probe =>
                 /\ calls[d].probe
                 /\ Settled(o, b)[d].in = calls[d].in
                 /\ calls[d].in # o
<1>1. \A d \in Call : calls[d] \in CallRecord
  BY DEF TypeOK, CallRecord
<1>2. \A d \in Call : Settled(o, b)[d] = IF calls[d].in = o
                                        THEN [calls[d] EXCEPT !.probe = FALSE] ELSE calls[d]
  BY DEF Settled
<1>3. \A d \in Call : Settled(o, b)[d] \in CallRecord
  BY <1>1, <1>2 DEF CallRecord
<1>4. \A d \in Call : calls[d].in = o => ~Settled(o, b)[d].probe
  BY <1>1, <1>2 DEF CallRecord
<1>5. Settled(o, b) \in [Call -> CallRecord]
  BY <1>3 DEF Settled
<1> QED
  BY <1>2, <1>4, <1>5

(* The idle call is no probe. *)
LEMMA IdleCall == Idle \in CallRecord /\ ~Idle.probe
BY DEF Idle, CallRecord

(* A call that runs does so in an object. *)
LEMMA RunsIn ==
    ASSUME IInv, NEW c \in Call, Running(c)
    PROVE  calls[c].in \in Object
<1>1. calls[c] \in [in : Object \cup {None}, probe : BOOLEAN]
  BY DEF IInv, TypeOK
<1>2. CASE calls[c].in = None
  <2>1. calls[c].probe
    BY <1>1, <1>2 DEF Running, Idle
  <2> QED
    BY <2>1 DEF IInv, ProbesOfThePeriod
<1> QED
  BY <1>1, <1>2

(* The initial states. *)
LEMMA InitInv ==
    ASSUME CircuitAssumption, RulesAssumption, Init
    PROVE  IInv
<1>1. Fresh \in Sound /\ Fresh \in Breaker /\ Fresh.state = "CLOSED"
  BY FreshSound DEF Sound
<1>2. \A c \in Call : calls[c] = Idle
  BY DEF Init
<1>3. calls \in [Call -> CallRecord]
  BY IdleCall DEF Init
<1>4. TypeOK
  BY <1>1, <1>3 DEF Init, TypeOK, CallRecord
<1>5. AllSound
  BY <1>1 DEF Init, AllSound
<1>6. ProbesOfThePeriod
  BY <1>2, IdleCall DEF ProbesOfThePeriod
<1>7. ProbesBounded
  BY <1>1 DEF Init, ProbesBounded
<1> QED
  BY <1>4, <1>5, <1>6, <1>7 DEF IInv

(* getCircuitBreaker() makes an object that no call runs in. *)
LEMMA CreateInv ==
    ASSUME CircuitAssumption, RulesAssumption, IInv, NEW o \in Object, Create(o)
    PROVE  IInv'
<1> DEFINE b == Restored(saved)
<1>1. b \in Sound /\ b \in Breaker
  BY RowSound DEF IInv, AllSound, Sound
<1>2. breaker' = [breaker EXCEPT ![o] = b] /\ calls' = calls /\ saved' = saved
  BY DEF Create, Becomes
<1>3. registered' = o /\ \A c \in Call : calls[c].in # o
  BY DEF Create
<1> HIDE DEF b
<1>4. \A p \in Object : breaker'[p] = IF p = o THEN b ELSE breaker[p]
  BY <1>2 DEF IInv, TypeOK
<1>5. TypeOK'
  BY <1>1, <1>2, <1>3 DEF IInv, TypeOK
<1>6. AllSound'
  BY <1>1, <1>2, <1>4 DEF IInv, AllSound
<1>7. ProbesOfThePeriod'
  BY <1>2, <1>3, <1>4 DEF IInv, ProbesOfThePeriod
<1>8. Probes(o)' = {} /\ \A p \in Object : Probes(p)' = Probes(p)
  BY <1>2, <1>3 DEF Probes
<1>9. ProbesBounded'
  BY <1>4, <1>5, <1>8, StaysBounded DEF IInv
<1> QED
  BY <1>5, <1>6, <1>7, <1>9 DEF IInv

(* An OPEN breaker whose cooldown ran out starts a period with no probes. *)
LEMMA RefreshInv ==
    ASSUME CircuitAssumption, RulesAssumption, IInv, Refresh
    PROVE  IInv'
<1>0. PICK o \in Object : o = registered
  BY DEF Refresh, IInv, TypeOK
<1> DEFINE b == Refreshed(breaker[o])
<1>1. o \in Object /\ breaker[o] \in Sound
  BY DEF IInv, AllSound
<1>2. b = Transition(breaker[o], "HALF_OPEN") /\ breaker[o].state = "OPEN"
  BY <1>0 DEF Refresh, Refreshed, RefreshDue
<1>3. b \in Sound /\ b \in Breaker /\ b.state = "HALF_OPEN"
  BY <1>1, <1>2, RefreshSound, TransitionFields DEF Sound, CircuitState
<1>4. Persisted(b) \in Sound /\ Persisted(b) \in Breaker
  BY <1>3, RowSound DEF Sound
<1>5. /\ breaker' = [breaker EXCEPT ![o] = b] /\ saved' = Persisted(b)
      /\ calls' = calls /\ registered' = registered
  BY <1>0 DEF Refresh, Becomes
<1> HIDE DEF b
<1>6. \A p \in Object : breaker'[p] = IF p = o THEN b ELSE breaker[p]
  BY <1>5 DEF IInv, TypeOK
<1>7. TypeOK'
  BY <1>1, <1>3, <1>4, <1>5 DEF IInv, TypeOK
<1>8. AllSound'
  BY <1>3, <1>4, <1>5, <1>6 DEF IInv, AllSound
<1>9. ProbesOfThePeriod'
  BY <1>3, <1>5, <1>6 DEF IInv, ProbesOfThePeriod
<1>10. Probes(o)' = {} /\ \A p \in Object : Probes(p)' = Probes(p)
  BY <1>2, <1>5 DEF IInv, ProbesOfThePeriod, Probes
<1>11. ProbesBounded'
  BY <1>6, <1>7, <1>10, StaysBounded DEF IInv
<1> QED
  BY <1>7, <1>8, <1>9, <1>11 DEF IInv

(* A call let in takes one of the allowance, of a period that just began or not. *)
LEMMA ExecuteInv ==
    ASSUME CircuitAssumption, RulesAssumption, IInv, NEW c \in Call, Execute(c)
    PROVE  IInv'
<1>0. PICK o \in Object : o = registered
  BY DEF Execute, IInv, TypeOK
<1> DEFINE r == Refreshed(breaker[o])
<1> DEFINE b == Admitted(r)
<1> DEFINE new == [in |-> o, probe |-> r.state = "HALF_OPEN"]
<1>1. o \in Object /\ breaker[o] \in Sound
  BY DEF IInv, AllSound
<1>2. /\ r \in Sound
      /\ \/ r = breaker[o]
         \/ /\ breaker[o].state = "OPEN"
            /\ r.state = "HALF_OPEN"
            /\ r.halfOpenAllowed = HalfOpenRequests
  BY <1>1, RefreshSound
<1>3. Admits(r)
  BY <1>0 DEF Execute
<1>4. /\ b \in Sound /\ b.state = r.state
      /\ r.state = "HALF_OPEN" => b.halfOpenAllowed = r.halfOpenAllowed - 1
  BY <1>2, <1>3, AdmissionSound
<1>5. Persisted(r) \in Sound
  BY <1>2, RowSound
<1>6. saved' \in Sound
  BY <1>0, <1>5 DEF Execute, IInv, AllSound
<1>7. /\ breaker' = [breaker EXCEPT ![o] = b] /\ registered' = registered
      /\ calls' = [calls EXCEPT ![c] = new]
  BY <1>0 DEF Execute, Becomes
<1>8. new \in CallRecord /\ new.in = o /\ (new.probe <=> r.state = "HALF_OPEN")
  BY <1>1 DEF CallRecord
<1> HIDE DEF b, r, new
<1>9. \A p \in Object : breaker'[p] = IF p = o THEN b ELSE breaker[p]
  BY <1>7 DEF IInv, TypeOK
<1>10. \A d \in Call : calls'[d] = IF d = c THEN new ELSE calls[d]
  BY <1>7 DEF IInv, TypeOK
<1>11. TypeOK'
  BY <1>1, <1>4, <1>6, <1>7, <1>8 DEF IInv, TypeOK, Sound, CallRecord
<1>12. AllSound'
  BY <1>4, <1>6, <1>9 DEF IInv, AllSound
<1>13. ProbesOfThePeriod'
  <2> SUFFICES ASSUME NEW d \in Call, calls'[d].probe
               PROVE  calls'[d].in \in Object /\ breaker'[calls'[d].in].state = "HALF_OPEN"
    BY DEF ProbesOfThePeriod
  <2>1. CASE d = c
    BY <2>1, <1>1, <1>4, <1>8, <1>9, <1>10
  <2>2. CASE d # c
    <3>1. calls[d].in \in Object /\ breaker[calls[d].in].state = "HALF_OPEN" /\ calls'[d] = calls[d]
      BY <2>2, <1>10 DEF IInv, ProbesOfThePeriod
    <3>2. breaker[o].state = "HALF_OPEN" => b.state = "HALF_OPEN"
      BY <1>2, <1>4
    <3> QED
      BY <3>1, <3>2, <1>9
  <2> QED
    BY <2>1, <2>2
<1>14. Probes(o)' \subseteq Probes(o) \cup {c}
  BY <1>10 DEF Probes
<1>15. \A p \in Object : p # o => Probes(p)' \subseteq Probes(p)
  BY <1>8, <1>10 DEF Probes
<1>16. breaker[o].state = "OPEN" => Probes(o) = {}
  BY DEF IInv, ProbesOfThePeriod, Probes
<1>17. ASSUME NEW p \in Object, breaker'[p].state = "HALF_OPEN"
       PROVE  \/ /\ breaker[p].state = "HALF_OPEN"
                 /\ breaker'[p].halfOpenAllowed = breaker[p].halfOpenAllowed
                 /\ Probes(p)' \subseteq Probes(p)
              \/ /\ breaker[p].state = "HALF_OPEN"
                 /\ breaker'[p].halfOpenAllowed = breaker[p].halfOpenAllowed - 1
                 /\ \E d \in Call : Probes(p)' \subseteq Probes(p) \cup {d}
              \/ /\ breaker'[p].halfOpenAllowed = HalfOpenRequests - 1
                 /\ \E d \in Call : Probes(p)' \subseteq {d}
  <2>1. CASE p # o
    BY <2>1, <1>17, <1>9, <1>15
  <2>2. CASE p = o /\ r = breaker[o]
    BY <2>2, <1>17, <1>4, <1>9, <1>14
  <2>3. CASE p = o /\ breaker[o].state = "OPEN" /\ r.state = "HALF_OPEN" /\ r.halfOpenAllowed = HalfOpenRequests
    <3>1. Probes(o)' \subseteq {c}
      BY <2>3, <1>14, <1>16
    <3> QED
      BY <3>1, <2>3, <1>4, <1>9
  <2> QED
    BY <2>1, <2>2, <2>3, <1>2
<1>18. ProbesBounded'
  BY <1>11, <1>17, StaysBounded DEF IInv
<1> QED
  BY <1>11, <1>12, <1>13, <1>18 DEF IInv

(* The callback resolved: the object, which no longer probes, sheds its probes. *)
LEMMA SucceedInv ==
    ASSUME CircuitAssumption, RulesAssumption, IInv, NEW c \in Call, Succeed(c)
    PROVE  IInv'
<1>0. PICK o \in Object : o = calls[c].in
  BY RunsIn DEF Succeed
<1> DEFINE b == Succeeded(breaker[o])
<1>1. breaker[o] \in Sound
  BY DEF IInv, AllSound
<1>2. b \in Sound /\ b \in Breaker /\ b.state # "HALF_OPEN"
  BY <1>1, SuccessSound DEF Sound
<1>3. Persisted(b) \in Sound
  BY <1>2, RowSound
<1>4. saved' \in Sound
  BY <1>0, <1>3 DEF Succeed
<1>5. Becomes(o, b) /\ calls' = [Settled(o, b) EXCEPT ![c] = Idle] /\ registered' = registered
  BY <1>0 DEF Succeed
<1> HIDE DEF b
<1>6. /\ Settled(o, b) \in [Call -> CallRecord]
      /\ \A d \in Call : Settled(o, b)[d].probe =>
            calls[d].probe /\ Settled(o, b)[d].in = calls[d].in /\ calls[d].in # o
  BY <1>2, SettledCalls DEF IInv
<1>7. /\ calls' \in [Call -> CallRecord]
      /\ \A d \in Call : calls'[d].probe =>
            calls[d].probe /\ calls'[d].in = calls[d].in /\ calls[d].in # o
  BY <1>5, <1>6, IdleCall
<1>8. TypeOK'
  BY <1>1, <1>2, <1>4, <1>5, <1>7 DEF IInv, TypeOK, Becomes, Sound, CallRecord
<1> QED
  BY <1>1, <1>2, <1>4, <1>5, <1>7, <1>8, PeriodEnds

(* The callback threw a failure: the object, which no longer probes, sheds its probes. *)
LEMMA FailInv ==
    ASSUME CircuitAssumption, RulesAssumption, IInv, NEW c \in Call, NEW kind, Fail(c, kind)
    PROVE  IInv'
<1>0. PICK o \in Object : o = calls[c].in
  BY RunsIn DEF Fail
<1> DEFINE b == Failed(breaker[o], kind)
<1>1. breaker[o] \in Sound
  BY DEF IInv, AllSound
<1>2. b \in Sound /\ b \in Breaker /\ b.state # "HALF_OPEN"
  BY <1>1, FailureSound DEF Sound
<1>3. Persisted(b) \in Sound
  BY <1>2, RowSound
<1>4. saved' \in Sound
  BY <1>0, <1>3 DEF Fail, IInv, AllSound
<1>5. Becomes(o, b) /\ calls' = [Settled(o, b) EXCEPT ![c] = Idle] /\ registered' = registered
  BY <1>0 DEF Fail
<1> HIDE DEF b
<1>6. /\ Settled(o, b) \in [Call -> CallRecord]
      /\ \A d \in Call : Settled(o, b)[d].probe =>
            calls[d].probe /\ Settled(o, b)[d].in = calls[d].in /\ calls[d].in # o
  BY <1>2, SettledCalls DEF IInv
<1>7. /\ calls' \in [Call -> CallRecord]
      /\ \A d \in Call : calls'[d].probe =>
            calls[d].probe /\ calls'[d].in = calls[d].in /\ calls[d].in # o
  BY <1>5, <1>6, IdleCall
<1>8. TypeOK'
  BY <1>1, <1>2, <1>4, <1>5, <1>7 DEF IInv, TypeOK, Becomes, Sound, CallRecord
<1> QED
  BY <1>1, <1>2, <1>4, <1>5, <1>7, <1>8, PeriodEnds

(* An excused error ends the call and touches no breaker. *)
LEMMA ExcuseInv ==
    ASSUME CircuitAssumption, RulesAssumption, IInv, NEW c \in Call, Excuse(c)
    PROVE  IInv'
<1>1. calls \in [Call -> CallRecord]
  BY DEF IInv, TypeOK, CallRecord
<1>2. \A d \in Call : calls'[d] = IF d = c THEN Idle ELSE calls[d]
  BY <1>1 DEF Excuse
<1>3. calls' \in [Call -> CallRecord]
  BY <1>1, IdleCall DEF Excuse
<1>4. TypeOK'
  BY <1>3 DEF Excuse, IInv, TypeOK, CallRecord
<1>5. \A d \in Call : calls'[d].probe => calls[d].probe /\ calls'[d].in = calls[d].in
  BY <1>2, IdleCall
<1> QED
  BY <1>4, <1>5, NothingProbes DEF Excuse, IInv, AllSound

(* getCircuitBreaker() of a registered name writes the row. *)
LEMMA ConfigureInv ==
    ASSUME CircuitAssumption, RulesAssumption, IInv, Configure
    PROVE  IInv'
<1>1. registered \in Object /\ breaker[registered] \in Sound
  BY DEF Configure, IInv, TypeOK, AllSound
<1>2. saved' \in Sound /\ saved' \in Breaker
  BY <1>1, RowSound DEF Configure, Sound
<1>3. TypeOK'
  BY <1>2 DEF Configure, IInv, TypeOK
<1> QED
  BY <1>2, <1>3, NothingProbes DEF Configure

(* The reset of the registered breaker, and of all. *)
LEMMA ResetInv ==
    ASSUME CircuitAssumption, RulesAssumption, IInv, Reset \/ ResetAll
    PROVE  IInv'
<1> DEFINE b == WasReset(breaker[registered])
<1>0. PICK o \in Object : o = registered
  BY DEF Reset, ResetAll, IInv, TypeOK
<1>1. b \in Sound /\ b \in Breaker /\ b.state # "HALF_OPEN"
  BY <1>0, ResetSound DEF IInv, AllSound, Sound
<1>2. Persisted(b) \in Sound /\ Fresh \in Sound
  BY <1>1, RowSound, FreshSound
<1>3. saved' \in Sound
  BY <1>2 DEF Reset, ResetAll
<1>4. Becomes(o, b) /\ calls' = Settled(o, b) /\ registered' \in Object \cup {None}
  BY <1>0 DEF Reset, ResetAll
<1> HIDE DEF b
<1>5. /\ calls' \in [Call -> CallRecord]
      /\ \A d \in Call : calls'[d].probe =>
            calls[d].probe /\ calls'[d].in = calls[d].in /\ calls[d].in # o
  BY <1>1, <1>4, SettledCalls DEF IInv
<1>6. TypeOK'
  BY <1>1, <1>3, <1>4, <1>5 DEF IInv, TypeOK, Becomes, Sound, CallRecord
<1> QED
  BY <1>1, <1>3, <1>4, <1>5, <1>6, PeriodEnds

(* Dropping the breaker leaves its object to the calls that still hold it. *)
LEMMA EvictInv ==
    ASSUME CircuitAssumption, RulesAssumption, IInv, Evict
    PROVE  IInv'
<1>1. Fresh \in Sound /\ Fresh \in Breaker
  BY FreshSound DEF Sound
<1>2. TypeOK' /\ saved' \in Sound
  BY <1>1 DEF Evict, IInv, TypeOK
<1> QED
  BY <1>2, NothingProbes DEF Evict

(* A cooldown that runs out changes neither states nor allowances. *)
LEMMA CooldownInv ==
    ASSUME CircuitAssumption, RulesAssumption, IInv, CooldownElapses
    PROVE  IInv'
<1>1. \A o \in Object : breaker'[o] = WithCooled(breaker[o], TRUE)
  BY DEF CooldownElapses, WithCooled
<1>2. saved' = WithCooled(saved, TRUE)
  BY DEF CooldownElapses, WithCooled
<1>3. /\ saved' \in Sound
      /\ \A o \in Object : /\ breaker'[o] \in Sound
                           /\ breaker'[o].state = breaker[o].state
                           /\ breaker'[o].halfOpenAllowed = breaker[o].halfOpenAllowed
  BY <1>1, <1>2, CooledSound DEF IInv, AllSound
<1>4. breaker' \in [Object -> Breaker]
  BY <1>3 DEF CooldownElapses, Sound
<1>5. calls' = calls /\ registered' = registered
  BY DEF CooldownElapses
<1>6. TypeOK'
  BY <1>3, <1>4, <1>5 DEF IInv, TypeOK, Sound
<1>7. AllSound'
  BY <1>3 DEF AllSound
<1>8. ProbesOfThePeriod'
  BY <1>3, <1>5 DEF IInv, ProbesOfThePeriod
<1>9. \A o \in Object : Probes(o)' = Probes(o)
  BY <1>5 DEF Probes
<1>10. ProbesBounded'
  BY <1>3, <1>6, <1>9, StaysBounded DEF IInv
<1> QED
  BY <1>6, <1>7, <1>8, <1>10 DEF IInv

(* A restart leaves the row. *)
LEMMA RestartInv ==
    ASSUME CircuitAssumption, RulesAssumption, IInv, Restart
    PROVE  IInv'
<1>1. Fresh \in Sound /\ Fresh \in Breaker /\ Fresh.state = "CLOSED"
  BY FreshSound DEF Sound
<1>2. \A c \in Call : calls'[c] = Idle
  BY DEF Restart
<1>3. calls' \in [Call -> CallRecord]
  BY IdleCall DEF Restart
<1>4. TypeOK'
  BY <1>1, <1>3 DEF Restart, IInv, TypeOK, CallRecord
<1>5. AllSound'
  BY <1>1 DEF Restart, IInv, AllSound
<1>6. ProbesOfThePeriod'
  BY <1>2, IdleCall DEF ProbesOfThePeriod
<1>7. ProbesBounded'
  BY <1>1 DEF Restart, ProbesBounded
<1> QED
  BY <1>4, <1>5, <1>6, <1>7 DEF IInv

(* A step that changes nothing. *)
LEMMA StutterInv ==
    ASSUME CircuitAssumption, RulesAssumption, IInv, UNCHANGED vars
    PROVE  IInv'
<1>1. TypeOK' /\ saved' \in Sound
  BY DEF vars, IInv, TypeOK, AllSound
<1> QED
  BY <1>1, NothingProbes DEF vars

(* Every step keeps the invariant. *)
LEMMA NextInv ==
    ASSUME CircuitAssumption, RulesAssumption, IInv, [Next]_vars
    PROVE  IInv'
<1>1. CASE \E o \in Object : Create(o)
  BY <1>1, CreateInv
<1>2. CASE Configure
  BY <1>2, ConfigureInv
<1>3. CASE Refresh
  BY <1>3, RefreshInv
<1>4. CASE Reset \/ ResetAll
  BY <1>4, ResetInv
<1>5. CASE Evict
  BY <1>5, EvictInv
<1>6. CASE CooldownElapses
  BY <1>6, CooldownInv
<1>7. CASE Restart
  BY <1>7, RestartInv
<1>8. CASE \E c \in Call : Execute(c)
  BY <1>8, ExecuteInv
<1>9. CASE \E c \in Call : Return(c)
  BY <1>9, SucceedInv, FailInv, ExcuseInv DEF Return
<1>10. CASE UNCHANGED vars
  BY <1>10, StutterInv
<1> QED
  BY <1>1, <1>2, <1>3, <1>4, <1>5, <1>6, <1>7, <1>8, <1>9, <1>10 DEF Next

-----------------------------------------------------------------------------
(* The inductive invariant holds in every state. *)
THEOREM Invariance == Spec => []IInv
<1>1. Init => IInv
  BY InitInv, CircuitAssumption, RulesAssumption
<1>2. IInv /\ [Next]_vars => IInv'
  BY NextInv, CircuitAssumption, RulesAssumption
<1> QED
  BY <1>1, <1>2, PTL DEF Spec

(* Registry, breakers, row and calls keep their types. *)
THEOREM TypeCorrect == Spec => []TypeOK
<1>1. IInv => TypeOK
  BY DEF IInv
<1> QED
  BY <1>1, Invariance, PTL

(***************************************************************************)
(* However late the answers and whatever is restored, the row and every    *)
(* breaker, abandoned ones included, are in a shape the rules made.        *)
(***************************************************************************)
THEOREM BreakersInShape == Spec => []InShape
<1>1. IInv => InShape
  BY DEF IInv, AllSound, Sound, InShape
<1> QED
  BY <1>1, Invariance, PTL

(***************************************************************************)
(* No HALF_OPEN period of execute() ever has more probes running, plus     *)
(* allowance left, than halfOpenRequests.                                  *)
(***************************************************************************)
THEOREM ProbesAreBounded == Spec => []ProbesBounded
<1>1. IInv => ProbesBounded
  BY DEF IInv
<1> QED
  BY <1>1, Invariance, PTL

-----------------------------------------------------------------------------
(***************************************************************************)
(* The row.  Where nothing drops the registered breaker behind the back of *)
(* its calls, and no kind of failure has a threshold of its own, which is  *)
(* how production uses it, every handler that changes the breaker saves    *)
(* it; calls run in the registered breaker or in none.                     *)
(***************************************************************************)
CallsRegistered == \A c \in Call : calls[c].in \in {None, registered}

RowInv == CallsRegistered /\ saved.halfOpenAllowed = 0 /\ RowIsCurrent

(* Two breakers that differ in their allowance are saved alike. *)
LEMMA PersistedAlike ==
    ASSUME RulesAssumption, NEW b \in Breaker
    PROVE  /\ Persisted(b).halfOpenAllowed = 0
           /\ \A v \in 0..HalfOpenRequests :
                Persisted(WithHalfOpenAllowed(b, v)) = Persisted(b)
           /\ b.halfOpenAllowed = 0 => Persisted(b) = b
           /\ WithCooled(Persisted(b), TRUE) = Persisted(WithCooled(b, TRUE))
BY DEF Persisted, WithHalfOpenAllowed, WithCooled, Breaker, RulesAssumption

(* Letting a call in changes nothing that is saved. *)
LEMMA AdmittedAlike ==
    ASSUME RulesAssumption, NEW b \in Breaker, Admits(b)
    PROVE  Persisted(Admitted(b)) = Persisted(b)
<1>1. CASE b.state = "HALF_OPEN"
  <2>1. Admitted(b) = WithHalfOpenAllowed(b, b.halfOpenAllowed - 1)
    BY <1>1 DEF Admitted, WithHalfOpenAllowed
  <2>2. b.halfOpenAllowed - 1 \in 0..HalfOpenRequests
    BY <1>1, Fields DEF Admits, RulesAssumption
  <2> QED
    BY <2>1, <2>2, PersistedAlike
<1>2. CASE b.state # "HALF_OPEN"
  BY <1>2 DEF Admitted
<1> QED
  BY <1>1, <1>2

LEMMA RowStep ==
    ASSUME RulesAssumption, CircuitAssumption, ~Evicting, DOMAIN KindThreshold = {},
           IInv, IInv', RowInv, [Next]_vars
    PROVE  RowInv'
<1> USE DEF RowInv
<1>1. /\ \A o \in Object : breaker[o] \in Breaker
      /\ saved \in Breaker /\ None \notin Object
      /\ breaker \in [Object -> Breaker]
      /\ registered \in Object \cup {None}
  BY DEF IInv, TypeOK, CircuitAssumption
<1>2. ASSUME NEW o \in Object, Create(o) PROVE RowInv'
  <2>1. /\ registered' = o /\ breaker'[o] = Restored(saved)
        /\ UNCHANGED <<saved, calls>> /\ registered = None
    BY <1>1, <1>2 DEF Create, Becomes
  <2> DEFINE v == IF saved.state = "HALF_OPEN" THEN HalfOpenRequests ELSE 0
  <2>2. Restored(saved) = WithHalfOpenAllowed(saved, v) /\ v \in 0..HalfOpenRequests
    BY DEF Restored, WithHalfOpenAllowed, RulesAssumption
  <2> HIDE DEF v
  <2>3. Persisted(Restored(saved)) = saved
    <3>1. saved \in Breaker /\ saved.halfOpenAllowed = 0
      BY <1>1
    <3>2. Persisted(saved) = saved
      BY <3>1, PersistedAlike
    <3>3. Persisted(WithHalfOpenAllowed(saved, v)) = Persisted(saved)
      BY <2>2, <3>1, PersistedAlike
    <3> QED
      BY <2>2, <3>2, <3>3
  <2> QED
    BY <2>1, <2>3 DEF CallsRegistered, RowIsCurrent
<1>3. CASE Configure
  BY <1>1, <1>3, PersistedAlike DEF Configure, CallsRegistered, RowIsCurrent
<1>4. CASE Refresh
  <2>1. /\ registered \in Object /\ registered # None
        /\ breaker' = [breaker EXCEPT ![registered] = Refreshed(breaker[registered])]
        /\ saved' = Persisted(Refreshed(breaker[registered]))
        /\ UNCHANGED <<registered, calls>>
    BY <1>1, <1>4 DEF Refresh, Becomes
  <2>2. breaker'[registered] = Refreshed(breaker[registered])
    BY <1>1, <2>1
  <2>3. breaker'[registered] \in Breaker
    BY <2>1 DEF IInv, TypeOK
  <2>4. saved' = Persisted(breaker'[registered])
    BY <2>1, <2>2
  <2> QED
    BY <2>1, <2>3, <2>4, PersistedAlike DEF CallsRegistered, RowIsCurrent
<1>5. ASSUME NEW c \in Call, Execute(c) PROVE RowInv'
  <2> DEFINE b == Refreshed(breaker[registered])
  <2>1. /\ registered \in Object /\ registered # None
        /\ Admits(b) /\ breaker' = [breaker EXCEPT ![registered] = Admitted(b)]
        /\ calls' = [calls EXCEPT ![c] = [in |-> registered, probe |-> b.state = "HALF_OPEN"]]
        /\ saved' = IF RefreshDue(breaker[registered]) THEN Persisted(b) ELSE saved
        /\ registered' = registered
    BY <1>1, <1>5 DEF Execute, Becomes
  <2>2. b \in Breaker
    BY <2>1, RefreshSound DEF IInv, AllSound, Sound
  <2>3. ~RefreshDue(breaker[registered]) => b = breaker[registered]
    BY DEF Refreshed
  <2> HIDE DEF b
  <2>4. breaker'[registered] = Admitted(b)
    BY <1>1, <2>1
  <2>5. Persisted(Admitted(b)) = Persisted(b)
    BY <2>1, <2>2, AdmittedAlike
  <2>6. saved' = Persisted(b)
    BY <2>1, <2>3 DEF RowIsCurrent
  <2>7. CallsRegistered'
    BY <2>1 DEF CallsRegistered, IInv, TypeOK
  <2> QED
    BY <2>1, <2>2, <2>4, <2>5, <2>6, <2>7, PersistedAlike DEF RowIsCurrent
<1>6. ASSUME NEW c \in Call, Running(c),
             NEW b, calls' = [Settled(registered, b) EXCEPT ![c] = Idle],
             Becomes(registered, b), saved' = Persisted(b), registered' = registered,
             registered \in Object
      PROVE  RowInv'
  <2>1. breaker'[registered] = b /\ b \in Breaker
    BY <1>1, <1>6 DEF Becomes, IInv, TypeOK
  <2>2. CallsRegistered'
    <3>1. \A d \in Call : Settled(registered, b)[d].in = calls[d].in
      BY DEF Settled, IInv, TypeOK
    <3>2. \A d \in Call : calls'[d] = IF d = c THEN Idle ELSE Settled(registered, b)[d]
      BY <1>6 DEF Settled
    <3> QED
      BY <1>6, <3>1, <3>2 DEF CallsRegistered, Idle
  <2> QED
    BY <1>6, <2>1, <2>2, PersistedAlike DEF RowIsCurrent
<1>7. \A c \in Call : Running(c) => calls[c].in = registered /\ registered \in Object
  <2>1. \A c \in Call : Running(c) => calls[c].in \in Object
    BY RunsIn
  <2> QED
    BY <1>1, <2>1 DEF CallsRegistered
<1>8. ASSUME NEW c \in Call, Succeed(c) PROVE RowInv'
  BY <1>6, <1>7, <1>8 DEF Succeed
<1>9. ASSUME NEW c \in Call, NEW kind \in Kind \cup {NoKind}, Fail(c, kind) PROVE RowInv'
  <2>1. \A b : ~KindTrips(b, kind)
    BY DEF KindTrips
  <2> QED
    BY <1>6, <1>7, <1>9, <2>1 DEF Fail
<1>10. ASSUME NEW c \in Call, Excuse(c) PROVE RowInv'
  BY <1>10 DEF Excuse, CallsRegistered, RowIsCurrent, Idle, IInv, TypeOK
<1>11. CASE Reset
  <2> DEFINE b == WasReset(breaker[registered])
  <2>1. /\ registered \in Object /\ registered # None
        /\ Becomes(registered, b) /\ saved' = Persisted(b)
        /\ calls' = Settled(registered, b) /\ registered' = registered
    BY <1>1, <1>11 DEF Reset
  <2> HIDE DEF b
  <2>2. breaker'[registered] = b /\ b \in Breaker
    BY <1>1, <2>1 DEF Becomes, IInv, TypeOK
  <2>3. \A d \in Call : calls'[d].in = calls[d].in
    BY <2>1 DEF Settled, IInv, TypeOK
  <2> QED
    BY <2>1, <2>2, <2>3, PersistedAlike DEF CallsRegistered, RowIsCurrent
<1>12. CASE CooldownElapses
  <2>1. /\ saved' = WithCooled(saved, TRUE) /\ UNCHANGED <<registered, calls>>
        /\ \A o \in Object : breaker'[o] = WithCooled(breaker[o], TRUE)
    BY <1>12 DEF CooldownElapses, WithCooled
  <2>2. saved'.halfOpenAllowed = 0
    BY <1>1, <2>1, WithCooledFields
  <2> QED
    BY <1>1, <2>1, <2>2, PersistedAlike DEF CallsRegistered, RowIsCurrent
<1>13. CASE Restart
  BY <1>13 DEF Restart, CallsRegistered, RowIsCurrent, Idle
<1>14. CASE UNCHANGED vars
  BY <1>14 DEF vars, CallsRegistered, RowIsCurrent
<1>15. ~Evict /\ ~ResetAll
  BY DEF Evict, ResetAll
<1> QED
  BY <1>2, <1>3, <1>4, <1>5, <1>8, <1>9, <1>10, <1>11, <1>12, <1>13, <1>14, <1>15
  DEF Next, Return

(***************************************************************************)
(* "DB-persisted": between two handlers the row is what the registered     *)
(* breaker is, probe allowance apart, for any number of calls, restarts    *)
(* and resets (_persistToDb(), circuitBreaker.ts).                         *)
(***************************************************************************)
THEOREM RestartsLoseNothing ==
    ASSUME ~Evicting, DOMAIN KindThreshold = {}
    PROVE  Spec => []RowIsCurrent
<1>1. Init => RowInv
  <2>1. Fresh.halfOpenAllowed = 0
    BY DEF Fresh
  <2> QED
    BY <2>1 DEF Init, RowInv, CallsRegistered, RowIsCurrent, Idle
<1>2. IInv /\ IInv' /\ RowInv /\ [Next]_vars => RowInv'
  BY RowStep, RulesAssumption, CircuitAssumption
<1>3. RowInv => RowIsCurrent
  BY DEF RowInv
<1> QED
  BY <1>1, <1>2, <1>3, Invariance, PTL DEF Spec

-----------------------------------------------------------------------------
(***************************************************************************)
(* The probes.  Only a call that was let in lowers the allowance, and      *)
(* every end of a call that is no excused error ends the period.           *)
(***************************************************************************)
LEMMA ProbeStep ==
    ASSUME RulesAssumption, CircuitAssumption, Excusable = {},
           IInv, IInv', ProbeOutstanding, [Next]_vars
    PROVE  ProbeOutstanding'
<1>1. /\ breaker \in [Object -> Breaker] /\ \A o \in Object : breaker[o] \in Sound
      /\ saved \in Sound
      /\ registered \in Object \cup {None} /\ None \notin Object
      /\ HalfOpenRequests \in Nat \ {0}
  BY DEF IInv, TypeOK, AllSound, CircuitAssumption, RulesAssumption
<1>2. ASSUME NEW o \in Object, NEW b, Becomes(o, b),
             b.state = "HALF_OPEN" => b.halfOpenAllowed # 0,
             \A p \in Object \ {o} : Probes(p) \subseteq Probes(p)'
      PROVE  ProbeOutstanding'
  <2>1. \A p \in Object : breaker'[p] = IF p = o THEN b ELSE breaker[p]
    BY <1>1, <1>2 DEF Becomes
  <2> QED
    BY <1>2, <2>1 DEF ProbeOutstanding
<1>3. ASSUME NEW o \in Object, NEW b, NEW p \in Object \ {o}, NEW c \in Call,
             calls[c].in = o, calls' = [Settled(o, b) EXCEPT ![c] = Idle]
      PROVE  Probes(p) \subseteq Probes(p)'
  <2>1. \A d \in Call : calls[d].in = p => d # c /\ calls'[d] = calls[d]
    BY <1>3 DEF Settled
  <2> QED
    BY <2>1 DEF Probes
<1>4. ASSUME NEW o \in Object, NEW b, NEW p \in Object \ {o}, calls' = Settled(o, b)
      PROVE  Probes(p) \subseteq Probes(p)'
  <2>1. \A d \in Call : calls[d].in = p => calls'[d] = calls[d]
    BY <1>4 DEF Settled
  <2> QED
    BY <2>1 DEF Probes
<1>5. ASSUME NEW o \in Object, Create(o) PROVE ProbeOutstanding'
  <2> DEFINE v == IF saved.state = "HALF_OPEN" THEN HalfOpenRequests ELSE 0
  <2>1. Becomes(o, Restored(saved)) /\ calls' = calls
    BY <1>5 DEF Create
  <2>2. Restored(saved) = WithHalfOpenAllowed(saved, v) /\ v \in 0..HalfOpenRequests
        /\ (saved.state = "HALF_OPEN" => v # 0)
    BY <1>1 DEF Restored, WithHalfOpenAllowed
  <2> HIDE DEF v
  <2>3. Restored(saved).state = "HALF_OPEN" => Restored(saved).halfOpenAllowed # 0
    BY <1>1, <2>2, WithHalfOpenAllowedFields DEF Sound
  <2>4. \A p \in Object : Probes(p)' = Probes(p)
    BY <2>1 DEF Probes
  <2> QED
    BY <1>2, <2>1, <2>3, <2>4
<1>6. CASE Refresh
  <2> DEFINE b == Refreshed(breaker[registered])
  <2>1. registered \in Object /\ Becomes(registered, b) /\ calls' = calls
        /\ RefreshDue(breaker[registered])
    BY <1>1, <1>6 DEF Refresh
  <2>2. b = Transition(breaker[registered], "HALF_OPEN")
    BY <2>1 DEF Refreshed
  <2> HIDE DEF b
  <2>3. b.halfOpenAllowed = HalfOpenRequests
    BY <1>1, <2>1, <2>2, TransitionFields DEF Sound, CircuitState
  <2>4. \A p \in Object : Probes(p)' = Probes(p)
    BY <2>1 DEF Probes
  <2> QED
    BY <1>1, <1>2, <2>1, <2>3, <2>4
<1>7. ASSUME NEW c \in Call, Execute(c) PROVE ProbeOutstanding'
  <2>0. PICK o \in Object : o = registered
    BY <1>7 DEF Execute, IInv, TypeOK
  <2> DEFINE b == Refreshed(breaker[o])
  <2>1. /\ ~Running(c) /\ Admits(b)
        /\ Becomes(o, Admitted(b))
        /\ calls' = [calls EXCEPT ![c] = [in |-> o, probe |-> b.state = "HALF_OPEN"]]
    BY <1>7, <2>0 DEF Execute
  <2>2. b \in Sound
    BY <1>1, <2>1, RefreshSound
  <2> HIDE DEF b
  <2>3. Admitted(b).state = b.state
    BY <2>1, <2>2, AdmissionSound
  <2>4. \A p \in Object : breaker'[p] = IF p = o THEN Admitted(b) ELSE breaker[p]
    BY <1>1, <2>1 DEF Becomes
  <2>5. calls[c] = Idle
    BY <2>1 DEF Running
  <2>6. calls'[c].in = o /\ (calls'[c].probe <=> b.state = "HALF_OPEN")
        /\ \A d \in Call \ {c} : calls'[d] = calls[d]
    BY <2>1 DEF IInv, TypeOK
  <2>7. \A p \in Object : Probes(p) \subseteq Probes(p)'
    BY <2>5, <2>6, IdleCall DEF Probes
  <2>8. Admitted(b).state = "HALF_OPEN" => c \in Probes(o)'
    BY <2>3, <2>6 DEF Probes
  <2> QED
    BY <2>4, <2>7, <2>8 DEF ProbeOutstanding
<1>8. ASSUME NEW c \in Call, Succeed(c) PROVE ProbeOutstanding'
  <2> DEFINE o == calls[c].in
             b == Succeeded(breaker[o])
  <2>1. o \in Object /\ Becomes(o, b) /\ calls' = [Settled(o, b) EXCEPT ![c] = Idle]
    BY <1>8, RunsIn DEF Succeed
  <2>2. b.state # "HALF_OPEN"
    BY <1>1, <2>1, SuccessSound
  <2> HIDE DEF o, b
  <2>3. calls[c].in = o
    BY DEF o
  <2> QED
    BY <1>2, <1>3, <2>1, <2>2, <2>3
<1>9. ASSUME NEW c \in Call, NEW kind \in Kind \cup {NoKind}, Fail(c, kind)
      PROVE  ProbeOutstanding'
  <2> DEFINE o == calls[c].in
             b == Failed(breaker[o], kind)
  <2>1. o \in Object /\ Becomes(o, b) /\ calls' = [Settled(o, b) EXCEPT ![c] = Idle]
    BY <1>9, RunsIn DEF Fail
  <2>2. b.state # "HALF_OPEN"
    BY <1>1, <2>1, FailureSound
  <2> HIDE DEF o, b
  <2>3. calls[c].in = o
    BY DEF o
  <2> QED
    BY <1>2, <1>3, <2>1, <2>2, <2>3
<1>10. CASE Reset \/ ResetAll
  <2> DEFINE b == WasReset(breaker[registered])
  <2>1. registered \in Object /\ Becomes(registered, b) /\ calls' = Settled(registered, b)
    BY <1>1, <1>10 DEF Reset, ResetAll
  <2>2. b.state = "CLOSED"
    BY <1>1, <2>1, ResetSound
  <2> HIDE DEF b
  <2> QED
    BY <1>2, <1>4, <2>1, <2>2
<1>11. CASE CooldownElapses
  <2>1. \A o \in Object : breaker'[o] = WithCooled(breaker[o], TRUE) /\ calls' = calls
    BY <1>11 DEF CooldownElapses, WithCooled
  <2>2. \A o \in Object : /\ breaker'[o].state = breaker[o].state
                          /\ breaker'[o].halfOpenAllowed = breaker[o].halfOpenAllowed
    BY <1>1, <2>1, CooledSound
  <2> QED
    BY <1>11, <2>2 DEF ProbeOutstanding, Probes, CooldownElapses
<1>12. CASE Restart
  BY <1>12 DEF Restart, Fresh, ProbeOutstanding
<1>13. CASE UNCHANGED <<breaker, calls>>
  BY <1>13 DEF ProbeOutstanding, Probes
<1>14. \A c \in Call : ~Excuse(c)
  BY DEF Excuse
<1> QED
  BY <1>5, <1>6, <1>7, <1>8, <1>9, <1>10, <1>11, <1>12, <1>13, <1>14
  DEF Next, Return, Configure, Evict, vars

(***************************************************************************)
(* A HALF_OPEN breaker that lets nobody in waits for a probe that runs,    *)
(* unless errors are excused: execute() never gives the allowance of a     *)
(* probe back (circuitBreaker.ts), which is why the theorem needs none.    *)
(***************************************************************************)
THEOREM ProbesAreAwaited ==
    ASSUME Excusable = {}
    PROVE  Spec => []ProbeOutstanding
<1>1. Init => ProbeOutstanding
  BY DEF Init, Fresh, ProbeOutstanding
<1>2. IInv /\ IInv' /\ ProbeOutstanding /\ [Next]_vars => ProbeOutstanding'
  BY ProbeStep, RulesAssumption, CircuitAssumption
<1> QED
  BY <1>1, <1>2, Invariance, PTL DEF Spec
=============================================================================
