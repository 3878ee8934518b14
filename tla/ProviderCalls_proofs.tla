-------------------------- MODULE ProviderCalls_proofs --------------------------
(***************************************************************************)
(* Proofs about ProviderCalls, for any requests, combos and thresholds.    *)
(* The inductive invariant adds FailuresTraced: a request that stands      *)
(* where a failure is reported carries one, its own, that of the breaker   *)
(* that refused it, or that of a stored account error.                     *)
(***************************************************************************)
EXTENDS ProviderCalls, CircuitBreaker_proofs, TLAPS

Failing == {"failed", "local", "returned"}

FailuresTraced == \A r \in Request : phase[r] \in Failing => origin[r] # {}

CallsInv == CallsTypeOK /\ ReportsInShape /\ OnlyFailuresTrip /\ FailuresTraced

(***************************************************************************)
(* A step that leaves the breaker sound and moves one request keeps the    *)
(* invariant if the breaker and the request can both name a failure.       *)
(***************************************************************************)
LEMMA StepKeeps ==
    ASSUME CallsInv, NEW r \in Request, NEW p \in Phase, NEW whose \in SUBSET Culprit,
           Goes(r, p, whose), p \in Failing => whose # {},
           pb' \in Sound, blame' \subseteq Culprit, ~Clean(pb') => blame' # {},
           marks' \subseteq Culprit, streak' \in 0..MaxStreak, aborted' \in BOOLEAN
    PROVE  CallsInv'
<1>1. /\ phase' \in [Request -> Phase] /\ origin' \in [Request -> SUBSET Culprit]
      /\ \A q \in Request : phase'[q] = IF q = r THEN p ELSE phase[q]
      /\ \A q \in Request : origin'[q] = IF q = r THEN whose ELSE origin[q]
  BY DEF CallsInv, CallsTypeOK, Goes
<1>2. CallsTypeOK' /\ ReportsInShape'
  BY <1>1 DEF CallsTypeOK, ReportsInShape, Sound, Culprit
<1>3. OnlyFailuresTrip'
  BY DEF OnlyFailuresTrip, Clean
<1>4. FailuresTraced'
  BY <1>1 DEF CallsInv, FailuresTraced
<1> QED
  BY <1>2, <1>3, <1>4 DEF CallsInv

(* What every step finds; a refresh makes nothing clean, nor takes a breaker from it. *)
LEMMA StateAccounted ==
    ASSUME RulesAssumption, CallsInv
    PROVE  /\ pb \in Sound /\ Refreshed(pb) \in Sound
           /\ ~Clean(Refreshed(pb)) => blame # {}
           /\ blame \subseteq Culprit /\ marks \subseteq Culprit /\ aborted \in BOOLEAN
           /\ streak \in 0..MaxStreak
<1>1. pb \in Sound
  BY DEF CallsInv, CallsTypeOK, ReportsInShape, Sound
<1>2. ~Clean(Refreshed(pb)) => ~Clean(pb)
  BY <1>1, Fields DEF Refreshed, RefreshDue, Clean, Sound
<1> QED
  BY <1>1, <1>2, RefreshSound DEF CallsInv, CallsTypeOK, OnlyFailuresTrip

(* The breaker turns into a sound one that was accounted for, or is clean. *)
LEMMA TurnAccounted ==
    ASSUME RulesAssumption, CallsInv, NEW b \in Sound, TurnsInto(b), ~Clean(b) => blame # {}
    PROVE  pb' \in Sound /\ blame' \subseteq Culprit /\ (~Clean(pb') => blame' # {})
BY StateAccounted DEF TurnsInto

(* A success leaves a breaker clean, or as much to blame as before. *)
LEMMA SuccessAccounted ==
    ASSUME RulesAssumption, NEW b \in Sound, ~Clean(b) => blame # {}
    PROVE  Succeeded(b) \in Sound /\ (~Clean(Succeeded(b)) => blame # {})
<1>1. Succeeded(b) \in Sound
  BY SuccessSound
<1>2. CASE Clean(b)
  <2>1. b \in Breaker /\ b.state = "CLOSED" /\ b.failureCount = 0
    BY <1>2 DEF Clean, Sound
  <2>2. Succeeded(b) = [b EXCEPT !.failureCount = 0,
                                 !.state = IF 0 <= DegradationThreshold THEN "CLOSED" ELSE @]
    BY <2>1 DEF Succeeded
  <2>3. Clean(Succeeded(b))
    BY <2>1, <2>2, Fields DEF Clean, Breaker
  <2> QED
    BY <1>1, <2>3
<1> QED
  BY <1>1, <1>2

(* A counted failure is charged to somebody. *)
LEMMA ChargeAccounted ==
    ASSUME RulesAssumption, CallsInv, NEW b \in Sound, NEW whose \in SUBSET Culprit, whose # {},
           pb' = Failed(b, NoKind), blame' = blame \cup whose
    PROVE  pb' \in Sound /\ blame' \subseteq Culprit /\ (~Clean(pb') => blame' # {})
BY FailureSound, StateAccounted

LEMMA PhasesOfSteps ==
    /\ {"idle", "gated", "upstream", "won", "failed", "local", "other", "credited", "returned"}
            = Phase
    /\ Failing = {"failed", "local", "returned"}
    /\ {Provider} \in SUBSET Culprit /\ {Gateway} \in SUBSET Culprit /\ {} \in SUBSET Culprit
    /\ {Provider} # {} /\ {Gateway} # {}
BY DEF Phase, Failing, Culprit

(* Where nobody is admitted the breaker is not clean. *)
LEMMA RefusalAccounted ==
    ASSUME RulesAssumption, CallsInv, ~Admits(Refreshed(pb))
    PROVE  blame # {} /\ blame \in SUBSET Culprit
BY StateAccounted DEF Admits, Clean

LEMMA GateKeeps ==
    ASSUME RulesAssumption, CallsInv, NEW r \in Request, Gate(r)
    PROVE  CallsInv'
<1>1. TurnsInto(Refreshed(pb)) /\ UNCHANGED <<marks, streak, aborted>>
  BY DEF Gate
<1>2. pb' \in Sound /\ blame' \subseteq Culprit /\ (~Clean(pb') => blame' # {})
  BY <1>1, StateAccounted, TurnAccounted
<1>3. CASE Goes(r, "gated", {})
  BY <1>1, <1>2, <1>3, PhasesOfSteps, StateAccounted, StepKeeps
<1>4. CASE ~Admits(pb') /\ Goes(r, "returned", blame)
  <2>1. ~Admits(Refreshed(pb))
    BY <1>1, <1>4 DEF TurnsInto
  <2> QED
    BY <1>1, <1>2, <1>4, <2>1, PhasesOfSteps, RefusalAccounted, StateAccounted, StepKeeps
<1> QED
  BY <1>3, <1>4 DEF Gate

(* A refused attempt is the breaker's doing, and what the breaker holds has its cause. *)
LEMMA AttemptKeeps ==
    ASSUME RulesAssumption, CallsInv, NEW r \in Request, Attempt(r)
    PROVE  CallsInv'
<1> DEFINE b == Refreshed(pb)
<1>1. b \in Sound /\ (~Clean(b) => blame # {}) /\ UNCHANGED <<marks, streak, aborted>>
  BY StateAccounted DEF Attempt
<1>2. CASE Admits(b)
  <2>1. TurnsInto(Admitted(b)) /\ Goes(r, "upstream", {})
    BY <1>2 DEF Attempt
  <2> HIDE DEF b
  <2>2. Admitted(b) \in Sound
    BY <1>1, <1>2, AdmissionSound
  <2>3. ~Clean(Admitted(b)) => ~Clean(b)
    BY <1>1, Fields DEF Admitted, Clean, Sound
  <2>4. pb' \in Sound /\ blame' \subseteq Culprit /\ (~Clean(pb') => blame' # {})
    BY <1>1, <2>1, <2>2, <2>3, TurnAccounted
  <2> QED
    BY <1>1, <2>1, <2>4, PhasesOfSteps, StateAccounted, StepKeeps
<1>3. CASE ~Admits(b)
  <2>1. TurnsInto(b) /\ Goes(r, "local", blame)
    BY <1>3 DEF Attempt
  <2>2. blame # {} /\ blame \in SUBSET Culprit
    BY <1>3, RefusalAccounted
  <2> HIDE DEF b
  <2>3. pb' \in Sound /\ blame' \subseteq Culprit /\ (~Clean(pb') => blame' # {})
    BY <1>1, <2>1, TurnAccounted
  <2> QED
    BY <1>1, <2>1, <2>2, <2>3, PhasesOfSteps, StateAccounted, StepKeeps
<1> QED
  BY <1>2, <1>3

LEMMA AnswerKeeps ==
    ASSUME RulesAssumption, CallsInv, NEW r \in Request, NEW outcome \in Outcome, Answer(r, outcome)
    PROVE  CallsInv'
<1> DEFINE whose == IF outcome = "failed" THEN {Provider} ELSE {}
<1>1. /\ TurnsInto(Succeeded(pb)) /\ Goes(r, outcome, whose)
      /\ streak' = IF outcome = "failed" THEN streak ELSE 0
      /\ UNCHANGED <<marks, aborted>>
  BY DEF Answer
<1>2. /\ outcome \in Phase /\ whose \in SUBSET Culprit
      /\ outcome \in Failing => whose # {}
  BY PhasesOfSteps DEF Outcome
<1> HIDE DEF whose
<1>3. ~Clean(pb) => blame # {}
  BY DEF CallsInv, OnlyFailuresTrip
<1>4. pb' \in Sound /\ blame' \subseteq Culprit /\ (~Clean(pb') => blame' # {})
  BY <1>1, <1>3, StateAccounted, SuccessAccounted, TurnAccounted
<1>5. streak' \in 0..MaxStreak
  BY <1>1, StateAccounted, CallsAssumption DEF CallsAssumption
<1>6. marks' \subseteq Culprit /\ aborted' \in BOOLEAN
  BY <1>1, StateAccounted
<1> QED
  BY <1>1, <1>2, <1>4, <1>5, <1>6, StepKeeps

LEMMA ProxyDeadKeeps ==
    ASSUME RulesAssumption, CallsInv, NEW r \in Request, ProxyDead(r)
    PROVE  CallsInv'
<1>1. /\ pb' = Failed(pb, NoKind) /\ blame' = blame \cup {Gateway}
      /\ Goes(r, "local", {Gateway}) /\ UNCHANGED <<marks, streak, aborted>>
  BY DEF ProxyDead, Charged
<1>2. pb' \in Sound /\ blame' \subseteq Culprit /\ (~Clean(pb') => blame' # {})
  BY <1>1, PhasesOfSteps, StateAccounted, ChargeAccounted
<1> QED
  BY <1>1, <1>2, PhasesOfSteps, StateAccounted, StepKeeps

LEMMA ClientAbortsKeeps ==
    ASSUME RulesAssumption, CallsInv, NEW r \in Request, ClientAborts(r)
    PROVE  CallsInv'
<1>1. UNCHANGED <<pb, marks, blame, streak>> /\ Goes(r, "idle", {}) /\ aborted' = TRUE
  BY DEF ClientAborts
<1>2. ~Clean(pb') => blame' # {}
  BY <1>1 DEF CallsInv, OnlyFailuresTrip, Clean
<1> QED
  BY <1>1, <1>2, PhasesOfSteps, StateAccounted, StepKeeps

LEMMA StreakBounded ==
    ASSUME RulesAssumption, CallsInv, NEW r \in Request
    PROVE  CountsInStreak(r) \in 0..MaxStreak
BY StateAccounted, CallsAssumption DEF CountsInStreak, CallsAssumption

(* Behind every status that is counted there is a failure. *)
LEMMA ReportsKeep ==
    ASSUME RulesAssumption, CallsInv, NEW r \in Request, ReportFailure(r) \/ ReportExhausted(r)
    PROVE  CallsInv'
<1>1. PICK whose \in SUBSET Culprit, p \in {"idle", "returned"}, kept \in SUBSET Culprit :
        /\ whose # {} /\ Charged(whose) /\ Goes(r, p, kept)
        /\ p = "returned" => kept # {}
  <2>1. CASE ReportFailure(r)
    <3>1. origin[r] \in SUBSET Culprit /\ origin[r] # {}
      BY <2>1, PhasesOfSteps DEF ReportFailure, CallsInv, CallsTypeOK, FailuresTraced
    <3> QED
      BY <2>1, <3>1 DEF ReportFailure
  <2>2. CASE ReportExhausted(r)
    <3>1. Behind(r) \in SUBSET Culprit /\ Behind(r) # {}
      BY <2>2 DEF ReportExhausted, Behind, CallsInv, CallsTypeOK
    <3> QED
      BY <2>2, <3>1 DEF ReportExhausted
  <2> QED
    BY <2>1, <2>2
<1>2. marks' = marks /\ aborted' = aborted /\ streak' \in 0..MaxStreak
  BY StreakBounded DEF ReportFailure, ReportExhausted
<1>3. pb' \in Sound /\ blame' \subseteq Culprit /\ (~Clean(pb') => blame' # {})
  BY <1>1, StateAccounted, ChargeAccounted DEF Charged
<1> QED
  BY <1>1, <1>2, <1>3, PhasesOfSteps, StateAccounted, StepKeeps

LEMMA CreditsKeep ==
    ASSUME RulesAssumption, CallsInv, NEW r \in Request, ReportSuccess(r) \/ RecordProviderSuccess(r)
    PROVE  CallsInv'
<1> DEFINE b == Refreshed(pb)
<1>1. b \in Sound /\ (~Clean(b) => blame # {}) /\ pb \in Sound /\ (~Clean(pb) => blame # {})
  BY StateAccounted DEF CallsInv, OnlyFailuresTrip
<1>2. UNCHANGED <<marks, streak, aborted>>
  BY DEF ReportSuccess, RecordProviderSuccess
<1>3. CASE ReportSuccess(r)
  <2>1. TurnsInto(Succeeded(pb)) /\ Goes(r, IF r \in Combo THEN "credited" ELSE "idle", {})
    BY <1>3 DEF ReportSuccess
  <2>2. pb' \in Sound /\ blame' \subseteq Culprit /\ (~Clean(pb') => blame' # {})
    BY <1>1, <2>1, SuccessAccounted, TurnAccounted
  <2> QED
    BY <1>2, <2>1, <2>2, PhasesOfSteps, StateAccounted, StepKeeps
<1>4. CASE RecordProviderSuccess(r)
  <2>1. TurnsInto(IF b.state = "OPEN" THEN b ELSE Succeeded(b)) /\ Goes(r, "idle", {})
    BY <1>4 DEF RecordProviderSuccess
  <2> HIDE DEF b
  <2>2. pb' \in Sound /\ blame' \subseteq Culprit /\ (~Clean(pb') => blame' # {})
    BY <1>1, <2>1, SuccessAccounted, TurnAccounted
  <2> QED
    BY <1>2, <2>1, <2>2, PhasesOfSteps, StateAccounted, StepKeeps
<1> QED
  BY <1>3, <1>4

LEMMA RecordFailureKeeps ==
    ASSUME RulesAssumption, CallsInv, NEW r \in Request, RecordProviderFailure(r)
    PROVE  CallsInv'
<1> DEFINE b == Refreshed(pb)
           whose == IF phase[r] = "gated" THEN {Gateway} ELSE origin[r]
<1>1. b \in Sound /\ (~Clean(b) => blame # {})
  BY StateAccounted
<1>2. whose \in SUBSET Culprit /\ whose # {}
  BY PhasesOfSteps DEF RecordProviderFailure, CallsInv, CallsTypeOK, FailuresTraced
<1>3. /\ IF Admits(b) THEN pb' = Failed(b, NoKind) /\ blame' = blame \cup whose ELSE TurnsInto(b)
      /\ Goes(r, "idle", {}) /\ UNCHANGED <<marks, aborted>>
  BY DEF RecordProviderFailure
<1>4. streak' \in 0..MaxStreak
  BY StreakBounded DEF RecordProviderFailure
<1> HIDE DEF b, whose
<1>5. pb' \in Sound /\ blame' \subseteq Culprit /\ (~Clean(pb') => blame' # {})
  BY <1>1, <1>2, <1>3, ChargeAccounted, TurnAccounted
<1> QED
  BY <1>3, <1>4, <1>5, PhasesOfSteps, StateAccounted, StepKeeps

LEMMA GiveUpKeeps ==
    ASSUME RulesAssumption, CallsInv, NEW r \in Request, GiveUp(r)
    PROVE  CallsInv'
<1>1. UNCHANGED <<pb, marks, blame, streak, aborted>> /\ Goes(r, "idle", {})
  BY DEF GiveUp
<1>2. ~Clean(pb') => blame' # {}
  BY <1>1 DEF CallsInv, OnlyFailuresTrip, Clean
<1> QED
  BY <1>1, <1>2, PhasesOfSteps, StateAccounted, StepKeeps

(* Marks come and go beside requests and breaker. *)
LEMMA MarksKeep ==
    ASSUME CallsInv, AccountsRecover \/ \E r \in Request : MarkAccount(r)
    PROVE  CallsInv'
<1>1. marks' \subseteq Culprit /\ UNCHANGED <<pb, phase, origin, blame, streak, aborted>>
  BY DEF AccountsRecover, MarkAccount, CallsInv, CallsTypeOK
<1> QED
  BY <1>1 DEF CallsInv, CallsTypeOK, ReportsInShape, OnlyFailuresTrip, FailuresTraced, Clean, Culprit

LEMMA CooldownKeeps ==
    ASSUME RulesAssumption, CallsInv, CooldownOver
    PROVE  CallsInv'
<1>1. pb' = WithCooled(pb, TRUE) /\ UNCHANGED <<phase, marks, origin, blame, streak, aborted>>
  BY DEF CooldownOver, WithCooled
<1>2. pb' \in Sound /\ pb'.state = pb.state
  BY <1>1, StateAccounted, CooledSound
<1>3. pb'.failureCount = pb.failureCount
  BY <1>1, StateAccounted, Fields DEF WithCooled, Sound
<1> QED
  BY <1>1, <1>2, <1>3
  DEF CallsInv, CallsTypeOK, ReportsInShape, OnlyFailuresTrip, FailuresTraced, Clean, Sound, Culprit

LEMMA CallsInitInv ==
    ASSUME RulesAssumption, CallsInit
    PROVE  CallsInv
<1>1. pb \in Sound /\ pb.state = "CLOSED" /\ pb.failureCount = 0
  BY FreshSound DEF CallsInit, Fresh
<1>2. CallsTypeOK
  <2>1. /\ phase \in [Request -> Phase] /\ origin \in [Request -> SUBSET Culprit]
        /\ marks \subseteq Culprit /\ blame \subseteq Culprit /\ aborted \in BOOLEAN
    BY DEF CallsInit, Phase
  <2>2. streak \in 0..MaxStreak
    BY CallsAssumption DEF CallsInit, CallsAssumption
  <2> QED
    BY <1>1, <2>1, <2>2 DEF CallsTypeOK, Sound
<1>3. ReportsInShape /\ OnlyFailuresTrip /\ FailuresTraced
  BY <1>1
  DEF CallsInit, ReportsInShape, OnlyFailuresTrip, FailuresTraced, Failing, Clean, Sound
<1> QED
  BY <1>2, <1>3 DEF CallsInv

LEMMA CallsNextInv ==
    ASSUME RulesAssumption, CallsInv, [CallsNext]_callsVars
    PROVE  CallsInv'
<1>1. ASSUME NEW r \in Request, Gate(r) PROVE CallsInv'
  BY <1>1, GateKeeps
<1>2. ASSUME NEW r \in Request, Advance(r) PROVE CallsInv'
  BY <1>2, AttemptKeeps, ProxyDeadKeeps, ClientAbortsKeeps, AnswerKeeps, CreditsKeep, ReportsKeep,
     RecordFailureKeeps, GiveUpKeeps DEF Advance
<1>3. CASE CooldownOver
  BY <1>3, CooldownKeeps
<1>4. CASE AccountsRecover \/ \E r \in Request : MarkAccount(r)
  BY <1>4, MarksKeep
<1>5. CASE UNCHANGED callsVars
  BY <1>5 DEF callsVars, CallsInv, CallsTypeOK, ReportsInShape, OnlyFailuresTrip, FailuresTraced, Clean
<1> QED
  BY <1>1, <1>2, <1>3, <1>4, <1>5 DEF CallsNext

LEMMA CallsInvariance == CallsSpec => []CallsInv
<1>1. CallsInit => CallsInv
  BY CallsInitInv, RulesAssumption
<1>2. CallsInv /\ [CallsNext]_callsVars => CallsInv'
  BY CallsNextInv, RulesAssumption
<1> QED
  BY <1>1, <1>2, PTL DEF CallsSpec

-----------------------------------------------------------------------------
(* Breaker, requests and counters keep their types. *)
THEOREM CallsTyped == CallsSpec => []CallsTypeOK
<1>1. CallsInv => CallsTypeOK
  BY DEF CallsInv
<1> QED
  BY <1>1, CallsInvariance, PTL

(***************************************************************************)
(* Reports that come twice, late, or for an attempt the breaker refused    *)
(* leave it in the shape its rules rely on (chat.ts, chatHelpers.ts).      *)
(***************************************************************************)
THEOREM ReportsKeepShape == CallsSpec => []ReportsInShape
<1>1. CallsInv => ReportsInShape
  BY DEF CallsInv
<1> QED
  BY <1>1, CallsInvariance, PTL

(***************************************************************************)
(* What the breaker holds against the provider goes back to an attempt     *)
(* that failed or a target that found no account: neither an aborted       *)
(* client nor a request that was refused, or that found every account      *)
(* cooling, charges it with a failure nobody had (chat.ts, combo.ts).      *)
(***************************************************************************)
THEOREM NobodyElseTrips == CallsSpec => []OnlyFailuresTrip
<1>1. CallsInv => OnlyFailuresTrip
  BY DEF CallsInv
<1> QED
  BY <1>1, CallsInvariance, PTL
=============================================================================
