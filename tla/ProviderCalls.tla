------------------------------ MODULE ProviderCalls ------------------------------
(***************************************************************************)
(* How chat requests report to their provider's breaker                    *)
(* (src/sse/handlers/chat.ts, chatHelpers.ts, src/sse/services/auth.ts,    *)
(* open-sse/services/accountFallback.ts).  A request reports at least      *)
(* twice: executeChatWithBreaker() runs the attempt inside                 *)
(* breaker.execute(), which sees a value returned or an error thrown, and  *)
(* handleSingleModelChat() then reports what the value says, or, when      *)
(* every account cools down, what is stored with an account; the targets   *)
(* of a combo report once more through recordProviderSuccess() or          *)
(* recordProviderFailure().  handleChatCore() returns {success: false} for *)
(* an upstream failure; it does not throw.                                 *)
(*                                                                         *)
(* Account selection, translation and the reply are elsewhere: an attempt  *)
(* here is one execute(), and which account it used does not matter.  Rows *)
(* of accounts outlive the process; no row is marked at first, since every *)
(* mark is also found beside a breaker as good as new later on.            *)
(***************************************************************************)
EXTENDS BreakerRules

CONSTANTS
    Request,
    Combo,          \* the requests that are targets of a combo
    ProxyMayDie,    \* the account's proxy can be found dead while an attempt runs
    ClientMayAbort, \* an attempt can throw an error isFailure() excuses
    Provider,       \* who may be to blame for a failure: the provider, or the gateway with a
    Gateway,        \* dead proxy or no account for a combo's target; one value if all the same
    MaxStreak       \* bound: streak stops here

ASSUME CallsAssumption ==
    /\ Combo \subseteq Request
    /\ ProxyMayDie \in BOOLEAN /\ ClientMayAbort \in BOOLEAN
    /\ MaxStreak \in Nat

VARIABLES
    pb,     \* the provider's breaker
    phase,  \* where each request stands
    marks,  \* whose failures are stored with accounts that cool down
    origin, \* auxiliary: whose failure each request's last answer goes back to
    blame,  \* auxiliary: whose failures what the breaker holds goes back to
    streak, \* auxiliary: provider failures reported, no other answer among them
    aborted \* auxiliary: a client's abort was thrown inside execute()

callsVars == <<pb, phase, marks, origin, blame, streak, aborted>>

(***************************************************************************)
(* gated:    past checkPipelineGates(), choosing an account                *)
(* upstream: inside execute()                                              *)
(* won:      execute() returned {success: true}                            *)
(* failed:   it returned a failure the provider answered, 5xx or 408       *)
(* local:    it returned a 503 made here: breaker refused, proxy dead      *)
(* other:    it returned any other failure: 4xx, 429, 499                  *)
(* credited: handleSingleModelChat() is through, the combo has a success   *)
(* returned: handleSingleModelChat() is through, the combo has a failure   *)
(***************************************************************************)
Phase == {"idle", "gated", "upstream", "won", "failed", "local", "other", "credited", "returned"}

Culprit == {Provider, Gateway}

CallsInit ==
    /\ pb = Fresh
    /\ phase = [r \in Request |-> "idle"]
    /\ marks = {}
    /\ origin = [r \in Request |-> {}]
    /\ blame = {}
    /\ streak = 0
    /\ aborted = FALSE

(* r moves on, with the failure behind its answer, if it has one. *)
Goes(r, p, whose) ==
    /\ phase' = [phase EXCEPT ![r] = p]
    /\ origin' = [origin EXCEPT ![r] = whose]

(* A breaker that holds nothing against the provider. *)
Clean(b) == b.state = "CLOSED" /\ b.failureCount = 0

(* The breaker becomes b; a clean one has forgotten who was to blame. *)
TurnsInto(b) ==
    /\ pb' = b
    /\ blame' = IF Clean(b) THEN {} ELSE blame

(* breaker._onFailure(), for a failure of these. *)
Charged(whose) ==
    /\ pb' = Failed(pb, NoKind)
    /\ blame' = blame \cup whose

-----------------------------------------------------------------------------
(***************************************************************************)
(* checkPipelineGates(): canExecute() looks, and takes nothing.  A refused *)
(* request is answered; a combo has that 503 still to judge.               *)
(***************************************************************************)
Gate(r) ==
    /\ phase[r] = "idle"
    /\ TurnsInto(Refreshed(pb))
    /\ \/ Admits(pb') /\ Goes(r, "gated", {})
       \/ ~Admits(pb') /\ r \in Combo /\ Goes(r, "returned", blame)
    /\ UNCHANGED <<marks, streak, aborted>>

(* execute() at the start of an attempt: the first, or with another account. *)
Attempt(r) ==
    /\ phase[r] \in {"gated", "failed", "local", "other"}
    /\ LET b == Refreshed(pb)
       IN  IF Admits(b)
           THEN TurnsInto(Admitted(b)) /\ Goes(r, "upstream", {})
           ELSE TurnsInto(b) /\ Goes(r, "local", blame)
    /\ UNCHANGED <<marks, streak, aborted>>

(* handleChatCore() returned: execute() calls _onSuccess() whatever it returned. *)
Outcome == {"won", "failed", "other"}

Answer(r, outcome) ==
    /\ phase[r] = "upstream"
    /\ TurnsInto(Succeeded(pb))
    /\ Goes(r, outcome, IF outcome = "failed" THEN {Provider} ELSE {})
    /\ streak' = IF outcome = "failed" THEN streak ELSE 0
    /\ UNCHANGED <<marks, aborted>>

(* runWithProxyContext() threw PROXY_UNREACHABLE: execute() counts it, a 503 is returned. *)
ProxyDead(r) ==
    /\ ProxyMayDie
    /\ phase[r] = "upstream"
    /\ Charged({Gateway})
    /\ Goes(r, "local", {Gateway})
    /\ UNCHANGED <<marks, streak, aborted>>

(* A local stream-lifecycle error was thrown: isFailure() excuses it, the request ends. *)
ClientAborts(r) ==
    /\ ClientMayAbort
    /\ phase[r] = "upstream"
    /\ Goes(r, "idle", {})
    /\ aborted' = TRUE
    /\ UNCHANGED <<pb, marks, blame, streak>>

(* markAccountUnavailable(): the account cools down, its row keeps the status. *)
MarkAccount(r) ==
    /\ phase[r] \in {"failed", "local"}
    /\ marks' = marks \cup origin[r]
    /\ UNCHANGED <<pb, phase, origin, blame, streak, aborted>>

(* Cooldowns of accounts end, or a success clears them. *)
AccountsRecover ==
    /\ \E rest \in SUBSET marks : rest # marks /\ marks' = rest
    /\ UNCHANGED <<pb, phase, origin, blame, streak, aborted>>

(* handleSingleModelChat() on result.success: breaker._onSuccess() *)
ReportSuccess(r) ==
    /\ phase[r] = "won"
    /\ TurnsInto(Succeeded(pb))
    /\ Goes(r, IF r \in Combo THEN "credited" ELSE "idle", {})
    /\ UNCHANGED <<marks, streak, aborted>>

CountsInStreak(r) ==
    IF phase[r] = "failed" /\ streak < MaxStreak THEN streak + 1 ELSE streak

(***************************************************************************)
(* handleSingleModelChat() returns the answer of an account it did not     *)
(* mark: shouldTripProviderBreakerForResult() holds for no combo.          *)
(***************************************************************************)
ReportFailure(r) ==
    /\ r \notin Combo
    /\ phase[r] \in {"failed", "local"}
    /\ Charged(origin[r])
    /\ Goes(r, "idle", {})
    /\ streak' = CountsInStreak(r)
    /\ UNCHANGED <<marks, aborted>>

(* Whose failure r's status is: that of its last answer, or a stored one. *)
Behind(r) == IF phase[r] = "gated" THEN marks ELSE origin[r]

(* A slip: the 503 a request is answered for want of a stored status counts too. *)
ReportExhausted_Default(r) ==
    /\ phase[r] \in {"gated", "failed", "local"}
    /\ Charged(Behind(r))
    /\ IF r \in Combo THEN Goes(r, "returned", Behind(r)) ELSE Goes(r, "idle", {})
    /\ streak' = CountsInStreak(r)
    /\ UNCHANGED <<marks, aborted>>

(***************************************************************************)
(* No account is left, they all cool down: breaker._onFailure() when the   *)
(* last answer was such a failure or, for a request that attempted         *)
(* nothing, when the row of a cooling account holds one.                   *)
(***************************************************************************)
ReportExhausted(r) ==
    /\ phase[r] \in {"gated", "failed", "local"}
    /\ Behind(r) # {}
    /\ Charged(Behind(r))
    /\ IF r \in Combo THEN Goes(r, "returned", Behind(r)) ELSE Goes(r, "idle", {})
    /\ streak' = CountsInStreak(r)
    /\ UNCHANGED <<marks, aborted>>

(* recordProviderSuccess(): nothing while the breaker is OPEN *)
RecordProviderSuccess(r) ==
    /\ phase[r] = "credited"
    /\ LET b == Refreshed(pb)
       IN  TurnsInto(IF b.state = "OPEN" THEN b ELSE Succeeded(b))
    /\ Goes(r, "idle", {})
    /\ UNCHANGED <<marks, streak, aborted>>

(***************************************************************************)
(* recordProviderFailure(), past its deduplication: nothing unless         *)
(* canExecute().  A target for which no account was found is a 503 too.    *)
(***************************************************************************)
RecordProviderFailure(r) ==
    /\ r \in Combo
    /\ phase[r] \in {"gated", "failed", "local", "returned"}
    /\ LET b == Refreshed(pb)
           whose == IF phase[r] = "gated" THEN {Gateway} ELSE origin[r]
       IN  IF Admits(b)
           THEN pb' = Failed(b, NoKind) /\ blame' = blame \cup whose
           ELSE TurnsInto(b)
    /\ Goes(r, "idle", {})
    /\ streak' = CountsInStreak(r)
    /\ UNCHANGED <<marks, aborted>>

(* Nothing is reported: no account, an early end of stream, a duplicate failure. *)
GiveUp(r) ==
    /\ phase[r] \in {"gated", "failed", "local", "other", "returned"}
    /\ Goes(r, "idle", {})
    /\ UNCHANGED <<pb, marks, blame, streak, aborted>>

CooldownOver ==
    /\ pb' = [pb EXCEPT !.cooled = TRUE]
    /\ UNCHANGED <<phase, marks, origin, blame, streak, aborted>>

Advance(r) ==
    \/ Attempt(r) \/ ProxyDead(r) \/ ClientAborts(r)
    \/ (\E outcome \in Outcome : Answer(r, outcome))
    \/ ReportSuccess(r) \/ ReportFailure(r) \/ ReportExhausted(r)
    \/ RecordProviderSuccess(r) \/ RecordProviderFailure(r) \/ GiveUp(r)

CallsNext ==
    \/ CooldownOver \/ AccountsRecover
    \/ \E r \in Request : Gate(r) \/ Advance(r) \/ MarkAccount(r)

CallsSpec == CallsInit /\ [][CallsNext]_callsVars

(***************************************************************************)
(* Requests keep coming and move on, time passes, and where requests could *)
(* pass a gate, or begin an attempt, again and again, one does at last:    *)
(* the reports of refused requests do not for ever fall just before them.  *)
(***************************************************************************)
LetIn(r) == Gate(r) /\ phase'[r] = "gated"
LetThrough(r) == Attempt(r) /\ phase'[r] = "upstream"

CallsFairness ==
    /\ WF_callsVars(CooldownOver)
    /\ SF_callsVars(\E r \in Request : LetIn(r))
    /\ SF_callsVars(\E r \in Request : LetThrough(r))
    /\ \A r \in Request : WF_callsVars(Advance(r))

CallsFairSpec == CallsSpec /\ CallsFairness

-----------------------------------------------------------------------------
(* The types of the variables. *)
CallsTypeOK ==
    /\ pb \in Breaker
    /\ phase \in [Request -> Phase]
    /\ marks \subseteq Culprit
    /\ origin \in [Request -> SUBSET Culprit]
    /\ blame \subseteq Culprit
    /\ streak \in 0..MaxStreak
    /\ aborted \in BOOLEAN

(***************************************************************************)
(* Reports that come twice, late, or for requests the breaker refused      *)
(* leave it in the shape its own rules rely on.                            *)
(***************************************************************************)
ReportsInShape == Shape(pb)

(***************************************************************************)
(* Whatever the breaker holds against the provider goes back to a failed   *)
(* attempt, or to a combo's target without an account, be it through       *)
(* refusals and stored account errors that are reported in their turn.  A  *)
(* recovery clears it: from then on aborted clients, 429s and requests     *)
(* that find every account cooling for other reasons charge nothing.       *)
(***************************************************************************)
OnlyFailuresTrip == ~Clean(pb) => blame # {}

(***************************************************************************)
(* "Network-layer errors ... must NOT trip the provider circuit breaker":  *)
(* the breaker opens only when the provider itself failed.                 *)
(***************************************************************************)
OnlyProviderFailuresTrip == pb.state = "OPEN" => Provider \in blame

(***************************************************************************)
(* "Opens at ... failures": as many provider failures reported, with no    *)
(* other answer among them, have opened the breaker.                        *)
(***************************************************************************)
ReportedFailuresOpen == streak >= FailureThreshold => pb.state \notin {"CLOSED", "DEGRADED"}

(***************************************************************************)
(* Once the provider answers well and its proxies live, the breaker comes  *)
(* back to CLOSED again and again, whatever refused requests and stored    *)
(* account errors report.  With clients that abort it may not: an abort    *)
(* can waste the last probe.                                               *)
(***************************************************************************)
AnswersWell == <>[][\A r \in Request : ~Answer(r, "failed") /\ ~ProxyDead(r)]_callsVars

CallsRecoverWithProvider ==
    [](~aborted) /\ AnswersWell => []<>(pb.state = "CLOSED")
=============================================================================
