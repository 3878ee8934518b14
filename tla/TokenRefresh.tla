------------------------------ MODULE TokenRefresh ------------------------------
(***************************************************************************)
(* Refreshing the OAuth tokens of connections whose refresh tokens are     *)
(* single-use (open-sse/services/tokenRefresh.ts, tokenRefresh/, and       *)
(* refreshSerializer.ts), with its three kinds of caller:                  *)
(*                                                                         *)
(*   reactive   a request that met a 401 or 403 (chatCore.ts)              *)
(*   proactive  a request whose token is about to expire                   *)
(*              (sse/services/tokenRefresh.ts)                             *)
(*   sweep      the health check (tokenHealthCheck.ts)                     *)
(*                                                                         *)
(* All connections are of one rotation group.  The provider is external:   *)
(* it rotates the token with every refresh and, shown a spent token again, *)
(* revokes the family.  Tokens of a connection are numbered in the order   *)
(* they were issued.  A handler runs on to its next network call or timer  *)
(* before anything else happens: a refresh that is answered settles, and   *)
(* all who wait for it go on (Return), before the next event.              *)
(***************************************************************************)
EXTENDS Integers, Sequences, FiniteSets

CONSTANTS
    Conn,
    Caller,
    Reactive, Sweep, \* the rest of the callers are proactive
    None,
    Dead,            \* an unrecoverable error in place of a token
    MaxToken,        \* bound on the tokens a connection is issued
    MaxTries,        \* attempts of refreshWithRetry()
    QuickRotations,  \* a connection may rotate twice within ROTATION_MAP_TTL_MS
    Abandoning,      \* an attempt may outlive REFRESH_TIMEOUT_MS
    Blips,           \* the provider may call a good token invalid
    Restarting,      \* the process may restart
    Revocable        \* connections whose account is revoked and logged in again

Token == 0..MaxToken

(* What a refresh comes to: a token, an unrecoverable error, or nothing (null). *)
Result == Token \cup {Dead, None}

(***************************************************************************)
(* A refresh in flight: the token it presents, the token its creator's     *)
(* compare-and-swap guard expects (None: no guard), and how far it is.     *)
(* A gap is the spacing paid before the lane is released.                  *)
(***************************************************************************)
Stage == {"queued", "asking", "gap", "answered"}
Task == [presents : Token, expects : Token \cup {None}, stage : Stage,
         asked : BOOLEAN, got : Result]

ASSUME RefreshAssumption ==
    /\ Reactive \cup Sweep \subseteq Caller
    /\ Reactive \cap Sweep = {}
    /\ None # Dead
    /\ {None, Dead} \cap (Conn \cup Int) = {}
    /\ None \notin Task
    /\ MaxToken \in Nat
    /\ MaxTries \in Nat \ {0}
    /\ {QuickRotations, Abandoning, Blips, Restarting} \subseteq BOOLEAN
    /\ Revocable \subseteq Conn

VARIABLES
    row,      \* provider_connections: token, expiry, testStatus, isActive
    provider, \* external: the family's first and newest token, and who revoked it
    rotated,  \* tokenRotationMap: the spent tokens it still redirects
    task,     \* connectionRefreshMutex: the refresh in flight, or None
    lane,     \* the group's chain of tail promises: connections in turn
    caller,
    lost      \* auxiliary: connections that were issued a token nobody stored

vars == <<row, provider, rotated, task, lane, caller, lost>>

Row == [token : Token \cup {None}, fresh : BOOLEAN,
        status : {"active", "expired"}, active : BOOLEAN]

Provider == [base : Token, newest : Token, revoked : {"no", "user", "reuse"}]

(***************************************************************************)
(* A caller holds the refresh token of the credentials it loaded; the      *)
(* staleness check may replace it, attempted is what it was at first, and  *)
(* loaded the testStatus that came with it.  of is auxiliary: the token    *)
(* that the refresh it waits for presents.                                 *)
(***************************************************************************)
Idle == [conn |-> None, pc |-> "idle", held |-> None, attempted |-> None,
         loaded |-> "active", tries |-> 0, of |-> None, got |-> None]

CallerState == [conn : Conn \cup {None}, pc : {"idle", "loaded", "waiting", "returned"},
                held : Token \cup {None}, attempted : Token \cup {None},
                loaded : {"active", "expired"}, tries : Nat, of : Token \cup {None}, got : Result]

Good == [token |-> 0, fresh |-> FALSE, status |-> "active", active |-> TRUE]

Init ==
    /\ row = [c \in Conn |-> Good]
    /\ provider = [c \in Conn |-> [base |-> 0, newest |-> 0, revoked |-> "no"]]
    /\ rotated = [c \in Conn |-> {}]
    /\ task = [c \in Conn |-> None]
    /\ lane = <<>>
    /\ caller = [k \in Caller |-> Idle]
    /\ lost = {}

Returned == {k \in Caller : caller[k].pc = "returned"}

Answered(c) == task[c] # None /\ task[c].stage = "answered"

(* No continuation is waiting to run. *)
Quiet == Returned = {} /\ \A c \in Conn : ~Answered(c)

Waiting(c) == {k \in Caller : caller[k].pc = "waiting" /\ caller[k].conn = c}

Alive(c, t) == provider[c].revoked = "no" /\ t = provider[c].newest

-----------------------------------------------------------------------------
(* Requests select active connections; checkConnection() retries expired ones too. *)
Loadable(k, c) ==
    /\ row[c].token # None
    /\ IF k \in Sweep THEN row[c].active \/ row[c].status = "expired"
                      ELSE row[c].active /\ row[c].status = "active"

(* Caller k loads the credentials of connection c. *)
Load(k, c) ==
    /\ Quiet
    /\ caller[k].pc = "idle"
    /\ Loadable(k, c)
    /\ caller' = [caller EXCEPT ![k] = [Idle EXCEPT !.conn = c, !.pc = "loaded",
                                          !.held = row[c].token, !.attempted = row[c].token,
                                          !.loaded = row[c].status]]
    /\ UNCHANGED <<row, provider, rotated, task, lane, lost>>

(* A request ends without a refresh: the upstream took its token. *)
NoNeed(k) ==
    /\ Quiet
    /\ caller[k].pc = "loaded"
    /\ caller' = [caller EXCEPT ![k] = Idle]
    /\ UNCHANGED <<row, provider, rotated, task, lane, lost>>

(* getAccessToken() finds a refresh in flight and shares it. *)
Join(k) ==
    /\ Quiet
    /\ caller[k].pc = "loaded"
    /\ task[caller[k].conn] # None
    /\ caller' = [caller EXCEPT ![k].pc = "waiting", ![k].tries = @ + 1,
                                 ![k].of = task[caller[k].conn].presents]
    /\ UNCHANGED <<row, provider, rotated, task, lane, lost>>

(* _getAccessTokenWithStalenessCheck(): an answer without a network call, or None *)
Known(k) ==
    LET c == caller[k].conn
        h == caller[k].held
    IN  IF h \in rotated[c] THEN h + 1
        ELSE IF row[c].token \notin {None, h} /\ row[c].fresh THEN row[c].token
        ELSE None

Guard(k) == IF k \in Reactive THEN caller[k].attempted ELSE None

(* A slip: the caller's token is presented, however old it is. *)
Begin_Stale(k) ==
    LET c == caller[k].conn
        known == Known(k)
        t == caller[k].held
    IN  /\ Quiet
        /\ caller[k].pc = "loaded"
        /\ task[c] = None
        /\ task' = [task EXCEPT ![c] =
                [presents |-> t, expects |-> Guard(k), asked |-> known = None, got |-> known,
                 stage |-> IF known = None THEN "queued" ELSE "answered"]]
        /\ lane' = IF known = None THEN Append(lane, c) ELSE lane
        /\ caller' = [caller EXCEPT ![k].pc = "waiting", ![k].tries = @ + 1, ![k].of = t]
        /\ UNCHANGED <<row, provider, rotated, lost>>

(* getAccessToken() takes the connection's mutex; token t is presented if it must be. *)
Begin(k) ==
    LET c == caller[k].conn
        known == Known(k)
        t == IF known = None /\ row[c].token # None THEN row[c].token ELSE caller[k].held
    IN  /\ Quiet
        /\ caller[k].pc = "loaded"
        /\ task[c] = None
        /\ task' = [task EXCEPT ![c] =
                [presents |-> t, expects |-> Guard(k), asked |-> known = None, got |-> known,
                 stage |-> IF known = None THEN "queued" ELSE "answered"]]
        /\ lane' = IF known = None THEN Append(lane, c) ELSE lane
        /\ caller' = [caller EXCEPT ![k].pc = "waiting", ![k].tries = @ + 1,
                                     ![k].held = t, ![k].of = t]
        /\ UNCHANGED <<row, provider, rotated, lost>>

(* A slip: a queued refresh does not wait for its predecessor. *)
Send_OutOfTurn(c) ==
    /\ Quiet
    /\ c \in {lane[i] : i \in DOMAIN lane}
    /\ task[c].stage = "queued"
    /\ QuickRotations \/ rotated[c] = {}
    /\ task' = [task EXCEPT ![c].stage = "asking"]
    /\ UNCHANGED <<row, provider, rotated, lane, caller, lost>>

(* serializeRefresh(): the predecessor released the lane, the request goes out. *)
Send(c) ==
    /\ Quiet
    /\ task[c] # None
    /\ lane # <<>> /\ Head(lane) = c
    /\ task[c].stage = "queued"
    /\ QuickRotations \/ rotated[c] = {}
    /\ task' = [task EXCEPT ![c].stage = "asking"]
    /\ UNCHANGED <<row, provider, rotated, lane, caller, lost>>

(* What the provider may answer to token t of connection c, and what becomes of it. *)
Answers(c, t) ==
    LET p == provider[c]
    IN  (IF Alive(c, t)
         THEN (IF t < MaxToken THEN {<<t + 1, [p EXCEPT !.newest = t + 1]>>} ELSE {})
              \cup (IF Blips THEN {<<Dead, p>>} ELSE {})
         ELSE {<<Dead, IF p.revoked = "no" /\ t >= p.base
                          THEN [p EXCEPT !.revoked = "reuse"] ELSE p>>})
        \cup {<<None, p>>}

(* The answer arrives; the gap is paid only if somebody waits for the lane. *)
Answer(c) ==
    /\ Quiet
    /\ task[c] # None
    /\ task[c].stage = "asking"
    /\ \E a \in Answers(c, task[c].presents) :
        /\ provider' = [provider EXCEPT ![c] = a[2]]
        /\ task' = [task EXCEPT ![c].got = a[1],
                                ![c].stage = IF Len(lane) > 1 THEN "gap" ELSE "answered"]
    /\ lane' = IF Len(lane) > 1 THEN lane ELSE Tail(lane)
    /\ UNCHANGED <<row, rotated, caller, lost>>

(* A slip: the lane is not released. *)
GapEnds_Held(c) ==
    /\ Quiet
    /\ task[c] # None
    /\ task[c].stage = "gap"
    /\ task' = [task EXCEPT ![c].stage = "answered"]
    /\ UNCHANGED <<row, provider, rotated, lane, caller, lost>>

(* The spacing timer fires. *)
GapEnds(c) ==
    /\ Quiet
    /\ task[c] # None
    /\ task[c].stage = "gap"
    /\ lane' = Tail(lane)
    /\ task' = [task EXCEPT ![c].stage = "answered"]
    /\ UNCHANGED <<row, provider, rotated, caller, lost>>

(* wasRefreshTokenRotated() *)
WasRotated(attempted, latest) == attempted # None /\ latest # None /\ latest # attempted

(* Credentials token t go to a row; isActive is not touched. *)
Stored(r, t) == [r EXCEPT !.token = t, !.fresh = TRUE, !.status = "active"]

(***************************************************************************)
(* The rest of getAccessToken(): the rotation is recorded, the result      *)
(* persisted unless the guard skips it, the mutex released.                *)
(***************************************************************************)
Skipped(c) == WasRotated(task[c].expects, row[c].token)

(* Who writes the tokens of a refresh a second time, whether or not it was persisted. *)
StoresAgain(k) == k \in Reactive \cup Sweep

Settle(c) ==
    LET t == task[c]
        ok == t.got \in Token
    IN  /\ Returned = {}
        /\ Answered(c)
        /\ task' = [task EXCEPT ![c] = None]
        /\ rotated' = IF ok /\ t.asked
                      THEN [rotated EXCEPT ![c] = @ \cup {t.presents}] ELSE rotated
        /\ row' = IF ok /\ ~Skipped(c) THEN [row EXCEPT ![c] = Stored(@, t.got)] ELSE row
        /\ caller' = [k \in Caller |->
                IF k \in Waiting(c) THEN [caller[k] EXCEPT !.pc = "returned", !.got = t.got]
                ELSE caller[k]]
        /\ lost' = IF ok /\ t.asked /\ Skipped(c) /\ ~(\E k \in Waiting(c) : StoresAgain(k))
                   THEN lost \cup {c} ELSE lost
        /\ UNCHANGED <<provider, lane>>

Retries(k) == k \in Reactive /\ caller[k].tries < MaxTries

Again(k) == IF Retries(k) THEN [caller[k] EXCEPT !.pc = "loaded", !.got = None] ELSE Idle

(* A caller goes on after a refresh that yielded tokens. *)
ReturnTokens(k) ==
    /\ caller[k].pc = "returned"
    /\ caller[k].got \in Token
    /\ row' = IF StoresAgain(k)
              THEN [row EXCEPT ![caller[k].conn] = Stored(@, caller[k].got)] ELSE row
    /\ caller' = [caller EXCEPT ![k] = Idle]
    /\ UNCHANGED <<provider, rotated, task, lane, lost>>

(* What a request stores for a token that failed for good. *)
Deactivated(r) == [r EXCEPT !.status = "expired", !.active = FALSE]

(***************************************************************************)
(* What the sweep stores: nothing but an error while the access token      *)
(* still serves (for five minutes, more than fresh asks), or the end of    *)
(* the token, and of the connection too once its retries are used up.      *)
(***************************************************************************)
SweepVerdicts(r) ==
    {[r EXCEPT !.status = "expired", !.token = None, !.active = a] : a \in {r.active, FALSE}}
    \cup (IF r.fresh THEN {[r EXCEPT !.status = "active"]} ELSE {})

(* A slip: nobody looks whether the row has another token by now. *)
Verdicts_Unchecked(k, r) ==
    IF k \in Reactive THEN {Deactivated(r)} ELSE IF k \in Sweep THEN SweepVerdicts(r) ELSE {r}

(* Is it the token of row r that is dead?  Who is ahead of time does not care. *)
Verdicts(k, r) ==
    IF k \in Reactive /\ ~WasRotated(caller[k].attempted, r.token) THEN {Deactivated(r)}
    ELSE IF k \in Sweep /\ r.token = caller[k].attempted THEN SweepVerdicts(r)
    ELSE {r}

(* ... after one that failed for good *)
ReturnError(k) ==
    /\ caller[k].pc = "returned"
    /\ caller[k].got = Dead
    /\ \E r \in Verdicts(k, row[caller[k].conn]) : row' = [row EXCEPT ![caller[k].conn] = r]
    /\ caller' = [caller EXCEPT ![k] = Idle]
    /\ UNCHANGED <<provider, rotated, task, lane, lost>>

(***************************************************************************)
(* buildRefreshFailureUpdate(), buildTransientRefreshRetryUpdate(): the    *)
(* sweep stores the status it loaded, over whatever was stored meanwhile.  *)
(***************************************************************************)
WrittenBack(k, r) == IF k \in Sweep THEN [r EXCEPT !.status = caller[k].loaded] ELSE r

(* ... after one that came to nothing *)
ReturnNull(k) ==
    /\ caller[k].pc = "returned"
    /\ caller[k].got = None
    /\ row' = [row EXCEPT ![caller[k].conn] = WrittenBack(k, @)]
    /\ caller' = [caller EXCEPT ![k] = Again(k)]
    /\ UNCHANGED <<provider, rotated, task, lane, lost>>

(* withTimeout() gives up on an attempt; the refresh goes on without it. *)
Abandon(k) ==
    /\ Quiet
    /\ Abandoning
    /\ k \in Reactive
    /\ caller[k].pc = "waiting"
    /\ caller' = [caller EXCEPT ![k] = Again(k)]
    /\ UNCHANGED <<row, provider, rotated, task, lane, lost>>

-----------------------------------------------------------------------------
(* The access token comes within a minute of its end. *)
Expire(c) ==
    /\ Quiet
    /\ row[c].fresh
    /\ row' = [row EXCEPT ![c].fresh = FALSE]
    /\ UNCHANGED <<provider, rotated, task, lane, caller, lost>>

(* cleanupRotationMap() drops the oldest entry. *)
Forget(c) ==
    /\ Quiet
    /\ \E t \in rotated[c] :
        /\ \A u \in rotated[c] : t <= u
        /\ rotated' = [rotated EXCEPT ![c] = @ \ {t}]
    /\ UNCHANGED <<row, provider, task, lane, caller, lost>>

(* The account's owner revokes the gateway's access. *)
Revoke(c) ==
    /\ Quiet
    /\ c \in Revocable
    /\ provider[c].revoked = "no"
    /\ provider' = [provider EXCEPT ![c].revoked = "user"]
    /\ UNCHANGED <<row, rotated, task, lane, caller, lost>>

(* The operator logs the account in again: a new family, written past the mutex. *)
Login(c) ==
    /\ Quiet
    /\ c \in Revocable
    /\ provider[c].revoked # "no"
    /\ provider[c].newest < MaxToken
    /\ LET t == provider[c].newest + 1
       IN  /\ provider' = [provider EXCEPT ![c] = [base |-> t, newest |-> t, revoked |-> "no"]]
           /\ row' = [row EXCEPT ![c] = [token |-> t, fresh |-> TRUE,
                                           status |-> "active", active |-> TRUE]]
    /\ UNCHANGED <<rotated, task, lane, caller, lost>>

(* The process dies at any moment; a token that was issued and not yet written is gone. *)
Unwritten(c) ==
    /\ row[c].token # provider[c].newest
    /\ \/ task[c] # None /\ task[c].got = provider[c].newest
       \/ \E k \in Returned : caller[k].conn = c /\ caller[k].got = provider[c].newest

Restart ==
    /\ Restarting
    /\ lost' = lost \cup {c \in Conn : Unwritten(c)}
    /\ rotated' = [c \in Conn |-> {}]
    /\ task' = [c \in Conn |-> None]
    /\ lane' = <<>>
    /\ caller' = [k \in Caller |-> Idle]
    /\ UNCHANGED <<row, provider>>

Serve(c) == Send(c) \/ Answer(c) \/ GapEnds(c) \/ Settle(c)

Return(k) == ReturnTokens(k) \/ ReturnError(k) \/ ReturnNull(k)

Next ==
    \/ \E k \in Caller :
        \/ \E c \in Conn : Load(k, c)
        \/ NoNeed(k) \/ Join(k) \/ Begin(k) \/ Return(k) \/ Abandon(k)
    \/ \E c \in Conn : Serve(c) \/ Expire(c) \/ Forget(c) \/ Revoke(c) \/ Login(c)
    \/ Restart

Spec == Init /\ [][Next]_vars

(* Network calls end, timers fire, continuations run, and map entries age. *)
Fairness ==
    /\ \A c \in Conn : WF_vars(Serve(c)) /\ WF_vars(Forget(c))
    /\ \A k \in Caller : WF_vars(Return(k))

FairSpec == Spec /\ Fairness
-----------------------------------------------------------------------------
(* The types of the variables. *)
TypeOK ==
    /\ row \in [Conn -> Row]
    /\ provider \in [Conn -> Provider]
    /\ rotated \in [Conn -> SUBSET Token]
    /\ task \in [Conn -> Task \cup {None}]
    /\ lane \in Seq(Conn)
    /\ caller \in [Caller -> CallerState]
    /\ lost \subseteq Conn

(***************************************************************************)
(* Refreshes of one rotation group do not overlap, the gap after each      *)
(* included (refreshSerializer.ts:74-105).                                 *)
(***************************************************************************)
InLane(c) == task[c] # None /\ task[c].stage \in {"asking", "gap"}

OneAtATime == \A c, d \in Conn : InLane(c) /\ InLane(d) => c = d

(***************************************************************************)
(* No token is presented a second time (the provider would revoke its      *)
(* family, "refresh_token_reused"), whatever waits in the lane or restarts *)
(* in between, unless the answer that replaced it was never stored: the    *)
(* process died, or everybody whose attempt it was had given up.           *)
(***************************************************************************)
PresentedOnce == \A c \in Conn : provider[c].revoked = "reuse" => c \in lost

(* k was answered by a refresh of another token than it had when it failed. *)
SharedAnother(k) == caller[k].of # caller[k].attempted

(* A sweep returns with nothing, to write back the "expired" it loaded. *)
WritesBack(k) == k \in Sweep /\ caller[k].got = None /\ caller[k].loaded = "expired"

(***************************************************************************)
(* A refresh takes an account out of service (isActive, the token itself)  *)
(* only when the token its row has is indeed dead: late errors for a token *)
(* that was rotated or logged in anew meanwhile do not count               *)
(* (chatCore.ts:4022-4045, tokenHealthCheck.ts:1080-1139).  Callers that   *)
(* shared another token's refresh are exempt: getAccessToken does not tell *)
(* them whose error they get.  Nor does the status turn expired, but by a  *)
(* sweep that loaded it so before (tokenHealthCheck.ts:207-218).           *)
(***************************************************************************)
DeactivationJustified ==
    [][\A c \in Conn :
        LET dead == \/ ~Alive(c, row[c].token)
                    \/ \E k \in Returned : caller[k].conn = c /\ SharedAnother(k)
        IN  /\ row[c].active /\ ~row'[c].active => dead
            /\ row[c].token # None /\ row'[c].token = None => dead
            /\ row[c].status = "active" /\ row'[c].status = "expired"
                  => dead \/ \E k \in Returned : caller[k].conn = c /\ WritesBack(k)]_vars

(* Who shares a refresh, queued in the lane or not, gets its answer. *)
EveryoneAnswered ==
    \A k \in Caller : caller[k].pc = "waiting" ~> caller[k].pc # "waiting"

(***************************************************************************)
(* "SKIPS the persist so the DB stays at the fresher state"                *)
(* (casGuard.ts:17): while the provider does nothing, a row with the live  *)
(* token is not overwritten with a dead one.                               *)
(***************************************************************************)
FresherRowKept ==
    [][\A c \in Conn : provider'[c] = provider[c] /\ Alive(c, row[c].token)
                         => Alive(c, row'[c].token)]_vars
=============================================================================
