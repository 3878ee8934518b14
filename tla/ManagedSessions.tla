----------------------------- MODULE ManagedSessions -----------------------------
(***************************************************************************)
(* Managed client sessions on top of the lease table: the lifecycle route  *)
(* src/app/api/v1/session-leases/route.ts (acquire, renew, release), and   *)
(* the managed inference calls that select a connection, wait for its      *)
(* quota preflight, claim it and pass the fence before every dispatch      *)
(* (src/sse/services/auth.ts, exclusiveConnectionLeasePolicy.ts).          *)
(*                                                                         *)
(* Between two actions of a call the event loop runs others: selection,    *)
(* preflight and dispatch are separated by awaits.  Which connections are  *)
(* ordinarily eligible (health, quota, cooldown, model) may change at any  *)
(* time and is a free choice of every selection.                           *)
(***************************************************************************)
EXTENDS ExclusiveLeases

CONSTANTS
    Call,          \* calls of getProviderCredentialsWithQuotaPreflight
    NoConnection   \* a call that has not selected yet

VARIABLE call    \* the state of each call

vars == <<rows, call>>

(* An "acquire" call comes from the lifecycle route, a "request" call from an
   inference request that presents a generation. *)
Mode == {"acquire", "request"}

Phase == {"idle", "selecting", "selected", "claimed", "sent", "done"}

CallState == [phase : Phase, mode : Mode, owner : Owner, key : ApiKey, gen : Generation,
              pool : SUBSET Connection, conn : Connection \cup {NoConnection}]

SessionInit ==
    /\ Init
    /\ call \in [Call -> {s \in CallState : s.phase = "idle" /\ s.pool = Connection
                                            /\ s.conn = NoConnection}]
    /\ \A r \in Call : call[r].mode = "acquire" => call[r].gen = 1

To(r, phase) == call' = [call EXCEPT ![r].phase = phase]

(* The connection is left out of the call's further selections. *)
Without(r) == [call EXCEPT ![r].phase = "selecting", ![r].pool = @ \ {call[r].conn}]

Arrive(r) ==
    /\ call[r].phase = "idle"
    /\ To(r, "selecting")
    /\ UNCHANGED rows

-----------------------------------------------------------------------------
(***************************************************************************)
(* Selection among the eligible connections: a request must have a lease   *)
(* in force, with its generation and key; connections of other owners are  *)
(* filtered out; the connection the owner has is preferred.                *)
(***************************************************************************)
Held(tbl, r) == ActiveOf(tbl, call[r].owner)

Refused(tbl, r) ==
    \/ call[r].mode = "request"
       /\ \A i \in Held(tbl, r) : tbl[i].gen # call[r].gen
    \/ \E i \in Held(tbl, r) : tbl[i].key # call[r].key

Candidates(tbl, r, eligible) ==
    {c \in eligible : \A i \in HolderOf(tbl, c) : tbl[i].owner = call[r].owner}

InvalidateOwn(r, now) ==
    /\ call[r].mode = "request"
    /\ \E kind \in Kind : Invalidate(call[r].owner, call[r].gen, call[r].key, now, kind)

Select(r, now) ==
    LET tbl == Expired(now)
    IN  /\ call[r].phase = "selecting"
        /\ \/ /\ rows' = tbl
              /\ ~Refused(tbl, r)
              /\ \E eligible \in SUBSET call[r].pool :
                   \E c \in Candidates(tbl, r, eligible) :
                      /\ \A i \in Held(tbl, r) :
                            tbl[i].conn \in eligible => c = tbl[i].conn
                      /\ call' = [call EXCEPT ![r].phase = "selected", ![r].conn = c]
           \/ \* refused by the policy, or the forced connection is another one
              /\ rows' = tbl
              /\ Refused(tbl, r) \/ (call[r].mode = "request" /\ Held(tbl, r) # {})
              /\ To(r, "done")
           \/ \* nothing eligible: the lease is given up, or kept
              /\ rows' = rows \/ InvalidateOwn(r, now)
              /\ To(r, "done")
           \/ \* everything eligible belongs to other owners
              /\ ~Refused(tbl, r)
              /\ \E eligible \in SUBSET call[r].pool \ {{}} : Candidates(tbl, r, eligible) = {}
              /\ InvalidateOwn(r, now) \/ (rows' = tbl /\ call[r].mode = "acquire")
              /\ To(r, "done")

(* A slip: the blocked connection may be selected again. *)
PreflightBlocks_Retries(r) ==
    /\ call[r].phase = "selected"
    /\ To(r, "selecting")
    /\ UNCHANGED rows

(* The quota preflight the call awaited blocks the connection. *)
PreflightBlocks(r) ==
    /\ call[r].phase = "selected"
    /\ call' = Without(r)
    /\ UNCHANGED rows

(***************************************************************************)
(* commitLease(), after the preflight: the lease in force is read again.   *)
(* If there is one it is moved to the selected connection, and if there is *)
(* none one is acquired, whatever the mode of the call.                    *)
(***************************************************************************)
(* A slip: what the selection found free is taken to be free still. *)
Claim_Unchecked(r, now, ttl, kind) ==
    Acquire_TakesBusy(call[r].owner, call[r].key, call[r].conn, now, ttl, kind)

Claim(r, now, ttl, kind) ==
    LET tbl == Expired(now)
        me == call[r]
    IN  \/ \E i \in Held(tbl, r) :
              Transition(me.owner, IF me.mode = "acquire" THEN tbl[i].gen ELSE me.gen,
                         me.key, me.conn, now, ttl, kind)
        \/ /\ Held(tbl, r) = {}
           /\ Acquire(me.owner, me.key, me.conn, now, ttl, kind)

Commit(r, now) ==
    /\ call[r].phase = "selected"
    /\ \E ttl \in Ttl, kind \in Kind :
        /\ Claim(r, now, ttl, kind)
        /\ \/ kind = "CONNECTION_BUSY" /\ call' = Without(r)
           \/ kind \in {"STALE", "OWNER_ALREADY_ACTIVE"} /\ To(r, "done")
           \/ /\ kind \in {"ACQUIRED", "REUSED", "TRANSITIONED"}
              /\ To(r, IF call[r].mode = "acquire" THEN "done" ELSE "claimed")

(* A slip: the fence does not look at the generation. *)
FenceValid_AnyGeneration(tbl, r) ==
    \E i \in Held(tbl, r) : tbl[i].key = call[r].key /\ tbl[i].conn = call[r].conn

(* assertExclusiveConnectionLeaseFence() answers VALID. *)
FenceValid(tbl, r) ==
    \E i \in Held(tbl, r) :
        tbl[i].gen = call[r].gen /\ tbl[i].key = call[r].key /\ tbl[i].conn = call[r].conn

(* The fence, in the same turn of the event loop as the dispatch. *)
Dispatch(r, now) ==
    /\ call[r].phase = "claimed"
    /\ rows' = Expired(now)
    /\ To(r, IF FenceValid(Expired(now), r) THEN "sent" ELSE "done")

(* The upstream fails and the same connection is tried again. *)
Retry(r) ==
    /\ call[r].phase = "sent"
    /\ To(r, "claimed")
    /\ UNCHANGED rows

(* The upstream fails and the handler asks for another connection. *)
FailOver(r) ==
    /\ call[r].phase = "sent"
    /\ call' = Without(r)
    /\ UNCHANGED rows

Finish(r) ==
    /\ call[r].phase \in {"claimed", "sent"}
    /\ To(r, "done")
    /\ UNCHANGED rows

(* The lifecycle route. *)
ClientRenews(o, g, k, now) ==
    /\ \E ttl \in Ttl, kind \in Kind : Renew(o, g, k, now, ttl, kind)
    /\ UNCHANGED call

ClientReleases(o, g, k, now) ==
    /\ \E kind \in Kind : Release(o, g, k, now, kind)
    /\ UNCHANGED call

(* Any other read of the table: unmanaged selection, occupancy. *)
Read(now) == Reconcile(now) /\ UNCHANGED call

CallStep(r) ==
    \/ PreflightBlocks(r) \/ Retry(r) \/ FailOver(r) \/ Finish(r)
    \/ \E now \in Instant : Select(r, now) \/ Commit(r, now) \/ Dispatch(r, now)

SessionNext ==
    \/ \E r \in Call : Arrive(r) \/ CallStep(r)
    \/ \E now \in Instant :
        \/ Read(now)
        \/ \E o \in Owner, g \in Generation, k \in ApiKey :
                ClientRenews(o, g, k, now) \/ ClientReleases(o, g, k, now)

SessionSpec == SessionInit /\ [][SessionNext]_vars

(***************************************************************************)
(* Every call goes on: its awaits end (the preflight and the upstream are  *)
(* under timeouts), and a dispatch is not retried for ever.                *)
(***************************************************************************)
Fairness ==
    \A r \in Call :
        /\ WF_vars(\E now \in Instant : Select(r, now))
        /\ WF_vars(PreflightBlocks(r) \/ \E now \in Instant : Commit(r, now))
        /\ WF_vars(Finish(r) \/ FailOver(r))

FairSpec == SessionSpec /\ Fairness

-----------------------------------------------------------------------------
(***************************************************************************)
(* Whatever happened to the lease during the awaits of a call (released,   *)
(* lapsed, moved by another call of the owner), a request is only          *)
(* dispatched on a connection its owner holds, under the generation and    *)
(* the key the request presents, at the moment of dispatch.                *)
(***************************************************************************)
DispatchFenced ==
    [][\A r \in Call :
        call[r].phase # "sent" /\ call'[r].phase = "sent" =>
            \E i \in ActiveOf(rows', call[r].owner) :
                /\ rows'[i].gen = call[r].gen
                /\ rows'[i].key = call[r].key
                /\ rows'[i].conn = call[r].conn]_vars

(***************************************************************************)
(* Calls touch the table only as its operations allow, so what holds of    *)
(* the table alone (one owner per connection, generations that end for     *)
(* good) holds of the sessions.                                            *)
(***************************************************************************)
TableDiscipline == Spec

(***************************************************************************)
(* The loop that selects, preflights and claims ends: each turn excludes   *)
(* a connection, however often the call loses the race for one.            *)
(***************************************************************************)
CallsEnd == \A r \in Call : call[r].phase = "selecting" ~> call[r].phase = "done"

(***************************************************************************)
(* Only the lifecycle route's acquire starts a new generation; a request   *)
(* at most moves the generation it presents to another connection.         *)
(***************************************************************************)
OnlyAcquireGrants ==
    [][\A o \in Owner, r \in Call :
        /\ LastGeneration(rows', o) # LastGeneration(rows, o)
        /\ call'[r] # call[r]
        => call[r].mode = "acquire"]_vars
=============================================================================
