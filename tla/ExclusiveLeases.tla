----------------------------- MODULE ExclusiveLeases -----------------------------
(***************************************************************************)
(* The table of exclusive connection leases, src/lib/db/                   *)
(* exclusiveConnectionLeases.ts: an owner (a managed client session) holds *)
(* at most one connection, a connection has at most one owner, and every   *)
(* period of ownership carries a generation that fences late requests.     *)
(*                                                                         *)
(* Every exported function is one IMMEDIATE SQLite transaction that first  *)
(* expires the leases whose time is over, by the `now` of its caller.      *)
(* Rows are never deleted.  Nothing is assumed of successive values of     *)
(* `now`: it is a wall clock, and may be given by the caller.              *)
(***************************************************************************)
EXTENDS Integers, Sequences, FiniteSets

CONSTANTS
    Owner,       \* lease_owner_hash
    ApiKey,      \* api_key_id
    Connection,  \* connection_id
    Instant,     \* the values of `now`
    Ttl,         \* the values of ttlMs after its clamping
    MaxRows      \* bound of the model: rows inserted

ASSUME LeasesAssumption ==
    /\ Instant \subseteq Nat
    /\ Ttl \subseteq Nat \ {0}
    /\ MaxRows \in Nat

VARIABLE rows    \* exclusive_connection_leases in the order of `id`

State == {"ACTIVE", "RELEASED", "EXPIRED", "INVALIDATED"}

Row == [owner : Owner, key : ApiKey, conn : Connection,
        gen : Nat \ {0}, state : State, expires : Nat]

Init == rows = << >>

-----------------------------------------------------------------------------
(* The queries.  tbl is a state of the table. *)

Active(tbl) == {i \in DOMAIN tbl : tbl[i].state = "ACTIVE"}

ActiveOf(tbl, o) == {i \in Active(tbl) : tbl[i].owner = o}

HolderOf(tbl, c) == {i \in Active(tbl) : tbl[i].conn = c}

(* historical(): the latest row of a generation. *)
Historical(tbl, o, g) ==
    {i \in DOMAIN tbl :
        /\ tbl[i].owner = o /\ tbl[i].gen = g
        /\ \A j \in DOMAIN tbl : tbl[j].owner = o /\ tbl[j].gen = g => j <= i}

(* The rows renew, release and invalidate update. *)
Current(tbl, o, g, k, now) ==
    {i \in ActiveOf(tbl, o) : tbl[i].gen = g /\ tbl[i].key = k /\ tbl[i].expires > now}

(* MAX(generation) over all the rows of the owner, COALESCEd to 0. *)
LastGeneration(tbl, o) ==
    CHOOSE g \in {0} \cup {tbl[i].gen : i \in {j \in DOMAIN tbl : tbl[j].owner = o}} :
        \A i \in DOMAIN tbl : tbl[i].owner = o => tbl[i].gen <= g

(* A slip: only active rows are asked for the last generation. *)
NextGeneration_ForgetsHistory(tbl, o) == IF ActiveOf(tbl, o) = {} THEN 1 ELSE 2

(* A slip: the last generation is handed out again. *)
NextGeneration_TheLast(tbl, o) == LastGeneration(tbl, o)

NextGeneration(tbl, o) == LastGeneration(tbl, o) + 1

-----------------------------------------------------------------------------
(* expire(): the first statement of every transaction. *)
Expired(now) ==
    [i \in DOMAIN rows |->
        IF rows[i].state = "ACTIVE" /\ rows[i].expires <= now
        THEN [rows[i] EXCEPT !.state = "EXPIRED"]
        ELSE rows[i]]

Insert(tbl, o, k, c, g, expires) ==
    /\ Len(tbl) < MaxRows
    /\ rows' = Append(tbl, [owner |-> o, key |-> k, conn |-> c, gen |-> g,
                            state |-> "ACTIVE", expires |-> expires])

Reconcile(now) == rows' = Expired(now)

(***************************************************************************)
(* acquire: the owner's own lease is renewed if it is for this key and     *)
(* connection; else the owner must have none and the connection be free.   *)
(***************************************************************************)
(* A slip: nobody asks whether the connection is leased. *)
Acquire_TakesBusy(o, k, c, now, ttl, kind) ==
    LET tbl == Expired(now)
        held == ActiveOf(tbl, o)
    IN  /\ kind = "ACQUIRED"
        /\ held = {}
        /\ Insert(tbl, o, k, c, NextGeneration(tbl, o), now + ttl)

Acquire(o, k, c, now, ttl, kind) ==
    LET tbl == Expired(now)
        held == ActiveOf(tbl, o)
        mine == {i \in held : tbl[i].key = k /\ tbl[i].conn = c}
    IN  \/ /\ kind = "OWNER_ALREADY_ACTIVE"
           /\ held \ mine # {}
           /\ rows' = tbl
        \/ /\ kind = "REUSED"
           /\ \E i \in mine : rows' = [tbl EXCEPT ![i].expires = now + ttl]
        \/ /\ kind = "CONNECTION_BUSY"
           /\ held = {} /\ HolderOf(tbl, c) # {}
           /\ rows' = tbl
        \/ /\ kind = "ACQUIRED"
           /\ held = {} /\ HolderOf(tbl, c) = {}
           /\ Insert(tbl, o, k, c, NextGeneration(tbl, o), now + ttl)

(***************************************************************************)
(* transition: the owner's lease moves to another connection and keeps its *)
(* generation; the old row ends as INVALIDATED.                            *)
(***************************************************************************)
(* A slip: the old row is left ACTIVE. *)
Transition_KeepsBoth(o, g, k, c, now, ttl, kind) ==
    LET tbl == Expired(now)
        mine == {i \in ActiveOf(tbl, o) : tbl[i].gen = g /\ tbl[i].key = k}
    IN  /\ kind = "TRANSITIONED"
        /\ HolderOf(tbl, c) = {}
        /\ \E i \in mine : Insert(tbl, o, k, c, g, now + ttl)

Transition(o, g, k, c, now, ttl, kind) ==
    LET tbl == Expired(now)
        mine == {i \in ActiveOf(tbl, o) : tbl[i].gen = g /\ tbl[i].key = k}
    IN  \/ /\ kind = "STALE"
           /\ mine = {}
           /\ rows' = tbl
        \/ /\ kind = "REUSED"
           /\ \E i \in mine : tbl[i].conn = c
           /\ rows' = tbl
        \/ /\ kind = "CONNECTION_BUSY"
           /\ \E i \in mine : tbl[i].conn # c
           /\ HolderOf(tbl, c) # {}
           /\ rows' = tbl
        \/ /\ kind = "TRANSITIONED"
           /\ HolderOf(tbl, c) = {}
           /\ \E i \in mine :
                /\ tbl[i].conn # c
                /\ Insert([tbl EXCEPT ![i].state = "INVALIDATED"], o, k, c, g, now + ttl)

(* renew: a lease that is over cannot be renewed. *)
Renew(o, g, k, now, ttl, kind) ==
    LET tbl == Expired(now)
        current == Current(tbl, o, g, k, now)
    IN  \/ /\ kind = "RENEWED"
           /\ \E i \in current : rows' = [tbl EXCEPT ![i].expires = now + ttl]
        \/ /\ kind = "STALE"
           /\ current = {}
           /\ rows' = tbl

(* The generation was released before: the answer to a repeated release. *)
Accepted(tbl, o, g, k) ==
    \E i \in Historical(tbl, o, g) : tbl[i].state = "RELEASED" /\ tbl[i].key = k

(* release: repeated after it succeeded, it succeeds again. *)
Release(o, g, k, now, kind) ==
    LET tbl == Expired(now)
        current == Current(tbl, o, g, k, now)
    IN  \/ /\ kind = "RELEASED"
           /\ \E i \in current : rows' = [tbl EXCEPT ![i].state = "RELEASED"]
        \/ /\ kind = "RELEASED"
           /\ current = {} /\ Accepted(tbl, o, g, k)
           /\ rows' = tbl
        \/ /\ kind = "STALE"
           /\ current = {} /\ ~Accepted(tbl, o, g, k)
           /\ rows' = tbl

Invalidate(o, g, k, now, kind) ==
    LET tbl == Expired(now)
        current == Current(tbl, o, g, k, now)
    IN  \/ /\ kind = "INVALIDATED"
           /\ \E i \in current : rows' = [tbl EXCEPT ![i].state = "INVALIDATED"]
        \/ /\ kind = "STALE"
           /\ current = {}
           /\ rows' = tbl

Kind == {"ACQUIRED", "REUSED", "OWNER_ALREADY_ACTIVE", "CONNECTION_BUSY",
         "TRANSITIONED", "RENEWED", "RELEASED", "INVALIDATED", "STALE"}

(* A presented generation may be any number the clients can have seen. *)
Generation == 1 .. MaxRows

Next ==
    \E now \in Instant :
        \/ Reconcile(now)
        \/ \E o \in Owner, k \in ApiKey, kind \in Kind :
            \/ \E c \in Connection, ttl \in Ttl : Acquire(o, k, c, now, ttl, kind)
            \/ \E g \in Generation, c \in Connection, ttl \in Ttl :
                    Transition(o, g, k, c, now, ttl, kind)
            \/ \E g \in Generation, ttl \in Ttl : Renew(o, g, k, now, ttl, kind)
            \/ \E g \in Generation : Release(o, g, k, now, kind)
            \/ \E g \in Generation : Invalidate(o, g, k, now, kind)

Spec == Init /\ [][Next]_rows

-----------------------------------------------------------------------------
(* Type invariant: the CHECKs and NOT NULLs of the table. *)
TypeOK == rows \in Seq(Row)

(***************************************************************************)
(* Two rows are never ACTIVE for one owner or one connection.  The model's *)
(* INSERT does not enforce the unique indices: the transactions alone keep *)
(* to them, and the constraint error that acquire and transition catch     *)
(* cannot happen among them.                                               *)
(***************************************************************************)
ExclusiveOwnership ==
    \A i, j \in Active(rows) :
        rows[i].owner = rows[j].owner \/ rows[i].conn = rows[j].conn => i = j

(***************************************************************************)
(* An owner's rows are in generation order, and within one generation all  *)
(* rows but the last were INVALIDATED by a transition and bear one key:    *)
(* historical(), which reads only the last row, and the fence, which reads *)
(* only the active row, see the whole truth about a generation.            *)
(***************************************************************************)
HistoryInOrder ==
    \A i, j \in DOMAIN rows :
        i < j /\ rows[i].owner = rows[j].owner =>
            /\ rows[i].state # "ACTIVE"
            /\ rows[i].gen <= rows[j].gen
            /\ rows[i].gen = rows[j].gen =>
                    rows[i].state = "INVALIDATED" /\ rows[i].key = rows[j].key

(* The generation g of owner o has been handed out, or is in force. *)
Issued(o, g) == \E i \in DOMAIN rows : rows[i].owner = o /\ rows[i].gen = g

InForce(o, g) == \E i \in ActiveOf(rows, o) : rows[i].gen = g

(***************************************************************************)
(* A generation that ended is never in force again and its number is never *)
(* handed out again, so that a late request that presents it is rejected   *)
(* for ever; and no operation rewrites history.                            *)
(***************************************************************************)
EndedForGood ==
    [][ /\ \A o \in Owner : \A i \in DOMAIN rows :
            rows[i].owner = o /\ ~InForce(o, rows[i].gen) => ~InForce(o, rows[i].gen)'
        /\ \A i \in DOMAIN rows :
            /\ i \in DOMAIN rows'
            /\ rows[i].state # "ACTIVE" => rows'[i] = rows[i]
      ]_rows

(***************************************************************************)
(* A client that lost the answer to its release may repeat it at any later *)
(* time and is told RELEASED again, even after the owner took new leases.  *)
(***************************************************************************)
ReleaseRepeats ==
    [][\A i \in DOMAIN rows :
        LET o == rows[i].owner  g == rows[i].gen  k == rows[i].key
        IN  Accepted(rows, o, g, k) => Accepted(rows', o, g, k)]_rows

(* The assignment and the generations the table stands for. *)
Claims == {<<rows[i].owner, rows[i].key, rows[i].conn, rows[i].gen>> : i \in Active(rows)}

Ownership == INSTANCE LeaseOwnership WITH
    claims <- Claims, issued <- [o \in Owner |-> LastGeneration(rows, o)]

(***************************************************************************)
(* The table implements LeaseOwnership: acquire grants the next generation *)
(* of an owner that has no lease, transition moves its lease and keeps the *)
(* generation, and everything else only ends leases.                       *)
(***************************************************************************)
ImplementsLeaseOwnership == Ownership!Spec
=============================================================================
