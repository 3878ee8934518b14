-------------------------------- MODULE FairQueue --------------------------------
(***************************************************************************)
(* FairCostQueue of open-sse/services/admission/queue.ts: requests wait in *)
(* a bucket per tenant, the buckets stand in a line and a cursor walks     *)
(* along it.  A head that does not fit is passed over, and after           *)
(* MaxSkips pass-overs it reserves the capacity for itself.                *)
(*                                                                         *)
(* A queue is a record                                                     *)
(*   order:   the tenants that have a bucket, in line                      *)
(*   bucket:  the bucket of each tenant, empty if it has none              *)
(*   cursor:  a place in the line, counted from 1                          *)
(*   skips:   skipCount of each request                                    *)
(*   older:   the pairs of waiting requests, the one with the lower        *)
(*            enqueuedAtMs first (no two requests have the same)           *)
(* and the class's count and cost are those of its entries.                *)
(***************************************************************************)
EXTENDS Integers, FiniteSets, SequencesExt

CONSTANTS
    Entry,     \* whoever may wait; a request that is done may come again
    Cost,      \* the cost of each request
    TenantKey  \* the keys of the buckets

(* normalizeRequestCost(): a cost is a positive integer. *)
ASSUME CostAssumption == IsFiniteSet(Entry) /\ Cost \in [Entry -> Nat \ {0}]

MaxSkips == 2

CostOf(R) == MapThenSumSet(LAMBDA r : Cost[r], R)

(* x after the turns 1 to n of a loop: step(y, i) is what turn i makes of y. *)
Turns(step(_, _), x, n) ==
    LET run[i \in 0..n] == IF i = 0 THEN x ELSE step(run[i - 1], i) IN run[n]

(* The buckets of a queue, and likewise the controller's lanes *)
NoBuckets == [order |-> <<>>, bucket |-> [t \in TenantKey |-> <<>>]]

Queue == [order : Seq(TenantKey), bucket : [TenantKey -> Seq(Entry)], cursor : Nat \ {0},
          skips : [Entry -> Nat], older : SUBSET (Entry \X Entry)]

EmptyQueue == [order |-> NoBuckets.order, bucket |-> NoBuckets.bucket, cursor |-> 1,
               skips |-> [r \in Entry |-> 0], older |-> {}]

Entries(b) == UNION {ToSet(b.bucket[t]) : t \in TenantKey}

Place(q) == DOMAIN q.order

First(q, p) == Head(q.bucket[q.order[p]])

(* How far the cursor has to walk to a place. *)
Turn(q, p) == IF p >= q.cursor THEN p - q.cursor ELSE p - q.cursor + Len(q.order)

Position(s, x) == CHOOSE i \in DOMAIN s : s[i] = x

Spliced(s, x) == RemoveAt(s, Position(s, x))

TenantOf(b, r) == CHOOSE t \in TenantKey : r \in ToSet(b.bucket[t])

(* canAccept(), under the caps of the queue *)
Accepts(b, r, maxCount, maxCost) ==
    /\ Cardinality(Entries(b)) < maxCount
    /\ Cost[r] <= maxCost - CostOf(Entries(b))

(* r goes to the end of its tenant's bucket, and a new bucket to the end of the
   line. *)
Pushed(b, r, tenant) ==
    [b EXCEPT !.order = IF b.bucket[tenant] = <<>> THEN Append(@, tenant) ELSE @,
              !.bucket[tenant] = Append(@, r)]

(* enqueue(), of an entry the queue accepts *)
Enqueued(q, r, tenant) == [Pushed(q, r, tenant) EXCEPT !.older = @ \cup (Entries(q) \X {r})]

(* An entry that leaves takes its skipCount along. *)
Gone(q, r) == [q EXCEPT !.skips[r] = 0, !.older = {pair \in @ : r \notin {pair[1], pair[2]}}]

-----------------------------------------------------------------------------
(* A slip: the cursor does not wrap when the last bucket empties. *)
TakenAt_Unwrapped(q, p) ==
    LET rest == Tail(q.bucket[q.order[p]])
    IN  [Gone(q, First(q, p)) EXCEPT
            !.bucket[q.order[p]] = rest,
            !.order = IF rest = <<>> THEN RemoveAt(@, p) ELSE @,
            !.cursor = IF rest = <<>> THEN p ELSE (p % Len(q.order)) + 1]

(* takeAt(): the place after the bucket served has the next turn, which is the
   same place when the bucket is empty and leaves the line. *)
TakenAt(q, p) ==
    LET rest == Tail(q.bucket[q.order[p]])
        order == IF rest = <<>> THEN RemoveAt(q.order, p) ELSE q.order
        next == IF rest = <<>> THEN p ELSE p + 1
    IN  [Gone(q, First(q, p)) EXCEPT
            !.bucket[q.order[p]] = rest,
            !.order = order,
            !.cursor = IF next > Len(order) THEN 1 ELSE next]

(* The heads that have been passed over often enough *)
Reserved(q) == {p \in Place(q) : q.skips[First(q, p)] >= MaxSkips}

Fitting(q, room) == {p \in Place(q) : Cost[First(q, p)] <= room}

(* A slip: the cursor alone decides. *)
Chosen_NoReservation(q, room) ==
    {p \in Fitting(q, room) : \A o \in Fitting(q, room) : Turn(q, p) <= Turn(q, o)}

(* The place dequeue() takes from, if any: that of the oldest reserved head,
   provided it fits; without one, the first in turn that fits. *)
Chosen(q, room) ==
    LET reserved == Reserved(q)
        fitting == Fitting(q, room)
    IN  IF reserved # {}
        THEN {p \in reserved : \A o \in reserved \ {p} :
                 <<First(q, p), First(q, o)>> \in q.older} \cap fitting
        ELSE {p \in fitting : \A o \in fitting : Turn(q, p) <= Turn(q, o)}

(* Whom dequeue() takes, if anybody *)
Taken(q, room) == {First(q, p) : p \in Chosen(q, room)}

(* Those it passes over: without a reservation, the heads that had their turn
   before *)
PassedOver(q, room) ==
    LET chosen == Chosen(q, room)
    IN  IF Reserved(q) # {} THEN {}
        ELSE {First(q, o) : o \in {o \in Place(q) : \A p \in chosen : Turn(q, o) < Turn(q, p)}}

(* dequeue(): the queue that remains *)
Dequeued(q, room) ==
    LET chosen == Chosen(q, room)
        passed == PassedOver(q, room)
        aged == [r \in Entry |-> IF r \in passed THEN q.skips[r] + 1 ELSE q.skips[r]]
    IN  IF chosen = {} THEN q
        ELSE TakenAt([q EXCEPT !.skips = aged], CHOOSE p \in chosen : TRUE)

(* removeById(): the cursor goes on pointing at the bucket it pointed at, or at
   that bucket's successor. *)
Removed(q, r) ==
    LET tenant == TenantOf(q, r)
        rest == Spliced(q.bucket[tenant], r)
        p == Position(q.order, tenant)
        order == IF rest = <<>> THEN RemoveAt(q.order, p) ELSE q.order
    IN  [Gone(q, r) EXCEPT
            !.bucket[tenant] = rest,
            !.order = order,
            !.cursor = IF rest # <<>> THEN @
                       ELSE IF p < @ THEN @ - 1
                       ELSE IF @ > Len(order) THEN 1 ELSE @]

(* drain(): the entries in the order dequeue() gives them when all fit *)
Drained(q) ==
    LET all == CostOf(Entry)
        drain(was, i) == [queue |-> Dequeued(was.queue, all),
                          out |-> was.out \o SetToSeq(Taken(was.queue, all))]
    IN  Turns(drain, [queue |-> q, out |-> <<>>], Cardinality(Entries(q))).out

-----------------------------------------------------------------------------
(* Buckets as their operations leave them: a tenant stands in line once, if it
   has somebody waiting, and nobody waits twice. *)
Orderly(b) ==
    /\ IsInjective(b.order)
    /\ \A t \in TenantKey : b.bucket[t] # <<>> <=> t \in ToSet(b.order)
    /\ \A t, u \in TenantKey : \A i \in DOMAIN b.bucket[t], j \in DOMAIN b.bucket[u] :
          b.bucket[t][i] = b.bucket[u][j] => t = u /\ i = j

(* The waiting requests have an order of arrival, and a bucket keeps to it. *)
Chronological(q) ==
    /\ q.older \subseteq Entries(q) \X Entries(q)
    /\ \A r \in Entries(q) : <<r, r>> \notin q.older
    /\ \A r, s, u \in Entries(q) :
          <<r, s>> \in q.older /\ <<s, u>> \in q.older => <<r, u>> \in q.older
    /\ \A r, s \in Entries(q) : r = s \/ <<r, s>> \in q.older \/ <<s, r>> \in q.older
    /\ \A t \in TenantKey : \A i, j \in DOMAIN q.bucket[t] :
          i < j => <<q.bucket[t][i], q.bucket[t][j]>> \in q.older

(***************************************************************************)
(* What every queue operation relies on and keeps: orderly buckets, a      *)
(* cursor on the line, requests that are ordered by their arrival, each    *)
(* tenant's too, and nobody but a head who has been passed over.           *)
(***************************************************************************)
WellFormed(q) ==
    /\ Orderly(q)
    /\ IF q.order = <<>> THEN q.cursor = 1 ELSE q.cursor \in Place(q)
    /\ Chronological(q)
    /\ \A r \in Entry : q.skips[r] > 0 => \E p \in Place(q) : First(q, p) = r
=============================================================================
