----------------------------- MODULE AdmissionControl -----------------------------
(***************************************************************************)
(* AdaptiveAdmissionController of open-sse/services/admission: requests of *)
(* several tenants are admitted while their costs fit under a limit that   *)
(* adapts; the others wait in a fair queue, or with virtual lanes in a     *)
(* lane of their tenant.  In shadow mode everybody is admitted and the     *)
(* controller keeps books on what it would have done.                      *)
(*                                                                         *)
(* Each action is a handler that runs to its end, the dispatches it makes  *)
(* included.  A call the controller turns away, and any call in mode off,  *)
(* changes nothing and is no action.  A request that was let go may come   *)
(* again.                                                                  *)
(***************************************************************************)
EXTENDS FairQueue

CONSTANTS
    Tenant,  \* the tenant of each request, Default if it names none
    Default,
    Configs, \* the configurations the controller may get
    MaxLanes \* ADMISSION_LANE_MAX_SESSIONS

Mode == {"off", "shadow", "enforce"}

Config == [mode : Mode, virtualLanes : BOOLEAN, min : Nat \ {0}, max : Nat \ {0},
           initial : Nat \ {0}, maxQueueCount : Nat \ {0}, maxQueueCost : Nat \ {0}]

(* validateConfig() sees to the bounds of a configuration. *)
ASSUME AdmissionAssumption ==
    /\ Configs \subseteq Config
    /\ \A c \in Configs : c.min <= c.max
    /\ MaxLanes \in Nat \ {0}
    /\ Tenant \in [Entry -> TenantKey]
    /\ {Default, "_existing"} \subseteq TenantKey

VARIABLES
    config,
    limit,     \* adaptation.currentLimit
    pressure,
    lowered,   \* criticalDecreaseConsumed: this window has lowered the limit at once
    shutDown,
    fairQueue, \* the shared queue
    lanes,     \* the tenants' lanes, in the order of the map
    active,    \* the requests that hold a lease
    late,      \* those waiting whose deadline passed, or whose client left, unnoticed as yet
    shadow     \* the virtual queue, active cost, and disposition of each record

controlVars ==
    <<config, limit, pressure, lowered, shutDown, fairQueue, lanes, active, late, shadow>>

Clamp(n, c) == IF n < c.min THEN c.min ELSE IF n > c.max THEN c.max ELSE n

Severity == [normal |-> 0, high |-> 1, critical |-> 2]

Disposition == {"none", "active", "queued", "rejected"}

NoShadow == [queue |-> EmptyQueue, cost |-> 0, as |-> [r \in Entry |-> "none"]]

InLanes == Entries(lanes)

Queued == Entries(fairQueue) \cup InLanes

Absent(r) == r \notin active \cup Queued

ControlInit ==
    /\ config \in Configs
    /\ limit = Clamp(config.initial, config)
    /\ pressure = "normal"
    /\ lowered = FALSE
    /\ shutDown = FALSE
    /\ fairQueue = EmptyQueue
    /\ lanes = NoBuckets
    /\ active = {}
    /\ late = {}
    /\ shadow = NoShadow

-----------------------------------------------------------------------------
(***************************************************************************)
(* Dispatch works on a desk: the limit, the queues and those admitted.     *)
(***************************************************************************)
desk == [limit |-> limit, queue |-> fairQueue, lanes |-> lanes, active |-> active, late |-> late]

Room(d) == d.limit - CostOf(d.active)

(* A slip: nobody looks at the deadline, or the signal, once more. *)
LetIn_Late(d, R) == [d EXCEPT !.active = @ \cup R, !.late = @ \ R]

(* Whoever left the queue is admitted, unless it is too late for that. *)
LetIn(d, R) == [d EXCEPT !.active = @ \cup (R \ d.late), !.late = @ \ R]

(* The loop of dispatch(), which goes round at most once for each entry *)
SharedServed(d) ==
    LET serve(was, i) == [LetIn(was, Taken(was.queue, Room(was))) EXCEPT
                             !.queue = Dequeued(was.queue, Room(was))]
    IN  Turns(serve, d, Cardinality(Entries(d.queue)))

(* removeEmptyLane() *)
Closed(b, t) == [b EXCEPT !.order = IF b.bucket[t] = <<>> THEN Spliced(@, t) ELSE @]

(* One turn of dispatchLanes(): late heads go, and one request is admitted. *)
LaneServed(d, t) ==
    LET w == d.lanes.bucket[t]
        out == {n \in DOMAIN w : /\ \A j \in 1..n : Cost[w[j]] <= Room(d)
                                 /\ \A j \in 1..(n - 1) : w[j] \in d.late}
        last == Max({0} \cup out)
    IN  [LetIn(d, {w[j] : j \in 1..last}) EXCEPT
            !.lanes = Closed([@ EXCEPT !.bucket[t] = SubSeq(w, last + 1, Len(w))], t)]

LanesServed(d) ==
    LET serve(was, i) == LaneServed(was, d.lanes.order[i])
    IN  Turns(serve, d, Len(d.lanes.order))

(* dispatch(): the lanes come last, and only once the shared queue is empty. *)
Dispatched(d) ==
    LET served == SharedServed(d)
    IN  IF served.queue.order = <<>> THEN LanesServed(served) ELSE served

(* The end of a handler that leaves a desk behind and calls dispatch(). *)
Settle(d) ==
    LET left == IF config'.mode = "enforce" /\ ~shutDown' THEN Dispatched(d) ELSE d
    IN  /\ limit' = left.limit
        /\ fairQueue' = left.queue
        /\ lanes' = left.lanes
        /\ active' = left.active
        /\ late' = left.late

(* dispatchVirtual(), under a limit *)
VirtualServed(v, max) ==
    LET serve(was, i) ==
            LET taken == Taken(was.queue, max - was.cost)
            IN  [queue |-> Dequeued(was.queue, max - was.cost),
                 cost |-> was.cost + CostOf(taken),
                 as |-> [r \in Entry |-> IF r \in taken THEN "active" ELSE was.as[r]]]
    IN  Turns(serve, v, Cardinality(Entries(v.queue)))

(* A record of a request, by what the books say of it *)
Judged(v, r, tenant, max) ==
    IF Cost[r] > max THEN [v EXCEPT !.as[r] = "rejected"]
    ELSE IF v.cost + Cost[r] <= max THEN [v EXCEPT !.as[r] = "active", !.cost = @ + Cost[r]]
    ELSE IF Accepts(v.queue, r, config'.maxQueueCount, config'.maxQueueCost)
         THEN [v EXCEPT !.as[r] = "queued", !.queue = Enqueued(@, r, tenant)]
    ELSE [v EXCEPT !.as[r] = "rejected"]

(* A slip: a record that was queued stays in the virtual queue. *)
Struck_Lingers(v, r) ==
    [v EXCEPT !.cost = IF v.as[r] = "active" THEN @ - Cost[r] ELSE @, !.as[r] = "none"]

(* releaseVirtual(), before its dispatch *)
Struck(v, r) ==
    [v EXCEPT !.cost = IF v.as[r] = "active" THEN @ - Cost[r] ELSE @,
              !.queue = IF v.as[r] = "queued" THEN Removed(@, r) ELSE @,
              !.as[r] = "none"]

-----------------------------------------------------------------------------
(* acquire() in shadow mode: admitted in any case. *)
AcquireShadow(r) ==
    /\ config.mode = "shadow" /\ ~shutDown /\ Absent(r)
    /\ active' = active \cup {r}
    /\ UNCHANGED <<config, limit, pressure, lowered, shutDown, fairQueue, lanes, late>>
    /\ shadow' = Judged(shadow, r, Tenant[r], limit)

Asks(r) == config.mode = "enforce" /\ ~shutDown /\ Absent(r)

(* acquire(): a request over the limit may run alone in an idle system. *)
AdmitSolo(r) ==
    /\ Asks(r)
    /\ limit < Cost[r] /\ Cost[r] <= config.max
    /\ active = {} /\ Queued = {} /\ pressure = "normal"
    /\ active' = {r}
    /\ UNCHANGED <<config, limit, pressure, lowered, shutDown, fairQueue, lanes, late, shadow>>

(* A slip: a newcomer does not look at what is in use. *)
FitsNow_InUse(r) == fairQueue.order = <<>>

FitsNow(r) == fairQueue.order = <<>> /\ Cost[r] <= Room(desk)

(* acquire(): nobody is in the shared queue and there is room. *)
AdmitAtOnce(r) ==
    /\ Asks(r) /\ Cost[r] <= limit /\ FitsNow(r)
    /\ active' = active \cup {r}
    /\ UNCHANGED <<config, limit, pressure, lowered, shutDown, fairQueue, lanes, late, shadow>>

(* deleteLane(): those in the lane are turned away. *)
LaneDeleted(d, t) ==
    [d EXCEPT !.lanes.order = Spliced(@, t),
              !.lanes.bucket[t] = <<>>,
              !.late = @ \ ToSet(d.lanes.bucket[t])]

(* getOrCreateLane(): a lane too many costs another its place, the one used
   least recently; the model does not say which that is. *)
WithLane(d, tenant) ==
    IF d.lanes.bucket[tenant] # <<>> \/ Len(d.lanes.order) < MaxLanes THEN {d}
    ELSE {LaneDeleted(d, t) : t \in ToSet(d.lanes.order)}

(* The desk with r in the shared queue, or in its tenant's lane, if that has
   room for it (as a new lane has: the shared queue has room) *)
Joined(r) ==
    LET lane == [NoBuckets EXCEPT !.bucket[Tenant[r]] = lanes.bucket[Tenant[r]]]
    IN  IF Tenant[r] = Default \/ ~config.virtualLanes
        THEN {[desk EXCEPT !.queue = Enqueued(@, r, Tenant[r])]}
        ELSE {[d EXCEPT !.lanes = Pushed(@, r, Tenant[r])] :
                d \in {d \in WithLane(desk, Tenant[r]) :
                         Accepts(lane, r, config.maxQueueCount, config.maxQueueCost)}}

(* acquire(), enqueue(): the request waits, and dispatch() runs twice. *)
Enqueue(r) ==
    /\ Asks(r) /\ Cost[r] <= limit /\ ~FitsNow(r)
    /\ Accepts(fairQueue, r, config.maxQueueCount, config.maxQueueCost)
    /\ UNCHANGED <<config, pressure, lowered, shutDown, shadow>>
    /\ \E d \in Joined(r) : Settle(Dispatched(d))

(* A slip: dispatch() is left to the next event. *)
ReleaseLease_NoDispatch(r) ==
    /\ r \in active
    /\ active' = active \ {r}
    /\ UNCHANGED <<config, limit, pressure, lowered, shutDown, fairQueue, lanes, late>>
    /\ shadow' = VirtualServed(Struck(shadow, r), limit)

(* releaseLease() *)
ReleaseLease(r) ==
    /\ r \in active
    /\ UNCHANGED <<config, pressure, lowered, shutDown>>
    /\ shadow' = VirtualServed(Struck(shadow, r), limit)
    /\ Settle([desk EXCEPT !.active = @ \ {r}])

(* The deadline of a request passes, or its client aborts; the timer, or the
   listener, has not run yet. *)
Lapse(r) ==
    /\ r \in Queued \ late
    /\ late' = late \cup {r}
    /\ UNCHANGED <<config, limit, pressure, lowered, shutDown, fairQueue, lanes, active, shadow>>

(* expireEntry() *)
Expire(r) ==
    /\ r \in late
    /\ UNCHANGED <<config, pressure, lowered, shutDown, shadow>>
    /\ LET t == TenantOf(lanes, r)
           left == Closed([lanes EXCEPT !.bucket[t] = Spliced(@, r)], t)
       IN  Settle([desk EXCEPT
                      !.late = @ \ {r},
                      !.queue = IF r \in Entries(fairQueue) THEN Removed(@, r) ELSE @,
                      !.lanes = IF r \in InLanes THEN left ELSE @])

-----------------------------------------------------------------------------
(* A slip: the limit may fall below minLimit. *)
Halved_Unclamped(n) == n \div 2

(* criticalDecreaseFactor and decreaseFactor, at their defaults 0.5 and 0.8 *)
Halved(n) == Clamp(n \div 2, config)

Eased(n) == Clamp((4 * n) \div 5, config)

(* observePressure(): critical pressure lowers the limit, once in a window. *)
ObservePressure(p) ==
    /\ pressure' = IF Severity[p] > Severity[pressure] THEN p ELSE pressure
    /\ UNCHANGED <<config, shutDown>>
    /\ IF p = "critical" /\ ~lowered
       THEN /\ lowered' = TRUE
            /\ shadow' = VirtualServed(shadow, Halved(limit))
            /\ Settle([desk EXCEPT !.limit = Halved(limit)])
       ELSE UNCHANGED <<lowered, shadow, limit, fairQueue, lanes, active, late>>

(* closeAdaptationWindow(): what the latencies, the utilization and the
   outcomes of a window may make of the limit; they are left open. *)
NextLimits ==
    LET ceiling == Clamp(config.initial, config)
        recovered(n) == IF limit < ceiling THEN {n, Clamp(Min({ceiling, n + 1}), config)} ELSE {n}
    IN  CASE pressure = "critical" -> {IF lowered THEN limit ELSE Halved(limit)}
          [] pressure = "high"     -> recovered(Eased(limit))
          [] pressure = "normal"   -> {Eased(limit), Clamp(limit + 1, config)} \cup recovered(limit)

(* evictIdleLanes(); the model does not say which lanes were idle for their
   time. *)
WithoutLanes(d, idle) ==
    LET visit(was, i) == IF d.lanes.order[i] \in idle
                         THEN LaneDeleted(was, d.lanes.order[i]) ELSE was
    IN  Turns(visit, d, Len(d.lanes.order))

(* tick() *)
Tick ==
    /\ config.mode # "off" /\ ~shutDown
    /\ pressure' = "normal"
    /\ lowered' = FALSE
    /\ UNCHANGED <<config, shutDown>>
    /\ \E next \in NextLimits, idle \in SUBSET ToSet(lanes.order) :
        /\ shadow' = VirtualServed(shadow, next)
        /\ Settle([WithoutLanes(desk, idle) EXCEPT !.limit = next])

(* evictIdleLanes(), by its own timer: nobody is dispatched. *)
EvictIdleLanes ==
    /\ \E idle \in SUBSET ToSet(lanes.order) \ {{}} :
        LET left == WithoutLanes(desk, idle) IN lanes' = left.lanes /\ late' = left.late
    /\ UNCHANGED <<config, limit, pressure, lowered, shutDown, fairQueue, active, shadow>>

(* Everybody waiting, in the order updateConfig() takes them out *)
Everybody ==
    LET drain(out, i) == out \o lanes.bucket[lanes.order[i]]
    IN  Turns(drain, Drained(fairQueue), Len(lanes.order))

(* A slip: a request too costly for the new limit is queued again. *)
Requeued_Oversized(max) ==
    LET all == Everybody
        keep(q, i) == IF Accepts(q, all[i], config'.maxQueueCount, config'.maxQueueCost)
                      THEN Enqueued(q, all[i], Tenant[all[i]]) ELSE q
    IN  Turns(keep, EmptyQueue, Len(all))

(* Those the new configuration can serve join the new shared queue. *)
Requeued(max) ==
    LET all == Everybody
        served(q, r) == Cost[r] <= max /\ Accepts(q, r, config'.maxQueueCount, config'.maxQueueCost)
        keep(q, i) == IF served(q, all[i]) THEN Enqueued(q, all[i], Tenant[all[i]]) ELSE q
    IN  Turns(keep, EmptyQueue, Len(all))

(* The pairs of requests of which a bucket holds one ahead of the other *)
InLine(b) ==
    {pair \in Entry \X Entry : \E t \in TenantKey : \E i, j \in DOMAIN b.bucket[t] :
        i < j /\ pair = <<b.bucket[t][i], b.bucket[t][j]>>}

(* An entry queued again keeps its enqueuedAtMs: within a queue, a lane or a
   bucket the older stays the older, and how entries of different queues
   compare is left open. *)
SinceBefore(q) ==
    LET known == fairQueue.older \cup InLine(lanes) \cup InLine(q)
        open == {pair \in Entries(q) \X Entries(q) :
                   pair[1] # pair[2] /\ {pair, <<pair[2], pair[1]>>} \cap known = {}}
        kept == known \cap (Entries(q) \X Entries(q))
    IN  {w \in {[q EXCEPT !.older = kept \cup more] : more \in SUBSET open} : Chronological(w)}

(* rebuildVirtualState(): the records in the order of their admission, which
   the model does not keep *)
Rebuilt(records, max) ==
    {LET judge(v, i) == Judged(v, order[i], "_existing", max)
     IN  Turns(judge, NoShadow, Len(order)) : order \in SetToSeqs(records)}

(* updateConfig() *)
UpdateConfig(c) ==
    LET max == Clamp(limit, c)
        open == c.mode # "enforce"
        again == IF open THEN {EmptyQueue} ELSE {Requeued(max)}
        holding == IF open THEN active \cup Queued ELSE active
    IN  /\ config' = c
        /\ pressure' = "normal"
        /\ lowered' = FALSE
        /\ UNCHANGED shutDown
        /\ IF c.mode = "shadow" THEN shadow' \in Rebuilt(holding, max) ELSE shadow' = NoShadow
        /\ \E waiting \in UNION {SinceBefore(q) : q \in again} :
              Settle([limit |-> max, queue |-> waiting, lanes |-> NoBuckets, active |-> holding,
                      late |-> late \cap Entries(waiting)])

(* shutdown() *)
Shutdown ==
    /\ ~shutDown
    /\ shutDown' = TRUE
    /\ fairQueue' = EmptyQueue
    /\ lanes' = NoBuckets
    /\ late' = {}
    /\ UNCHANGED <<config, limit, pressure, lowered, active, shadow>>

EntryStep(r) ==
    \/ AcquireShadow(r) \/ AdmitSolo(r) \/ AdmitAtOnce(r) \/ Enqueue(r)
    \/ ReleaseLease(r) \/ Lapse(r) \/ Expire(r)

ControlNext ==
    \/ \E r \in Entry : EntryStep(r)
    \/ \E p \in DOMAIN Severity : ObservePressure(p)
    \/ \E c \in Configs : UpdateConfig(c)
    \/ Tick \/ EvictIdleLanes \/ Shutdown

ControlSpec == ControlInit /\ [][ControlNext]_controlVars

-----------------------------------------------------------------------------
(* The types of the variables. *)
ControlTypeOK ==
    /\ config \in Configs
    /\ limit \in config.min..config.max
    /\ pressure \in DOMAIN Severity
    /\ {lowered, shutDown} \subseteq BOOLEAN
    /\ fairQueue \in Queue
    /\ lanes \in [order : Seq(TenantKey), bucket : [TenantKey -> Seq(Entry)]]
    /\ active \subseteq Entry
    /\ late \subseteq Queued
    /\ shadow \in [queue : Queue, cost : 0..CostOf(Entry), as : [Entry -> Disposition]]

(***************************************************************************)
(* Whatever is admitted, passed over, expired, evicted or drained, and in  *)
(* whatever order: a request is in one place, the queues keep the shape    *)
(* their operations rely on, no tenant has two lanes, and no empty lane    *)
(* stays in the map.                                                       *)
(***************************************************************************)
FairQueueIntegrity ==
    /\ WellFormed(fairQueue) /\ WellFormed(shadow.queue) /\ Orderly(lanes)
    /\ active \cap Queued = {} /\ Entries(fairQueue) \cap InLanes = {}

Enforces == config.mode = "enforce" /\ config' = config

(***************************************************************************)
(* Admissions fit: a handler that admits somebody leaves the costs of all  *)
(* active requests within the limit, whether it admits one newcomer or     *)
(* dispatches any number from the queue and the lanes; except that one     *)
(* request over the limit may run alone.                                   *)
(***************************************************************************)
AdmissionsFitLimit ==
    [][Enforces /\ ~(active' \subseteq active) =>
        \/ CostOf(active') <= limit'
        \/ \E r \in Entry : active' = {r} /\ Cost[r] <= config.max]_controlVars

(***************************************************************************)
(* Whoever lost patience is not admitted, even when capacity comes free    *)
(* between the deadline (or the abort) and the handler that notices it.    *)
(***************************************************************************)
NoLateAdmission == [][Enforces => late \cap active' = {}]_controlVars

(***************************************************************************)
(* "Resume enforce dispatch so a now-fitting successor is not stranded     *)
(* until unrelated activity": when control is back with the event loop,    *)
(* nobody dispatch() would admit is left in the shared queue, nor in the   *)
(* virtual queue of shadow mode.                                           *)
(***************************************************************************)
NobodyStranded ==
    /\ config.mode = "enforce" => Chosen(fairQueue, Room(desk)) = {}
    /\ Chosen(shadow.queue, limit - shadow.cost) = {}

ReservedHeads == {First(fairQueue, p) : p \in Reserved(fairQueue)}

(***************************************************************************)
(* Once a head has been passed over MaxSkips times nobody else is admitted *)
(* before it: not from the shared queue, not as a newcomer, not from a     *)
(* lane; unless several are reserved, and then another of these may be.    *)
(* (updateConfig() queues everybody anew, and forgets who was reserved.)   *)
(***************************************************************************)
ReservationHonoured ==
    [][\A r \in ReservedHeads :
        r \in Entries(fairQueue)' /\ ~(\E c \in Configs : UpdateConfig(c))
            => active' \ active \subseteq ReservedHeads]_controlVars

(***************************************************************************)
(* The books of shadow mode say what they stand for: the virtual cost is   *)
(* that of the records deemed active, the virtual queue holds those deemed *)
(* queued, and no book is kept of a request that is gone.                  *)
(***************************************************************************)
ShadowAccounts ==
    /\ shadow.cost = CostOf({r \in Entry : shadow.as[r] = "active"})
    /\ Entries(shadow.queue) = {r \in Entry : shadow.as[r] = "queued"}
    /\ \A r \in Entry \ active : shadow.as[r] = "none"

(***************************************************************************)
(* "Cost above the new enforce limit must fail closed immediately, never   *)
(* strand until deadline": a configuration that comes while requests wait  *)
(* leaves none waiting that it could not serve.                            *)
(***************************************************************************)
UpdateServesOrRejects ==
    [][config' # config =>
        \A r \in Queued' : config'.mode = "enforce" /\ Cost[r] <= limit']_controlVars
=============================================================================
