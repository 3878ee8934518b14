-------------------------- MODULE RateLimitSemaphore --------------------------
(***************************************************************************)
(* The gate round-robin combos put before a model or a connection          *)
(* (open-sse/services/rateLimitSemaphore.ts): a counter with a queue and a *)
(* cooldown.  Gates are looked up by name, but the resume timer keeps the  *)
(* gate object it was set for, which may have been deleted and made again  *)
(* under the same name before the timer fires.                             *)
(*                                                                         *)
(* Operations touch the gate of one name only, so one name is modelled.    *)
(* Time is a bounded clock.  resetAll() serves the tests and is left out.  *)
(***************************************************************************)
EXTENDS Integers, Sequences, FiniteSets, SequencesExt

CONSTANTS
    Client,
    SlotLimit,    \* the maxConcurrency each caller passes to acquire()
    MaxQueueSize, \* maxQueueSize
    DefaultLimit, \* what getGate() takes when it is passed none
    Cooldown,     \* lengths of the cooldowns that callers report
    MaxNow,       \* bound on the clock
    MaxTimers,    \* bound on the resume timers that are pending at a time
    NoGate

Instant == 0..MaxNow

(* As many gate objects as timers can keep alive, and the one in the map. *)
Object == 0..MaxTimers

GateObject == [object : Object, running : Nat, max : Nat \ {0}, queue : Seq(Client)]

Timer == [object : Object, due : Instant]

ASSUME GateAssumption ==
    /\ SlotLimit \in [Client -> Nat \ {0}]
    /\ DefaultLimit \in Nat \ {0}
    /\ MaxQueueSize \in Nat
    /\ MaxNow \in Nat
    /\ MaxTimers \in Nat
    /\ Cooldown \subseteq Nat \ {0}
    /\ NoGate \notin Int
    /\ NoGate \notin GateObject

VARIABLES
    now,
    gate,         \* the object that has the name, or NoGate
    until,        \* rateLimitedUntil of every gate object
    holders,      \* callers with a release function they have not used
    resumeTimers, \* pending resume timers: the object each keeps, and when it is due
    limitedTill   \* auxiliary: the end of the cooldown reported last

slotVars == <<now, gate, until, holders, resumeTimers, limitedTill>>

SlotInit ==
    /\ now = 0
    /\ gate = NoGate
    /\ until = [o \in Object |-> NoGate]
    /\ holders = {}
    /\ resumeTimers = {}
    /\ limitedTill = 0

Queued == IF gate = NoGate THEN {} ELSE {gate.queue[i] : i \in DOMAIN gate.queue}

(* An object that nothing refers to any more stands for a new one. *)
Unused == CHOOSE o \in Object : \A t \in resumeTimers : t.object # o

(* getGate() *)
GetGate(limit) ==
    IF gate = NoGate THEN [object |-> Unused, running |-> 0, max |-> limit, queue |-> <<>>]
                   ELSE [gate EXCEPT !.max = limit]

(* isRateLimited(); it also forgets a cooldown that is over (Lapsed). *)
RateLimited(u) == u # NoGate /\ now < u

Lapsed(u) == IF RateLimited(u) THEN u ELSE NoGate

(* A gate nobody uses is deleted. *)
Kept(g) == IF g.running = 0 /\ g.queue = <<>> THEN NoGate ELSE g

(* A slip: the queue is served from its end. *)
DrainQueue_Lifo(g, u, held) ==
    LET room == IF g.running < g.max THEN g.max - g.running ELSE 0
        looks == g.queue # <<>> /\ room > 0
        n == IF ~looks \/ RateLimited(u[g.object]) THEN 0
             ELSE IF Len(g.queue) < room THEN Len(g.queue) ELSE room
        rest == Len(g.queue) - n
    IN  /\ gate' = Kept([g EXCEPT !.running = @ + n, !.queue = SubSeq(@, 1, rest)])
        /\ until' = IF looks THEN [u EXCEPT ![g.object] = Lapsed(@)] ELSE u
        /\ holders' = held \cup {g.queue[i] : i \in (rest + 1)..Len(g.queue)}

(***************************************************************************)
(* drainQueue() on gate g, when the objects' cooldowns are u: those that   *)
(* fit leave the queue, first come first served.                           *)
(***************************************************************************)
DrainQueue(g, u, held) ==
    LET room == IF g.running < g.max THEN g.max - g.running ELSE 0
        looks == g.queue # <<>> /\ room > 0
        n == IF ~looks \/ RateLimited(u[g.object]) THEN 0
             ELSE IF Len(g.queue) < room THEN Len(g.queue) ELSE room
    IN  /\ gate' = Kept([g EXCEPT !.running = @ + n,
                                  !.queue = SubSeq(@, n + 1, Len(@))])
        /\ until' = IF looks THEN [u EXCEPT ![g.object] = Lapsed(@)] ELSE u
        /\ holders' = held \cup {g.queue[i] : i \in 1..n}

-----------------------------------------------------------------------------
Outside(k) == k \notin holders \cup Queued

(* A gate that was not in the map is not limited. *)
LimitedNow == gate # NoGate /\ RateLimited(until[gate.object])

SlotFits(k) == GetGate(SlotLimit[k]).running < SlotLimit[k] /\ ~LimitedNow

(* acquire(): the fast path, which looks at no queue *)
SlotAtOnce(k) ==
    LET g == GetGate(SlotLimit[k])
    IN  /\ Outside(k)
        /\ SlotFits(k)
        /\ gate' = [g EXCEPT !.running = @ + 1]
        /\ until' = [until EXCEPT ![g.object] = NoGate]
        /\ holders' = holders \cup {k}
        /\ UNCHANGED <<now, resumeTimers, limitedTill>>

(* A slip: the gate is dropped though requests run. *)
SlotRejected_DropsGate(k) ==
    /\ Outside(k)
    /\ ~SlotFits(k)
    /\ Len(GetGate(SlotLimit[k]).queue) >= MaxQueueSize
    /\ gate' = NoGate
    /\ UNCHANGED <<now, until, holders, resumeTimers, limitedTill>>

(* acquire() rejects with SEMAPHORE_QUEUE_FULL *)
SlotRejected(k) ==
    LET g == GetGate(SlotLimit[k])
    IN  /\ Outside(k)
        /\ ~SlotFits(k)
        /\ Len(g.queue) >= MaxQueueSize
        /\ gate' = Kept(g)
        /\ UNCHANGED <<now, until, holders, resumeTimers, limitedTill>>

(* acquire() waits *)
SlotAwaited(k) ==
    LET g == GetGate(SlotLimit[k])
    IN  /\ Outside(k)
        /\ ~SlotFits(k)
        /\ Len(g.queue) < MaxQueueSize
        /\ gate' = [g EXCEPT !.queue = Append(@, k)]
        /\ UNCHANGED <<now, until, holders, resumeTimers, limitedTill>>

(* SEMAPHORE_TIMEOUT: the queue is neither drained nor its gate deleted *)
QueueTimeout(k) ==
    /\ k \in Queued
    /\ \E i \in DOMAIN gate.queue :
        /\ gate.queue[i] = k
        /\ gate' = [gate EXCEPT !.queue = RemoveAt(@, i)]
    /\ UNCHANGED <<now, until, holders, resumeTimers, limitedTill>>

(* The release function looks the gate up by its name. *)
ReleaseSlot(k) ==
    /\ k \in holders
    /\ IF gate # NoGate /\ gate.running > 0
       THEN DrainQueue([gate EXCEPT !.running = @ - 1], until, holders \ {k})
       ELSE holders' = holders \ {k} /\ UNCHANGED <<gate, until>>
    /\ UNCHANGED <<now, resumeTimers, limitedTill>>

(* markRateLimited(), called by a request that holds a slot *)
MarkRateLimited(k, d) ==
    LET g == GetGate(DefaultLimit)
    IN  /\ k \in holders
        /\ now + d <= MaxNow
        /\ Cardinality(resumeTimers) < MaxTimers
        /\ gate' = g
        /\ until' = [until EXCEPT ![g.object] = now + d]
        /\ resumeTimers' = resumeTimers \cup {[object |-> g.object, due |-> now + d]}
        /\ limitedTill' = now + d
        /\ UNCHANGED <<now, holders>>

(* A slip: the end of the cooldown wakes nobody. *)
ResumeTimerFires_NoDrain(t) ==
    /\ t \in resumeTimers
    /\ t.due <= now
    /\ resumeTimers' = resumeTimers \ {t}
    /\ until' = IF until[t.object] # NoGate /\ now >= until[t.object]
                THEN [until EXCEPT ![t.object] = NoGate] ELSE until
    /\ UNCHANGED <<now, gate, holders, limitedTill>>

(* The resume timer fires, some time after the end of its cooldown. *)
ResumeTimerFires(t) ==
    /\ t \in resumeTimers
    /\ t.due <= now
    /\ resumeTimers' = resumeTimers \ {t}
    /\ LET over == until[t.object] # NoGate /\ now >= until[t.object]
           u == [until EXCEPT ![t.object] = NoGate]
       IN  IF over /\ gate # NoGate THEN DrainQueue(gate, u, holders)
           ELSE until' = (IF over THEN u ELSE until) /\ UNCHANGED <<gate, holders>>
    /\ UNCHANGED <<now, limitedTill>>

Tick ==
    /\ now < MaxNow
    /\ now' = now + 1
    /\ UNCHANGED <<gate, until, holders, resumeTimers, limitedTill>>

SlotNext ==
    \/ \E k \in Client :
        \/ SlotAtOnce(k) \/ SlotRejected(k) \/ SlotAwaited(k)
        \/ QueueTimeout(k)
        \/ ReleaseSlot(k)
        \/ \E d \in Cooldown : MarkRateLimited(k, d)
    \/ \E t \in resumeTimers : ResumeTimerFires(t)
    \/ Tick

SlotSpec == SlotInit /\ [][SlotNext]_slotVars

(* Requests release what they hold, and time goes on; no queue timeout is needed. *)
SlotFairness ==
    /\ \A k \in Client : WF_slotVars(ReleaseSlot(k))
    /\ \A t \in Timer : WF_slotVars(ResumeTimerFires(t))
    /\ WF_slotVars(Tick)

SlotFairSpec == SlotSpec /\ SlotFairness

-----------------------------------------------------------------------------
SlotTypeOK ==
    /\ now \in Instant
    /\ gate \in GateObject \cup {NoGate}
    /\ until \in [Object -> Instant \cup {NoGate}]
    /\ holders \subseteq Client
    /\ resumeTimers \subseteq Timer
    /\ limitedTill \in Instant

(***************************************************************************)
(* The counter is the number of requests that hold a slot, though releases *)
(* find the gate by its name and gates come and go under it                *)
(* (rateLimitSemaphore.ts:114-121).                                        *)
(***************************************************************************)
SlotsCounted ==
    Cardinality(holders) = IF gate = NoGate THEN 0 ELSE gate.running

(***************************************************************************)
(* Whoever waits has somebody to wake it: a holder, whose release drains   *)
(* the queue, or the timer of the cooldown the gate is in; a timer that    *)
(* finds its object limited anew, or replaced, leaves that to another      *)
(* (rateLimitSemaphore.ts:193-196).                                        *)
(***************************************************************************)
SomebodyWillDrain ==
    Queued # {} =>
        \/ holders # {}
        \/ \E t \in resumeTimers : t.object = gate.object /\ t.due = until[gate.object]

(* No request waits for ever, even if its queue timeout never came. *)
WaitersServed == \A k \in Client : k \in Queued ~> k \notin Queued

(***************************************************************************)
(* "new acquisitions are blocked until the cooldown expires"               *)
(* (rateLimitSemaphore.ts:183): nobody gets a slot before the end of the   *)
(* cooldown that was reported last.                                        *)
(***************************************************************************)
CooldownHolds == [][holders' \ holders # {} => limitedTill <= now]_slotVars
=============================================================================
