---------------------------- MODULE AccountSemaphore ----------------------------
(***************************************************************************)
(* The hierarchical concurrency gates of open-sse/services/                *)
(* accountSemaphore.ts: a request names the gates it needs (global,        *)
(* provider, account) and is admitted through all of them at once or       *)
(* waits, in arrival order, in the queue of every one of them.             *)
(*                                                                         *)
(* The code is single-threaded: every handler below runs to its end, the   *)
(* trailing drainQueues() included, before another one starts.             *)
(***************************************************************************)
EXTENDS Integers, FiniteSets

CONSTANTS
    Key,        \* gate keys, numbered in the order `keys.sort()` gives them
    Request,    \* calls of acquireMany; each happens at most once
    Keys,       \* Keys[r]: the enabled (not bypassed) gates call r names
    Limit,      \* Limit[r][k]: the maxConcurrency call r gives for gate k
    MaxQueue,   \* maxQueueSize; 0 means no bound
    Blockable   \* gates whose account can be put on a quota cooldown

ASSUME SemaphoreAssumption ==
    /\ Key \subseteq Nat
    /\ Keys \in [Request -> (SUBSET Key) \ {{}}]
    /\ Limit \in [Request -> [Key -> Nat \ {0}]]
    /\ MaxQueue \in Nat
    /\ Blockable \subseteq Key

VARIABLES
    gates,          \* the keys of the `gates` map
    running,        \* gate.running           (0 for a key with no gate)
    maxConcurrency, \* gate.maxConcurrency    (1 for a key with no gate)
    queue,          \* gate.queue, as a set ordered by ticket
    blocked,        \* gate.blockedUntil is set and lies in the future
    cleanupTimer,   \* gate.cleanupTimer is armed
    strayTimers,    \* keys for which the timer of a discarded gate is armed
    status,         \* the life of each call of acquireMany
    ticket,         \* the order in which the queued calls arrived
    nextTicket,
    unswept,        \* auxiliary: gates made easier to enter since the last drain
    orphaned        \* auxiliary: <<r, k>> such that r holds a discarded gate of k

gateVars == <<gates, running, maxConcurrency, queue, blocked, cleanupTimer, strayTimers>>
vars == <<gateVars, status, ticket, nextTicket, unswept, orphaned>>

Status == {"new", "waiting", "holding", "released", "rejected"}

Waiting == {r \in Request : status[r] = "waiting"}

(***************************************************************************)
(* The calls that hold the current gate of k, those of a gate discarded by *)
(* a reset left out.                                                       *)
(***************************************************************************)
Holders(k) == {r \in Request : status[r] = "holding" /\ k \in Keys[r] /\ <<r, k>> \notin orphaned}

Idle(k) == running[k] = 0 /\ queue[k] = {}

QueueFull(k) == MaxQueue > 0 /\ Cardinality(queue[k]) >= MaxQueue

Init ==
    /\ gates = {}
    /\ running = [k \in Key |-> 0]
    /\ maxConcurrency = [k \in Key |-> 1]
    /\ queue = [k \in Key |-> {}]
    /\ blocked = [k \in Key |-> FALSE]
    /\ cleanupTimer = [k \in Key |-> FALSE]
    /\ strayTimers = {}
    /\ status = [r \in Request |-> "new"]
    /\ ticket = [r \in Request |-> 0]
    /\ nextTicket = 1
    /\ unswept = {}
    /\ orphaned = {}

-----------------------------------------------------------------------------
(***************************************************************************)
(* drainQueues(): scan the queued calls in arrival order, admit the first  *)
(* that is at the head of all its queues and fits through all its gates,   *)
(* start again.  An admission only uncovers calls that arrived later and   *)
(* only takes room away, so the loop admits the one set G in which a call  *)
(* is admitted iff, at each of its gates, everyone before it is and there  *)
(* is room left after them.                                                *)
(***************************************************************************)
(* A slip: the youngest waiter is taken for the head of the queue. *)
Ahead_Lifo(que, r, k) == {q \in que[k] : ticket'[q] > ticket'[r]}

Ahead(que, r, k) == {q \in que[k] : ticket'[q] < ticket'[r]}

(* A slip: room is tested with <=. *)
Fits_OneTooMany(G, run, que, r, k) ==
    /\ k \in gates' /\ ~blocked'[k] /\ r \in que[k]
    /\ Ahead(que, r, k) \subseteq G
    /\ run[k] + Cardinality(Ahead(que, r, k)) <= maxConcurrency'[k]

Fits(G, run, que, r, k) ==
    /\ k \in gates'
    /\ ~blocked'[k]
    /\ r \in que[k]
    /\ Ahead(que, r, k) \subseteq G
    /\ run[k] + Cardinality(Ahead(que, r, k)) < maxConcurrency'[k]

Admits(G, run, que, waiting) ==
    \A r \in waiting : r \in G <=> \A k \in Keys[r] : Fits(G, run, que, r, k)

(***************************************************************************)
(* A handler's tail.  run, que, st and tmr are the state the handler       *)
(* leaves to drainQueues(); gates', maxConcurrency', blocked' and ticket'  *)
(* are already final.  removeRequest() arms the cleanup timer of a gate    *)
(* that nobody runs in and whose queue it empties, just before the         *)
(* admitted call starts to run there; `closing` are the gates the handler  *)
(* looks at once more after the drain.                                     *)
(***************************************************************************)
Drain(run, que, st, tmr, closing) ==
    LET waiting == {r \in Request : st[r] = "waiting"}
    IN  \E G \in SUBSET waiting :
            /\ Admits(G, run, que, waiting)
            /\ running' = [k \in Key |-> run[k] + Cardinality(que[k] \cap G)]
            /\ queue' = [k \in Key |-> que[k] \ G]
            /\ status' = [r \in Request |-> IF r \in G THEN "holding" ELSE st[r]]
            /\ cleanupTimer' = [k \in Key |->
                    \/ tmr[k]
                    \/ run[k] = 0 /\ \E r \in G : que[k] = {r}
                    \/ k \in closing \cap gates' /\ running'[k] = 0 /\ queue'[k] = {}]
            /\ unswept' = {}

(***************************************************************************)
(* drainQueues() as it is written: a turn of the loop admits the first of  *)
(* the queued calls that canAcquire(), the calls of G having been admitted *)
(* by the turns before it.                                                 *)
(***************************************************************************)
CanAcquire(G, run, que, r) ==
    \A k \in Keys[r] :
        /\ k \in gates' /\ ~blocked'[k]
        /\ run[k] + Cardinality(que[k] \cap G) < maxConcurrency'[k]
        /\ r \in que[k] \ G
        /\ \A q \in que[k] \ G : ticket'[r] <= ticket'[q]

DrainPass(G, run, que, waiting) ==
    LET can == {r \in waiting \ G : CanAcquire(G, run, que, r)}
    IN  G \cup {r \in can : \A q \in can : ticket'[r] <= ticket'[q]}

DrainLoop(run, que, waiting) ==
    LET admitted[n \in 0..Cardinality(waiting)] ==
            IF n = 0 THEN {} ELSE DrainPass(admitted[n - 1], run, que, waiting)
    IN  admitted[Cardinality(waiting)]

(***************************************************************************)
(* ensureGate() and clearCleanupTimer() for each gate of K, in a call that *)
(* does not end in a drain.                                                *)
(***************************************************************************)
EnsureGates(r, K) ==
    /\ gates' = gates \cup K
    /\ maxConcurrency' = [k \in Key |-> IF k \in K THEN Limit[r][k] ELSE maxConcurrency[k]]

TimersCleared(K) == [k \in Key |-> cleanupTimer[k] /\ k \notin K]

(***************************************************************************)
(* acquireMany() that meets a full queue: the gates before it in key order *)
(* have already been created and given the new limit.                      *)
(***************************************************************************)
AcquireRejected(r) ==
    \E full \in Keys[r] :
        LET touched == {k \in Keys[r] : k <= full}
        IN  /\ status[r] = "new"
            /\ QueueFull(full)
            /\ \A k \in Keys[r] : QueueFull(k) => full <= k
            /\ EnsureGates(r, touched)
            /\ cleanupTimer' = TimersCleared(touched)
            /\ status' = [status EXCEPT ![r] = "rejected"]
            /\ unswept' = unswept \cup touched
            /\ UNCHANGED <<running, queue, blocked, strayTimers, ticket, nextTicket, orphaned>>

(* Slips: a newcomer passes those who wait; room is tested with <=. *)
Open_Barging(r, k) == running[k] < Limit[r][k] /\ ~blocked[k]

Open_OneTooMany(r, k) == queue[k] = {} /\ running[k] <= Limit[r][k] /\ ~blocked[k]

Open(r, k) == queue[k] = {} /\ running[k] < Limit[r][k] /\ ~blocked[k]

(***************************************************************************)
(* acquireMany() with nobody queued at, and room in, every gate.           *)
(***************************************************************************)
AcquireAtOnce(r) ==
    /\ status[r] = "new"
    /\ \A k \in Keys[r] : ~QueueFull(k) /\ Open(r, k)
    /\ EnsureGates(r, Keys[r])
    /\ cleanupTimer' = TimersCleared(Keys[r])
    /\ running' = [k \in Key |-> IF k \in Keys[r] THEN running[k] + 1 ELSE running[k]]
    /\ status' = [status EXCEPT ![r] = "holding"]
    /\ UNCHANGED <<queue, blocked, strayTimers, ticket, nextTicket, unswept, orphaned>>

(* queue.push() at every gate of the call *)
JoinedBy(r) == [k \in Key |-> IF k \in Keys[r] THEN queue[k] \cup {r} ELSE queue[k]]

(***************************************************************************)
(* acquireMany() that has to wait: the call joins the queue of every gate. *)
(***************************************************************************)
AcquireQueued(r) ==
    /\ status[r] = "new"
    /\ \A k \in Keys[r] : ~QueueFull(k)
    /\ \E k \in Keys[r] : ~Open(r, k)
    /\ EnsureGates(r, Keys[r])
    /\ ticket' = [ticket EXCEPT ![r] = nextTicket]
    /\ nextTicket' = nextTicket + 1
    /\ UNCHANGED <<blocked, strayTimers, orphaned>>
    /\ Drain(running,
             JoinedBy(r),
             [status EXCEPT ![r] = "waiting"],
             TimersCleared(Keys[r]),
             {})

(***************************************************************************)
(* The first call of a release function; a later one returns at once.  It  *)
(* finds the gates by key, whatever gate the key names by now.             *)
(***************************************************************************)
Decremented(r) ==
    [k \in Key |-> IF k \in Keys[r] /\ running[k] > 0 THEN running[k] - 1 ELSE running[k]]

ReleaseFrom(r, from, run, closing) ==
    /\ status[r] \in from
    /\ UNCHANGED <<gates, maxConcurrency, blocked, strayTimers, ticket, nextTicket, orphaned>>
    /\ Drain(run, queue, [status EXCEPT ![r] = "released"], cleanupTimer, closing)

(* Slips: releasing twice, with and without a floor at 0; no drain. *)
Release_Twice(r) == ReleaseFrom(r, {"holding", "released"}, Decremented(r), Keys[r])

Release_BelowZero(r) ==
    ReleaseFrom(r, {"holding", "released"},
                [k \in Key |-> IF k \in Keys[r] THEN running[k] - 1 ELSE running[k]], Keys[r])

Release_NoDrain(r) ==
    /\ status[r] = "holding"
    /\ running' = Decremented(r)
    /\ status' = [status EXCEPT ![r] = "released"]
    /\ UNCHANGED <<gates, maxConcurrency, queue, blocked, cleanupTimer, strayTimers, ticket, nextTicket, unswept, orphaned>>

Release(r) == ReleaseFrom(r, {"holding"}, Decremented(r), Keys[r])

(***************************************************************************)
(* The queue and timers once removeRequest() has taken the calls of W out. *)
(***************************************************************************)
(* A slip: only the first gate of the key order is looked at. *)
Without_FirstGate(W) ==
    [k \in Key |-> IF \A j \in Key : k <= j THEN queue[k] \ W ELSE queue[k]]

Without(W) == [k \in Key |-> queue[k] \ W]

TimersAfterRemoval(W) ==
    [k \in Key |-> \/ cleanupTimer[k]
                   \/ k \in gates /\ running[k] = 0 /\ queue[k] # {} /\ queue[k] \subseteq W]

(***************************************************************************)
(* The timeout of a queued call, or the abort of its signal.               *)
(***************************************************************************)
(* A slip: the drain after the removal is forgotten. *)
GiveUp_NoDrain(r) ==
    /\ status[r] = "waiting"
    /\ queue' = Without({r})
    /\ status' = [status EXCEPT ![r] = "rejected"]
    /\ cleanupTimer' = TimersAfterRemoval({r})
    /\ UNCHANGED <<gates, running, maxConcurrency, blocked, strayTimers, ticket, nextTicket, unswept, orphaned>>

GiveUp(r) ==
    /\ status[r] = "waiting"
    /\ UNCHANGED <<gates, maxConcurrency, blocked, strayTimers, ticket, nextTicket, orphaned>>
    /\ Drain(running, Without({r}), [status EXCEPT ![r] = "rejected"], TimersAfterRemoval({r}), {})

Timeout(r) == GiveUp(r)

Abort(r) == GiveUp(r)

-----------------------------------------------------------------------------
(***************************************************************************)
(* markBlocked(): an account's upstream reported an exhausted quota.  A    *)
(* gate created here keeps the default limit 1.                            *)
(***************************************************************************)
MarkBlocked(k) ==
    /\ k \in Blockable
    /\ gates' = gates \cup {k}
    /\ blocked' = [blocked EXCEPT ![k] = TRUE]
    /\ cleanupTimer' = TimersCleared({k})
    /\ UNCHANGED <<running, maxConcurrency, queue, strayTimers, status, ticket, nextTicket, unswept, orphaned>>

(***************************************************************************)
(* The clock passes blockedUntil.  No timer watches it: isBlocked() finds  *)
(* out the next time somebody asks.                                        *)
(***************************************************************************)
BlockLapses(k) ==
    /\ blocked[k]
    /\ blocked' = [blocked EXCEPT ![k] = FALSE]
    /\ unswept' = unswept \cup {k}
    /\ UNCHANGED <<gates, running, maxConcurrency, queue, cleanupTimer, strayTimers, status, ticket, nextTicket, orphaned>>

(***************************************************************************)
(* unblock(): clear the block, drain, and delete the gate when idle.  A    *)
(* gate the drain admits somebody to had a queue before it, so whether the *)
(* gate is idle afterwards is known beforehand.                            *)
(***************************************************************************)
Unblock(k) ==
    /\ k \in gates
    /\ gates' = IF Idle(k) THEN gates \ {k} ELSE gates
    /\ maxConcurrency' = IF Idle(k) THEN [maxConcurrency EXCEPT ![k] = 1] ELSE maxConcurrency
    /\ blocked' = [blocked EXCEPT ![k] = FALSE]
    /\ UNCHANGED <<strayTimers, ticket, nextTicket, orphaned>>
    /\ Drain(running, queue, status,
             IF Idle(k) THEN TimersCleared({k}) ELSE cleanupTimer,
             {})

(***************************************************************************)
(* cleanupGateIfIdle(), with the timer that called it out of the way.      *)
(***************************************************************************)
CleanupGateIfIdle(k) ==
    LET deleted == k \in gates /\ Idle(k) /\ ~blocked[k]
    IN  /\ gates' = IF deleted THEN gates \ {k} ELSE gates
        /\ maxConcurrency' = IF deleted THEN [maxConcurrency EXCEPT ![k] = 1] ELSE maxConcurrency

CleanupFires(k) ==
    /\ cleanupTimer[k]
    /\ cleanupTimer' = TimersCleared({k})
    /\ CleanupGateIfIdle(k)
    /\ UNCHANGED <<running, queue, blocked, strayTimers, status, ticket, nextTicket, unswept, orphaned>>

(***************************************************************************)
(* The timer of a gate that reset() has discarded: it looks the key up and *)
(* may find, and delete, a younger gate.                                   *)
(***************************************************************************)
StrayTimerFires(k) ==
    LET deleted == k \in gates /\ Idle(k) /\ ~blocked[k]
    IN  /\ k \in strayTimers
        /\ strayTimers' = strayTimers \ {k}
        /\ CleanupGateIfIdle(k)
        /\ cleanupTimer' = IF deleted THEN TimersCleared({k}) ELSE cleanupTimer
        /\ UNCHANGED <<running, queue, blocked, status, ticket, nextTicket, unswept, orphaned>>

-----------------------------------------------------------------------------
HeldGates == {p \in Request \X Key : status[p[1]] = "holding" /\ p[2] \in Keys[p[1]]}

(***************************************************************************)
(* reset(key): reject everyone queued at the gate and drop it, whoever     *)
(* still runs in it.                                                       *)
(***************************************************************************)
Reset(k) ==
    /\ k \in gates
    /\ gates' = gates \ {k}
    /\ maxConcurrency' = [maxConcurrency EXCEPT ![k] = 1]
    /\ blocked' = [blocked EXCEPT ![k] = FALSE]
    /\ strayTimers' = IF running[k] = 0 /\ queue[k] # {} THEN strayTimers \cup {k} ELSE strayTimers
    /\ orphaned' = orphaned \cup {p \in HeldGates : p[2] = k}
    /\ UNCHANGED <<ticket, nextTicket>>
    /\ Drain([running EXCEPT ![k] = 0],
             Without(queue[k]),
             [r \in Request |-> IF r \in queue[k] THEN "rejected" ELSE status[r]],
             [TimersAfterRemoval(queue[k]) EXCEPT ![k] = FALSE],
             {})

(***************************************************************************)
(* resetAll(), which POST /api/admin/concurrency calls: reject every       *)
(* queued call and drop every gate.                                        *)
(***************************************************************************)
ResetAll ==
    /\ gates' = {}
    /\ running' = [k \in Key |-> 0]
    /\ maxConcurrency' = [k \in Key |-> 1]
    /\ queue' = [k \in Key |-> {}]
    /\ blocked' = [k \in Key |-> FALSE]
    /\ cleanupTimer' = [k \in Key |-> FALSE]
    /\ status' = [r \in Request |-> IF r \in Waiting THEN "rejected" ELSE status[r]]
    /\ unswept' = {}
    /\ orphaned' = orphaned \cup HeldGates
    /\ UNCHANGED <<strayTimers, ticket, nextTicket>>

-----------------------------------------------------------------------------
RequestStep(r) ==
    \/ AcquireRejected(r)
    \/ AcquireAtOnce(r)
    \/ AcquireQueued(r)
    \/ Release(r)
    \/ Timeout(r)
    \/ Abort(r)

GateStep(k) ==
    \/ MarkBlocked(k)
    \/ BlockLapses(k)
    \/ Unblock(k)
    \/ CleanupFires(k)

ResetStep ==
    \/ ResetAll
    \/ \E k \in Key : Reset(k) \/ StrayTimerFires(k)

(***************************************************************************)
(* Service: the traffic of the gateway.  Next adds the operator's resets.  *)
(***************************************************************************)
Service == (\E r \in Request : RequestStep(r)) \/ (\E k \in Key : GateStep(k))

Next == Service \/ ResetStep

Spec == Init /\ [][Next]_vars

ServiceSpec == Init /\ [][Service]_vars

(***************************************************************************)
(* Callers release in the end: every exit of executeProviderRequest in     *)
(* chatCore.ts releases or hands the release function to the stream's      *)
(* finalizer.  Nothing is assumed of queue timeouts and cleanup timers.    *)
(***************************************************************************)
Fairness == \A r \in Request : WF_vars(Release(r))

FairService == ServiceSpec /\ Fairness

-----------------------------------------------------------------------------
(* The type of every variable. *)
TypeOK ==
    /\ gates \subseteq Key
    /\ running \in [Key -> Nat]
    /\ maxConcurrency \in [Key -> Nat \ {0}]
    /\ queue \in [Key -> SUBSET Request]
    /\ blocked \in [Key -> BOOLEAN]
    /\ cleanupTimer \in [Key -> BOOLEAN]
    /\ strayTimers \subseteq Key
    /\ status \in [Request -> Status]
    /\ ticket \in [Request -> Nat]
    /\ nextTicket \in Nat \ {0}
    /\ unswept \subseteq Key
    /\ orphaned \subseteq Request \X Key

(***************************************************************************)
(* A waiting call stands in the queue of every gate it names and in no     *)
(* other, a settled call in none, and a gate people queue at is in the map *)
(* (acquireMany, removeRequest, reset: "removes an atomic waiter from      *)
(* every gate").                                                           *)
(***************************************************************************)
QueueIntegrity ==
    /\ \A k \in Key : queue[k] = {r \in Waiting : k \in Keys[r]}
    /\ \A k \in Key : queue[k] # {} => k \in gates
    /\ \A r \in Waiting : ticket[r] < nextTicket
    /\ \A q, r \in Waiting : ticket[q] = ticket[r] => q = r

(***************************************************************************)
(* Waiting reserves nothing and releasing frees everything: gate.running   *)
(* is the number of calls that hold the gate (comment of acquireMany).     *)
(***************************************************************************)
GateCountsItsHolders == \A k \in Key : running[k] = Cardinality(Holders(k))

Admitted(r) == status[r] # "holding" /\ status'[r] = "holding"

(***************************************************************************)
(* A step that admits a call through a gate leaves no more holders there   *)
(* than the limit in force (header of accountSemaphore.ts: a request is    *)
(* admitted only when every applicable gate has room).                     *)
(***************************************************************************)
AdmissionsFit ==
    [][\A r \in Request : Admitted(r) =>
          \A k \in Keys[r] : Cardinality(Holders(k)') <= maxConcurrency'[k]]_vars

(***************************************************************************)
(* First in, first out across gates: a call is not admitted, at once or    *)
(* from the queue, past an older call that shares a gate with it and still *)
(* waits afterwards.                                                       *)
(***************************************************************************)
NoOvertaking ==
    [][\A r \in Request, q \in Waiting :
          /\ Admitted(r)
          /\ Keys[q] \cap Keys[r] # {}
          /\ status[r] = "new" \/ ticket[q] < ticket[r]
          => status'[q] # "waiting"]_vars

(***************************************************************************)
(* Each handler that calls drainQueues() admits exactly the calls that its *)
(* loop, followed literally, admits in the state handed to it.             *)
(***************************************************************************)
Served(calls) == {q \in calls : status'[q] = "holding"}

DrainIsTheLoop ==
    [][/\ \A r \in Request : status'[r] # status[r] =>
            /\ AcquireQueued(r) =>
                 Served(Waiting \cup {r}) = DrainLoop(running, JoinedBy(r), Waiting \cup {r})
            /\ Release(r) => Served(Waiting) = DrainLoop(Decremented(r), queue, Waiting)
            /\ GiveUp(r) => Served(Waiting \ {r}) = DrainLoop(running, Without({r}), Waiting \ {r})
       /\ \A k \in Key :
            /\ Unblock(k) => Served(Waiting) = DrainLoop(running, queue, Waiting)
            /\ Reset(k) =>
                 Served(Waiting \ queue[k]) =
                 DrainLoop([running EXCEPT ![k] = 0], Without(queue[k]), Waiting \ queue[k])]_vars

Eligible(r) ==
    /\ status[r] = "waiting"
    /\ \A k \in Keys[r] :
        /\ k \in gates
        /\ ~blocked[k]
        /\ running[k] < maxConcurrency[k]
        /\ \A q \in queue[k] : ticket[r] <= ticket[q]

(***************************************************************************)
(* No handler forgets to wake a waiter: a queued call that could run now   *)
(* owes it to a gate that opened since the last drain without one, because *)
(* its block ran out or a rejected call raised its limit.                  *)
(***************************************************************************)
NoLostWakeup == \A r \in Request : Eligible(r) => Keys[r] \cap unswept # {}

(***************************************************************************)
(* Were timeouts never to fire, a queued call would still be admitted (or  *)
(* give up) once the holders release: nobody is starved and two calls on   *)
(* two gates never wait for each other.                                    *)
(***************************************************************************)
NoStarvation == \A r \in Request : status[r] = "waiting" ~> status[r] # "waiting"

-----------------------------------------------------------------------------
(***************************************************************************)
(* The gates implement the atomic admission they promise: here a call is   *)
(* admitted through all its gates or none, and where the calls agree on    *)
(* the limits (EvenlyLimited) no gate has more holders than its limit.     *)
(***************************************************************************)
EvenlyLimited == \A q, r \in Request : Limit[q] = Limit[r]

Capacity == [k \in Key |-> CHOOSE n \in {Limit[r][k] : r \in Request} : TRUE]

Admission == INSTANCE AtomicAdmission

(* acquireMany() and its drain are one atomic admission through every gate. *)
ImplementsAtomicAdmission == Admission!Spec
=============================================================================
