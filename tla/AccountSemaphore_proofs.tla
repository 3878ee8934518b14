------------------------- MODULE AccountSemaphore_proofs -------------------------
(***************************************************************************)
(* Proofs about AccountSemaphore, for every set of keys and of calls.      *)
(***************************************************************************)
EXTENDS AccountSemaphore, FiniteSetTheorems, WellFoundedInduction, TLAPS

(* Each queue is finite, so that the length of a queue is a number. *)
FiniteQueues == \A k \in Key : IsFiniteSet(queue[k])

TypeInv == TypeOK /\ FiniteQueues

(***************************************************************************)
(* What the tail drainQueues() of a handler needs for the new state to be  *)
(* well typed.                                                             *)
(***************************************************************************)
LEMMA DrainTyped ==
    ASSUME NEW run \in [Key -> Nat], NEW que \in [Key -> SUBSET Request],
           NEW st \in [Request -> Status], NEW tmr \in [Key -> BOOLEAN], NEW closing,
           \A k \in Key : IsFiniteSet(que[k]),
           Drain(run, que, st, tmr, closing)
    PROVE  /\ running' \in [Key -> Nat]
           /\ queue' \in [Key -> SUBSET Request]
           /\ status' \in [Request -> Status]
           /\ cleanupTimer' \in [Key -> BOOLEAN]
           /\ unswept' = {}
           /\ FiniteQueues'
<1> PICK G \in SUBSET {r \in Request : st[r] = "waiting"} :
        /\ running' = [k \in Key |-> run[k] + Cardinality(que[k] \cap G)]
        /\ queue' = [k \in Key |-> que[k] \ G]
        /\ status' = [r \in Request |-> IF r \in G THEN "holding" ELSE st[r]]
        /\ cleanupTimer' = [k \in Key |->
                    \/ tmr[k]
                    \/ run[k] = 0 /\ \E r \in G : que[k] = {r}
                    \/ k \in closing \cap gates' /\ running'[k] = 0 /\ queue'[k] = {}]
        /\ unswept' = {}
    BY DEF Drain
<1>1. \A k \in Key : Cardinality(que[k] \cap G) \in Nat /\ IsFiniteSet(que[k] \ G)
    BY FS_Intersection, FS_Difference, FS_CardinalityType
<1>2. running' \in [Key -> Nat]
    BY <1>1
<1>3. queue' \in [Key -> SUBSET Request] /\ FiniteQueues'
    BY <1>1 DEF FiniteQueues
<1>4. status' \in [Request -> Status]
    BY DEF Status
<1>5. cleanupTimer' \in [Key -> BOOLEAN]
    OBVIOUS
<1>. QED
    BY <1>2, <1>3, <1>4, <1>5

(* The state a handler passes to the drain is well typed. *)
LEMMA DrainInputs ==
    ASSUME TypeInv, SemaphoreAssumption
    PROVE  /\ \A r \in Request : Decremented(r) \in [Key -> Nat]
           /\ \A W : Without(W) \in [Key -> SUBSET Request]
           /\ \A W : \A k \in Key : IsFiniteSet(Without(W)[k])
           /\ \A W : TimersAfterRemoval(W) \in [Key -> BOOLEAN]
           /\ \A K : TimersCleared(K) \in [Key -> BOOLEAN]
<1>1. \A r \in Request : Decremented(r) \in [Key -> Nat]
    BY DEF TypeInv, TypeOK, Decremented
<1>2. \A W : Without(W) \in [Key -> SUBSET Request]
    BY DEF TypeInv, TypeOK, Without
<1>3. \A W : \A k \in Key : IsFiniteSet(Without(W)[k])
    BY FS_Difference DEF TypeInv, FiniteQueues, Without
<1>4. \A W : TimersAfterRemoval(W) \in [Key -> BOOLEAN]
    BY DEF TimersAfterRemoval
<1>5. \A K : TimersCleared(K) \in [Key -> BOOLEAN]
    BY DEF TypeInv, TypeOK, TimersCleared
<1>. QED
    BY <1>1, <1>2, <1>3, <1>4, <1>5

LEMMA TypeInvInit ==
    ASSUME SemaphoreAssumption, Init
    PROVE  TypeInv
BY FS_EmptySet DEF Init, TypeInv, TypeOK, FiniteQueues, Status

(* The limits a call brings are limits. *)
LEMMA EnsureGatesTyped ==
    ASSUME TypeInv, SemaphoreAssumption, NEW r \in Request, NEW K \in SUBSET Key, EnsureGates(r, K)
    PROVE  gates' \subseteq Key /\ maxConcurrency' \in [Key -> Nat \ {0}]
BY DEF TypeInv, TypeOK, SemaphoreAssumption, EnsureGates

LEMMA TypeInvRequest ==
    ASSUME TypeInv, SemaphoreAssumption, NEW r \in Request, RequestStep(r)
    PROVE  TypeInv'
<1> Keys[r] \in SUBSET Key
    BY DEF SemaphoreAssumption
<1>1. CASE AcquireRejected(r)
    <2>1. PICK full \in Keys[r] :
              /\ EnsureGates(r, {k \in Keys[r] : k <= full})
              /\ cleanupTimer' = TimersCleared({k \in Keys[r] : k <= full})
              /\ unswept' = unswept \cup {k \in Keys[r] : k <= full}
        BY <1>1 DEF AcquireRejected
    <2>2. {k \in Keys[r] : k <= full} \in SUBSET Key
        OBVIOUS
    <2>3. gates' \subseteq Key /\ maxConcurrency' \in [Key -> Nat \ {0}]
        BY <2>1, <2>2, EnsureGatesTyped
    <2>4. cleanupTimer' \in [Key -> BOOLEAN]
        BY <2>1, DrainInputs
    <2>5. status' \in [Request -> Status] /\ unswept' \subseteq Key
        BY <1>1, <2>1, <2>2 DEF AcquireRejected, TypeInv, TypeOK, Status
    <2>. QED
        BY <1>1, <2>3, <2>4, <2>5 DEF AcquireRejected, TypeInv, TypeOK, FiniteQueues
<1>2. CASE AcquireAtOnce(r)
    <2>1. gates' \subseteq Key /\ maxConcurrency' \in [Key -> Nat \ {0}]
        BY <1>2, EnsureGatesTyped DEF AcquireAtOnce
    <2>2. cleanupTimer' \in [Key -> BOOLEAN]
        BY <1>2, DrainInputs DEF AcquireAtOnce
    <2>3. running' \in [Key -> Nat] /\ status' \in [Request -> Status]
        BY <1>2 DEF AcquireAtOnce, TypeInv, TypeOK, Status
    <2>. QED
        BY <1>2, <2>1, <2>2, <2>3 DEF AcquireAtOnce, TypeInv, TypeOK, FiniteQueues
<1>3. CASE AcquireQueued(r)
    <2> DEFINE que == [k \in Key |-> IF k \in Keys[r] THEN queue[k] \cup {r} ELSE queue[k]]
               st == [status EXCEPT ![r] = "waiting"]
    <2>1. que \in [Key -> SUBSET Request] /\ st \in [Request -> Status] /\ running \in [Key -> Nat]
        BY DEF TypeInv, TypeOK, Status
    <2>2. \A k \in Key : IsFiniteSet(que[k])
        BY FS_AddElement DEF TypeInv, FiniteQueues
    <2>3. TimersCleared(Keys[r]) \in [Key -> BOOLEAN]
        BY DrainInputs
    <2>4. Drain(running, que, st, TimersCleared(Keys[r]), {})
        BY <1>3 DEF AcquireQueued, JoinedBy
    <2>. HIDE DEF que, st
    <2>5. /\ running' \in [Key -> Nat]
          /\ queue' \in [Key -> SUBSET Request]
          /\ status' \in [Request -> Status]
          /\ cleanupTimer' \in [Key -> BOOLEAN]
          /\ unswept' = {}
          /\ FiniteQueues'
        BY <2>1, <2>2, <2>3, <2>4, DrainTyped
    <2>6. gates' \subseteq Key /\ maxConcurrency' \in [Key -> Nat \ {0}]
        BY <1>3, EnsureGatesTyped DEF AcquireQueued, JoinedBy
    <2>7. ticket' \in [Request -> Nat] /\ nextTicket' \in Nat \ {0}
        BY <1>3 DEF AcquireQueued, JoinedBy, TypeInv, TypeOK
    <2>. QED
        BY <1>3, <2>5, <2>6, <2>7 DEF AcquireQueued, JoinedBy, TypeInv, TypeOK
<1>4. CASE Release(r)
    <2> DEFINE st == [status EXCEPT ![r] = "released"]
    <2>1. Drain(Decremented(r), queue, st, cleanupTimer, Keys[r])
        BY <1>4 DEF Release, ReleaseFrom
    <2>2. st \in [Request -> Status] /\ Decremented(r) \in [Key -> Nat]
        BY DrainInputs DEF TypeInv, TypeOK, Status
    <2>. HIDE DEF st
    <2>3. /\ running' \in [Key -> Nat]
          /\ queue' \in [Key -> SUBSET Request]
          /\ status' \in [Request -> Status]
          /\ cleanupTimer' \in [Key -> BOOLEAN]
          /\ unswept' = {}
          /\ FiniteQueues'
        BY <2>1, <2>2, DrainTyped DEF TypeInv, TypeOK, FiniteQueues
    <2>. QED
        BY <1>4, <2>3 DEF Release, ReleaseFrom, TypeInv, TypeOK
<1>5. CASE GiveUp(r)
    <2> DEFINE st == [status EXCEPT ![r] = "rejected"]
    <2>1. Drain(running, Without({r}), st, TimersAfterRemoval({r}), {})
        BY <1>5 DEF GiveUp
    <2>2. st \in [Request -> Status] /\ running \in [Key -> Nat]
        BY DEF TypeInv, TypeOK, Status
    <2>. HIDE DEF st
    <2>3. /\ running' \in [Key -> Nat]
          /\ queue' \in [Key -> SUBSET Request]
          /\ status' \in [Request -> Status]
          /\ cleanupTimer' \in [Key -> BOOLEAN]
          /\ unswept' = {}
          /\ FiniteQueues'
        BY <2>1, <2>2, DrainTyped, DrainInputs
    <2>. QED
        BY <1>5, <2>3 DEF GiveUp, TypeInv, TypeOK
<1>. QED
    BY <1>1, <1>2, <1>3, <1>4, <1>5 DEF RequestStep, Timeout, Abort

LEMMA CleanupTyped ==
    ASSUME TypeInv, NEW k \in Key, CleanupGateIfIdle(k)
    PROVE  gates' \subseteq Key /\ maxConcurrency' \in [Key -> Nat \ {0}]
<1>1. CASE k \in gates /\ Idle(k) /\ ~blocked[k]
    BY <1>1 DEF CleanupGateIfIdle, TypeInv, TypeOK
<1>2. CASE ~(k \in gates /\ Idle(k) /\ ~blocked[k])
    BY <1>2 DEF CleanupGateIfIdle, TypeInv, TypeOK
<1>. QED
    BY <1>1, <1>2

LEMMA TypeInvGate ==
    ASSUME TypeInv, SemaphoreAssumption, NEW k \in Key, GateStep(k)
    PROVE  TypeInv'
<1>1. CASE MarkBlocked(k)
    <2>1. cleanupTimer' \in [Key -> BOOLEAN]
        BY <1>1, DrainInputs DEF MarkBlocked
    <2>. QED
        BY <1>1, <2>1 DEF MarkBlocked, TypeInv, TypeOK, FiniteQueues
<1>2. CASE BlockLapses(k)
    BY <1>2 DEF BlockLapses, TypeInv, TypeOK, FiniteQueues
<1>3. CASE Unblock(k)
    <2> DEFINE tmr == IF Idle(k) THEN TimersCleared({k}) ELSE cleanupTimer
    <2>1. Drain(running, queue, status, tmr, {})
        BY <1>3 DEF Unblock
    <2>2. tmr \in [Key -> BOOLEAN]
        BY DrainInputs DEF TypeInv, TypeOK
    <2>. HIDE DEF tmr
    <2>3. /\ running' \in [Key -> Nat]
          /\ queue' \in [Key -> SUBSET Request]
          /\ status' \in [Request -> Status]
          /\ cleanupTimer' \in [Key -> BOOLEAN]
          /\ unswept' = {}
          /\ FiniteQueues'
        BY <2>1, <2>2, DrainTyped DEF TypeInv, TypeOK, FiniteQueues
    <2>4. gates' \subseteq Key /\ maxConcurrency' \in [Key -> Nat \ {0}] /\ blocked' \in [Key -> BOOLEAN]
        BY <1>3 DEF Unblock, TypeInv, TypeOK
    <2>. QED
        BY <1>3, <2>3, <2>4 DEF Unblock, TypeInv, TypeOK
<1>4. CASE CleanupFires(k)
    <2>1. cleanupTimer' \in [Key -> BOOLEAN]
        BY <1>4, DrainInputs DEF CleanupFires
    <2>2. gates' \subseteq Key /\ maxConcurrency' \in [Key -> Nat \ {0}]
        BY <1>4, CleanupTyped DEF CleanupFires
    <2>. QED
        BY <1>4, <2>1, <2>2 DEF CleanupFires, TypeInv, TypeOK, FiniteQueues
<1>. QED
    BY <1>1, <1>2, <1>3, <1>4 DEF GateStep

LEMMA TypeInvReset ==
    ASSUME TypeInv, SemaphoreAssumption, ResetStep
    PROVE  TypeInv'
<1> HeldGates \subseteq Request \X Key
    BY DEF HeldGates
<1>1. CASE ResetAll
    BY <1>1, FS_EmptySet DEF ResetAll, TypeInv, TypeOK, FiniteQueues, Status
<1>2. ASSUME NEW k \in Key, Reset(k)
      PROVE  TypeInv'
    <2> DEFINE run == [running EXCEPT ![k] = 0]
               st == [r \in Request |-> IF r \in queue[k] THEN "rejected" ELSE status[r]]
               tmr == [TimersAfterRemoval(queue[k]) EXCEPT ![k] = FALSE]
    <2>1. Drain(run, Without(queue[k]), st, tmr, {})
        BY <1>2 DEF Reset
    <2>2. run \in [Key -> Nat] /\ st \in [Request -> Status] /\ tmr \in [Key -> BOOLEAN]
        BY DrainInputs DEF TypeInv, TypeOK, Status
    <2>. HIDE DEF run, st, tmr
    <2>3. /\ running' \in [Key -> Nat]
          /\ queue' \in [Key -> SUBSET Request]
          /\ status' \in [Request -> Status]
          /\ cleanupTimer' \in [Key -> BOOLEAN]
          /\ unswept' = {}
          /\ FiniteQueues'
        BY <2>1, <2>2, DrainTyped, DrainInputs
    <2>4. /\ gates' \subseteq Key /\ maxConcurrency' \in [Key -> Nat \ {0}]
          /\ blocked' \in [Key -> BOOLEAN] /\ strayTimers' \subseteq Key
          /\ orphaned' \subseteq Request \X Key
        BY <1>2 DEF Reset, TypeInv, TypeOK
    <2>. QED
        BY <1>2, <2>3, <2>4 DEF Reset, TypeInv, TypeOK
<1>3. ASSUME NEW k \in Key, StrayTimerFires(k)
      PROVE  TypeInv'
    <2>1. cleanupTimer' \in [Key -> BOOLEAN]
        BY <1>3, DrainInputs DEF StrayTimerFires, TypeInv, TypeOK
    <2>2. gates' \subseteq Key /\ maxConcurrency' \in [Key -> Nat \ {0}]
        BY <1>3, CleanupTyped DEF StrayTimerFires
    <2>. QED
        BY <1>3, <2>1, <2>2 DEF StrayTimerFires, TypeInv, TypeOK, FiniteQueues
<1>. QED
    BY <1>1, <1>2, <1>3 DEF ResetStep

LEMMA TypeInvStep ==
    ASSUME TypeInv, SemaphoreAssumption, [Next]_vars
    PROVE  TypeInv'
<1>1. CASE UNCHANGED vars
    BY <1>1 DEF vars, gateVars, TypeInv, TypeOK, FiniteQueues
<1>. QED
    BY <1>1, TypeInvRequest, TypeInvGate, TypeInvReset DEF Next, Service

(***************************************************************************)
(* Every reachable state is well typed and no queue is infinite, whatever  *)
(* the calls, the limits, the blocks and the operator's resets.            *)
(***************************************************************************)
THEOREM TypeCorrect == Spec => []TypeOK
<1>1. Init => TypeInv
    BY TypeInvInit, SemaphoreAssumption
<1>2. TypeInv /\ [Next]_vars => TypeInv'
    BY TypeInvStep, SemaphoreAssumption
<1>3. TypeInv => TypeOK
    BY DEF TypeInv
<1>. QED
    BY <1>1, <1>2, <1>3, PTL DEF Spec

-----------------------------------------------------------------------------
(* The queue of gate k when the calls are in the states st. *)
QueueOf(st, k) == {r \in Request : st[r] = "waiting" /\ k \in Keys[r]}

(***************************************************************************)
(* A drain takes the calls it admits out of every queue and adds none.     *)
(***************************************************************************)
LEMMA DrainQueues ==
    ASSUME SemaphoreAssumption,
           NEW run, NEW que, NEW tmr, NEW closing,
           NEW st \in [Request -> Status],
           \A k \in Key : que[k] = QueueOf(st, k),
           Drain(run, que, st, tmr, closing)
    PROVE  /\ \A k \in Key : queue'[k] = QueueOf(status', k)
           /\ \A k \in Key : queue'[k] \subseteq que[k]
           /\ Waiting' \subseteq {r \in Request : st[r] = "waiting"}
<1> PICK G \in SUBSET {r \in Request : st[r] = "waiting"} :
        /\ queue' = [k \in Key |-> que[k] \ G]
        /\ status' = [r \in Request |-> IF r \in G THEN "holding" ELSE st[r]]
    BY DEF Drain
<1>. QED
    BY DEF QueueOf, Waiting, Status

(* QueueIntegrity in the form the lemmas use. *)
LEMMA QueueIntegrityParts ==
    QueueIntegrity <=> /\ \A k \in Key : queue[k] = QueueOf(status, k)
                       /\ \A k \in Key : queue[k] # {} => k \in gates
                       /\ \A r \in Waiting : ticket[r] < nextTicket
                       /\ \A q, r \in Waiting : ticket[q] = ticket[r] => q = r
BY DEF QueueIntegrity, QueueOf, Waiting

(***************************************************************************)
(* A handler that hands out no ticket, whose queues fit the states before  *)
(* its drain, and that discards no gate with a queue, keeps the integrity. *)
(***************************************************************************)
LEMMA DrainIntegrity ==
    ASSUME SemaphoreAssumption, TypeInv, QueueIntegrity,
           NEW run, NEW que, NEW tmr, NEW closing,
           NEW st \in [Request -> Status],
           \A k \in Key : que[k] = QueueOf(st, k) /\ (que[k] # {} => k \in gates'),
           {r \in Request : st[r] = "waiting"} \subseteq Waiting,
           UNCHANGED <<ticket, nextTicket>>,
           Drain(run, que, st, tmr, closing)
    PROVE  QueueIntegrity'
<1>1. /\ \A k \in Key : queue'[k] = QueueOf(status', k)
      /\ \A k \in Key : queue'[k] \subseteq que[k]
      /\ Waiting' \subseteq Waiting
    BY DrainQueues
<1>2. \A k \in Key : queue'[k] # {} => k \in gates'
    BY <1>1
<1>3. \A r \in Waiting' : ticket'[r] < nextTicket'
    BY <1>1 DEF QueueIntegrity
<1>4. \A q, r \in Waiting' : ticket'[q] = ticket'[r] => q = r
    BY <1>1 DEF QueueIntegrity
<1>5. \A k \in Key : queue'[k] = {r \in Waiting' : k \in Keys[r]}
    BY <1>1 DEF QueueOf, Waiting
<1>. QED
    BY <1>2, <1>3, <1>4, <1>5 DEF QueueIntegrity

LEMMA QueueIntegrityRequest ==
    ASSUME SemaphoreAssumption, TypeInv, QueueIntegrity, NEW r \in Request, RequestStep(r)
    PROVE  QueueIntegrity'
<1> Keys[r] \in SUBSET Key
    BY DEF SemaphoreAssumption
<1>1. CASE AcquireRejected(r)
    <2>1. gates \subseteq gates' /\ Waiting' = Waiting
        BY <1>1 DEF AcquireRejected, EnsureGates, Waiting, TypeInv, TypeOK
    <2>. QED
        BY <1>1, <2>1 DEF AcquireRejected, QueueIntegrity
<1>2. CASE AcquireAtOnce(r)
    <2>1. gates \subseteq gates' /\ Waiting' = Waiting
        BY <1>2 DEF AcquireAtOnce, EnsureGates, Waiting, TypeInv, TypeOK
    <2>. QED
        BY <1>2, <2>1 DEF AcquireAtOnce, QueueIntegrity
<1>3. CASE AcquireQueued(r)
    <2> DEFINE que == [k \in Key |-> IF k \in Keys[r] THEN queue[k] \cup {r} ELSE queue[k]]
               st == [status EXCEPT ![r] = "waiting"]
    <2>1. st \in [Request -> Status]
        BY DEF TypeInv, TypeOK, Status
    <2>2. \A k \in Key : que[k] = QueueOf(st, k)
        <3>1. \A q \in Request : st[q] = "waiting" <=> q = r \/ status[q] = "waiting"
            BY DEF TypeInv, TypeOK
        <3>2. ASSUME NEW k \in Key
              PROVE  que[k] = QueueOf(st, k)
            <4>1. queue[k] = {q \in Request : status[q] = "waiting" /\ k \in Keys[q]}
                BY DEF QueueIntegrity, Waiting
            <4>2. QueueOf(st, k) = {q \in Request : (q = r \/ status[q] = "waiting") /\ k \in Keys[q]}
                BY <3>1 DEF QueueOf
            <4>. QED
                BY <4>1, <4>2
        <3>. QED
            BY <3>2
    <2>3. {q \in Request : st[q] = "waiting"} = Waiting \cup {r} /\ r \notin Waiting
        BY <1>3 DEF AcquireQueued, JoinedBy, Waiting, TypeInv, TypeOK
    <2>4. \A k \in Key : que[k] # {} => k \in gates'
        BY <1>3 DEF AcquireQueued, JoinedBy, EnsureGates, QueueIntegrity
    <2>5. Drain(running, que, st, TimersCleared(Keys[r]), {})
        BY <1>3 DEF AcquireQueued, JoinedBy
    <2>. HIDE DEF que, st
    <2>6. /\ \A k \in Key : queue'[k] = QueueOf(status', k)
          /\ \A k \in Key : queue'[k] \subseteq que[k]
          /\ Waiting' \subseteq {q \in Request : st[q] = "waiting"}
        BY <2>1, <2>2, <2>5, DrainQueues
    <2>7. Waiting' \subseteq Waiting \cup {r}
        BY <2>3, <2>6
    <2>8. \A k \in Key : queue'[k] # {} => k \in gates'
        BY <2>4, <2>6
    <2>9. ticket'[r] = nextTicket /\ nextTicket' = nextTicket + 1 /\ \A q \in Request \ {r} : ticket'[q] = ticket[q]
        BY <1>3 DEF AcquireQueued, JoinedBy, TypeInv, TypeOK
    <2>10. \A q \in Waiting' : ticket'[q] < nextTicket'
        BY <2>3, <2>7, <2>9 DEF QueueIntegrity, Waiting, TypeInv, TypeOK
    <2>11. \A p, q \in Waiting' : ticket'[p] = ticket'[q] => p = q
        BY <2>3, <2>7, <2>9 DEF QueueIntegrity, Waiting, TypeInv, TypeOK
    <2>. QED
        BY <2>6, <2>8, <2>10, <2>11 DEF QueueIntegrity, QueueOf, Waiting
<1>4. CASE Release(r)
    <2> DEFINE st == [status EXCEPT ![r] = "released"]
    <2>1. Drain(Decremented(r), queue, st, cleanupTimer, Keys[r]) /\ UNCHANGED <<gates, ticket, nextTicket>>
        BY <1>4 DEF Release, ReleaseFrom
    <2>2. /\ st \in [Request -> Status]
          /\ {q \in Request : st[q] = "waiting"} \subseteq Waiting
          /\ \A k \in Key : queue[k] = QueueOf(st, k)
        BY <1>4 DEF Release, ReleaseFrom, QueueIntegrity, QueueOf, Waiting, TypeInv, TypeOK, Status
    <2>. HIDE DEF st
    <2>. QED
        BY <2>1, <2>2, DrainIntegrity DEF QueueIntegrity
<1>5. CASE GiveUp(r)
    <2> DEFINE st == [status EXCEPT ![r] = "rejected"]
    <2>1. Drain(running, Without({r}), st, TimersAfterRemoval({r}), {}) /\ UNCHANGED <<gates, ticket, nextTicket>>
        BY <1>5 DEF GiveUp
    <2>2. /\ st \in [Request -> Status]
          /\ {q \in Request : st[q] = "waiting"} \subseteq Waiting
          /\ \A k \in Key : Without({r})[k] = QueueOf(st, k) /\ Without({r})[k] \subseteq queue[k]
        BY <1>5 DEF GiveUp, Without, QueueIntegrity, QueueOf, Waiting, TypeInv, TypeOK, Status
    <2>3. \A k \in Key : Without({r})[k] # {} => k \in gates'
        BY <2>1, <2>2 DEF QueueIntegrity
    <2>. HIDE DEF st
    <2>. QED
        BY <2>1, <2>2, <2>3, DrainIntegrity
<1>. QED
    BY <1>1, <1>2, <1>3, <1>4, <1>5 DEF RequestStep, Timeout, Abort

LEMMA QueueIntegrityGate ==
    ASSUME SemaphoreAssumption, TypeInv, QueueIntegrity, NEW k \in Key, GateStep(k)
    PROVE  QueueIntegrity'
<1>1. CASE MarkBlocked(k)
    BY <1>1 DEF MarkBlocked, QueueIntegrity, Waiting
<1>2. CASE BlockLapses(k)
    BY <1>2 DEF BlockLapses, QueueIntegrity, Waiting
<1>3. CASE Unblock(k)
    <2>1. \A j \in Key : queue[j] = QueueOf(status, j) /\ (queue[j] # {} => j \in gates')
        BY <1>3 DEF Unblock, Idle, QueueIntegrity, QueueOf, Waiting
    <2>2. /\ Drain(running, queue, status, IF Idle(k) THEN TimersCleared({k}) ELSE cleanupTimer, {})
          /\ UNCHANGED <<ticket, nextTicket>>
        BY <1>3 DEF Unblock
    <2>. QED
        BY <2>1, <2>2, DrainIntegrity DEF Waiting, TypeInv, TypeOK
<1>4. CASE CleanupFires(k)
    <2>1. \A j \in Key : queue[j] # {} => j \in gates'
        BY <1>4 DEF CleanupFires, CleanupGateIfIdle, Idle, QueueIntegrity
    <2>. QED
        BY <1>4, <2>1 DEF CleanupFires, QueueIntegrity, Waiting
<1>. QED
    BY <1>1, <1>2, <1>3, <1>4 DEF GateStep

LEMMA QueueIntegrityReset ==
    ASSUME SemaphoreAssumption, TypeInv, QueueIntegrity, ResetStep
    PROVE  QueueIntegrity'
<1>1. CASE ResetAll
    <2>1. Waiting' = {}
        BY <1>1 DEF ResetAll, Waiting
    <2>. QED
        BY <1>1, <2>1 DEF ResetAll, QueueIntegrity
<1>2. ASSUME NEW k \in Key, Reset(k)
      PROVE  QueueIntegrity'
    <2> DEFINE st == [r \in Request |-> IF r \in queue[k] THEN "rejected" ELSE status[r]]
               que == Without(queue[k])
    <2>1. /\ Drain([running EXCEPT ![k] = 0], que, st, [TimersAfterRemoval(queue[k]) EXCEPT ![k] = FALSE], {})
          /\ UNCHANGED <<ticket, nextTicket>>
        BY <1>2 DEF Reset
    <2>2. /\ st \in [Request -> Status]
          /\ {r \in Request : st[r] = "waiting"} \subseteq Waiting
        BY DEF Waiting, TypeInv, TypeOK, Status
    <2>3. \A j \in Key : que[j] = QueueOf(st, j)
        BY DEF Without, QueueIntegrity, QueueOf, Waiting, TypeInv, TypeOK
    <2>4. \A j \in Key : que[j] # {} => j \in gates'
        BY <1>2 DEF Reset, Without, QueueIntegrity
    <2>. HIDE DEF st, que
    <2>. QED
        BY <2>1, <2>2, <2>3, <2>4, DrainIntegrity
<1>3. ASSUME NEW k \in Key, StrayTimerFires(k)
      PROVE  QueueIntegrity'
    <2>1. \A j \in Key : queue[j] # {} => j \in gates'
        BY <1>3 DEF StrayTimerFires, CleanupGateIfIdle, Idle, QueueIntegrity
    <2>. QED
        BY <1>3, <2>1 DEF StrayTimerFires, QueueIntegrity, Waiting
<1>. QED
    BY <1>1, <1>2, <1>3 DEF ResetStep

LEMMA QueueIntegrityStep ==
    ASSUME SemaphoreAssumption, TypeInv, QueueIntegrity, [Next]_vars
    PROVE  QueueIntegrity'
<1>1. CASE UNCHANGED vars
    BY <1>1 DEF vars, gateVars, QueueIntegrity, Waiting
<1>. QED
    BY <1>1, QueueIntegrityRequest, QueueIntegrityGate, QueueIntegrityReset DEF Next, Service

(***************************************************************************)
(* A call waits in the queue of every gate it names or in none, through    *)
(* every admission, timeout, abort, cleanup and reset, and tickets order   *)
(* the waiting calls strictly: each queue has one head.                    *)
(***************************************************************************)
THEOREM QueuesAreWhole == Spec => []QueueIntegrity
<1>1. Init => TypeInv /\ QueueIntegrity
    BY TypeInvInit, SemaphoreAssumption DEF Init, QueueIntegrity, Waiting
<1>2. TypeInv /\ QueueIntegrity /\ [Next]_vars => (TypeInv /\ QueueIntegrity)'
    BY TypeInvStep, QueueIntegrityStep, SemaphoreAssumption
<1>. QED
    BY <1>1, <1>2, PTL DEF Spec

-----------------------------------------------------------------------------
(* A bounded, non-empty set of tickets has a last one. *)
LEMMA LastTicket ==
    ASSUME NEW A, A # {}, NEW f, \A x \in A : f[x] \in Nat,
           NEW n \in Nat, \A x \in A : f[x] < n
    PROVE  \E m \in A : \A x \in A : f[x] <= f[m]
<1> DEFINE B == {b \in Nat : \A x \in A : f[x] <= b}
<1>1. B \subseteq Nat /\ n \in B
    OBVIOUS
<1>2. PICK b \in B : \A c \in B : <<c, b>> \notin OpToRel(<, Nat)
    BY <1>1, WFMin, NatLessThanWellFounded
<1>3. \A c \in B : ~(c < b)
    BY <1>1, <1>2 DEF OpToRel
<1>4. \E m \in A : f[m] = b
    <2>1. SUFFICES ASSUME \A x \in A : f[x] # b
                   PROVE  FALSE
        OBVIOUS
    <2>2. \A x \in A : f[x] < b
        BY <2>1
    <2>3. b - 1 \in Nat
        BY <2>2
    <2>4. b - 1 \in B
        BY <2>2, <2>3
    <2>. QED
        BY <1>3, <2>3, <2>4
<1>. QED
    BY <1>4

(* The calls that hold gate k when the calls are in the states st. *)
HoldersOf(st, k) == {r \in Request : st[r] = "holding" /\ k \in Keys[r]}

Counts(st, run) == \A k \in Key : IsFiniteSet(HoldersOf(st, k)) /\ run[k] = Cardinality(HoldersOf(st, k))

(***************************************************************************)
(* A drain increments every counter by the number of calls it admits       *)
(* through the gate, and no gate it admits through ends above its limit.   *)
(***************************************************************************)
LEMMA DrainCounts ==
    ASSUME SemaphoreAssumption,
           NEW run \in [Key -> Nat], NEW que \in [Key -> SUBSET Request], NEW tmr, NEW closing,
           NEW st \in [Request -> Status],
           \A k \in Key : IsFiniteSet(que[k]) /\ que[k] = QueueOf(st, k),
           Counts(st, run),
           maxConcurrency' \in [Key -> Nat \ {0}],
           ticket' \in [Request -> Nat], nextTicket' \in Nat,
           \A r \in Request : st[r] = "waiting" => ticket'[r] < nextTicket',
           \A q, r \in Request :
               st[q] = "waiting" /\ st[r] = "waiting" /\ ticket'[q] = ticket'[r] => q = r,
           Drain(run, que, st, tmr, closing)
    PROVE  /\ Counts(status', running')
           /\ \A r \in Request : st[r] = "waiting" /\ status'[r] = "holding" =>
                \A k \in Keys[r] : running'[k] <= maxConcurrency'[k]
           /\ \A r \in Request : status'[r] = "holding" => st[r] \in {"waiting", "holding"}
<1> DEFINE waiting == {r \in Request : st[r] = "waiting"}
<1>1. PICK G \in SUBSET waiting :
        /\ Admits(G, run, que, waiting)
        /\ running' = [k \in Key |-> run[k] + Cardinality(que[k] \cap G)]
        /\ status' = [r \in Request |-> IF r \in G THEN "holding" ELSE st[r]]
    BY DEF Drain
<1>2. ASSUME NEW k \in Key
      PROVE  IsFiniteSet(HoldersOf(status', k)) /\ running'[k] = Cardinality(HoldersOf(status', k))
    <2> DEFINE old == HoldersOf(st, k)
               new == que[k] \cap G
    <2>1. HoldersOf(status', k) = old \cup new /\ old \cap new = {}
        BY <1>1 DEF HoldersOf, QueueOf
    <2>2. IsFiniteSet(new) /\ IsFiniteSet(old) /\ running'[k] = Cardinality(old) + Cardinality(new)
        BY <1>1, FS_Intersection DEF Counts
    <2>. HIDE DEF old, new
    <2>3. Cardinality(old) \in Nat /\ Cardinality(new) \in Nat
        BY <2>2, FS_CardinalityType
    <2>4. /\ IsFiniteSet(old \cup new)
          /\ Cardinality(old \cup new) = Cardinality(old) + Cardinality(new) - Cardinality(old \cap new)
        BY <2>2, FS_Union
    <2>5. Cardinality(old \cap new) = 0
        BY <2>1, FS_EmptySet
    <2>. QED
        BY <2>1, <2>2, <2>3, <2>4, <2>5
<1>3. ASSUME NEW r \in Request, st[r] = "waiting", status'[r] = "holding", NEW k \in Keys[r]
      PROVE  running'[k] <= maxConcurrency'[k]
    <2>0. k \in Key
        BY <1>3 DEF SemaphoreAssumption
    <2>1. r \in G
        BY <1>1, <1>3
    <2> DEFINE A == que[k] \cap G
    <2>2. r \in A
        BY <1>3, <2>0, <2>1 DEF QueueOf
    <2>3. \A x \in A : x \in Request /\ st[x] = "waiting" /\ k \in Keys[x] /\ x \in G
        BY <2>0 DEF QueueOf
    <2>4. \A x \in A : ticket'[x] \in Nat /\ ticket'[x] < nextTicket'
        BY <2>3
    <2>5. A # {}
        BY <2>2
    <2>. HIDE DEF A
    <2>6. PICK m \in A : \A x \in A : ticket'[x] <= ticket'[m]
        BY <2>4, <2>5, LastTicket
    <2>7. Fits(G, run, que, m, k)
        BY <1>1, <2>3, <2>6 DEF Admits
    <2>8. run[k] + Cardinality(Ahead(que, m, k)) < maxConcurrency'[k]
        BY <2>7 DEF Fits
    <2>9. \A x \in A : x = m \/ ticket'[x] < ticket'[m]
        <3> SUFFICES ASSUME NEW x \in A, x # m
                     PROVE  ticket'[x] < ticket'[m]
            OBVIOUS
        <3>1. ticket'[x] # ticket'[m]
            BY <2>3
        <3>2. ticket'[x] \in Nat /\ ticket'[m] \in Nat /\ ticket'[x] <= ticket'[m]
            BY <2>4, <2>6
        <3>3. \A a, b \in Nat : a <= b /\ a # b => a < b
            OBVIOUS
        <3>. QED
            BY <3>1, <3>2, <3>3
    <2>10. A \subseteq Ahead(que, m, k) \cup {m}
        BY <2>9 DEF A, Ahead
    <2>11. IsFiniteSet(Ahead(que, m, k)) /\ Cardinality(Ahead(que, m, k)) \in Nat
        <3>1. Ahead(que, m, k) \in SUBSET que[k]
            BY DEF Ahead
        <3>. QED
            BY <2>0, <3>1, FS_Subset, FS_CardinalityType
    <2>12. /\ IsFiniteSet(Ahead(que, m, k) \cup {m})
           /\ Cardinality(Ahead(que, m, k) \cup {m}) \in Nat
           /\ Cardinality(Ahead(que, m, k) \cup {m}) <= Cardinality(Ahead(que, m, k)) + 1
        <3> DEFINE S == Ahead(que, m, k)
        <3>1. IsFiniteSet(S) /\ Cardinality(S) \in Nat
            BY <2>11
        <3>. HIDE DEF S
        <3>2. /\ IsFiniteSet(S \cup {m})
              /\ Cardinality(S \cup {m}) = IF m \in S THEN Cardinality(S) ELSE Cardinality(S) + 1
            BY <3>1, FS_AddElement
        <3>3. /\ IsFiniteSet(S \cup {m}) /\ Cardinality(S \cup {m}) \in Nat
              /\ Cardinality(S \cup {m}) <= Cardinality(S) + 1
            BY <3>1, <3>2
        <3>. QED
            BY <3>3 DEF S
    <2>13. Cardinality(A) \in Nat /\ Cardinality(A) <= Cardinality(Ahead(que, m, k)) + 1
        BY <2>10, <2>11, <2>12, FS_Subset, FS_CardinalityType
    <2>14. running'[k] = run[k] + Cardinality(A)
        BY <1>1, <2>0 DEF A
    <2>. QED
        BY <2>0, <2>8, <2>11, <2>13, <2>14
<1>. QED
    BY <1>1, <1>2, <1>3 DEF Counts

-----------------------------------------------------------------------------
(* What the traffic of the gateway, with no reset, keeps invariant. *)
CountInv ==
    /\ TypeInv
    /\ QueueIntegrity
    /\ orphaned = {}
    /\ Counts(status, running)

(* A step admits nobody through a gate it leaves above its limit. *)
Fitting == \A r \in Request : Admitted(r) => \A k \in Keys[r] : running'[k] <= maxConcurrency'[k]

(***************************************************************************)
(* DrainCounts for a handler that starts in a state of CountInv, hands out *)
(* no ticket and lets nobody in before the drain.                          *)
(***************************************************************************)
LEMMA DrainFits ==
    ASSUME SemaphoreAssumption, CountInv, TypeInv', QueueIntegrity',
           NEW run \in [Key -> Nat], NEW que \in [Key -> SUBSET Request], NEW tmr, NEW closing,
           NEW st \in [Request -> Status],
           \A k \in Key : IsFiniteSet(que[k]) /\ que[k] = QueueOf(st, k),
           Counts(st, run),
           \A r \in Request : st[r] = "waiting" => status[r] = "waiting",
           \A r \in Request : st[r] = "holding" => status[r] = "holding",
           UNCHANGED <<ticket, nextTicket, orphaned>>,
           Drain(run, que, st, tmr, closing)
    PROVE  Counts(status', running') /\ Fitting
<1>1. /\ maxConcurrency' \in [Key -> Nat \ {0}]
      /\ ticket' \in [Request -> Nat]
      /\ nextTicket' \in Nat
    BY DEF TypeInv, TypeOK
<1>2. \A r \in Request : st[r] = "waiting" => ticket'[r] < nextTicket'
    BY DEF CountInv, QueueIntegrity, Waiting
<1>3. \A q, r \in Request : st[q] = "waiting" /\ st[r] = "waiting" /\ ticket'[q] = ticket'[r] => q = r
    BY DEF CountInv, QueueIntegrity, Waiting
<1>4. /\ Counts(status', running')
      /\ \A r \in Request : st[r] = "waiting" /\ status'[r] = "holding" =>
            \A k \in Keys[r] : running'[k] <= maxConcurrency'[k]
      /\ \A r \in Request : status'[r] = "holding" => st[r] \in {"waiting", "holding"}
    BY <1>1, <1>2, <1>3, DrainCounts
<1>. QED
    BY <1>4 DEF Fitting, Admitted

LEMMA CountsRequest ==
    ASSUME SemaphoreAssumption, CountInv, TypeInv', QueueIntegrity', NEW r \in Request, RequestStep(r)
    PROVE  Counts(status', running') /\ Fitting
<1> Keys[r] \in SUBSET Key
    BY DEF SemaphoreAssumption
<1> TypeInv /\ TypeOK
    BY DEF CountInv, TypeInv
<1>1. CASE AcquireRejected(r)
    <2>1. status' = [status EXCEPT ![r] = "rejected"] /\ status[r] = "new" /\ running' = running
        BY <1>1 DEF AcquireRejected
    <2>2. \A k \in Key : HoldersOf(status', k) = HoldersOf(status, k)
        BY <2>1 DEF HoldersOf, TypeOK
    <2>3. Counts(status', running')
        BY <2>1, <2>2 DEF Counts, CountInv
    <2>. QED
        BY <2>1, <2>3 DEF Fitting, Admitted, TypeOK
<1>2. CASE AcquireAtOnce(r)
    <2>1. /\ status' = [status EXCEPT ![r] = "holding"] /\ status[r] = "new"
          /\ running' = [k \in Key |-> IF k \in Keys[r] THEN running[k] + 1 ELSE running[k]]
        BY <1>2 DEF AcquireAtOnce
    <2>2. \A k \in Key : HoldersOf(status', k) =
              IF k \in Keys[r] THEN HoldersOf(status, k) \cup {r} ELSE HoldersOf(status, k)
        BY <2>1 DEF HoldersOf, TypeOK
    <2>3. \A k \in Key : r \notin HoldersOf(status, k)
        BY <2>1 DEF HoldersOf
    <2>4. ASSUME NEW k \in Key
          PROVE  IsFiniteSet(HoldersOf(status', k)) /\ running'[k] = Cardinality(HoldersOf(status', k))
        <3>1. IsFiniteSet(HoldersOf(status, k)) /\ running[k] = Cardinality(HoldersOf(status, k))
            BY DEF Counts, CountInv
        <3>2. /\ IsFiniteSet(HoldersOf(status, k) \cup {r})
              /\ Cardinality(HoldersOf(status, k) \cup {r}) = Cardinality(HoldersOf(status, k)) + 1
            BY <2>3, <3>1, FS_AddElement
        <3>. QED
            BY <2>1, <2>2, <3>1, <3>2
    <2>5. \A k \in Keys[r] : running'[k] <= maxConcurrency'[k]
        BY <1>2, <2>1 DEF AcquireAtOnce, Open, EnsureGates, TypeOK, SemaphoreAssumption
    <2>. QED
        BY <2>1, <2>4, <2>5 DEF Counts, Fitting, Admitted, TypeOK
<1>3. CASE AcquireQueued(r)
    <2> DEFINE que == [k \in Key |-> IF k \in Keys[r] THEN queue[k] \cup {r} ELSE queue[k]]
               st == [status EXCEPT ![r] = "waiting"]
    <2>1. /\ Drain(running, que, st, TimersCleared(Keys[r]), {})
          /\ status[r] = "new"
          /\ ticket' = [ticket EXCEPT ![r] = nextTicket]
          /\ nextTicket' = nextTicket + 1
        BY <1>3 DEF AcquireQueued, JoinedBy
    <2>2. st \in [Request -> Status] /\ que \in [Key -> SUBSET Request] /\ running \in [Key -> Nat]
        BY DEF TypeOK, Status
    <2>3. \A q \in Request : /\ st[q] = "waiting" <=> q = r \/ status[q] = "waiting"
                             /\ st[q] = "holding" <=> status[q] = "holding"
        BY <2>1 DEF TypeOK
    <2>4. ASSUME NEW k \in Key
          PROVE  que[k] = QueueOf(st, k) /\ IsFiniteSet(que[k])
        <3>1. queue[k] = {q \in Request : status[q] = "waiting" /\ k \in Keys[q]} /\ IsFiniteSet(queue[k])
            BY DEF CountInv, QueueIntegrity, Waiting, TypeInv, FiniteQueues
        <3>2. QueueOf(st, k) = {q \in Request : (q = r \/ status[q] = "waiting") /\ k \in Keys[q]}
            BY <2>3 DEF QueueOf
        <3>3. que[k] = QueueOf(st, k)
            BY <3>1, <3>2
        <3>4. IsFiniteSet(queue[k] \cup {r})
            BY <3>1, FS_AddElement
        <3>. QED
            BY <3>1, <3>3, <3>4
    <2>5. Counts(st, running)
        <3>1. \A k \in Key : HoldersOf(st, k) = HoldersOf(status, k)
            BY <2>3 DEF HoldersOf
        <3>. QED
            BY <3>1 DEF Counts, CountInv
    <2>6. \A q \in Request : st[q] = "waiting" => ticket'[q] < nextTicket'
        BY <2>1, <2>3 DEF CountInv, QueueIntegrity, Waiting, TypeOK
    <2>7. \A p, q \in Request : st[p] = "waiting" /\ st[q] = "waiting" /\ ticket'[p] = ticket'[q] => p = q
        BY <2>1, <2>3 DEF CountInv, QueueIntegrity, Waiting, TypeOK
    <2>8. /\ maxConcurrency' \in [Key -> Nat \ {0}]
          /\ ticket' \in [Request -> Nat]
          /\ nextTicket' \in Nat
        BY DEF TypeInv, TypeOK
    <2>. HIDE DEF que, st
    <2>9. /\ Counts(status', running')
          /\ \A q \in Request : st[q] = "waiting" /\ status'[q] = "holding" =>
                \A k \in Keys[q] : running'[k] <= maxConcurrency'[k]
          /\ \A q \in Request : status'[q] = "holding" => st[q] \in {"waiting", "holding"}
        BY <2>1, <2>2, <2>4, <2>5, <2>6, <2>7, <2>8, DrainCounts
    <2>. QED
        BY <2>3, <2>9 DEF Fitting, Admitted
<1>4. CASE Release(r)
    <2> DEFINE st == [status EXCEPT ![r] = "released"]
    <2>1. /\ Drain(Decremented(r), queue, st, cleanupTimer, Keys[r])
          /\ status[r] = "holding"
          /\ UNCHANGED <<ticket, nextTicket, orphaned>>
        BY <1>4 DEF Release, ReleaseFrom
    <2>2. st \in [Request -> Status] /\ Decremented(r) \in [Key -> Nat] /\ queue \in [Key -> SUBSET Request]
        BY DrainInputs DEF TypeOK, Status
    <2>3. \A q \in Request : /\ st[q] = "waiting" <=> status[q] = "waiting"
                             /\ st[q] = "holding" <=> q # r /\ status[q] = "holding"
        BY <2>1 DEF TypeOK
    <2>4. \A k \in Key : queue[k] = QueueOf(st, k) /\ IsFiniteSet(queue[k])
        BY <2>3 DEF CountInv, QueueIntegrity, QueueOf, Waiting, TypeInv, FiniteQueues
    <2>5. \A k \in Key : HoldersOf(st, k) = HoldersOf(status, k) \ {r}
        BY <2>3 DEF HoldersOf
    <2>6. ASSUME NEW k \in Key
          PROVE  IsFiniteSet(HoldersOf(st, k)) /\ Decremented(r)[k] = Cardinality(HoldersOf(st, k))
        <3>1. IsFiniteSet(HoldersOf(status, k)) /\ running[k] = Cardinality(HoldersOf(status, k))
            BY DEF Counts, CountInv
        <3>2. r \in HoldersOf(status, k) <=> k \in Keys[r]
            BY <2>1 DEF HoldersOf
        <3>3. /\ IsFiniteSet(HoldersOf(st, k))
              /\ Cardinality(HoldersOf(st, k)) =
                    IF r \in HoldersOf(status, k) THEN running[k] - 1 ELSE running[k]
            <4> DEFINE H == HoldersOf(status, k)
            <4>1. IsFiniteSet(H) /\ running[k] = Cardinality(H)
                BY <3>1
            <4>. HIDE DEF H
            <4>2. /\ IsFiniteSet(H \ {r})
                  /\ Cardinality(H \ {r}) = IF r \in H THEN Cardinality(H) - 1 ELSE Cardinality(H)
                BY <4>1, FS_RemoveElement
            <4>3. HoldersOf(st, k) = H \ {r}
                BY <2>5 DEF H
            <4>4. /\ IsFiniteSet(HoldersOf(st, k))
                  /\ Cardinality(HoldersOf(st, k)) = IF r \in H THEN running[k] - 1 ELSE running[k]
                BY <4>1, <4>2, <4>3
            <4>. QED
                BY <4>4 DEF H
        <3>4. k \in Keys[r] => running[k] # 0
            BY <3>1, <3>2, FS_EmptySet
        <3>. QED
            BY <3>2, <3>3, <3>4 DEF Decremented, TypeOK
    <2>7. Counts(st, Decremented(r))
        BY <2>6 DEF Counts
    <2>. HIDE DEF st
    <2>. QED
        BY <2>1, <2>2, <2>3, <2>4, <2>7, DrainFits
<1>5. CASE GiveUp(r)
    <2> DEFINE st == [status EXCEPT ![r] = "rejected"]
    <2>1. /\ Drain(running, Without({r}), st, TimersAfterRemoval({r}), {})
          /\ status[r] = "waiting"
          /\ UNCHANGED <<ticket, nextTicket, orphaned>>
        BY <1>5 DEF GiveUp
    <2>2. st \in [Request -> Status] /\ running \in [Key -> Nat] /\ Without({r}) \in [Key -> SUBSET Request]
        BY DrainInputs DEF TypeOK, Status
    <2>3. \A q \in Request : /\ st[q] = "waiting" <=> q # r /\ status[q] = "waiting"
                             /\ st[q] = "holding" <=> status[q] = "holding"
        BY <2>1 DEF TypeOK
    <2>4. \A k \in Key : Without({r})[k] = QueueOf(st, k) /\ IsFiniteSet(Without({r})[k])
        <3>1. \A k \in Key : Without({r})[k] = QueueOf(st, k)
            BY <2>3 DEF CountInv, QueueIntegrity, QueueOf, Waiting, Without
        <3>. QED
            BY <3>1, DrainInputs
    <2>5. \A k \in Key : HoldersOf(st, k) = HoldersOf(status, k)
        BY <2>3 DEF HoldersOf
    <2>6. Counts(st, running)
        BY <2>5 DEF Counts, CountInv
    <2>. HIDE DEF st
    <2>. QED
        BY <2>1, <2>2, <2>3, <2>4, <2>6, DrainFits
<1>. QED
    BY <1>1, <1>2, <1>3, <1>4, <1>5 DEF RequestStep, Timeout, Abort

LEMMA CountsGate ==
    ASSUME SemaphoreAssumption, CountInv, TypeInv', QueueIntegrity', NEW k \in Key, GateStep(k)
    PROVE  Counts(status', running') /\ Fitting
<1>1. CASE UNCHANGED <<status, running>>
    BY <1>1 DEF Fitting, Admitted, CountInv
<1>2. CASE Unblock(k)
    <2>1. /\ Drain(running, queue, status, IF Idle(k) THEN TimersCleared({k}) ELSE cleanupTimer, {})
          /\ UNCHANGED <<ticket, nextTicket, orphaned>>
        BY <1>2 DEF Unblock
    <2>2. \A j \in Key : queue[j] = QueueOf(status, j) /\ IsFiniteSet(queue[j])
        BY DEF CountInv, QueueIntegrity, QueueOf, Waiting, TypeInv, FiniteQueues
    <2>3. /\ status \in [Request -> Status] /\ running \in [Key -> Nat] /\ queue \in [Key -> SUBSET Request]
          /\ Counts(status, running)
        BY DEF CountInv, TypeInv, TypeOK
    <2>. QED
        BY <2>1, <2>2, <2>3, DrainFits
<1>. QED
    BY <1>1, <1>2 DEF GateStep, MarkBlocked, BlockLapses, CleanupFires

LEMMA ServiceStep ==
    ASSUME SemaphoreAssumption, CountInv, [Service]_vars
    PROVE  CountInv' /\ Fitting
<1>1. TypeInv' /\ QueueIntegrity'
    BY TypeInvStep, QueueIntegrityStep DEF CountInv, Next
<1>2. CASE UNCHANGED vars
    BY <1>1, <1>2 DEF vars, gateVars, CountInv, Fitting, Admitted
<1>3. ASSUME NEW r \in Request, RequestStep(r)
      PROVE  CountInv' /\ Fitting
    <2>1. orphaned' = orphaned
        BY <1>3 DEF RequestStep, AcquireRejected, AcquireAtOnce, AcquireQueued, JoinedBy, Release, ReleaseFrom, Timeout, Abort, GiveUp
    <2>. QED
        BY <1>1, <1>3, <2>1, CountsRequest DEF CountInv
<1>4. ASSUME NEW k \in Key, GateStep(k)
      PROVE  CountInv' /\ Fitting
    <2>1. orphaned' = orphaned
        BY <1>4 DEF GateStep, MarkBlocked, BlockLapses, Unblock, CleanupFires
    <2>. QED
        BY <1>1, <1>4, <2>1, CountsGate DEF CountInv
<1>. QED
    BY <1>2, <1>3, <1>4 DEF Service

LEMMA CountInvInit ==
    ASSUME SemaphoreAssumption, Init
    PROVE  CountInv
<1>1. TypeInv /\ QueueIntegrity /\ orphaned = {}
    BY TypeInvInit DEF Init, QueueIntegrity, Waiting
<1>2. \A k \in Key : HoldersOf(status, k) = {} /\ running[k] = 0
    BY DEF Init, HoldersOf
<1>. QED
    BY <1>1, <1>2, FS_EmptySet DEF CountInv, Counts

LEMMA CountInvMeaning ==
    ASSUME CountInv
    PROVE  GateCountsItsHolders /\ \A k \in Key : Holders(k) = HoldersOf(status, k)
BY DEF CountInv, Counts, GateCountsItsHolders, Holders, HoldersOf

(***************************************************************************)
(* As long as the operator resets nothing, gate.running is the number of   *)
(* calls that hold the gate: waiting reserves nothing and every release    *)
(* frees exactly what its call held.                                       *)
(***************************************************************************)
THEOREM CountersExact == ServiceSpec => []GateCountsItsHolders
<1>1. Init => CountInv
    BY CountInvInit, SemaphoreAssumption
<1>2. CountInv /\ [Service]_vars => CountInv'
    BY ServiceStep, SemaphoreAssumption
<1>3. CountInv => GateCountsItsHolders
    BY CountInvMeaning
<1>. QED
    BY <1>1, <1>2, <1>3, PTL DEF ServiceSpec

(***************************************************************************)
(* Nobody is admitted through a gate that then has more holders than the   *)
(* limit in force, at once or from the queue, whatever limits the calls    *)
(* bring along.                                                            *)
(***************************************************************************)
THEOREM AdmissionsWithinLimits == ServiceSpec => AdmissionsFit
<1>1. Init => CountInv
    BY CountInvInit, SemaphoreAssumption
<1>2. CountInv /\ [Service]_vars => CountInv'
    BY ServiceStep, SemaphoreAssumption
<1>3. CountInv /\ [Service]_vars =>
        [\A r \in Request : Admitted(r) =>
            \A k \in Keys[r] : Cardinality(Holders(k)') <= maxConcurrency'[k]]_vars
    <2> SUFFICES ASSUME CountInv, [Service]_vars, NEW r \in Request, Admitted(r), NEW k \in Keys[r]
                 PROVE  Cardinality(Holders(k)') <= maxConcurrency'[k]
        OBVIOUS
    <2>1. CountInv' /\ running'[k] <= maxConcurrency'[k]
        BY ServiceStep, SemaphoreAssumption DEF Fitting
    <2>2. k \in Key
        BY SemaphoreAssumption DEF SemaphoreAssumption
    <2>3. running'[k] = Cardinality(Holders(k)')
        BY <2>1, <2>2 DEF CountInv, Counts, Holders, HoldersOf
    <2>. QED
        BY <2>1, <2>3
<1>. QED
    BY <1>1, <1>2, <1>3, PTL DEF ServiceSpec, AdmissionsFit

-----------------------------------------------------------------------------
(***************************************************************************)
(* When the calls agree on the limits, no gate ever has a higher limit or  *)
(* more holders than they allow.  (A gate that markBlocked() makes has     *)
(* limit 1 until a call names it.)                                         *)
(***************************************************************************)
CapInv ==
    /\ CountInv
    /\ \A r \in Request, k \in Key : maxConcurrency[k] <= Limit[r][k] /\ running[k] <= Limit[r][k]

LEMMA CapInvInit ==
    ASSUME SemaphoreAssumption, Init
    PROVE  CapInv
<1>1. CountInv
    BY CountInvInit
<1>. QED
    BY <1>1 DEF Init, CapInv, SemaphoreAssumption

(* A limit changes to one a call brings along or back to 1. *)
LEMMA LimitsChange ==
    ASSUME SemaphoreAssumption, TypeOK, [Service]_vars, NEW k \in Key
    PROVE  \/ maxConcurrency'[k] = maxConcurrency[k]
           \/ maxConcurrency'[k] = 1
           \/ \E r \in Request : maxConcurrency'[k] = Limit[r][k]
<1>1. CASE UNCHANGED vars
    BY <1>1 DEF vars, gateVars
<1>2. ASSUME NEW r \in Request, RequestStep(r)
      PROVE  maxConcurrency'[k] = maxConcurrency[k] \/ maxConcurrency'[k] = Limit[r][k]
    <2>1. CASE maxConcurrency' = maxConcurrency
        BY <2>1
    <2>2. ASSUME NEW K, EnsureGates(r, K)
          PROVE  maxConcurrency'[k] = maxConcurrency[k] \/ maxConcurrency'[k] = Limit[r][k]
        BY <2>2 DEF EnsureGates
    <2>. QED
        BY <1>2, <2>1, <2>2 DEF RequestStep, AcquireRejected, AcquireAtOnce, AcquireQueued, JoinedBy,
                                Release, ReleaseFrom, Timeout, Abort, GiveUp
<1>3. ASSUME NEW j \in Key, GateStep(j)
      PROVE  maxConcurrency'[k] = maxConcurrency[k] \/ maxConcurrency'[k] = 1
    BY <1>3 DEF GateStep, MarkBlocked, BlockLapses, Unblock, CleanupFires, CleanupGateIfIdle, TypeOK
<1>. QED
    BY <1>1, <1>2, <1>3 DEF Service

LEMMA CapStep ==
    ASSUME SemaphoreAssumption, EvenlyLimited, CapInv, [Service]_vars
    PROVE  CapInv'
<1>1. CountInv' /\ Fitting /\ TypeOK /\ TypeOK'
    BY ServiceStep DEF CapInv, CountInv, TypeInv
<1>2. SUFFICES ASSUME NEW r \in Request, NEW k \in Key
               PROVE  maxConcurrency'[k] <= Limit[r][k] /\ running'[k] <= Limit[r][k]
    BY <1>1 DEF CapInv
<1>3. Limit[r][k] \in Nat \ {0} /\ \A q \in Request : Limit[q][k] = Limit[r][k]
    BY DEF SemaphoreAssumption, EvenlyLimited
<1>4. maxConcurrency'[k] <= Limit[r][k]
    BY <1>1, <1>3, LimitsChange DEF CapInv
<1>5. CASE \E q \in Request : Admitted(q) /\ k \in Keys[q]
    <2>1. running'[k] <= maxConcurrency'[k]
        BY <1>1, <1>5 DEF Fitting
    <2>. QED
        BY <1>1, <1>3, <1>4, <2>1 DEF TypeOK
<1>6. CASE ~\E q \in Request : Admitted(q) /\ k \in Keys[q]
    <2>1. HoldersOf(status', k) \subseteq HoldersOf(status, k)
        BY <1>6 DEF HoldersOf, Admitted
    <2>2. /\ IsFiniteSet(HoldersOf(status, k)) /\ running[k] = Cardinality(HoldersOf(status, k))
          /\ running'[k] = Cardinality(HoldersOf(status', k))
        BY <1>1 DEF CapInv, CountInv, Counts
    <2>3. running'[k] <= running[k]
        BY <2>1, <2>2, FS_Subset
    <2>. QED
        BY <1>1, <1>3, <1>4, <2>3 DEF CapInv, TypeOK
<1>. QED
    BY <1>4, <1>5, <1>6

(***************************************************************************)
(* A handler that takes call r to state next and then drains is one move   *)
(* of the abstract admission.                                              *)
(***************************************************************************)
LEMMA DrainMoves ==
    ASSUME NEW r \in Request, NEW next \in Admission!Fate(status[r]),
           NEW run, NEW que, NEW tmr, NEW closing,
           Drain(run, que, [status EXCEPT ![r] = next], tmr, closing)
    PROVE  Admission!Move(r)
BY DEF Drain, Admission!Move

LEMMA HandlersMove ==
    ASSUME SemaphoreAssumption, TypeOK, [Service]_vars
    PROVE  status' = status \/ \E r \in Request : Admission!Move(r)
<1>1. CASE UNCHANGED vars
    BY <1>1 DEF vars
<1>2. ASSUME NEW r \in Request, RequestStep(r)
      PROVE  Admission!Move(r)
    <2>1. CASE AcquireRejected(r) \/ AcquireAtOnce(r)
        <3>1. PICK next \in {"holding", "rejected"} : status' = [status EXCEPT ![r] = next]
            BY <2>1 DEF AcquireRejected, AcquireAtOnce
        <3> DEFINE after == [status EXCEPT ![r] = next]
        <3>2. next \in Admission!Fate(status[r])
            BY <2>1 DEF AcquireRejected, AcquireAtOnce, Admission!Fate
        <3>3. status' = [q \in Request |-> IF q \in {} THEN "holding" ELSE after[q]]
            BY <3>1 DEF TypeOK
        <3>4. {} \in SUBSET {q \in Request : after[q] = "waiting"}
            OBVIOUS
        <3>. HIDE DEF after
        <3>5. \E G \in SUBSET {q \in Request : after[q] = "waiting"} :
                 status' = [q \in Request |-> IF q \in G THEN "holding" ELSE after[q]]
            BY <3>3, <3>4
        <3>. QED
            BY <3>2, <3>5 DEF Admission!Move, after
    <2>2. CASE AcquireQueued(r)
        BY <2>2, DrainMoves DEF AcquireQueued, JoinedBy, Admission!Fate
    <2>3. CASE Release(r)
        BY <2>3, DrainMoves DEF Release, ReleaseFrom, Admission!Fate
    <2>4. CASE GiveUp(r)
        BY <2>4, DrainMoves DEF GiveUp, Admission!Fate
    <2>. QED
        BY <1>2, <2>1, <2>2, <2>3, <2>4 DEF RequestStep, Timeout, Abort
<1>3. ASSUME NEW k \in Key, GateStep(k)
      PROVE  status' = status \/ \E r \in Request : Admission!Move(r)
    <2>1. CASE Unblock(k)
        <3>1. PICK tmr : Drain(running, queue, status, tmr, {})
            BY <2>1 DEF Unblock
        <3>2. PICK G \in SUBSET {r \in Request : status[r] = "waiting"} :
                  status' = [q \in Request |-> IF q \in G THEN "holding" ELSE status[q]]
            BY <3>1 DEF Drain
        <3>3. CASE G = {}
            BY <3>2, <3>3 DEF TypeOK
        <3>4. ASSUME NEW r \in G
              PROVE  Admission!Move(r)
            <4>1. r \in Request /\ status[r] = "waiting" /\ "waiting" \in Admission!Fate(status[r])
                BY <3>2 DEF Admission!Fate
            <4>2. [status EXCEPT ![r] = "waiting"] = status
                BY <4>1 DEF TypeOK
            <4>3. Drain(running, queue, [status EXCEPT ![r] = "waiting"], tmr, {})
                BY <3>1, <4>2
            <4>. QED
                BY <4>1, <4>3, DrainMoves
        <3>. QED
            BY <3>3, <3>4
    <2>2. CASE ~Unblock(k)
        BY <1>3, <2>2 DEF GateStep, MarkBlocked, BlockLapses, CleanupFires
    <2>. QED
        BY <2>1, <2>2
<1>. QED
    BY <1>1, <1>2, <1>3 DEF Service

(* The instance of FiniteSets in AtomicAdmission counts as this one does. *)
LEMMA SameCardinality ==
    ASSUME NEW S
    PROVE  Admission!Cardinality(S) = Cardinality(S)
BY DEF Admission!Cardinality, Cardinality

(***************************************************************************)
(* Where the calls agree on the limits and the operator resets nothing,    *)
(* the gates implement AtomicAdmission: every handler, its drain included, *)
(* is one admission through all gates at once that respects every limit.   *)
(***************************************************************************)
THEOREM GatesAdmitAtomically ==
    ASSUME EvenlyLimited
    PROVE  ServiceSpec => ImplementsAtomicAdmission
<1>1. Init => CapInv /\ Admission!Init
    BY CapInvInit, SemaphoreAssumption DEF Init, Admission!Init
<1>2. CapInv /\ [Service]_vars => CapInv'
    BY CapStep, SemaphoreAssumption
<1>3. CapInv /\ [Service]_vars => [Admission!Next]_status
    <2>1. SUFFICES ASSUME CapInv, [Service]_vars, status' # status
                   PROVE  Admission!Next
        OBVIOUS
    <2>2. PICK r \in Request : Admission!Move(r)
        BY <2>1, HandlersMove, SemaphoreAssumption DEF CapInv, CountInv, TypeInv
    <2>3. CapInv'
        BY <1>2, <2>1
    <2>4. ASSUME NEW k \in Key
          PROVE  Cardinality(Admission!Holding(k)') <= Capacity[k]
        <3>1. Capacity[k] = Limit[r][k]
            BY DEF Capacity, EvenlyLimited
        <3>2. running'[k] = Cardinality(HoldersOf(status', k)) /\ running'[k] <= Limit[r][k]
            BY <2>3 DEF CapInv, CountInv, Counts
        <3>. QED
            BY <3>1, <3>2 DEF HoldersOf, Admission!Holding
    <2>. QED
        BY <2>2, <2>4, SameCardinality DEF Admission!Next, Admission!Fitting
<1>. QED
    BY <1>1, <1>2, <1>3, PTL DEF ServiceSpec, ImplementsAtomicAdmission, Admission!Spec

-----------------------------------------------------------------------------
(***************************************************************************)
(* After a drain no queued call could run, and a call the drain admits     *)
(* leaves no older call waiting at a gate they share.                      *)
(***************************************************************************)
LEMMA DrainComplete ==
    ASSUME SemaphoreAssumption,
           NEW run \in [Key -> Nat], NEW que \in [Key -> SUBSET Request], NEW tmr, NEW closing,
           NEW st \in [Request -> Status],
           \A k \in Key : IsFiniteSet(que[k]) /\ que[k] = QueueOf(st, k),
           maxConcurrency' \in [Key -> Nat \ {0}],
           ticket' \in [Request -> Nat],
           Drain(run, que, st, tmr, closing)
    PROVE  /\ \A r \in Request : ~Eligible(r)'
           /\ \A q, r \in Request :
                /\ st[q] = "waiting" /\ st[r] = "waiting" /\ status'[r] = "holding"
                /\ Keys[q] \cap Keys[r] # {} /\ ticket'[q] < ticket'[r]
                => status'[q] = "holding"
           /\ \A r \in Request : status'[r] = "holding" => st[r] \in {"waiting", "holding"}
<1> DEFINE waiting == {r \in Request : st[r] = "waiting"}
<1>1. PICK G \in SUBSET waiting :
        /\ Admits(G, run, que, waiting)
        /\ running' = [k \in Key |-> run[k] + Cardinality(que[k] \cap G)]
        /\ queue' = [k \in Key |-> que[k] \ G]
        /\ status' = [r \in Request |-> IF r \in G THEN "holding" ELSE st[r]]
    BY DEF Drain
<1>2. ASSUME NEW r \in Request, Eligible(r)'
      PROVE  FALSE
    <2>1. status'[r] = "waiting"
        BY <1>2 DEF Eligible
    <2>2. r \in waiting /\ r \notin G
        BY <1>1, <2>1
    <2>3. ASSUME NEW k \in Keys[r]
          PROVE  Fits(G, run, que, r, k)
        <3>1. k \in Key
            BY SemaphoreAssumption DEF SemaphoreAssumption
        <3>2. k \in gates' /\ ~blocked'[k] /\ running'[k] < maxConcurrency'[k]
            BY <1>2 DEF Eligible
        <3>3. \A q \in queue'[k] : ticket'[r] <= ticket'[q]
            BY <1>2 DEF Eligible
        <3>4. r \in que[k]
            BY <2>2, <3>1 DEF QueueOf
        <3>5. que[k] \subseteq Request /\ queue'[k] = que[k] \ G
            BY <1>1, <3>1
        <3>6. ASSUME NEW q \in Ahead(que, r, k), q \notin G
              PROVE  FALSE
            <4>1. q \in que[k] /\ ticket'[q] < ticket'[r]
                BY DEF Ahead
            <4>2. ticket'[r] <= ticket'[q]
                BY <3>3, <3>5, <3>6, <4>1
            <4>3. ticket'[q] \in Nat /\ ticket'[r] \in Nat
                BY <3>5, <4>1
            <4>4. \A a, b \in Nat : ~(a < b /\ b <= a)
                OBVIOUS
            <4>. QED
                BY <4>1, <4>2, <4>3, <4>4
        <3>7. Ahead(que, r, k) \in SUBSET (que[k] \cap G)
            BY <3>6 DEF Ahead
        <3>8. /\ Cardinality(Ahead(que, r, k)) <= Cardinality(que[k] \cap G)
              /\ Cardinality(Ahead(que, r, k)) \in Nat
              /\ Cardinality(que[k] \cap G) \in Nat
            <4>1. IsFiniteSet(que[k] \cap G)
                BY <3>1, FS_Intersection
            <4>2. /\ IsFiniteSet(Ahead(que, r, k))
                  /\ Cardinality(Ahead(que, r, k)) <= Cardinality(que[k] \cap G)
                BY <3>7, <4>1, FS_Subset
            <4>. QED
                BY <4>1, <4>2, FS_CardinalityType
        <3>9. run[k] + Cardinality(Ahead(que, r, k)) < maxConcurrency'[k]
            <4>1. running'[k] = run[k] + Cardinality(que[k] \cap G)
                BY <1>1, <3>1
            <4>2. run[k] \in Nat /\ maxConcurrency'[k] \in Nat
                BY <3>1
            <4>. QED
                BY <3>2, <3>8, <4>1, <4>2
        <3>. QED
            BY <3>2, <3>4, <3>7, <3>9 DEF Fits
    <2>. QED
        BY <1>1, <2>2, <2>3 DEF Admits
<1>3. ASSUME NEW q \in Request, NEW r \in Request,
             st[q] = "waiting", st[r] = "waiting", status'[r] = "holding",
             Keys[q] \cap Keys[r] # {}, ticket'[q] < ticket'[r]
      PROVE  status'[q] = "holding"
    <2>1. PICK k \in Keys[r] : k \in Keys[q]
        BY <1>3
    <2>2. r \in G /\ r \in waiting
        BY <1>1, <1>3
    <2>3. Fits(G, run, que, r, k)
        BY <1>1, <2>1, <2>2 DEF Admits
    <2>4. q \in Ahead(que, r, k)
        BY <1>3, <2>1 DEF Ahead, QueueOf, SemaphoreAssumption
    <2>. QED
        BY <1>1, <2>3, <2>4 DEF Fits
<1>4. \A r \in Request : status'[r] = "holding" => st[r] \in {"waiting", "holding"}
    BY <1>1
<1>. QED
    BY <1>2, <1>3, <1>4

FairInv == TypeInv /\ QueueIntegrity /\ NoLostWakeup

(* The body of NoOvertaking. *)
InOrder ==
    \A r \in Request, q \in Waiting :
        /\ Admitted(r)
        /\ Keys[q] \cap Keys[r] # {}
        /\ status[r] = "new" \/ ticket[q] < ticket[r]
        => status'[q] # "waiting"

(***************************************************************************)
(* DrainComplete for a handler that starts in a state of FairInv, hands    *)
(* out no ticket and adds nobody to the queues.                            *)
(***************************************************************************)
LEMMA DrainFair ==
    ASSUME SemaphoreAssumption, FairInv, TypeInv',
           NEW run \in [Key -> Nat], NEW que \in [Key -> SUBSET Request], NEW tmr, NEW closing,
           NEW st \in [Request -> Status],
           \A k \in Key : IsFiniteSet(que[k]) /\ que[k] = QueueOf(st, k),
           \A r \in Request : st[r] = "waiting" => status[r] = "waiting",
           \A r \in Request : st[r] = "holding" => status[r] = "holding",
           \A r \in Request : st[r] # "waiting" => status'[r] # "waiting",
           UNCHANGED ticket,
           Drain(run, que, st, tmr, closing)
    PROVE  NoLostWakeup' /\ InOrder
<1>1. maxConcurrency' \in [Key -> Nat \ {0}] /\ ticket' \in [Request -> Nat]
    BY DEF TypeInv, TypeOK
<1>2. /\ \A r \in Request : ~Eligible(r)'
      /\ \A q, r \in Request :
            /\ st[q] = "waiting" /\ st[r] = "waiting" /\ status'[r] = "holding"
            /\ Keys[q] \cap Keys[r] # {} /\ ticket'[q] < ticket'[r]
            => status'[q] = "holding"
      /\ \A r \in Request : status'[r] = "holding" => st[r] \in {"waiting", "holding"}
    BY <1>1, DrainComplete
<1>3. NoLostWakeup'
    BY <1>2 DEF NoLostWakeup
<1>4. ASSUME NEW r \in Request, NEW q \in Waiting, Admitted(r), Keys[q] \cap Keys[r] # {},
             status[r] = "new" \/ ticket[q] < ticket[r]
      PROVE  status'[q] # "waiting"
    <2>1. st[r] = "waiting" /\ status[r] = "waiting" /\ status'[r] = "holding"
        BY <1>2, <1>4 DEF Admitted
    <2>2. ticket'[q] < ticket'[r]
        BY <1>4, <2>1
    <2>3. CASE st[q] = "waiting"
        BY <1>2, <1>4, <2>1, <2>2, <2>3 DEF Waiting
    <2>4. CASE st[q] # "waiting"
        BY <2>4 DEF Waiting
    <2>. QED
        BY <2>3, <2>4
<1>. QED
    BY <1>3, <1>4 DEF InOrder

(* A drain puts nobody in a queue. *)
LEMMA DrainNoNewWaiter ==
    ASSUME NEW run, NEW que, NEW tmr, NEW closing, NEW st, Drain(run, que, st, tmr, closing)
    PROVE  \A r \in Request : st[r] # "waiting" => status'[r] # "waiting"
BY DEF Drain

LEMMA FairRequest ==
    ASSUME SemaphoreAssumption, FairInv, TypeInv', NEW r \in Request, RequestStep(r)
    PROVE  NoLostWakeup' /\ InOrder
<1> Keys[r] \in SUBSET Key
    BY DEF SemaphoreAssumption
<1> TypeInv /\ TypeOK /\ QueueIntegrity /\ NoLostWakeup
    BY DEF FairInv, TypeInv
<1>1. CASE AcquireRejected(r)
    <2>1. PICK full \in Keys[r] :
              /\ EnsureGates(r, {k \in Keys[r] : k <= full})
              /\ unswept' = unswept \cup {k \in Keys[r] : k <= full}
        BY <1>1 DEF AcquireRejected
    <2> DEFINE touched == {k \in Keys[r] : k <= full}
    <2>2. /\ status' = [status EXCEPT ![r] = "rejected"] /\ status[r] = "new"
          /\ UNCHANGED <<running, queue, blocked, ticket>>
        BY <1>1 DEF AcquireRejected
    <2>3. /\ gates' = gates \cup touched
          /\ \A k \in Key : k \notin touched => maxConcurrency'[k] = maxConcurrency[k]
        BY <2>1 DEF EnsureGates
    <2>. HIDE DEF touched
    <2>4. ASSUME NEW q \in Request, Eligible(q)', Keys[q] \cap touched = {}
          PROVE  Eligible(q)
        <3>1. Keys[q] \subseteq Key /\ \A k \in Keys[q] : k \notin touched
            BY <2>4 DEF SemaphoreAssumption
        <3>2. status[q] = "waiting"
            BY <2>2, <2>4 DEF Eligible, TypeOK
        <3>. QED
            BY <2>2, <2>3, <2>4, <3>1, <3>2 DEF Eligible
    <2>5. NoLostWakeup'
        BY <2>1, <2>4 DEF NoLostWakeup, touched
    <2>. QED
        BY <2>2, <2>5 DEF InOrder, Admitted, TypeOK
<1>2. CASE AcquireAtOnce(r)
    <2>1. /\ status' = [status EXCEPT ![r] = "holding"] /\ status[r] = "new"
          /\ gates' = gates \cup Keys[r]
          /\ \A k \in Key : k \notin Keys[r] => maxConcurrency'[k] = maxConcurrency[k] /\ running'[k] = running[k]
          /\ UNCHANGED <<queue, blocked, ticket, unswept>>
        BY <1>2 DEF AcquireAtOnce, EnsureGates
    <2>2. ASSUME NEW q \in Waiting
          PROVE  Keys[q] \cap Keys[r] = {}
        <3>1. \A k \in Keys[r] : queue[k] = {}
            BY <1>2 DEF AcquireAtOnce, Open
        <3>. QED
            BY <3>1 DEF QueueIntegrity
    <2>3. ASSUME NEW q \in Request, Eligible(q)'
          PROVE  Eligible(q)
        <3>1. q \in Waiting
            BY <2>1, <2>3 DEF Eligible, TypeOK, Waiting
        <3>2. Keys[q] \subseteq Key /\ \A k \in Keys[q] : k \notin Keys[r]
            BY <2>2, <3>1 DEF SemaphoreAssumption
        <3>. QED
            BY <2>1, <2>3, <3>1, <3>2 DEF Eligible, Waiting
    <2>4. NoLostWakeup'
        BY <2>1, <2>3 DEF NoLostWakeup
    <2>. QED
        BY <2>1, <2>2, <2>4 DEF InOrder, Admitted, TypeOK
<1>3. CASE AcquireQueued(r)
    <2> DEFINE que == [k \in Key |-> IF k \in Keys[r] THEN queue[k] \cup {r} ELSE queue[k]]
               st == [status EXCEPT ![r] = "waiting"]
    <2>1. /\ Drain(running, que, st, TimersCleared(Keys[r]), {})
          /\ status[r] = "new"
          /\ ticket' = [ticket EXCEPT ![r] = nextTicket]
        BY <1>3 DEF AcquireQueued, JoinedBy
    <2>2. st \in [Request -> Status] /\ que \in [Key -> SUBSET Request] /\ running \in [Key -> Nat]
        BY DEF TypeOK, Status
    <2>3. \A q \in Request : /\ st[q] = "waiting" <=> q = r \/ status[q] = "waiting"
                             /\ st[q] = "holding" <=> status[q] = "holding"
        BY <2>1 DEF TypeOK
    <2>4. ASSUME NEW k \in Key
          PROVE  que[k] = QueueOf(st, k) /\ IsFiniteSet(que[k])
        <3>1. queue[k] = {q \in Request : status[q] = "waiting" /\ k \in Keys[q]} /\ IsFiniteSet(queue[k])
            BY DEF QueueIntegrity, Waiting, TypeInv, FiniteQueues
        <3>2. QueueOf(st, k) = {q \in Request : (q = r \/ status[q] = "waiting") /\ k \in Keys[q]}
            BY <2>3 DEF QueueOf
        <3>3. que[k] = QueueOf(st, k)
            BY <3>1, <3>2
        <3>4. IsFiniteSet(queue[k] \cup {r})
            BY <3>1, FS_AddElement
        <3>. QED
            BY <3>1, <3>3, <3>4
    <2>5. maxConcurrency' \in [Key -> Nat \ {0}] /\ ticket' \in [Request -> Nat]
        BY DEF TypeInv, TypeOK
    <2>. HIDE DEF que, st
    <2>6. /\ \A q \in Request : ~Eligible(q)'
          /\ \A p, q \in Request :
                /\ st[p] = "waiting" /\ st[q] = "waiting" /\ status'[q] = "holding"
                /\ Keys[p] \cap Keys[q] # {} /\ ticket'[p] < ticket'[q]
                => status'[p] = "holding"
          /\ \A q \in Request : status'[q] = "holding" => st[q] \in {"waiting", "holding"}
        BY <2>1, <2>2, <2>4, <2>5, DrainComplete
    <2>7. ASSUME NEW p \in Request, NEW q \in Waiting, Admitted(p), Keys[q] \cap Keys[p] # {},
                 status[p] = "new" \/ ticket[q] < ticket[p]
          PROVE  status'[q] # "waiting"
        <3>1. status[q] = "waiting" /\ q # r /\ st[q] = "waiting"
            BY <2>1, <2>3 DEF Waiting
        <3>2. st[p] = "waiting" /\ status'[p] = "holding"
            BY <2>3, <2>6, <2>7 DEF Admitted
        <3>3. ticket'[q] < ticket'[p]
            <4>1. CASE p = r
                BY <2>1, <3>1, <4>1 DEF QueueIntegrity, Waiting, TypeOK
            <4>2. CASE p # r
                BY <2>1, <2>3, <2>7, <3>1, <3>2, <4>2 DEF TypeOK
            <4>. QED
                BY <4>1, <4>2
        <3>. QED
            BY <2>6, <2>7, <3>1, <3>2, <3>3 DEF Waiting
    <2>. QED
        BY <2>6, <2>7 DEF NoLostWakeup, InOrder
<1>4. CASE Release(r)
    <2> DEFINE st == [status EXCEPT ![r] = "released"]
    <2>1. /\ Drain(Decremented(r), queue, st, cleanupTimer, Keys[r])
          /\ status[r] = "holding" /\ UNCHANGED ticket
        BY <1>4 DEF Release, ReleaseFrom
    <2>2. st \in [Request -> Status] /\ Decremented(r) \in [Key -> Nat] /\ queue \in [Key -> SUBSET Request]
        BY DrainInputs DEF TypeOK, Status
    <2>3. \A q \in Request : /\ st[q] = "waiting" <=> status[q] = "waiting"
                             /\ st[q] = "holding" <=> q # r /\ status[q] = "holding"
        BY <2>1 DEF TypeOK
    <2>4. \A k \in Key : IsFiniteSet(queue[k]) /\ queue[k] = QueueOf(st, k)
        BY <2>3 DEF QueueIntegrity, QueueOf, Waiting, TypeInv, FiniteQueues
    <2>. HIDE DEF st
    <2>. QED
        BY <2>1, <2>2, <2>3, <2>4, DrainFair, DrainNoNewWaiter
<1>5. CASE GiveUp(r)
    <2> DEFINE st == [status EXCEPT ![r] = "rejected"]
    <2>1. /\ Drain(running, Without({r}), st, TimersAfterRemoval({r}), {})
          /\ status[r] = "waiting" /\ UNCHANGED ticket
        BY <1>5 DEF GiveUp
    <2>2. st \in [Request -> Status] /\ running \in [Key -> Nat] /\ Without({r}) \in [Key -> SUBSET Request]
        BY DrainInputs DEF TypeOK, Status
    <2>3. \A q \in Request : /\ st[q] = "waiting" <=> q # r /\ status[q] = "waiting"
                             /\ st[q] = "holding" <=> status[q] = "holding"
        BY <2>1 DEF TypeOK
    <2>4. \A k \in Key : Without({r})[k] = QueueOf(st, k) /\ IsFiniteSet(Without({r})[k])
        <3>1. \A k \in Key : Without({r})[k] = QueueOf(st, k)
            BY <2>3 DEF QueueIntegrity, QueueOf, Waiting, Without
        <3>. QED
            BY <3>1, DrainInputs
    <2>. HIDE DEF st
    <2>5. \A q \in Request : st[q] # "waiting" => status'[q] # "waiting"
        BY <2>1, DrainNoNewWaiter
    <2>6. /\ \A q \in Request : st[q] = "waiting" => status[q] = "waiting"
          /\ \A q \in Request : st[q] = "holding" => status[q] = "holding"
        BY <2>3
    <2>. QED
        BY <2>1, <2>2, <2>4, <2>5, <2>6, DrainFair
<1>. QED
    BY <1>1, <1>2, <1>3, <1>4, <1>5 DEF RequestStep, Timeout, Abort

LEMMA FairGate ==
    ASSUME SemaphoreAssumption, FairInv, TypeInv', NEW k \in Key, GateStep(k)
    PROVE  NoLostWakeup' /\ InOrder
<1> TypeInv /\ TypeOK /\ QueueIntegrity /\ NoLostWakeup
    BY DEF FairInv, TypeInv
<1>1. CASE Unblock(k)
    <2>1. /\ Drain(running, queue, status, IF Idle(k) THEN TimersCleared({k}) ELSE cleanupTimer, {})
          /\ UNCHANGED ticket
        BY <1>1 DEF Unblock
    <2>2. /\ status \in [Request -> Status] /\ running \in [Key -> Nat] /\ queue \in [Key -> SUBSET Request]
          /\ \A j \in Key : IsFiniteSet(queue[j]) /\ queue[j] = QueueOf(status, j)
        BY DEF QueueIntegrity, QueueOf, Waiting, TypeInv, TypeOK, FiniteQueues
    <2>3. \A q \in Request : status[q] # "waiting" => status'[q] # "waiting"
        BY <2>1, DrainNoNewWaiter
    <2>. QED
        BY <2>1, <2>2, <2>3, DrainFair
<1>2. CASE UNCHANGED <<running, queue, status, ticket>> /\ ~Unblock(k)
    <2>1. InOrder
        BY <1>2 DEF InOrder, Admitted
    <2>2. ASSUME NEW q \in Request, Eligible(q)'
          PROVE  Keys[q] \cap unswept' # {}
        <3>1. status[q] = "waiting" /\ Keys[q] \subseteq Key
            BY <1>2, <2>2 DEF Eligible, SemaphoreAssumption
        <3>2. CASE MarkBlocked(k)
            <4>1. k \notin Keys[q]
                BY <2>2, <3>2 DEF Eligible, MarkBlocked, TypeOK
            <4>2. Eligible(q)
                BY <1>2, <2>2, <3>1, <3>2, <4>1 DEF Eligible, MarkBlocked, TypeOK
            <4>. QED
                BY <3>2, <4>2 DEF MarkBlocked, NoLostWakeup
        <3>3. CASE BlockLapses(k)
            <4>1. k \notin Keys[q] => Eligible(q)
                BY <1>2, <2>2, <3>1, <3>3 DEF Eligible, BlockLapses, TypeOK
            <4>. QED
                BY <3>3, <4>1 DEF BlockLapses, NoLostWakeup
        <3>4. CASE CleanupFires(k)
            <4>1. gates' \subseteq gates /\ \A j \in gates' : maxConcurrency'[j] = maxConcurrency[j]
                BY <3>4 DEF CleanupFires, CleanupGateIfIdle, TypeOK
            <4>2. Eligible(q)
                BY <1>2, <2>2, <3>1, <3>4, <4>1 DEF Eligible, CleanupFires
            <4>. QED
                BY <3>4, <4>2 DEF CleanupFires, NoLostWakeup
        <3>. QED
            BY <1>2, <3>2, <3>3, <3>4 DEF GateStep
    <2>. QED
        BY <2>1, <2>2 DEF NoLostWakeup
<1>. QED
    BY <1>1, <1>2 DEF GateStep, MarkBlocked, BlockLapses, CleanupFires

LEMMA FairReset ==
    ASSUME SemaphoreAssumption, FairInv, TypeInv', ResetStep
    PROVE  NoLostWakeup' /\ InOrder
<1> TypeInv /\ TypeOK /\ QueueIntegrity /\ NoLostWakeup
    BY DEF FairInv, TypeInv
<1>1. CASE ResetAll
    <2>1. \A r \in Request : status'[r] # "waiting" /\ ~Admitted(r)
        BY <1>1 DEF ResetAll, Admitted, Waiting, TypeOK
    <2>. QED
        BY <2>1 DEF NoLostWakeup, Eligible, InOrder
<1>2. ASSUME NEW k \in Key, Reset(k)
      PROVE  NoLostWakeup' /\ InOrder
    <2> DEFINE run == [running EXCEPT ![k] = 0]
               st == [r \in Request |-> IF r \in queue[k] THEN "rejected" ELSE status[r]]
               que == Without(queue[k])
               tmr == [TimersAfterRemoval(queue[k]) EXCEPT ![k] = FALSE]
    <2>1. Drain(run, que, st, tmr, {}) /\ UNCHANGED ticket
        BY <1>2 DEF Reset
    <2>2. st \in [Request -> Status] /\ run \in [Key -> Nat] /\ que \in [Key -> SUBSET Request]
        BY DrainInputs DEF TypeOK, Status
    <2>3. \A j \in Key : IsFiniteSet(que[j]) /\ que[j] = QueueOf(st, j)
        <3>1. \A j \in Key : que[j] = QueueOf(st, j)
            BY DEF Without, QueueIntegrity, QueueOf, Waiting, TypeOK
        <3>. QED
            BY <3>1, DrainInputs
    <2>4. /\ \A q \in Request : st[q] = "waiting" => status[q] = "waiting"
          /\ \A q \in Request : st[q] = "holding" => status[q] = "holding"
        OBVIOUS
    <2>. HIDE DEF run, st, que, tmr
    <2>5. \A q \in Request : st[q] # "waiting" => status'[q] # "waiting"
        BY <2>1, DrainNoNewWaiter
    <2>. QED
        BY <2>1, <2>2, <2>3, <2>4, <2>5, DrainFair
<1>3. ASSUME NEW k \in Key, StrayTimerFires(k)
      PROVE  NoLostWakeup' /\ InOrder
    <2>1. gates' \subseteq gates /\ \A j \in gates' : maxConcurrency'[j] = maxConcurrency[j]
        BY <1>3 DEF StrayTimerFires, CleanupGateIfIdle, TypeOK
    <2>2. UNCHANGED <<running, queue, blocked, status, ticket, unswept>>
        BY <1>3 DEF StrayTimerFires
    <2>3. \A q \in Request : Eligible(q)' => Eligible(q)
        BY <2>1, <2>2 DEF Eligible, SemaphoreAssumption
    <2>. QED
        BY <2>2, <2>3 DEF NoLostWakeup, InOrder, Admitted
<1>. QED
    BY <1>1, <1>2, <1>3 DEF ResetStep

LEMMA FairStep ==
    ASSUME SemaphoreAssumption, FairInv, [Next]_vars
    PROVE  FairInv' /\ InOrder
<1>1. TypeInv' /\ QueueIntegrity'
    BY TypeInvStep, QueueIntegrityStep DEF FairInv
<1>2. CASE UNCHANGED vars
    BY <1>1, <1>2 DEF vars, gateVars, FairInv, NoLostWakeup, Eligible, InOrder, Admitted
<1>. QED
    BY <1>1, <1>2, FairRequest, FairGate, FairReset DEF Next, Service, FairInv

LEMMA FairInvInit ==
    ASSUME SemaphoreAssumption, Init
    PROVE  FairInv
BY TypeInvInit DEF Init, FairInv, QueueIntegrity, Waiting, NoLostWakeup, Eligible

(***************************************************************************)
(* Every handler that frees a permit, shortens a queue or raises a limit   *)
(* wakes whom it can: a queued call that could run always owes it to a     *)
(* block that ran out or to a rejected call that raised a limit.           *)
(***************************************************************************)
THEOREM WakeupsNotLost == Spec => []NoLostWakeup
<1>1. Init => FairInv
    BY FairInvInit, SemaphoreAssumption
<1>2. FairInv /\ [Next]_vars => FairInv'
    BY FairStep, SemaphoreAssumption
<1>3. FairInv => NoLostWakeup
    BY DEF FairInv
<1>. QED
    BY <1>1, <1>2, <1>3, PTL DEF Spec

(***************************************************************************)
(* No call, new or queued, is admitted past an older one that shares a     *)
(* gate with it and goes on waiting.                                       *)
(***************************************************************************)
THEOREM AdmissionsInOrder == Spec => NoOvertaking
<1>1. Init => FairInv
    BY FairInvInit, SemaphoreAssumption
<1>2. FairInv /\ [Next]_vars => FairInv'
    BY FairStep, SemaphoreAssumption
<1>3. FairInv /\ [Next]_vars =>
        [\A r \in Request, q \in Waiting :
            /\ Admitted(r)
            /\ Keys[q] \cap Keys[r] # {}
            /\ status[r] = "new" \/ ticket[q] < ticket[r]
            => status'[q] # "waiting"]_vars
    BY FairStep, SemaphoreAssumption DEF InOrder
<1>. QED
    BY <1>1, <1>2, <1>3, PTL DEF Spec, NoOvertaking
-----------------------------------------------------------------------------
(***************************************************************************)
(* The loop of drainQueues().  The provers take no predicates: induction   *)
(* goes over sets.                                                         *)
(***************************************************************************)
LEMMA FirstOne ==
    ASSUME NEW A, A # {}, NEW f, \A x \in A : f[x] \in Nat
    PROVE  \E m \in A : \A x \in A : f[m] <= f[x]
<1> DEFINE B == {f[x] : x \in A}
<1>1. B \subseteq Nat /\ B # {}
    OBVIOUS
<1>2. PICK b \in B : \A c \in B : <<c, b>> \notin OpToRel(<, Nat)
    BY <1>1, WFMin, NatLessThanWellFounded
<1>3. \A c \in B : ~(c < b)
    BY <1>1, <1>2 DEF OpToRel
<1>4. PICK m \in A : f[m] = b
    OBVIOUS
<1>5. \A x \in A : f[x] \in B
    OBVIOUS
<1> HIDE DEF B
<1>6. \A x \in A : f[m] <= f[x]
    BY <1>1, <1>3, <1>4, <1>5
<1>. QED
    BY <1>6

LEMMA UpTo ==
    ASSUME NEW n \in Nat, NEW P, 0 \in P, \A i \in 1..n : i - 1 \in P => i \in P
    PROVE  \A i \in 0..n : i \in P
<1> DEFINE C == {i \in 0..n : i \notin P}
           id == [i \in C |-> i]
<1>1. SUFFICES ASSUME C # {} PROVE FALSE
    OBVIOUS
<1>2. \A i \in C : id[i] \in Nat
    OBVIOUS
<1>3. PICK m \in C : \A i \in C : id[m] <= id[i]
    <2> HIDE DEF C, id
    <2>. QED
        BY <1>1, <1>2, FirstOne
<1>4. m \in 1..n /\ m - 1 \in 0..n /\ m - 1 \notin C
    BY <1>3
<1>. QED
    BY <1>4

(* A function on a set can be applied n times, from any member. *)
Repeats(f, n, D, x, step) ==
    /\ f \in [0..n -> D]
    /\ f = [i \in 0..n |-> IF i = 0 THEN x ELSE step[f[i - 1]]]

LEMMA Repeated ==
    ASSUME NEW D, NEW x \in D, NEW step \in [D -> D], NEW n \in Nat
    PROVE  \E f : Repeats(f, n, D, x, step)
<1> USE DEF Repeats
<1> DEFINE Run(m, f) == Repeats(f, m, D, x, step)
           P == {m \in 0..n : \E f : Run(m, f)}
<1>1. 0 \in P
    <2> DEFINE f == [i \in 0..0 |-> x]
    <2>1. Run(0, f)
        OBVIOUS
    <2> HIDE DEF f, Run
    <2>. QED
        BY <2>1
<1>2. ASSUME NEW j \in 1..n, j - 1 \in P PROVE j \in P
    <2>1. PICK f : Run(j - 1, f)
        BY <1>2
    <2> DEFINE g == [i \in 0..j |-> IF i = j THEN step[f[j - 1]] ELSE f[i]]
    <2>2. \A i \in 0..(j - 1) : g[i] = f[i] /\ i \in 0..j
        OBVIOUS
    <2>7. g = [i \in 0..j |-> g[i]] /\ g[j] = step[f[j - 1]]
        OBVIOUS
    <2> HIDE DEF g
    <2>8. j - 1 \in 0..(j - 1)
        OBVIOUS
    <2>9. f[j - 1] \in D
        BY <2>1, <2>8
    <2>3. g[j] = step[g[j - 1]] /\ g[j - 1] \in D /\ g[j] \in D
        BY <2>2, <2>7, <2>8, <2>9
    <2>5. ASSUME NEW i \in 0..j PROVE g[i] \in D /\ g[i] = IF i = 0 THEN x ELSE step[g[i - 1]]
        <3>1. CASE i = j
            BY <2>3, <3>1
        <3>2. CASE i # j /\ i # 0
            <4>1. i \in 0..(j - 1) /\ i - 1 \in 0..(j - 1)
                BY <3>2
            <4>2. f[i] \in D /\ f[i] = step[f[i - 1]]
                BY <2>1, <3>2, <4>1
            <4>. QED
                BY <2>2, <3>2, <4>1, <4>2
        <3>3. CASE i = 0
            <4>1. i \in 0..(j - 1) /\ f[i] = x
                BY <2>1, <3>3
            <4>. QED
                BY <2>2, <3>3, <4>1
        <3>. QED
            BY <3>1, <3>2, <3>3
    <2>6. Run(j, g)
        BY <2>5, <2>7
    <2> HIDE DEF Run
    <2>. QED
        BY <2>6
<1>3. n \in P
    <2> HIDE DEF P
    <2>. QED
        BY <1>1, <1>2, UpTo
<1>. QED
    BY <1>3

(***************************************************************************)
(* What drainQueues() finds: the queues are those of the waiting calls,    *)
(* which are finitely many and have arrived one after the other.           *)
(***************************************************************************)
InLine(run, que, waiting) ==
    /\ run \in [Key -> Nat]
    /\ waiting \subseteq Request /\ IsFiniteSet(waiting)
    /\ \A k \in Key : que[k] = {r \in waiting : k \in Keys[r]}
    /\ \A k \in Key : maxConcurrency'[k] \in Nat
    /\ \A r \in waiting : ticket'[r] \in Nat
    /\ \A q, r \in waiting : ticket'[q] = ticket'[r] => q = r

(* Whoever waited ahead of a call of T, at any of its gates, is in T. *)
InTurn(T, que) == \A r \in T : \A k \in Keys[r] : Ahead(que, r, k) \subseteq T

LEMMA AheadIsFinite ==
    ASSUME SemaphoreAssumption, NEW run, NEW que, NEW waiting, InLine(run, que, waiting),
           NEW k \in Key, NEW T
    PROVE  /\ IsFiniteSet(que[k]) /\ que[k] \subseteq waiting
           /\ IsFiniteSet(que[k] \cap T) /\ Cardinality(que[k] \cap T) \in Nat
           /\ run[k] \in Nat /\ maxConcurrency'[k] \in Nat
<1>1. que[k] \in SUBSET waiting /\ IsFiniteSet(waiting)
    BY DEF InLine
<1>2. IsFiniteSet(que[k])
    BY <1>1, FS_Subset
<1>3. (que[k] \cap T) \in SUBSET que[k]
    OBVIOUS
<1>4. IsFiniteSet(que[k] \cap T) /\ Cardinality(que[k] \cap T) \in Nat
    BY <1>2, <1>3, FS_Subset, FS_CardinalityType
<1>. QED
    BY <1>1, <1>2, <1>4 DEF InLine

(***************************************************************************)
(* A call that the loop may admit next belongs to the set that a drain     *)
(* admits: everyone ahead of it is admitted already.                       *)
(***************************************************************************)
LEMMA AbleIsAdmitted ==
    ASSUME SemaphoreAssumption, NEW run, NEW que, NEW waiting, InLine(run, que, waiting),
           NEW G, Admits(G, run, que, waiting), NEW T, T \subseteq G,
           NEW r \in waiting, CanAcquire(T, run, que, r)
    PROVE  r \in G /\ \A k \in Keys[r] : Ahead(que, r, k) \subseteq T
<1>1. ASSUME NEW k \in Keys[r]
      PROVE  Fits(G, run, que, r, k) /\ Ahead(que, r, k) \subseteq T
    <2>1. k \in Key
        BY DEF SemaphoreAssumption, InLine
    <2>2. /\ k \in gates' /\ ~blocked'[k] /\ r \in que[k]
          /\ run[k] + Cardinality(que[k] \cap T) < maxConcurrency'[k]
          /\ \A q \in que[k] \ T : ticket'[r] <= ticket'[q]
        BY DEF CanAcquire
    <2>3. que[k] \subseteq waiting /\ \A q \in waiting : ticket'[q] \in Nat
        BY <2>1, AheadIsFinite DEF InLine
    <2>4. ASSUME NEW q \in Ahead(que, r, k) PROVE q \in que[k] \cap T
        <3>1. q \in que[k] /\ ticket'[q] < ticket'[r]
            BY DEF Ahead
        <3>2. ticket'[q] \in Nat /\ ticket'[r] \in Nat
            BY <2>3, <3>1
        <3>3. ~(ticket'[r] <= ticket'[q])
            BY <3>1, <3>2
        <3>. QED
            BY <2>2, <3>1, <3>3
    <2>5. Ahead(que, r, k) \in SUBSET (que[k] \cap T)
        BY <2>4
    <2>6. /\ IsFiniteSet(que[k] \cap T) /\ Cardinality(que[k] \cap T) \in Nat
          /\ run[k] \in Nat /\ maxConcurrency'[k] \in Nat
        BY <2>1, AheadIsFinite
    <2>8. IsFiniteSet(Ahead(que, r, k)) /\ Cardinality(Ahead(que, r, k)) <= Cardinality(que[k] \cap T)
        BY <2>5, <2>6, FS_Subset
    <2>9. Cardinality(Ahead(que, r, k)) \in Nat
        BY <2>8, FS_CardinalityType
    <2>7. run[k] + Cardinality(Ahead(que, r, k)) < maxConcurrency'[k]
        BY <2>2, <2>6, <2>8, <2>9
    <2>. QED
        BY <2>2, <2>5, <2>7 DEF Fits
<1>. QED
    BY <1>1 DEF Admits

(***************************************************************************)
(* The loop does not stop early: while a call of that set is left, the     *)
(* oldest one left can be admitted.                                        *)
(***************************************************************************)
LEMMA SomebodyIsAble ==
    ASSUME SemaphoreAssumption, NEW run, NEW que, NEW waiting, InLine(run, que, waiting),
           NEW G \in SUBSET waiting, Admits(G, run, que, waiting),
           NEW T, T \subseteq G, T # G, InTurn(T, que)
    PROVE  \E r \in waiting \ T : CanAcquire(T, run, que, r)
<1>1. G \ T # {} /\ \A q \in G \ T : ticket'[q] \in Nat
    BY DEF InLine
<1>2. PICK r \in G \ T : \A q \in G \ T : ticket'[r] <= ticket'[q]
    <2> DEFINE A == G \ T
               f == [q \in A |-> ticket'[q]]
    <2>1. A # {} /\ \A q \in A : f[q] \in Nat
        BY <1>1
    <2>2. PICK m \in A : \A q \in A : f[m] <= f[q]
        <3> HIDE DEF A, f
        <3>. QED
            BY <2>1, FirstOne
    <2>. QED
        BY <2>2
<1>3. ASSUME NEW k \in Keys[r]
      PROVE  /\ k \in gates' /\ ~blocked'[k]
             /\ run[k] + Cardinality(que[k] \cap T) < maxConcurrency'[k]
             /\ r \in que[k] \ T
             /\ \A q \in que[k] \ T : ticket'[r] <= ticket'[q]
    <2>1. k \in Key
        BY DEF SemaphoreAssumption, InLine
    <2>2. Fits(G, run, que, r, k)
        BY <1>2 DEF Admits
    <2>3. /\ que[k] \subseteq waiting /\ \A q \in waiting : ticket'[q] \in Nat
          /\ r \in que[k] /\ r \in waiting
        BY <2>1, <2>2, AheadIsFinite DEF InLine, Fits
    <2>4. ASSUME NEW q \in que[k] \cap T PROVE q \in Ahead(que, r, k)
        <3>1. k \in Keys[q] /\ ticket'[q] \in Nat /\ ticket'[r] \in Nat /\ q # r
            BY <1>2, <2>1, <2>3 DEF InLine
        <3>2. ~(ticket'[r] < ticket'[q])
            <4>1. Ahead(que, q, k) \subseteq T
                BY <3>1 DEF InTurn
            <4>. QED
                BY <1>2, <2>3, <4>1 DEF Ahead
        <3>3. ticket'[q] # ticket'[r]
            BY <2>3, <3>1 DEF InLine
        <3>4. ticket'[q] < ticket'[r]
            BY <3>1, <3>2, <3>3
        <3>. QED
            BY <3>4 DEF Ahead
    <2>5. ASSUME NEW q \in que[k] \ T PROVE ticket'[r] <= ticket'[q]
        <3>1. ticket'[q] \in Nat /\ ticket'[r] \in Nat
            BY <2>3
        <3>2. CASE q \in G
            BY <1>2, <3>2
        <3>3. CASE q \notin G
            <4>1. q \notin Ahead(que, r, k)
                BY <2>2, <3>3 DEF Fits
            <4>2. ~(ticket'[q] < ticket'[r])
                BY <4>1 DEF Ahead
            <4>. QED
                BY <3>1, <4>2
        <3>. QED
            BY <3>2, <3>3
    <2>6. (que[k] \cap T) \in SUBSET Ahead(que, r, k) /\ Ahead(que, r, k) \in SUBSET que[k]
        BY <2>4 DEF Ahead
    <2>7. IsFiniteSet(que[k]) /\ run[k] \in Nat /\ maxConcurrency'[k] \in Nat
        BY <2>1, AheadIsFinite
    <2>8. IsFiniteSet(Ahead(que, r, k))
        BY <2>6, <2>7, FS_Subset
    <2>9. /\ Cardinality(que[k] \cap T) <= Cardinality(Ahead(que, r, k))
          /\ Cardinality(que[k] \cap T) \in Nat /\ Cardinality(Ahead(que, r, k)) \in Nat
        BY <2>1, <2>6, <2>8, AheadIsFinite, FS_Subset, FS_CardinalityType
    <2>10. run[k] + Cardinality(Ahead(que, r, k)) < maxConcurrency'[k]
        BY <2>2 DEF Fits
    <2>11. run[k] + Cardinality(que[k] \cap T) < maxConcurrency'[k]
        BY <2>7, <2>9, <2>10
    <2>. QED
        BY <1>2, <2>2, <2>3, <2>5, <2>11 DEF Fits
<1>4. CanAcquire(T, run, que, r)
    BY <1>3 DEF CanAcquire
<1>. QED
    BY <1>2, <1>4

(***************************************************************************)
(* A turn of the loop stays within the set G of a drain and in turn, and   *)
(* admits one more call as long as G has one left.                         *)
(***************************************************************************)
LEMMA PassAdmitsOne ==
    ASSUME SemaphoreAssumption, NEW run, NEW que, NEW waiting, InLine(run, que, waiting),
           NEW G \in SUBSET waiting, Admits(G, run, que, waiting),
           NEW T \in SUBSET G, InTurn(T, que)
    PROVE  /\ DrainPass(T, run, que, waiting) \subseteq G
           /\ InTurn(DrainPass(T, run, que, waiting), que)
           /\ T # G => Cardinality(DrainPass(T, run, que, waiting)) = Cardinality(T) + 1
<1> DEFINE can == {r \in waiting \ T : CanAcquire(T, run, que, r)}
           first == {r \in can : \A q \in can : ticket'[r] <= ticket'[q]}
           U == DrainPass(T, run, que, waiting)
<1>1. U = T \cup first
    BY DEF DrainPass
<1>2. ASSUME NEW r \in can PROVE r \in G /\ \A k \in Keys[r] : Ahead(que, r, k) \subseteq T
    <2>1. r \in waiting /\ CanAcquire(T, run, que, r) /\ T \subseteq G
        OBVIOUS
    <2>. QED
        BY <2>1, AbleIsAdmitted
<1>3. U \subseteq G
    BY <1>1, <1>2
<1>4. InTurn(U, que)
    <2>1. \A r \in U : \A k \in Keys[r] : Ahead(que, r, k) \subseteq T
        BY <1>1, <1>2 DEF InTurn
    <2>. QED
        BY <1>1, <2>1 DEF InTurn
<1>5. ASSUME T # G PROVE Cardinality(U) = Cardinality(T) + 1
    <2>1. can # {}
        <3>1. \E r \in waiting \ T : CanAcquire(T, run, que, r)
            BY <1>5, SomebodyIsAble
        <3>. QED
            BY <3>1
    <2>2. \A q \in can : ticket'[q] \in Nat
        BY DEF InLine
    <2>3. PICK r \in can : \A q \in can : ticket'[r] <= ticket'[q]
        <3> DEFINE f == [q \in can |-> ticket'[q]]
        <3>1. \A q \in can : f[q] \in Nat /\ f[q] = ticket'[q]
            BY <2>2
        <3> HIDE DEF can, f
        <3>2. PICK m \in can : \A q \in can : f[m] <= f[q]
            BY <2>1, <3>1, FirstOne
        <3>. QED
            BY <3>1, <3>2
    <2>4. ASSUME NEW q \in first PROVE q = r
        <3>1. q \in can /\ ticket'[q] <= ticket'[r] /\ ticket'[r] <= ticket'[q]
            BY <2>3
        <3>2. ticket'[q] = ticket'[r]
            BY <2>2, <3>1
        <3>. QED
            BY <3>1, <3>2 DEF InLine
    <2>5. U = T \cup {r} /\ r \notin T
        BY <1>1, <2>3, <2>4
    <2>6. IsFiniteSet(T)
        <3>1. T \in SUBSET waiting /\ IsFiniteSet(waiting)
            BY DEF InLine
        <3>. QED
            BY <3>1, FS_Subset
    <2>. QED
        BY <2>5, <2>6, FS_AddElement
<1>. QED
    BY <1>3, <1>4, <1>5

(***************************************************************************)
(* The set that a drain admits is the one that the loop admits.            *)
(***************************************************************************)
LEMMA LoopAdmits ==
    ASSUME SemaphoreAssumption, NEW run, NEW que, NEW waiting, InLine(run, que, waiting),
           NEW G \in SUBSET waiting, Admits(G, run, que, waiting)
    PROVE  DrainLoop(run, que, waiting) = G
<1> DEFINE n == Cardinality(waiting)
           Pass(T) == DrainPass(T, run, que, waiting)
           D == SUBSET waiting
           step == [T \in D |-> Pass(T)]
           loop == CHOOSE f : f = [i \in 0..n |-> IF i = 0 THEN {} ELSE Pass(f[i - 1])]
<1>1. n \in Nat /\ IsFiniteSet(waiting)
    BY FS_CardinalityType DEF InLine
<1>2. {} \in D /\ step \in [D -> D]
    BY DEF DrainPass
<1>3. \A T \in D : step[T] = Pass(T)
    OBVIOUS
<1> HIDE DEF D, step, n
<1>4. PICK f : Repeats(f, n, D, {}, step)
    BY <1>1, <1>2, Repeated
<1> USE DEF D, n
<1>5. f = [i \in 0..n |-> IF i = 0 THEN {} ELSE Pass(f[i - 1])]
    <2>1. \A i \in 0..n : i # 0 => i - 1 \in 0..n
        BY <1>1
    <2> HIDE DEF D, step, n, Pass
    <2>. QED
        BY <1>3, <1>4, <2>1 DEF Repeats
<1>6. loop = [i \in 0..n |-> IF i = 0 THEN {} ELSE Pass(loop[i - 1])]
    BY <1>5
<1>7. DrainLoop(run, que, waiting) = loop[n]
    BY DEF DrainLoop
<1> DEFINE Reached(i) == /\ loop[i] \subseteq G /\ InTurn(loop[i], que)
                         /\ loop[i] = G \/ Cardinality(loop[i]) = i
           P == {i \in 0..n : Reached(i)}
<1> HIDE DEF loop
<1>8. loop[0] = {} /\ \A i \in 1..n : loop[i] = Pass(loop[i - 1])
    <2>1. 0 \in 0..n /\ \A i \in 1..n : i \in 0..n /\ i # 0
        BY <1>1
    <2> HIDE DEF Pass, n
    <2>. QED
        BY <1>6, <2>1
<1>9. 0 \in P
    <2>1. 0 \in 0..n
        BY <1>1
    <2>2. InTurn({}, que)
        BY DEF InTurn
    <2>3. Cardinality({}) = 0
        BY FS_EmptySet
    <2>. QED
        BY <1>8, <2>1, <2>2, <2>3
<1>10. ASSUME NEW i \in 1..n, i - 1 \in P PROVE i \in P
    <2> DEFINE T == loop[i - 1]
    <2>1. T \in SUBSET G /\ InTurn(T, que) /\ (T = G \/ Cardinality(T) = i - 1)
        BY <1>10
    <2>2. loop[i] = Pass(T)
        BY <1>8
    <2>3. /\ Pass(T) \subseteq G /\ InTurn(Pass(T), que)
          /\ T # G => Cardinality(Pass(T)) = Cardinality(T) + 1
        <3> HIDE DEF T
        <3>. QED
            BY <2>1, PassAdmitsOne
    <2>4. T = G => Pass(T) = G
        BY <2>3 DEF DrainPass
    <2>5. T # G => Cardinality(Pass(T)) = i
        BY <2>1, <2>3
    <2>. QED
        BY <2>2, <2>3, <2>4, <2>5
<1>11. Reached(n)
    <2>1. n \in P
        <3>1. n \in Nat /\ 0 \in P /\ \A i \in 1..n : i - 1 \in P => i \in P
            BY <1>1, <1>9, <1>10
        <3> HIDE DEF P, n
        <3>2. \A i \in 0..n : i \in P
            BY <3>1, UpTo
        <3>3. n \in 0..n
            BY <3>1
        <3>. QED
            BY <3>2, <3>3
    <2>. QED
        BY <2>1
<1>12. loop[n] = G
    <2>1. CASE Cardinality(loop[n]) = n
        <3>1. loop[n] \in SUBSET waiting
            BY <1>11
        <3>2. loop[n] = waiting
            BY <1>1, <2>1, <3>1, FS_Subset
        <3>. QED
            BY <1>11, <3>2
    <2>. QED
        BY <1>11, <2>1
<1>. QED
    BY <1>7, <1>12

(* The calls that wait when the calls are in the states st. *)
WaitingIn(st) == {r \in Request : st[r] = "waiting"}

LEMMA DrainRunsTheLoop ==
    ASSUME SemaphoreAssumption,
           NEW run, NEW que, NEW tmr, NEW closing, NEW st \in [Request -> Status],
           NEW waiting, waiting = WaitingIn(st),
           InLine(run, que, waiting),
           Drain(run, que, st, tmr, closing)
    PROVE  Served(waiting) = DrainLoop(run, que, waiting)
<1>1. PICK G \in SUBSET waiting :
        /\ Admits(G, run, que, waiting)
        /\ status' = [r \in Request |-> IF r \in G THEN "holding" ELSE st[r]]
    BY DEF Drain, WaitingIn
<1>2. Served(waiting) = G
    BY <1>1 DEF Served, WaitingIn
<1>3. DrainLoop(run, que, waiting) = G
    BY <1>1, LoopAdmits
<1>. QED
    BY <1>2, <1>3

(* Calls in the queues are finitely many: each has its own ticket. *)
LEMMA FiniteWaiting ==
    ASSUME TypeInv, QueueIntegrity
    PROVE  IsFiniteSet(Waiting)
<1> DEFINE f == [r \in Waiting |-> ticket[r]]
           T == 0..nextTicket
<1>1. \A r \in Waiting : ticket[r] \in T
    BY DEF TypeInv, TypeOK, QueueIntegrity, Waiting
<1>2. f \in Injection(Waiting, T)
    BY <1>1 DEF Injection, IsInjective, QueueIntegrity
<1>3. IsFiniteSet(T)
    BY FS_Interval DEF TypeInv, TypeOK
<1>. QED
    BY <1>2, <1>3, FS_Injection

(* The queues of some of the calls that wait in a state of the invariant. *)
LEMMA SomeInLine ==
    ASSUME SemaphoreAssumption, TypeInv, QueueIntegrity, TypeInv',
           NEW run \in [Key -> Nat], NEW que, NEW waiting \in SUBSET Waiting,
           \A k \in Key : que[k] = {r \in waiting : k \in Keys[r]},
           UNCHANGED ticket
    PROVE  InLine(run, que, waiting)
<1>1. IsFiniteSet(waiting) /\ waiting \subseteq Request
    BY FiniteWaiting, FS_Subset DEF Waiting
<1>2. \A k \in Key : maxConcurrency'[k] \in Nat
    BY DEF TypeInv, TypeOK
<1>3. \A r \in waiting : ticket'[r] \in Nat
    BY <1>1 DEF TypeInv, TypeOK
<1>4. \A q, r \in waiting : ticket'[q] = ticket'[r] => q = r
    BY DEF QueueIntegrity
<1>. QED
    BY <1>1, <1>2, <1>3, <1>4 DEF InLine

(* A drain of a handler that hands out no ticket and adds nobody. *)
LEMMA HandlerDrains ==
    ASSUME SemaphoreAssumption, TypeInv, QueueIntegrity, TypeInv',
           NEW run \in [Key -> Nat], NEW que, NEW st \in [Request -> Status], NEW tmr, NEW closing,
           NEW waiting \in SUBSET Waiting, waiting = WaitingIn(st),
           \A k \in Key : que[k] = {q \in waiting : k \in Keys[q]},
           UNCHANGED ticket, Drain(run, que, st, tmr, closing)
    PROVE  Served(waiting) = DrainLoop(run, que, waiting)
<1>1. InLine(run, que, waiting)
    BY SomeInLine
<1>. QED
    BY <1>1, DrainRunsTheLoop

LEMMA RequestsRunTheLoop ==
    ASSUME SemaphoreAssumption, TypeInv, QueueIntegrity, TypeInv', NEW r \in Request
    PROVE  /\ AcquireQueued(r) =>
                Served(Waiting \cup {r}) = DrainLoop(running, JoinedBy(r), Waiting \cup {r})
           /\ Release(r) => Served(Waiting) = DrainLoop(Decremented(r), queue, Waiting)
           /\ GiveUp(r) => Served(Waiting \ {r}) = DrainLoop(running, Without({r}), Waiting \ {r})
<1> TypeOK
    BY DEF TypeInv
<1>1. ASSUME AcquireQueued(r)
      PROVE  Served(Waiting \cup {r}) = DrainLoop(running, JoinedBy(r), Waiting \cup {r})
    <2> DEFINE st == [status EXCEPT ![r] = "waiting"]
               waiting == Waiting \cup {r}
    <2>1. /\ ticket' = [ticket EXCEPT ![r] = nextTicket] /\ status[r] = "new"
          /\ Drain(running, JoinedBy(r), st, TimersCleared(Keys[r]), {})
        BY <1>1 DEF AcquireQueued
    <2>2. st \in [Request -> Status] /\ waiting = WaitingIn(st)
        BY DEF Waiting, TypeOK, Status, WaitingIn
    <2>3. InLine(running, JoinedBy(r), waiting)
        <3>1. IsFiniteSet(waiting) /\ waiting \subseteq Request
            BY FiniteWaiting, FS_AddElement DEF Waiting
        <3>2. \A k \in Key : JoinedBy(r)[k] = {q \in waiting : k \in Keys[q]}
            BY DEF QueueIntegrity, JoinedBy
        <3>3. \A k \in Key : maxConcurrency'[k] \in Nat
            BY DEF TypeInv, TypeOK
        <3>4. \A q \in waiting : ticket'[q] \in Nat /\ ticket[q] \in Nat
            BY <3>1 DEF TypeInv, TypeOK
        <3>5. r \notin Waiting /\ ticket'[r] = nextTicket
              /\ \A q \in Waiting : ticket'[q] = ticket[q] /\ ticket[q] < nextTicket
            BY <2>1 DEF QueueIntegrity, Waiting, TypeOK
        <3>6. \A p, q \in waiting : ticket'[p] = ticket'[q] => p = q
            <4>1. nextTicket \in Nat
                BY DEF TypeOK
            <4>. QED
                BY <3>4, <3>5, <4>1 DEF QueueIntegrity
        <3>. QED
            BY <3>1, <3>2, <3>3, <3>4, <3>6 DEF InLine, TypeOK
    <2> HIDE DEF st, waiting
    <2>4. Served(waiting) = DrainLoop(running, JoinedBy(r), waiting)
        BY <2>1, <2>2, <2>3, DrainRunsTheLoop
    <2>. QED
        BY <2>4 DEF waiting
<1>2. ASSUME Release(r)
      PROVE  Served(Waiting) = DrainLoop(Decremented(r), queue, Waiting)
    <2> DEFINE st == [status EXCEPT ![r] = "released"]
    <2>1. /\ Drain(Decremented(r), queue, st, cleanupTimer, Keys[r])
          /\ UNCHANGED ticket /\ status[r] = "holding"
        BY <1>2 DEF Release, ReleaseFrom
    <2>2. st \in [Request -> Status] /\ Waiting = WaitingIn(st)
        BY <2>1 DEF Waiting, TypeOK, Status, WaitingIn
    <2>3. Decremented(r) \in [Key -> Nat] /\ \A k \in Key : queue[k] = {q \in Waiting : k \in Keys[q]}
        BY DrainInputs DEF QueueIntegrity
    <2> HIDE DEF st
    <2>. QED
        BY <2>1, <2>2, <2>3, HandlerDrains
<1>3. ASSUME GiveUp(r)
      PROVE  Served(Waiting \ {r}) = DrainLoop(running, Without({r}), Waiting \ {r})
    <2> DEFINE st == [status EXCEPT ![r] = "rejected"]
               waiting == Waiting \ {r}
               que == Without({r})
               tmr == TimersAfterRemoval({r})
    <2>1. /\ Drain(running, que, st, tmr, {})
          /\ UNCHANGED ticket
        BY <1>3 DEF GiveUp
    <2>2. st \in [Request -> Status] /\ waiting = WaitingIn(st) /\ waiting \in SUBSET Waiting
        BY DEF Waiting, TypeOK, Status, WaitingIn
    <2>3. running \in [Key -> Nat] /\ \A k \in Key : que[k] = {q \in waiting : k \in Keys[q]}
        BY DEF QueueIntegrity, Without, TypeOK
    <2> HIDE DEF st, waiting, que, tmr
    <2>4. Served(waiting) = DrainLoop(running, que, waiting)
        BY <2>1, <2>2, <2>3, HandlerDrains
    <2>. QED
        BY <2>4 DEF waiting, que
<1>. QED
    BY <1>1, <1>2, <1>3

LEMMA GatesRunTheLoop ==
    ASSUME SemaphoreAssumption, TypeInv, QueueIntegrity, TypeInv', NEW k \in Key
    PROVE  /\ Unblock(k) => Served(Waiting) = DrainLoop(running, queue, Waiting)
           /\ Reset(k) =>
                Served(Waiting \ queue[k]) =
                DrainLoop([running EXCEPT ![k] = 0], Without(queue[k]), Waiting \ queue[k])
<1> TypeOK
    BY DEF TypeInv
<1>1. ASSUME Unblock(k)
      PROVE  Served(Waiting) = DrainLoop(running, queue, Waiting)
    <2>1. /\ Drain(running, queue, status, IF Idle(k) THEN TimersCleared({k}) ELSE cleanupTimer, {})
          /\ UNCHANGED ticket
        BY <1>1 DEF Unblock
    <2>2. status \in [Request -> Status] /\ Waiting = WaitingIn(status)
        BY DEF Waiting, TypeOK, WaitingIn
    <2>3. running \in [Key -> Nat] /\ \A j \in Key : queue[j] = {q \in Waiting : j \in Keys[q]}
        BY DEF QueueIntegrity, TypeOK
    <2>. QED
        BY <2>1, <2>2, <2>3, HandlerDrains
<1>2. ASSUME Reset(k)
      PROVE  Served(Waiting \ queue[k]) =
             DrainLoop([running EXCEPT ![k] = 0], Without(queue[k]), Waiting \ queue[k])
    <2> DEFINE st == [r \in Request |-> IF r \in queue[k] THEN "rejected" ELSE status[r]]
               run == [running EXCEPT ![k] = 0]
               tmr == [TimersAfterRemoval(queue[k]) EXCEPT ![k] = FALSE]
               waiting == Waiting \ queue[k]
    <2>1. Drain(run, Without(queue[k]), st, tmr, {}) /\ UNCHANGED ticket
        BY <1>2 DEF Reset
    <2>2. st \in [Request -> Status] /\ waiting = WaitingIn(st) /\ waiting \in SUBSET Waiting
        BY DEF Waiting, TypeOK, Status, WaitingIn
    <2>3. run \in [Key -> Nat] /\ \A j \in Key : Without(queue[k])[j] = {q \in waiting : j \in Keys[q]}
        BY DEF QueueIntegrity, Without, TypeOK
    <2> HIDE DEF st, run, tmr, waiting
    <2>4. Served(waiting) = DrainLoop(run, Without(queue[k]), waiting)
        BY <2>1, <2>2, <2>3, HandlerDrains
    <2>. QED
        BY <2>4 DEF run, waiting
<1>. QED
    BY <1>1, <1>2

(***************************************************************************)
(* Drain, the result by which the handlers are specified, is what the loop *)
(* of drainQueues() comes to, whichever handler calls it and whatever      *)
(* gates, limits and queues it finds.                                      *)
(***************************************************************************)
THEOREM DrainsAreTheLoop == Spec => DrainIsTheLoop
<1>1. Init => TypeInv /\ QueueIntegrity
    BY TypeInvInit, SemaphoreAssumption DEF Init, QueueIntegrity, Waiting
<1>2. TypeInv /\ QueueIntegrity /\ [Next]_vars => (TypeInv /\ QueueIntegrity)'
    BY TypeInvStep, QueueIntegrityStep, SemaphoreAssumption
<1>3. TypeInv /\ QueueIntegrity /\ [Next]_vars =>
        [/\ \A r \in Request : status'[r] # status[r] =>
              /\ AcquireQueued(r) =>
                   Served(Waiting \cup {r}) = DrainLoop(running, JoinedBy(r), Waiting \cup {r})
              /\ Release(r) => Served(Waiting) = DrainLoop(Decremented(r), queue, Waiting)
              /\ GiveUp(r) => Served(Waiting \ {r}) = DrainLoop(running, Without({r}), Waiting \ {r})
         /\ \A k \in Key :
              /\ Unblock(k) => Served(Waiting) = DrainLoop(running, queue, Waiting)
              /\ Reset(k) =>
                   Served(Waiting \ queue[k]) =
                   DrainLoop([running EXCEPT ![k] = 0], Without(queue[k]), Waiting \ queue[k])]_vars
    BY TypeInvStep, RequestsRunTheLoop, GatesRunTheLoop, SemaphoreAssumption
<1>. QED
    BY <1>1, <1>2, <1>3, PTL DEF Spec, DrainIsTheLoop
=============================================================================
