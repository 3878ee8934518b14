# TLA+ models of OmniRoute

OmniRoute is a gateway that accepts OpenAI-style requests, picks a provider,
a connection (account) and a proxy for each, calls the upstream and translates
the answer. It runs as one Node process over one SQLite database. This
directory holds specifications of the parts of it in which several requests,
timers, restarts or operators meet, the configurations that check them with
TLC, and theorems about them checked by TLAPS. Paths below are relative to the
repository.

- [Reading order](#reading-order)
- [The system](#the-system): components, state, interactions, what is hard
- [Modules and code](#modules-and-code): correspondence
- [What TLC checks](#what-tlc-checks): runs, bounds, fairness
- [Where code and documentation disagree](#where-code-and-documentation-disagree)
- [What is proved](#what-is-proved)
- [Not modelled](#not-modelled)
- [Plan](#plan)

Run a model with `tlc -config <cfg> <module>` and a proof with
`tlapm <module>_proofs.tla`. `PROJECT.json` lists runs, the code lines behind
every definition (`map`), for every checked property a bug that breaks it
(`mutants`; the wrong forms stand in the modules next to the right ones and are
used by nothing else), and the hazards the properties are for.

## Reading order

1. `AtomicAdmission`, `AccountSemaphore`, `MCAccountSemaphore`
2. `LeaseOwnership`, `ExclusiveLeases`, `ManagedSessions`
3. `BreakerRules`, `CircuitBreaker`, `ProviderCalls`
4. `FairQueue`, `AdmissionControl`
5. `TokenRefresh`
6. `RequestDedup`, `RateLimitSemaphore`
7. `ServiceSupervisor`
8. the `MC` modules, which put these together for TLC
9. the `_proofs` modules

## The system

One event loop runs all of it: a handler is atomic up to its next `await`,
callback or timer. A race therefore is never a torn write. It is a decision
taken on state read before an `await` and used after it, an answer that arrives
after the thing it answers was replaced, or an order of timers and answers
nobody thought of. Database transactions are synchronous (better-sqlite3), so
each is one step. A restart keeps the database and loses the rest.

### Modelled now

| Component | State | Operations | Interacts with |
|---|---|---|---|
| Account semaphore, `open-sse/services/accountSemaphore.ts` | gates by key: running, limit, queue, block, cleanup timer | acquireMany, release, queue timeout, abort, markBlocked, unblock, cleanup, reset, resetAll | chatCore acquires before an attempt and releases at every exit; an admin route resets |
| Exclusive connection leases, `src/lib/db/exclusiveConnectionLeases.ts` | table of leases | acquire, transition, renew, release, invalidate, fence, expiry inside each | lifecycle route; selection; dispatch |
| Managed sessions, `sse/services/auth.ts` (claim loop), `exclusiveConnectionLeasePolicy.ts`, the session-leases route | each call's selected connection, exclusions and presented generation | select, preflight, claim, fence, retry, fail-over | the lease table, across awaits |
| Circuit breaker, `src/shared/utils/circuitBreaker.ts`, `src/lib/db/domainState.ts` | registry of objects; per object: state, counters, probe allowance, last failure; one row each | execute, canExecute/getStatus, success, failure, reset, eviction, restore | requests, combos, dashboard; the row survives restarts |
| Breaker reporting, `sse/handlers/chat.ts`, `chatHelpers.ts`, `chatPredicates.ts`, `open-sse/services/accountFallback.ts` | where each request stands, errors stored with accounts | gate, attempt, first report inside execute(), second by handleSingleModelChat() (of an answer, or of a stored error when every account cools down), third by a combo | the breaker; account selection |
| Token refresh, `open-sse/services/tokenRefresh.ts`, `refreshSerializer.ts`, `tokenRefresh/casGuard.ts`, the recovery of `chatCore.ts`, `sse/services/tokenRefresh.ts`, `src/lib/tokenHealthCheck.ts` | rows of the connections, mutex map of refreshes in flight, rotation map, tail promises of the group's lane | getAccessToken in its branches, the persist under its guard, what each of three callers does with the result, expiry, login | requests and the sweep share refreshes; rows are written by several of them |
| Request deduplication, `open-sse/services/requestDedup.ts` | map of promises in flight | lead, follow, timer, size cap, end of the call | chatCore wraps the upstream call in it |
| Rate-limit semaphore, `open-sse/services/rateLimitSemaphore.ts` | gates by name: running, limit, queue, cooldown; resume timers | acquire, release, queue timeout, markRateLimited, timer | round-robin combos acquire before each target |
| Service supervisor, `src/lib/services/ServiceSupervisor.ts`, `healthCheck.ts`, `portProbe.ts` | state, child, pid, poller; the row of the service | start, stop, restart, exit and error events, polls, adoption | the operating system; the services routes |
| Adaptive admission, `open-sse/services/admission/` (`controller.ts`, `queue.ts`, `adaptation.ts`) | limit, pressure, shared fair queue, tenant lanes, active leases, virtual books of shadow mode | acquire, release, deadline, abort, observePressure, tick, lane eviction, updateConfig, shutdown | `runtime.ts` wraps every chat request in it and feeds it the process's pressure |

What makes each correct, and why it is hard:

- *Semaphore.* A request takes all its gates at once or waits in all of their
  queues. Hard: an event at one gate can free a request whose head-of-queue
  position at another gate is taken by somebody else; every handler must end in
  a drain; a timeout, an abort and a reset must take the request out of every
  queue. Correct: nobody overtakes, nothing eligible is left asleep, counters
  equal holders, no circular waits.
- *Leases.* One owner, one connection; every ownership has a generation and a
  late request with an older one must be refused for ever. Hard: clocks (`now`
  is given by the caller and need not grow), repeated releases, a generation
  spread over several rows by transitions.
- *Managed sessions.* What selection saw may be gone at the claim, and what was
  claimed may be gone at dispatch. Correct: every dispatch is under the lease
  presented, the loops end, and only the client's acquire creates leases.
- *Breaker.* Answers of calls let in under one state arrive in another; a probe
  taken is a resource somebody must give back; the row must be good enough to
  restart from; an object can be evicted while calls run in it.
- *Reporting.* One upstream failure is seen by `execute()`, by the handler and by
  the combo, each with its own classification; a request that found every account
  cooling down reports a failure of the past. Correct: what the breaker holds
  against a provider goes back to failures, and a recovery clears it.
- *Token refresh.* The refresh token is single-use, and a second presentation
  revokes the account. Hard: callers load it at different times, share a refresh
  or not, wait in a lane with a gap after each use, give up, die; what they write
  afterwards may be older than what the row has. Correct: one refresh of a
  rotation group at a time, no token twice, no account deactivated for a token it
  no longer has.
- *Deduplication, rate-limit semaphore.* A timer outlives what it was set for: the
  entry, or the gate, may be another's by now. Correct: nobody's entry or slot is
  taken by the late end of somebody else's, and who waits is woken.
- *Supervisor.* Operations take turns; exits and polls do not. Correct: what is
  called running is there and is watched, and each operation leaves a state the
  next can start from.
- *Admission.* Requests of different cost share a limit that moves under them.
  Hard: a heavy request must neither starve behind light ones nor be admitted
  too early; each of a dozen events must end in a dispatch; a request may lose
  patience before the handler that notices runs; `updateConfig()`, which only users
  of the class can reach (the program calls it nowhere), may change mode, lanes and
  bounds while requests wait, run and are on the virtual books.

### Not modelled, or only at the edge

Job registry; batch processor; quota stores,
enforcement and fair share; quota scheduler; model lockouts; account selection;
session affinity; combo routing; rate-limit manager (Bottleneck); rolling RPM
gate; session and browser pools; health schedulers; warm-up; keyed mutex;
webhooks; semantic cache and idempotency; database core and migrations; chat
core, executors and translators; HTTP API, dashboard, CLI and desktop shell;
MITM bridge, plugins and tunnels. `PROJECT.json` gives the source and the reason
of each, and [Plan](#plan) says which come next.

## Modules and code

### AccountSemaphore (with AtomicAdmission, MCAccountSemaphore)

`gates`, `running`, `maxConcurrency`, `queue`, `blocked`, `cleanupTimer` are the
fields of the `gates` map; a key without a gate has default values. A queue is
a set ordered by `ticket`, which is the position `queue.push` gives: entries
leave from anywhere, never change places. `strayTimers` are the cleanup timers
of gates that `reset` dropped without disarming them. `status` is the life of
one call of `acquireMany`.

| Action | Code |
|---|---|
| `AcquireRejected`, `AcquireAtOnce`, `AcquireQueued` | the three ends of `acquireMany()`; the first has already created and re-limited the gates before the full one |
| `Release` | `createReleaseFn()`: decrement by key, drain, cleanup |
| `Timeout`, `Abort` | the two ways a queued call gives up: `removeRequest()` and a drain |
| `MarkBlocked`, `BlockLapses`, `Unblock` | the quota block of an account gate; nothing runs when its time passes |
| `CleanupFires`, `StrayTimerFires` | the `setTimeout(…, 0)` that deletes an idle gate, and one whose gate was dropped |
| `Reset`, `ResetAll` | the operator's resets |

`Drain` is the loop of `drainQueues()` stated as its result: the set G in which
a queued call is admitted exactly when, at each of its gates, everyone before it
is admitted too and room is left after them. `DrainLoop` is the code's loop, one
admission a pass, and `DrainIsTheLoop` says that every handler that drains admits
the calls the loop admits. Time is abstracted: a block is on or
off, a timer is armed or not. Two auxiliary variables change nothing: `unswept`
(gates that got easier to enter since the last drain) and `orphaned` (holders of
a gate that a reset dropped). `Service` is `Next` without the resets.

`AtomicAdmission` keeps only `status`: calls are admitted through all their gates
at once, and no gate is held by more than its capacity.

### ExclusiveLeases, ManagedSessions (with LeaseOwnership)

`rows` is the table in `id` order, reduced to the columns some query reads.
Every action starts from `Expired(now)`, the UPDATE each transaction begins with.
An action's `kind` is the result the function returns; the disjuncts of an
action are its returns, in their order. The unique indices of the schema are
deliberately *not* built into `Insert`: `ExclusiveOwnership` shows the
transactions never need them. `Instant` is any set of clock readings in any
order.

`ManagedSessions` adds `call`: phase, mode (`acquire` from the lifecycle route,
`request` from inference), the presented identity, the connections not yet
excluded, and the selected one. `Select`, `PreflightBlocks`, `Commit`, `Dispatch`,
`Retry`, `FailOver` are separated by the awaits of
`getProviderCredentialsWithQuotaPreflight` and its callers; `Dispatch` is the fence
and the call it guards, which no await separates. Eligibility for reasons other
than leases is a free choice of each `Select`, because it depends on cooldowns,
quotas and health that anything may change. The module reuses the operations
of `ExclusiveLeases` and its theorems, through `TableDiscipline`.

`LeaseOwnership` is the promise: a one-to-one assignment, each grant with the
next generation of its owner, moves keep it. The mapping takes the ACTIVE rows
for the assignment and the greatest generation of an owner for the last issued.

### BreakerRules, CircuitBreaker, ProviderCalls

`BreakerRules` translates the methods of class `CircuitBreaker` into functions from
a breaker to a breaker (`Refreshed`, `Admitted`, `Succeeded`, `Failed`, `WasReset`,
`Persisted`, `Restored`) and has no state. Two specifications use them:

- `CircuitBreaker` is one name of the registry: the registered object, objects
  that were dropped while calls run in them, the row, and each call's object.
  A call holds on to the object it looked up, as in the code. `calls[c].probe` is
  auxiliary.
- `ProviderCalls` is one breaker and the requests that report to it, with a phase
  for each await between gate, attempt, answer, first, second and third report.

| Action of `ProviderCalls` | Code |
|---|---|
| `Gate` | `checkPipelineGates()`; a refused combo target is a 503 its combo still judges |
| `Attempt`, `Answer`, `ProxyDead`, `ClientAborts` | `breaker.execute()`: entry, a value returned (a success to it, whatever it says), a dead proxy, an excused error |
| `MarkAccount`, `AccountsRecover` | `markAccountUnavailable()` stores the error with the account; cooldowns end |
| `ReportSuccess`, `ReportFailure` | `handleSingleModelChat()` reports what was returned |
| `ReportExhausted` | ... and, when every account cools down, the last answer's failure, or for a request that attempted nothing the one stored with an account (`chat.ts:1658-1680`) |
| `RecordProviderSuccess`, `RecordProviderFailure` | a combo's report of its target |
| `GiveUp` | the returns without a report |

`marks` stands for the stored errors, by who is to blame for them; they outlive the
process. `origin`, `blame`, `streak` and `aborted` are auxiliary: whose failure the last
answer of a request goes back to, and whose what the breaker holds, which a clean
breaker (CLOSED, no failures) has forgotten; the provider's failures reported in a
row; whether a client aborted.

Time is one bit, `cooled`: a cooldown has run out since the last failure. How
long it is (escalation, per-kind cooldown) does not matter to the properties.
`MaxCount` bounds the counters; it is at or above every threshold, so a
saturated counter behaves as any larger value would, except that a success
brings it below the threshold a little earlier (only in states that forget the
counter or count down from it).

### FairQueue, AdmissionControl

`FairQueue` translates class `FairCostQueue` into functions on a queue and has no
state: `Enqueued`, `Dequeued`, `Removed`, `Drained` are its methods. A queue is a
record of the class's fields; `cursor` counts from 1, and `older`, the pairs of
waiting requests with the one that came first in front, stands for `enqueuedAtMs`.
A dequeue first names the place it will take from (`Chosen`), and then who was
passed over.

| Action of `AdmissionControl` | Code |
|---|---|
| `AcquireShadow` | `acquire()` in shadow mode: admitted in any case, and judged for the books |
| `AdmitSolo`, `AdmitAtOnce`, `Enqueue` | the three ends of `acquire()` in enforce mode that are not a rejection |
| `Release` | `releaseLease()` with `releaseVirtual()` and both dispatches |
| `Lapse`, `Expire` | a deadline passes or a client aborts; later `expireEntry()` runs |
| `ObservePressure`, `Tick` | the two places that change the limit |
| `EvictIdleLanes` | the lanes' own timer, which dispatches nobody |
| `UpdateConfig`, `Shutdown` | `updateConfig()`, which nothing in the program calls, and `shutdown()` |

Every handler that calls `dispatch()` prepares a *desk* (limit, queue, lanes, active
requests, those too late) and hands it to `Settle`, which dispatches it if the
mode allows. A loop of the code is `Turns(step, x, n)`, what n turns make of x: a
`while (queue.size > 0)` has at most one turn for each entry, since a turn takes an
entry away or is the last (a turn after the last changes nothing), a `for` over the
lanes one for each lane. `shadow` holds the virtual queue, the
virtual cost, and `virtualDisposition` of each record.

Latencies, utilization and outcomes enter as `NextLimits`: any limit the rules of
`closeAdaptationWindow()` may yield from the current one, at the default factors.
Which lane is idle or least recently used is left open, as is the order of the
records when the books are rebuilt, and how the ages of entries of different
queues compare after a change of configuration.

### TokenRefresh

All connections of the module are of one rotation group. Tokens of a connection
are numbered in the order the provider issued them, and `provider` is external:
which token is good, and whether the account was revoked because a spent one was
shown. A handler runs on until its next network call or timer, so a refresh that
was answered settles and its callers return before anything else happens
(`Quiet`).

| Action | Code |
|---|---|
| `Load`, `NoNeed` | a request, or the sweep, reads the connection, token and status; it may need no refresh |
| `Begin`, `Join` | `getAccessToken()` with its staleness check and rotation map; a refresh in flight is shared |
| `Send`, `Answer`, `GapEnds` | the lane of `refreshSerializer.ts`: one presents at a time, and a gap follows if somebody waits |
| `Settle` | the answer in `getAccessToken()`: rotation map, guard, persist, mutex |
| `ReturnTokens` | what the caller does with tokens: the fallback persist |
| `ReturnError` | ... with an unrecoverable error (`Verdicts`): a request deactivates the account, the sweep stores only the error while the access token serves, else clears the token, and deactivates the account if its retries are used up; neither does for a token the row no longer has |
| `ReturnNull` | ... with nothing, or an exception: a request tries again, the sweep stores the `testStatus` it loaded (`WrittenBack`) |
| `Abandon` | `withTimeout()` gives up on an attempt that goes on |
| `Expire`, `Forget` | the access token comes near its end; an entry leaves the rotation map |
| `Revoke`, `Login`, `Restart` | the account's owner, the operator, the process |

`lost` is auxiliary: connections that were issued a token nobody stored, since
the process died or everybody had given up.

### RequestDedup, RateLimitSemaphore

`RequestDedup`: a caller either leads (`Lead`, with the eviction of the oldest entry
of a full map) or follows (`Follow`); `DedupTimerFires` and the cap take an entry whose call goes on;
`CallEnds` is the `finally` that deletes the entry only if it is still its own.
Which requests have one hash is a free choice. `dropped` is auxiliary: the calls
that lost their entry.

`RateLimitSemaphore` is one name of the map: `SlotAtOnce`, `SlotAwaited`,
`SlotRejected` are the three ends of `acquire()`, `QueueTimeout` and `ReleaseSlot` what
they say, `MarkRateLimited` sets the cooldown and a resume timer. A timer keeps the
gate *object*, while everything else finds the gate by its name: `until` has the
cooldown of every object a timer still refers to. `now` is a clock bounded by
`MaxNow`. `DrainQueue` is the loop of `drainQueue()` as its result: as many from the head
as there is room for.

### ServiceSupervisor

`operations` is the queue of the lock; the first operation holds it and stands at the
await `step` names (`probing` the port, `resolving` the pid that holds it, `evicting`
that process, `waiting` for health, `killing` the child). `process` and `port` are the
operating system's: a child may be alive, have exited with the event still to
come, or be an orphan of a gateway that crashed.

| Action | Code |
|---|---|
| `Invoke` | `start()`, `stop()`, `restart()` queue up in `withLock()` |
| `StartBegins`, `ProbeFindsNobody`, `ProbeRefuses`, `ProbeFindsService`, `Resolve`, `Evicted`, `WaitEnds` | `start()` between its awaits; `Spawn` is the part after the probe, with the two ways a spawn fails |
| `StopBegins`, `StopEnds` | `stop()` and `killChild()` |
| `ExitEvent` | `handleExit()`, of whichever child |
| `PollSent`, `PollSucceeds`, `PollFails` | `HealthChecker`: answers count after `stop()` too; `Alarm` is what the supervisor does at the third failure |
| `Listens`, `Dies`, `Crash` | processes and the gateway itself |

### Harnesses for TLC

`MCAdmission`, `MCGates`, `MCLeases`, `MCLifecycles`, `MCBreakers` and `MCTokenRefresh` each hold
several small instances as *scenarios*: the initial state picks one, and the
components of the others rest in their initial states. A harness EXTENDS its
components, each of which has variables, `Init` and `Next` of its own, so what TLC
checks are the very definitions the theorems are about. A scenario is a complete
instance of its specification, and a property of one component is checked in its
scenario and holds in the others because nothing happens there. Components in
one harness do not interact: their behaviours are joined, not interleaved.
`MCAccountSemaphore`, `MCCircuitBreaker`, `MCProviderCalls` and `MCManagedSessions` give the
values for their components.

## What TLC checks

Passing runs. Together they fire every action and disjunct of the specifications.

| Run | Scenario | Instance | What it shows |
|---|---|---|---|
| `admission_safety` (`MCAdmission`) | accounts | 2 gates, 4 calls (two of them through both gates), limits that calls disagree on, queue bound 2, one blockable gate, resets | `QueueIntegrity`: no timer, abort or reset leaves a call in a queue it should have left; `NoLostWakeup`; `NoOvertaking`; `DrainIsTheLoop` |
| | controller | 4 requests of costs 1 and 2 that come again and again, 2 named tenants and the default one, limit 1..3, one lane at most, 5 configurations | `FairQueueIntegrity`, `NobodyStranded`, `ShadowAccounts`, `AdmissionsFitLimit`, `NoLateAdmission`, `ReservationHonoured`, `UpdateServesOrRejects` |
| `gate_promises` (`MCGates`) | accounts | same gates and calls, one limit per gate, no resets, fair | `GateCountsItsHolders`, `ImplementsAtomicAdmission` (refinement), `NoStarvation` without timeouts |
| | cooldown | 4 requests, limits 1 and 2, queue bound 2, cooldowns of 1 and 2 on a clock of 0..2, 2 timers, fair | `SlotsCounted`, `SomebodyWillDrain`, `WaitersServed` |
| | dedup | 4 requests, 2 hashes, room for one entry, fair | `NoNeedlessTwin`, `FollowersAnswered` |
| `leases` (`MCLeases`) | table | 2 owners, 2 keys, 2 connections, 2 instants in any order, 3 rows; every operation with every argument | `ExclusiveOwnership`, `HistoryInOrder`, `EndedForGood`, `ReleaseRepeats`, `ImplementsLeaseOwnership` (refinement) |
| | sessions | 2 calls of any mode, owner, key and generation on the same table, the lifecycle route, fair | `DispatchFenced`, `TableDiscipline` (the sessions implement the table's specification), `CallsEnd` |
| `lifecycles` (`MCLifecycles`) | registry | thresholds 2 and 3, a per-kind threshold of 2, one probe, 3 calls, 2 objects, evictions, excused errors, restarts | `ProbesBounded`, `InShape` |
| | service | 2 children, a stranger, adoption, 2 operations at a time, unhealthy after 2 polls, crashes, polls fair | `StatusHonest`, `DeadServiceSurfaces` |
| `recovery` (`MCBreakers`) | breaker | thresholds 2 and 3, counters to 4, two probes, 4 calls, restarts, fair | `RowIsCurrent`, `ProbeOutstanding`, `BreakerRecovers` |
| | reports | same thresholds, 3 requests, one of them a combo target, dead proxies, aborting clients, stored account errors, fair | `OnlyFailuresTrip`, `CallsRecover` |
| `token_rotation` (`MCTokenRefresh`) | faults | one caller of each kind on one connection, tokens 0 to 2, 2 attempts, abandoned attempts, restarts, revocation and login, fair | `OneAtATime`, `PresentedOnce`, `DeactivationJustified`, `EveryoneAnswered` |
| | lane | a request ahead of time and the sweep on two connections of the group, restarts, fair | the same |

Why the bounds are enough to see the interesting cases:

- *Account gates*: four calls with key sets {1,2}, {1}, {2}, {1,2} give a call first in
  one queue and second in the other, two calls that need the same two gates,
  and a drain that admits several at once. Calls that set limits 2 and 1 at gate
  1 lower a limit under its holders and raise it under its waiters. A call happens
  once; a second acquire by the same client is another call. `MaxOrphaned` stops
  resets at two places held in dropped gates: both of one call, or one each of two.
- *Leases*: three rows allow a generation of two rows (a transition) followed by
  a new generation, and two owners that compete for one connection. Two
  instants with a TTL of 1 let a lease be fresh, at its last moment, or over,
  and the clock go back. Owners, keys and connections are interchangeable, so the
  table's first lease is always that of the same three: a canonical choice in
  place of symmetry, which TLC may not use with the liveness of the other
  scenario.
- *Sessions*: two calls are enough for a call to lose its lease, or its
  connection, to the other one; the lifecycle route can act at any time.
- *Breakers*: 2 and 3 are the least thresholds that keep CLOSED, DEGRADED and
  OPEN apart and let several failures fall into one band. Three or four
  overlapping calls give a probe, a late success and a late failure at once. Two
  objects are an abandoned one and its successor. Among the reports one value
  stands for whoever is to blame: that there is somebody is what the property
  says. No account error is stored at first, since each can be found beside a
  clean breaker later on. `MaxStreak` is 0 where the streak is not asked for.
- *Admission*: a heavy and a light request do not fit together under the initial
  limit, so heads are passed over; three buckets let the cursor wrap, skip and
  be shifted; a second named tenant costs the first its lane; four requests reach
  the reservation after `MaxSkips` = 2, the value of the code. The configurations
  differ from the usual one in the lanes, in bounds of 1, and in the mode.
- *Rate-limit semaphore*: a gate can be limited twice, deleted, made again and
  limited anew while the first timer is pending; callers that disagree about the
  limit lower it under two holders.
- *Dedup*: with room for one entry, a second hash evicts the first, whose call
  then ends, or whose timer then fires, while a twin has the entry.
- *Token refresh*: three tokens are two rotations, or a rotation and a login, so a
  caller can hold the token before the last two. Three callers are one of each
  kind, since they differ in what they write afterwards.
- *Supervisor*: two children are the one at hand and one whose exit is still to
  come; two operations let a start follow a stop that is under way. One poll is
  under way at a time: a late answer is one that was sent before the poller
  stopped, and it may still be the last of a row of failures.

`admission_safety` and `gate_promises` switch the deadlock check off: every call may
have come to its end; so does `refresh_guard`, in which tokens run out. All others
have steps that are always possible.

### Fairness

- `AccountSemaphore`: holders release in the end (every exit of
  `executeProviderRequest` in `chatCore.ts` releases, or hands the release
  function to the stream's finalizer). Nothing is assumed of queue timeouts:
  `NoStarvation` holds without their help.
- `RateLimitSemaphore`: holders release, timers fire, and the clock goes on to its
  bound. `RequestDedup`: calls end, since executors have time limits of their own.
- `ManagedSessions`: each await of a call ends (preflight and upstream
  are under timeouts), and a call does not retry the same connection for ever.
  Nothing is assumed of other calls or of clients.
- `CircuitBreaker`: requests keep coming, time passes, a call inside
  `execute()` ends. There is no fairness of `Refresh`, since there is no refresh timer.
- `ProviderCalls`: requests move on, time passes, and, by strong fairness, some
  request passes the gate and some attempt is let through when they could again
  and again. Without it requests can refuse each other for ever, the report of
  each refusal (of an attempt, a combo's target, a stored account error) falling
  exactly before the gate or the attempt of the next; real timing does not keep
  that up.
- `TokenRefresh`: network calls end, timers fire and continuations run (`Serve`,
  `Return`), and entries of the rotation map age (`Forget`). Nothing is assumed of
  callers, logins or expiry.
- `ServiceSupervisor`: polls are sent and answered while the poller runs. Nothing is
  assumed of operations, exits or the service.

A harness assumes the fairness of a component only where its scenario is
followed, if a component at rest would have fair actions enabled (the clock of
the semaphore, the requests of the breakers); elsewhere the resting component
has none, and the condition is left out.

`CallsRecover` is stated for behaviours without client aborts, as an abort can
waste the last probe (see *stuck breaker* below). `DeadServiceSurfaces` is stated
for a poller that did not raise its alarm before (see *unheard alarm*).
`PresentedOnce` excuses a token whose successor was lost. `DeactivationJustified`
excuses a caller that shared another token's refresh and, for `testStatus` alone, a
sweep that stores the "expired" it loaded (*stale status* below).

## Where code and documentation disagree

Six runs check a sentence of the documentation, a comment or a test, and TLC
finds it violated by what the code does. `PROJECT.json` quotes both sides.

| Run | What happens |
|---|---|
| `sessions_phantom` | An inference request whose lease ends during its quota preflight *acquires* a new generation at the claim. Its own fence refuses that generation, and nobody knows of the lease until its TTL frees the connection. |
| `calls_never_opens` | `execute()` counts a returned failure as a success (`failureCount - 1`) before the handler reports it (`+ 1`). Requests that fail one after another, each with an attempt of its own, never open the breaker. |
| `calls_dead_proxy` | A dead proxy is counted inside `execute()` and again as a plain 503, and opens the breaker of a provider nobody reached. |
| `refresh_guard` | The account is logged in again while a refresh pays its lane's gap. The guard skips the persist, as it should; the request then takes the unset `persistFnRan` for an executor that does not persist, and writes the dead tokens over the fresh ones. |
| `gate_forgets` | The request that meets a 429 marks the model and releases its slot. The gate, idle now, is deleted together with its cooldown, and the next request is let in at once. |
| `supervisor_stop` | `killChild()` sends SIGKILL only if `child.killed` is unset, and the SIGTERM has set it. A child that ignores SIGTERM outlives `stop()`, which says "stopped". |

Met while modelling, described here only:

Account semaphore and leases

- A release after `resetAll` decrements whatever gate its key names now
  (`accountSemaphore.ts:178`); hence `ServiceSpec` for the counting properties.
- The end of a quota block wakes nobody (`accountSemaphore.ts:98`): the queue waits
  for the next event at the gate. `NoLostWakeup` speaks of handlers only.
- A lease is fenced once per dispatch (`exclusiveConnectionLeases.ts:340`). One that
  lapses while the answer streams frees the connection for the next owner.

Breaker

- *Breaker eviction.* The sweep and the size cap drop a CLOSED breaker without
  failures while calls run in it (`circuitBreaker.ts:527`). Such a call keeps the
  old object and saves it over the row of the breaker created since: an OPEN row
  becomes CLOSED, and a restart forgets that the provider was blocked, against
  "evicting and lazily recreating it later changes nothing"
  (`circuitBreaker.ts:541-544`).
- *Stuck breaker.* A probe that ends in an excused error does not give its
  allowance back (`circuitBreaker.ts:294`): the breaker stays HALF_OPEN and refuses
  everybody. Hence `ProbeOutstanding` is checked where every error counts.
- A per-kind threshold opens the breaker and returns before the save
  (`circuitBreaker.ts:399`); hence `RowIsCurrent` is checked without kind
  thresholds. No production caller sets them.
- A cold breaker need not be a fresh one once kind thresholds count, so eviction
  then forgets something, against the comment at `circuitBreaker.ts:541-544`.
- A success of a call let in before the breaker opened closes it at once, whatever
  the cooldown (`circuitBreaker.ts:353-377`); `recordProviderSuccess()` refuses
  to do that (`accountFallback.ts:1105-1143`).
- An attempt the breaker refused comes back as a 503 and is reported to it as a
  failure (`chatHelpers.ts:598`), which reopens a probing breaker.
- *Old failures count anew.* A request that finds every account cooling down
  charges the breaker with an error stored in a row (`chat.ts:1658-1680`), however
  often that error was charged before, and after a restart too. By such requests
  alone the breaker opens, and reopens after each cooldown, until the accounts'
  own cooldowns end.
- *Failures nobody met.* A combo target without an eligible account
  (`chat.ts:1536-1541`), or with none that says why (`auth.ts:1464-1473`), ends in a 503 made
  by the gateway, and the combo records it as the provider's
  (`combo.ts:2237-2260`).

Adaptive admission

- *Starvation in the fair queue.* `takeAt()` drops an emptied bucket from `order`
  and the tenant's next request joins at the end, ahead of the cursor's wrap
  (`queue.ts:131-134`). Two tenants that empty and refill their buckets in turn
  keep a third waiting for ever, without any difference in cost, in a queue that
  calls itself "round-robin across tenant buckets" (`queue.ts:1-2`). In the program
  the deadline ends the wait with a rejection.
- *Lanes leave capacity idle.* `dispatchLanes()` admits at most one request per lane
  per event (`controller.ts:657`), against "Dispatch as many entries from this lane
  as capacity allows" (632), and no event follows by itself. `NobodyStranded`
  therefore speaks of the shared and the virtual queue only.
- *Newcomers pass the lanes.* `acquire()` looks at the shared queue alone
  (`controller.ts:313`), so a newcomer is admitted past older requests in lanes,
  against the comment above it. Lanes are not served while the shared queue holds
  anybody.
- *A reserved head the lowered limit cannot serve* blocks everybody, in an idle
  system too, until the limit recovers or its deadline passes.
- `updateConfig()` forgets reservations: everybody queues anew with no pass-overs.
  `ReservationHonoured` leaves that step out.
- A newcomer of shadow mode is judged without a look at the virtual queue
  (`controller.ts:390`), unlike a newcomer in enforce mode.

Token refresh

- *Half a repair.* A request whose refresh failed for good stores `isActive: false`
  (`chatCore.ts:4044`). The health check may still refresh the connection while
  `testStatus` is "expired", and then sets `testStatus` to "active" but not
  `isActive` (`tokenHealthCheck.ts:957-970`, `1158-1187`); from then on it skips the
  connection (`562-568`) and no request selects it, with good tokens.
- *Stale status.* A refresh of the sweep that yields nothing, or throws, stores the
  `testStatus` the sweep loaded before the network call
  (`tokenHealthCheck.ts:197-230`, `243-275`, `1002-1070`, `1211-1213`): "expired" over
  an account that a request refreshed or the operator logged in anew meanwhile, which
  requests then pass over until the next sweep repairs it; or "active" over one that
  a request deactivated, which leaves `isActive: false` with a status the sweep does
  not repair. The model has both; `DeactivationJustified` names the first as an
  exception of its part about the status, and holds without it for `isActive` and
  for the token.
- A request that joins a refresh under other credentials is handed its error and
  may deactivate a live account: `getAccessToken()` does not say whose error it is.
  `DeactivationJustified` exempts it.
- Two rotations within the rotation map's minute: a holder of the oldest token is
  answered with the middle one, which is spent, and stores it over the newest.
  Hence `QuickRotations` is off.
- After the staleness check has replaced the token, the guard compares the row
  with the token the caller had before, and skips a persist it should not.
- The guard protects reactive refreshes only: a login during the gap of a
  proactive one, or of the sweep's, is overwritten without a check.
- The new token is in memory alone between the answer and the persist, a gap apart:
  a crash loses it, and the old one, presented again, revokes the family.
- `updateProviderConnection()` reads, awaits, merges and writes
  (`providers.ts:902-956`); two such writers lose a field. The model writes at once.

Deduplication and rate-limit semaphore

- Followers share the leader's failure, whatever its cause.
- `markRateLimited()` passes no limit, so `getGate()` takes the default of 3 for a
  gate whose callers allow 1, until the next `acquire()`.
- `drainQueue()` and the rejection at a full queue of size 0 delete a limited idle
  gate as the release does.

Service supervisor

- *Late events of others.* The exit of an older child, or the last failure of an
  older poll, may arrive while the next start probes the port. It sets the state
  "error" while the start goes on: the child runs, the start ends in an error, and the
  row stays "starting".
- *Unheard alarm.* The poller then goes on in the error state and raises its alarm
  where nobody takes notice. A service started next, if it serves nobody, stays
  "running"; hence the condition on `health` in `DeadServiceSurfaces`.
- An unhealthy service is put in the error state, not killed; the next start may spawn
  a second child beside it and forget the first.
- `spawnFailed` is never reset: after one failed spawn, later failures of health
  resolve where they should reject, against the comment at
  `ServiceSupervisor.ts:279-281`.
- `stop()` of an adopted service stops watching it and kills nobody. After a crash
  of the gateway the row says "running" until somebody asks.

Elsewhere

- `quota/enforce.ts:201` checks the consumption before the upstream call, which is
  recorded after it: concurrent requests of one key all pass.

## What is proved

The theorems hold for every value of the constants the named assumptions allow:
any number of gates, calls, owners, connections, objects, callers, tenants, costs
and any thresholds. Each assumption about constants is asserted by the module that
declares them, so TLC evaluates it on the instances. Every invariant and every
action property of the passing runs is a theorem; a theorem with a condition names
it below.

### AccountSemaphore_proofs (assumes `SemaphoreAssumption`)

| Theorem | States |
|---|---|
| `TypeCorrect` | `Spec => []TypeOK` |
| `QueuesAreWhole` | `Spec => []QueueIntegrity` |
| `WakeupsNotLost` | `Spec => []NoLostWakeup` |
| `AdmissionsInOrder` | `Spec => NoOvertaking` |
| `DrainsAreTheLoop` | `Spec => DrainIsTheLoop` |
| `CountersExact` | `ServiceSpec => []GateCountsItsHolders` |
| `AdmissionsWithinLimits` | `ServiceSpec => AdmissionsFit` |
| `GatesAdmitAtomically` | `ServiceSpec => ImplementsAtomicAdmission`, if calls agree on the limits (`EvenlyLimited`) |

`DrainTyped`, `DrainIntegrity`, `DrainCounts` and `DrainComplete` say what the tail
`drainQueues()` does to any state it is handed; each handler is then shown to
hand it a good one. `TypeInv` adds that queues are finite, which follows from
arrivals being single; without it cardinalities mean nothing. `CountInv` adds
`QueueIntegrity` (a call decremented at release was counted at admission) and
that nobody holds a dropped gate, which is what the resets break. `FairInv` is
`QueueIntegrity` with `NoLostWakeup`: order at admission follows because a call
that could have gone earlier would have. The refinement needs `CapInv`, that no gate
is over its limit, which only a limit edited under its holders breaks.

For the loop: let G be a set that `Drain` may admit. What the loop has admitted is a
part of G in which nobody is without those ahead of him (`InTurn`). While it is not
all of G, the oldest of the rest can go, and whoever can go belongs to G; so each
pass adds one of G, and after as many passes as there are waiters the loop has G.

### ExclusiveLeases_proofs (assumes `LeasesAssumption`)

| Theorem | States |
|---|---|
| `TypeCorrect` | `Spec => []TypeOK` |
| `OwnershipIsExclusive` | `Spec => []ExclusiveOwnership`, without the unique indices |
| `HistoryIsInOrder` | `Spec => []HistoryInOrder` |
| `EndedGenerationsStayEnded` | `Spec => EndedForGood` |
| `ReleaseIsRepeatable` | `Spec => ReleaseRepeats` |
| `LeasesAreOwnership` | `Spec => ImplementsLeaseOwnership` |
| `SessionsKeepTheTable` | `SessionSpec => TableDiscipline` |
| `RequestsAreFenced` | `SessionSpec => DispatchFenced` |

The invariant `Good` is the conjunction of the first three: a grant gets a
generation greater than all before only because `MAX(generation)` is over an
ordered history, and exclusiveness needs to know the owner's only active row
is its last. Every step is shown to be an ageing of rows, possibly followed by
one append (`StepShape`); the invariant and the action properties are shown of
that shape rather than of the operations one by one. The refinement adds that
the abstract assignment changes in one of three ways under each operation. For
the sessions, `SessionInv` adds that no generation is above the number of rows
(`Numbered`), so that what a call reads from the table is a generation it may
present, and every call's step is one of the table's.

### CircuitBreaker_proofs (assumes `RulesAssumption`, `CircuitAssumption`)

| Theorem | States |
|---|---|
| `Invariance` | `Spec => []IInv` |
| `TypeCorrect` | `Spec => []TypeOK` |
| `BreakersInShape` | `Spec => []InShape` |
| `ProbesAreBounded` | `Spec => []ProbesBounded` |
| `RestartsLoseNothing` | `Spec => []RowIsCurrent`, without evictions and kind thresholds |
| `ProbesAreAwaited` | `Spec => []ProbeOutstanding`, if no error is excused |

First one lemma per rule of `BreakerRules`: a sound breaker (typed and in shape)
becomes a sound one. `IInv` adds that a call counts as a probe only while its
object is HALF_OPEN (`ProbesOfThePeriod`): without it probes of an earlier
period would count against the next. Then one lemma per action. For the row,
`RowInv` adds that calls run in the registered object only, which evictions break,
and that the row never has a probe allowance.

### ProviderCalls_proofs (assumes `RulesAssumption`, `CallsAssumption`)

| Theorem | States |
|---|---|
| `CallsTyped` | `CallsSpec => []CallsTypeOK` |
| `ReportsKeepShape` | `CallsSpec => []ReportsInShape` |
| `NobodyElseTrips` | `CallsSpec => []OnlyFailuresTrip` |

The invariant `CallsInv` adds `FailuresTraced`: behind an answer that is a failure
stands somebody to blame, because the provider or a proxy failed, or because a
breaker refused it that by the same invariant has somebody to blame. A report
therefore always charges somebody, and what clears the blame clears the breaker.
It holds whatever errors are stored, for how long, and however often they are
reported. The rule lemmas are those of `CircuitBreaker_proofs`.

### AdmissionControl_proofs (assumes `CostAssumption`, `AdmissionAssumption`)

| Theorem | States |
|---|---|
| `ControlInvHolds` | `ControlSpec => []ControlInv` |
| `ControlTyped` | `ControlSpec => []ControlTypeOK` |
| `QueuesKeepIntegrity` | `ControlSpec => []FairQueueIntegrity` |
| `NobodyIsStranded` | `ControlSpec => []NobodyStranded` |
| `ShadowBooksBalance` | `ControlSpec => []ShadowAccounts` |
| `AdmissionsFit` | `ControlSpec => AdmissionsFitLimit` |
| `NobodyIsAdmittedLate` | `ControlSpec => NoLateAdmission` |
| `ReservationsAreHonoured` | `ControlSpec => ReservationHonoured` |
| `UpdatesServeOrReject` | `ControlSpec => UpdateServesOrRejects` |

`ControlInv` is `ControlTypeOK`, `FairQueueIntegrity`, `ShadowAccounts`, `NobodyStranded`,
and that nobody waits while requests are not judged (mode other than "enforce", or
shut down); the four need one another, since a turn of a dispatch takes whom a
well-formed queue offers, at a cost that is that of the books. TLC finds it
invariant on the controller's instance.

The proof goes up in layers. `Turns` is a loop, so induction comes first: over sets
of numbers, as the provers take no predicate as a parameter, and once for each loop.
Then sums of costs and what removal does to a sequence; then each queue operation
keeps a queue well-formed (`Enqueued`, `Dequeued`, `Removed`, `Drained`). `Follows` says
what a dispatch may make of a desk: it admits only requests that waited and are not
late, within the limit, and while an overdue head waits, only overdue heads. One turn
follows, so does the loop, and it ends with nobody its own test would still serve;
the virtual books have the same three steps. Each handler is then shown to hand a
proper desk to `Settle`, and the action properties are read off `Follows`.

### RequestGates_proofs (assumes `DedupAssumption`, `GateAssumption`)

| Theorem | States |
|---|---|
| `SharingTyped` | `DedupSpec => []DedupTypeOK` |
| `TwinsOnlyIfDropped` | `DedupSpec => []NoNeedlessTwin` |
| `PromisesAreLive` | `DedupSpec => [](EntriesLive /\ NobodyOrphaned)` |
| `MapWithinCap` | `DedupSpec => []OrderIsTheMap` |
| `SlotsTyped` | `SlotSpec => []SlotTypeOK` |
| `ReleasesFindTheirSlot` | `SlotSpec => []SlotsCounted` |
| `WaitersCanBeWoken` | `SlotSpec => []SomebodyWillDrain` |

`DedupInv` adds that a running call was dropped or has its entry (`Listed`).

In the rate-limit semaphore the timers are the hard part: one that was set for a
gate deleted since must not be taken for the timer of the gate that has the name
now. `SlotInv` says that a cooldown of the gate in the map has a timer for its very
end (`CooldownTimed`), that only a cooldown makes anybody wait when nobody holds a
slot (`WaitsInCooldown`), and that timers are bounded (`TimersBounded`), so that a gate
made anew has an object of its own.

### TokenRefresh_proofs (assumes `RefreshAssumption`)

| Theorem | States |
|---|---|
| `TypeCorrect` | `Spec => []TypeOK` |
| `RefreshesTakeTurns` | `Spec => []OneAtATime` |
| `TokensPresentedOnce` | `Spec => []PresentedOnce`, if `Mild` |
| `OnlyDeadTokensDeactivate` | `Spec => DeactivationJustified`, if not `Blips` |

`Mild` asks that no account is revoked by its owner, the provider refuses no good
token, and a connection rotates once within the map's life; restarts and abandoned
attempts may come at any time. `IInv` says that a caller with work has a connection
and a token (`Placed`), that what is redirected or answered is past (`Past`), and
that who asks is at the head of the lane (`HeadAsks`). That tokens are presented once
also needs to know, for a connection without a lost token, where the newest one is:
in the row, in the refresh in flight, or with a caller about to store it (`Reachable`).

`OnlyDeadTokensDeactivate` lets owners revoke and log in, and connections rotate, as
they please. Its invariant `Truthful` says that what rows, refreshes and callers hold
is no newer than what the provider issued, and that an answer "dead" was true of the
token presented; a token that is dead stays dead, whatever happens before the caller
acts on the answer. A row then loses its token, its place in the rotation or its good
status in two steps only (`OnlyErrorsExpire`): an error about the row's own token
(`ErrorsDeserved`), and a sweep that writes its old status back, which touches neither
`isActive` nor the token.

### ServiceSupervisor_proofs (assumes `SupervisorAssumption`)

| Theorem | States |
|---|---|
| `SupervisorTyped` | `ServiceSpec => []ServiceTypeOK` |
| `StatusStaysHonest` | `ServiceSpec => []StatusHonest` |

`ServiceInv` is about the states between the awaits, which `StatusHonest` leaves
alone: which state is possible at which await (`StatesAtAwaits`), that a start that
waits for its service, and has met no error, has its child watched by a poller
(`ServiceWatched`), and that an error is never stored as "running" (`RowHonest`).

### Only model-checked

Liveness, which the prover does not reach: `NoStarvation`, `WaitersServed`,
`FollowersAnswered`, `CallsEnd`, `BreakerRecovers`, `CallsRecover`, `EveryoneAnswered`,
`DeadServiceSurfaces`.

## Not modelled

Of the modelled components:

- *Semaphore*: bypassed gates, signals that are aborted on arrival (neither
  changes state), the length of timeouts and blocks.
- *Leases*: `acquired_at`, `renewed_at`, `ended_at`, `end_reason`, `provider`, which
  no operation reads; TTL clamping; the retry on a constraint error.
- *Sessions*: all the other rules of selection; the one new selection after an early
  end of a stream, which excludes nothing; a dispatch is one instant, so a
  lease that lapses while an answer streams is not seen (the code does not look
  again either).
- *Breaker*: options changed at run time, cooldown lengths, `transitionHistory`,
  `onStateChange`, several processes on one database.
- *Reporting*: shadow traffic and forced connections, which bypass the breaker;
  deduplication windows; HTTP wording; which account an error is stored with. A
  restart of the gateway is no step of `ProviderCalls`: `CircuitBreaker` has it, and
  what it would add here is a clean breaker beside stored errors, which a
  recovery gives too.
- *Admission*: the EWMAs and utilization behind a limit, cost estimation, snapshot
  counters, `request.pressure` and `meta.pressure` (`runtime.ts` passes neither), equal
  `enqueuedAtMs`, the wrapper `runtime.ts`. Calls in mode off and rejections
  change nothing and are no actions.
- *Token refresh*: calls without a connection id (Layer 2), the breaker of the
  refreshes, the number of retries the sweep has left (whether an error uses up the
  last is a free choice), the other writers of `testStatus`: failed and successful
  requests, which mark and clear accounts (`auth.ts:3061-3200`), and the sweep's note
  on an active row without a token; errors of the persist itself, providers whose tokens are not
  single-use, connections outside a group, and the Codex executor, which turns
  errors into null.
- *Deduplication*: which requests may be shared, and their hash, which are functions
  of the request alone.
- *Rate-limit semaphore*: names other than the one followed, since no operation
  touches two; `resetAll()`, which serves the tests.
- *Supervisor*: whether a start that failed resolves or rejects, log lines, the timeout
  of the port probe (which takes a silent listener for a free port), and the
  rotation of a service's key, which replaces the supervisor object.

Of the rest: pure conversion (translators, executors), I/O, views, vendored
limiters and scraping have no shared state a model would say something about.
Most of the repository's code is of that kind; what is modelled is where its
concurrent state is.

## Plan

Done so far: the account semaphore, leases and sessions, breaker and reports,
adaptive admission, token refresh, deduplication, the rate-limit semaphore and
the supervisor, with a theorem for every invariant and action property the runs
check. What is left, in this order:

1. A scenario for the liveness of a reserved head of the fair queue, under the
   assumption that active requests are released again and again.
2. Lemmas behind the liveness properties that are safety facts: for
   `DeadServiceSurfaces`, that a poll under way or a poller at work is never lost; for
   `FollowersAnswered`, that a follower's call is running or has ended.
3. Batch processor and job registry: state machines around an await, with one
   cancellation and one restart each. Theorem: runs of a job never overlap.
4. Quota sharing: check before, consume after; how far concurrency can overdraw, as
   a function of the number of calls.
5. Lockouts and account selection with session affinity, composed with
   `ManagedSessions` in place of the free choice of eligibility, and with
   `ProviderCalls` for lockouts set by failures.
6. Layer 2 of the token refresh, and deduplication composed with the refresh its
   leader may need.
