--------------------------- MODULE ServiceSupervisor ---------------------------
(***************************************************************************)
(* The supervisor of one embedded service,                                 *)
(* src/src/lib/services/ServiceSupervisor.ts, with its health poller       *)
(* (healthCheck.ts) and the probe of the port before a spawn               *)
(* (portProbe.ts), which every registration of a service switches on.      *)
(*                                                                         *)
(* start(), stop() and restart() take turns under a lock.  What the lock   *)
(* does not cover are the events: exits of children, answers to polls and  *)
(* the service's own doings arrive during every await of an operation.     *)
(*                                                                         *)
(* Left out: log lines, error texts, and whether a start that failed       *)
(* resolves or rejects (waitForHealthy, spawnFailed).                      *)
(***************************************************************************)
EXTENDS Naturals, Sequences

CONSTANTS
    Child,          \* processes the supervisor may spawn; an id is used again
    NoProcess,
    Stranger,       \* a process that others started and that may hold the port
    Adopting,       \* OMNIROUTE_ADOPT_EXISTING_SERVICE
    Crashing,       \* the gateway itself may crash
    AlarmThreshold, \* failed polls in a row that make a service unhealthy
    MaxPolls,       \* bound on the polls under way
    MaxOperations   \* bound on the operations that wait or run

ASSUME SupervisorAssumption ==
    /\ NoProcess \notin Child /\ Stranger \notin Child \cup {NoProcess}
    /\ Adopting \in BOOLEAN /\ Crashing \in BOOLEAN
    /\ AlarmThreshold \in Nat \ {0} /\ MaxPolls \in Nat /\ MaxOperations \in Nat

VARIABLES
    state,      \* ServiceState
    row,        \* status in version_manager
    current,    \* childProcess
    pid,
    adopted,
    killed,     \* children with child.killed
    polling,    \* the poller's active
    health,     \* its currentHealth
    failures,   \* its consecutiveFailures, up to the threshold
    polls,      \* polls that wait for their answer
    operations, \* the operations in the order of the lock; the first holds it
    step,       \* the await the first one is at
    target,     \* the process that step is about
    process,    \* what the operating system knows of each child
    port        \* who listens on the service's port

status == <<state, row>>
handle == <<current, pid, adopted>>
poller == <<polling, health, failures>>
operation == <<operations, step, target>>
world == <<process, port>>

serviceVars == <<status, handle, killed, poller, polls, operation, world>>

ServiceTypeOK ==
    /\ state \in {"stopped", "starting", "running", "stopping", "error"}
    /\ row \in {"stopped", "starting", "running", "error"}
    /\ current \in Child \cup {NoProcess}
    /\ pid \in Child \cup {NoProcess, Stranger}
    /\ adopted \in BOOLEAN /\ polling \in BOOLEAN
    /\ killed \subseteq Child
    /\ health \in {"unknown", "healthy", "unhealthy"}
    /\ failures \in 0 .. AlarmThreshold
    /\ polls \in 0 .. MaxPolls
    /\ operations \in Seq({"start", "stop", "restart"})
    /\ step \in {"idle", "probing", "resolving", "evicting", "waiting", "killing"}
    /\ target \in Child \cup {NoProcess, Stranger}
    \* "exited": the exit event is still to come; "orphan": nobody listens to it
    /\ process \in [Child -> {"none", "alive", "exited", "orphan"}]
    /\ port \in Child \cup {NoProcess, Stranger}

ServiceInit ==
    /\ state = "stopped" /\ row = "stopped"
    /\ current = NoProcess /\ pid = NoProcess /\ adopted = FALSE /\ killed = {}
    /\ polling = FALSE /\ health = "unknown" /\ failures = 0 /\ polls = 0
    /\ operations = <<>> /\ step = "idle" /\ target = NoProcess
    /\ process = [c \in Child |-> "none"]
    /\ port = NoProcess

Alive(c) == process[c] \in {"alive", "orphan"}

(* setState("error") and the row with it. *)
Fails == state' = "error" /\ row' = "error"

(* start() and stop() of the poller; a poller that runs is not started anew. *)
PollerStarts ==
    /\ polling' = TRUE
    /\ health' = IF polling THEN health ELSE "unknown"
    /\ failures' = IF polling THEN failures ELSE 0

PollerStops == polling' = FALSE /\ health' = "unknown" /\ UNCHANGED failures

-----------------------------------------------------------------------------
(* The lock: operations run one at a time, in the order of the calls. *)
Invoke(op) ==
    /\ Len(operations) < MaxOperations
    /\ operations' = Append(operations, op)
    /\ UNCHANGED <<status, handle, killed, poller, polls, step, target, world>>

Holding(ops, at) == operations # <<>> /\ Head(operations) \in ops /\ step = at

(* The operation ends; the stop of a restart calls start(). *)
Ends ==
    /\ operations' = Tail(operations)
                         \o (IF Head(operations) = "restart" THEN <<"start">> ELSE <<>>)
    /\ step' = "idle" /\ target' = NoProcess

Goes(at, to) == step' = at /\ target' = to /\ UNCHANGED operations

-----------------------------------------------------------------------------
(* start() *)
StartBegins ==
    /\ Holding({"start"}, "idle")
    /\ \/ /\ state \in {"running", "starting"}
          /\ Ends
          /\ UNCHANGED <<status, handle>>
       \/ /\ state \notin {"running", "starting"}
          /\ state' = "starting" /\ adopted' = FALSE
          /\ Goes("probing", NoProcess)
          /\ UNCHANGED <<row, current, pid>>
    /\ UNCHANGED <<killed, poller, polls, world>>

(* The spawn, the system being `procs`.  A child that cannot be run fails at once,
   by an exception or by its error event. *)
Spawn(procs) ==
    \/ \E c \in Child \ {current, pid, target} :
          /\ procs[c] = "none"
          /\ process' = [procs EXCEPT ![c] = "alive"]
          /\ current' = c /\ pid' = c
          /\ killed' = killed \ {c}
          /\ row' = "starting"
          /\ PollerStarts
          /\ Goes("waiting", NoProcess)
          /\ UNCHANGED <<state, adopted, polls>>
    \/ /\ process' = procs
       /\ PollerStops /\ Fails /\ Ends
       /\ UNCHANGED <<handle, killed, polls>>
    \/ /\ process' = procs
       /\ current' = NoProcess /\ pid' = NoProcess
       /\ polling' = FALSE /\ health' = "unknown"
       /\ failures' = IF polling THEN failures ELSE 0
       /\ Fails
       /\ Goes("waiting", NoProcess)
       /\ UNCHANGED <<adopted, killed, polls>>

(* What probeBeforeSpawn() found: nobody, or somebody who is healthy or not. *)
ProbeFindsNobody ==
    /\ Holding({"start"}, "probing")
    /\ port = NoProcess
    /\ Spawn(process)
    /\ UNCHANGED port

ProbeRefuses ==
    /\ Holding({"start"}, "probing")
    /\ port # NoProcess
    /\ Fails /\ Ends
    /\ UNCHANGED <<handle, killed, poller, polls, world>>

ProbeFindsService ==
    /\ Holding({"start"}, "probing")
    /\ port # NoProcess /\ Adopting
    /\ Goes("resolving", NoProcess)
    /\ UNCHANGED <<status, handle, killed, poller, polls, world>>

(* resolvePortPid() may find no pid; what it finds is adopted, or told to go. *)
Adopt(found) ==
    /\ PollerStarts
    /\ pid' = found /\ adopted' = TRUE
    /\ state' = "running" /\ row' = "running"
    /\ Ends
    /\ UNCHANGED current

Resolve ==
    /\ Holding({"start"}, "resolving")
    /\ \E found \in {port, NoProcess} :
          \/ Adopt(found)
          \/ /\ found # NoProcess   \* autoRestartAdopted
             /\ Goes("evicting", found)
             /\ UNCHANGED <<status, handle, poller>>
    /\ UNCHANGED <<killed, polls, world>>

(* The process is gone, on its own or by SIGKILL. *)
Slain(p) ==
    [c \in Child |-> IF c # p THEN process[c]
                     ELSE CASE process[c] = "alive" -> "exited"
                            [] process[c] = "orphan" -> "none"
                            [] OTHER -> process[c]]

PortWithout(p) == IF port = p THEN NoProcess ELSE port

Evicted ==
    /\ Holding({"start"}, "evicting")
    /\ port' = PortWithout(target)
    /\ Spawn(Slain(target))

(* Wrong: an error met meanwhile is overridden with "running". *)
WaitEnds_Overrides ==
    /\ Holding({"start"}, "waiting")
    /\ state' = "running" /\ row' = "running"
    /\ Ends
    /\ UNCHANGED <<handle, killed, poller, polls, world>>

(* waitForHealthy() ends, by a healthy poll, the deadline or a failure. *)
WaitEnds ==
    /\ Holding({"start"}, "waiting")
    /\ IF state = "error" THEN UNCHANGED status ELSE state' = "running" /\ row' = "running"
    /\ Ends
    /\ UNCHANGED <<handle, killed, poller, polls, world>>

-----------------------------------------------------------------------------
(* stop() *)
Stopped ==
    /\ state' = "stopped" /\ row' = "stopped"
    /\ current' = NoProcess /\ pid' = NoProcess /\ adopted' = FALSE
    /\ Ends

StopBegins ==
    /\ Holding({"stop", "restart"}, "idle")
    /\ \/ /\ state \in {"stopped", "stopping"}
          /\ Ends
          /\ UNCHANGED <<status, handle, killed, poller>>
       \/ /\ state \notin {"stopped", "stopping"}
          /\ current \in killed \cup {NoProcess}
          /\ PollerStops
          /\ Stopped
          /\ UNCHANGED killed
       \/ /\ state \notin {"stopped", "stopping"}
          /\ current \notin killed \cup {NoProcess}
          /\ PollerStops
          /\ state' = "stopping"
          /\ killed' = IF process[current] = "alive" THEN killed \cup {current} ELSE killed
          /\ Goes("killing", current)
          /\ UNCHANGED <<row, handle>>
    /\ UNCHANGED <<polls, world>>

(* killChild() saw the exit, or its time is up: SIGKILL to a child not yet `killed`. *)
Escalated(c) == IF c \in killed THEN process ELSE Slain(c)

StopEnds ==
    /\ Holding({"stop", "restart"}, "killing")
    /\ process[target] \in {"alive", "none"}
    /\ process' = IF process[target] = "none" THEN process ELSE Escalated(target)
    /\ port' = IF process'[target] = process[target] THEN port ELSE PortWithout(target)
    /\ Stopped
    /\ UNCHANGED <<killed, poller, polls>>

-----------------------------------------------------------------------------
(* handleExit(), whichever child it is. *)
ExitEvent(c) ==
    /\ process[c] = "exited"
    /\ process' = [process EXCEPT ![c] = "none"]
    /\ PollerStops
    /\ current' = NoProcess /\ pid' = NoProcess
    /\ IF state \in {"stopping", "stopped"} THEN UNCHANGED status ELSE Fails
    /\ UNCHANGED <<adopted, killed, polls, operation, port>>

PollSent ==
    /\ polling
    /\ polls < MaxPolls
    /\ polls' = polls + 1
    /\ UNCHANGED <<status, handle, killed, poller, operation, world>>

(* An answer counts whether or not the poller still runs. *)
PollSucceeds ==
    /\ polls > 0
    /\ port # NoProcess
    /\ polls' = polls - 1
    /\ health' = "healthy" /\ failures' = 0
    /\ UNCHANGED <<status, handle, killed, polling, operation, world>>

(* Wrong: the failure of an adopted service is left to whoever started it. *)
Alarm_OwnChildOnly ==
    IF state \in {"running", "starting"} /\ ~adopted
    THEN Fails /\ polling' = FALSE /\ health' = "unknown"
    ELSE health' = "unhealthy" /\ UNCHANGED <<status, polling>>

(* The third failure in a row is an alarm, unless it was raised before. *)
Alarm ==
    IF state \in {"running", "starting"}
    THEN Fails /\ polling' = FALSE /\ health' = "unknown"
    ELSE health' = "unhealthy" /\ UNCHANGED <<status, polling>>

PollFails ==
    /\ polls > 0
    /\ polls' = polls - 1
    /\ failures' = IF failures < AlarmThreshold THEN failures + 1 ELSE failures
    /\ IF failures' = AlarmThreshold /\ health # "unhealthy" THEN Alarm
       ELSE UNCHANGED <<status, polling, health>>
    /\ UNCHANGED <<handle, killed, operation, world>>

-----------------------------------------------------------------------------
(* The world: children bind the port and end when they like, also under SIGTERM, and
   so do other programs. *)
Listens(p) ==
    /\ port = NoProcess
    /\ p \in Child => Alive(p)
    /\ port' = p
    /\ UNCHANGED <<status, handle, killed, poller, polls, operation, process>>

Dies(p) ==
    /\ p # port => p \in Child
    /\ p \in Child => Alive(p)
    /\ process' = Slain(p)
    /\ port' = PortWithout(p)
    /\ UNCHANGED <<status, handle, killed, poller, polls, operation>>

(* The gateway dies and starts anew.  Its children live on, without anybody who
   hears of their exit, and the row is left as it was. *)
Crash ==
    /\ Crashing
    /\ state' = "stopped"
    /\ current' = NoProcess /\ pid' = NoProcess /\ adopted' = FALSE /\ killed' = {}
    /\ polling' = FALSE /\ health' = "unknown" /\ failures' = 0 /\ polls' = 0
    /\ operations' = <<>> /\ step' = "idle" /\ target' = NoProcess
    /\ process' = [c \in Child |-> IF Alive(c) THEN "orphan" ELSE "none"]
    /\ UNCHANGED <<row, port>>

Operate ==
    \/ StartBegins \/ ProbeFindsNobody \/ ProbeRefuses \/ ProbeFindsService \/ Resolve
    \/ Evicted \/ WaitEnds \/ StopBegins \/ StopEnds

ServiceNext ==
    \/ \E op \in {"start", "stop", "restart"} : Invoke(op)
    \/ Operate
    \/ \E c \in Child : ExitEvent(c)
    \/ PollSent \/ PollSucceeds \/ PollFails
    \/ \E p \in Child \cup {Stranger} : Listens(p) \/ Dies(p)
    \/ Crash

ServiceSpec == ServiceInit /\ [][ServiceNext]_serviceVars

(* Polls are sent at intervals and time out; nothing is assumed of anybody else. *)
ServiceFairness == WF_serviceVars(PollSent) /\ WF_serviceVars(PollSucceeds \/ PollFails)

ServiceFairSpec == ServiceSpec /\ ServiceFairness

-----------------------------------------------------------------------------
(* A service that runs and was not adopted is the child at hand, whose end will be heard. *)
RunningIsReal ==
    state = "running" /\ ~adopted =>
        current # NoProcess /\ pid = current /\ process[current] \in {"alive", "exited"}

(* Whatever the events did to an operation, it leaves a state that the next can start
   from, and a row that says "running" of a running service only. *)
SettledAtRest ==
    step = "idle" =>
        /\ state \in {"stopped", "running", "error"}
        /\ state # "stopped" => (row = "running" <=> state = "running")

(***************************************************************************)
(* Exits of older children, late answers to polls and failed spawns fall   *)
(* between the awaits of start() and stop(); a service said to be running  *)
(* is there, is watched, and is stored as running, and no operation leaves *)
(* the supervisor in a state that is none.                                 *)
(***************************************************************************)
StatusHonest ==
    RunningIsReal /\ SettledAtRest /\ (state = "running" => polling)

(***************************************************************************)
(* A running service, spawned or adopted, that serves nobody any more does *)
(* not stay "running" for ever, unless somebody takes its port.  The alarm *)
(* must not have been raised before: a poller left running in the error    *)
(* state raises it unheard, and has none left for the next start.          *)
(***************************************************************************)
DeadServiceSurfaces ==
    state = "running" /\ port = NoProcess /\ health # "unhealthy"
        ~> state # "running" \/ port # NoProcess

(***************************************************************************)
(* stop() "sends SIGTERM, waits 15 s, then SIGKILL if still alive": when   *)
(* it has ended, the child it was to kill is no more.                      *)
(***************************************************************************)
StopLeavesNobody ==
    [][step = "killing" /\ row # "stopped" /\ row' = "stopped"
            => process'[target] # "alive"]_serviceVars
=============================================================================
