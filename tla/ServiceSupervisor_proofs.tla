------------------------ MODULE ServiceSupervisor_proofs ------------------------
(***************************************************************************)
(* Proofs about ServiceSupervisor, for any children, bounds and switches.  *)
(* StatusHonest speaks of the states a caller sees; it holds because of    *)
(* what is true between the awaits.  The inductive invariant says at which *)
(* await which state is possible, that a start that waits for its service  *)
(* and has met no error has the child it spawned, watched by a poller,     *)
(* and that no error is stored as "running".                               *)
(***************************************************************************)
EXTENDS ServiceSupervisor, SequenceTheorems, TLAPS

Starting == {"probing", "resolving", "evicting", "waiting"}

StatesAtAwaits ==
    /\ step = "idle" => state \in {"stopped", "running", "error"}
    /\ step \in Starting => state \in {"starting", "error"} /\ ~adopted
    /\ step = "killing" => state = "stopping" /\ target \in Child

Watched == polling /\ (~adopted => current \in Child /\ pid = current
                                   /\ process[current] \in {"alive", "exited"})

ServiceWatched == state = "running" \/ (state = "starting" /\ step = "waiting") => Watched

RowHonest ==
    /\ state = "running" => row = "running"
    /\ state = "error" \/ step = "waiting" => row # "running"

ServiceInv == ServiceTypeOK /\ StatesAtAwaits /\ ServiceWatched /\ RowHonest

(* The parts of the state that the steps share. *)
LEMMA OperationsShrink ==
    ASSUME ServiceTypeOK, operations # <<>>, Ends
    PROVE  operations' \in Seq({"start", "stop", "restart"})
<1>1. Tail(operations) \in Seq({"start", "stop", "restart"})
    BY DEF ServiceTypeOK
<1>2. <<"start">> \in Seq({"start", "stop", "restart"}) /\ <<>> \in Seq({"start", "stop", "restart"})
    OBVIOUS
<1>3. CASE Head(operations) = "restart"
    BY <1>1, <1>2, <1>3 DEF Ends
<1>4. CASE Head(operations) # "restart"
    BY <1>1, <1>2, <1>4 DEF Ends
<1>. QED
    BY <1>3, <1>4

LEMMA SlainTyped ==
    ASSUME ServiceTypeOK, NEW p
    PROVE  /\ Slain(p) \in [Child -> {"none", "alive", "exited", "orphan"}]
           /\ \A c \in Child : process[c] \in {"alive", "exited"} => Slain(p)[c] \in {"alive", "exited"}
           /\ PortWithout(p) \in Child \cup {NoProcess, Stranger}
<1>1. \A c \in Child : process[c] \in {"none", "alive", "exited", "orphan"}
    BY DEF ServiceTypeOK
<1>. QED
    BY <1>1 DEF ServiceTypeOK, Slain, PortWithout

LEMMA ServiceInitInv == ServiceInit => ServiceInv
<1>1. <<>> \in Seq({"start", "stop", "restart"}) /\ 0 \in 0..AlarmThreshold /\ 0 \in 0..MaxPolls
    BY SupervisorAssumption
<1>. QED
    BY <1>1
    DEF ServiceInit, ServiceInv, ServiceTypeOK, StatesAtAwaits, ServiceWatched, RowHonest, Starting

(* A spawn, after a start that has met nothing worse than an error *)
LEMMA SpawnKeeps ==
    ASSUME ServiceInv, Holding({"start"}, "probing") \/ Holding({"start"}, "evicting"),
           NEW procs \in [Child -> {"none", "alive", "exited", "orphan"}], Spawn(procs),
           port' \in Child \cup {NoProcess, Stranger}
    PROVE  ServiceInv'
<1>1. ServiceTypeOK /\ state \in {"starting", "error"} /\ ~adopted /\ operations # <<>>
    BY DEF ServiceInv, StatesAtAwaits, Starting, Holding
<1>2. CASE \E c \in Child \ {current, pid, target} :
          /\ procs[c] = "none"
          /\ process' = [procs EXCEPT ![c] = "alive"]
          /\ current' = c /\ pid' = c
          /\ killed' = killed \ {c}
          /\ row' = "starting"
          /\ PollerStarts
          /\ Goes("waiting", NoProcess)
          /\ UNCHANGED <<state, adopted, polls>>
    BY <1>1, <1>2, SupervisorAssumption
    DEF ServiceInv, ServiceTypeOK, StatesAtAwaits, ServiceWatched, Watched, RowHonest, Starting,
        PollerStarts, Goes
<1>3. CASE /\ process' = procs
           /\ PollerStops /\ Fails /\ Ends
           /\ UNCHANGED <<handle, killed, polls>>
    <2>1. operations' \in Seq({"start", "stop", "restart"})
        BY <1>1, <1>3, OperationsShrink
    <2>2. step' = "idle" /\ target' = NoProcess /\ state' = "error" /\ row' = "error"
        BY <1>3 DEF Ends, Fails
    <2>. QED
        BY <1>1, <1>3, <2>1, <2>2
        DEF ServiceInv, ServiceTypeOK, StatesAtAwaits, ServiceWatched, RowHonest, Starting,
            PollerStops, handle
<1>4. CASE /\ process' = procs
           /\ current' = NoProcess /\ pid' = NoProcess
           /\ polling' = FALSE /\ health' = "unknown"
           /\ failures' = IF polling THEN failures ELSE 0
           /\ Fails
           /\ Goes("waiting", NoProcess)
           /\ UNCHANGED <<adopted, killed, polls>>
    <2>1. failures' \in 0..AlarmThreshold
        BY <1>4, SupervisorAssumption DEF ServiceInv, ServiceTypeOK
    <2>2. step' = "waiting" /\ target' = NoProcess /\ state' = "error" /\ row' = "error"
        BY <1>4 DEF Goes, Fails
    <2>. QED
        BY <1>1, <1>4, <2>1, <2>2
        DEF ServiceInv, ServiceTypeOK, StatesAtAwaits, ServiceWatched, RowHonest, Starting, Goes
<1>. QED
    BY <1>2, <1>3, <1>4 DEF Spawn

-----------------------------------------------------------------------------
LEMMA StartKeeps ==
    ASSUME ServiceInv,
           StartBegins \/ ProbeFindsNobody \/ ProbeRefuses \/ ProbeFindsService \/ Resolve
             \/ Evicted \/ WaitEnds
    PROVE  ServiceInv'
<1>. USE SupervisorAssumption
<1>1. CASE StartBegins
    <2>1. CASE state \in {"running", "starting"} /\ Ends /\ UNCHANGED <<status, handle>>
        <3>1. operations' \in Seq({"start", "stop", "restart"})
            BY <1>1, <2>1, OperationsShrink DEF StartBegins, Holding, ServiceInv
        <3>2. state = "running" /\ step = "idle" /\ step' = "idle" /\ target' = NoProcess
            BY <1>1, <2>1 DEF StartBegins, Holding, ServiceInv, StatesAtAwaits, Ends
        <3>. QED
            BY <1>1, <2>1, <3>1, <3>2
            DEF StartBegins, ServiceInv, ServiceTypeOK, StatesAtAwaits, ServiceWatched, Watched,
                RowHonest, Starting, status, handle, poller, world
    <2>2. CASE /\ state \notin {"running", "starting"}
               /\ state' = "starting" /\ adopted' = FALSE
               /\ Goes("probing", NoProcess)
               /\ UNCHANGED <<row, current, pid>>
        BY <1>1, <2>2
        DEF StartBegins, ServiceInv, ServiceTypeOK, StatesAtAwaits, ServiceWatched, RowHonest,
            Starting, Goes, poller, world
    <2>. QED
        BY <1>1, <2>1, <2>2 DEF StartBegins
<1>2. CASE ProbeFindsNobody
    BY <1>2, SpawnKeeps DEF ProbeFindsNobody, ServiceInv, ServiceTypeOK
<1>3. CASE ProbeRefuses
    <2>1. operations' \in Seq({"start", "stop", "restart"})
        BY <1>3, OperationsShrink DEF ProbeRefuses, Holding, ServiceInv
    <2>2. step' = "idle" /\ target' = NoProcess
        BY <1>3 DEF ProbeRefuses, Ends
    <2>. QED
        BY <1>3, <2>1, <2>2
        DEF ProbeRefuses, ServiceInv, ServiceTypeOK, StatesAtAwaits, ServiceWatched, RowHonest,
            Starting, Fails, handle, poller, world
<1>4. CASE ProbeFindsService
    BY <1>4
    DEF ProbeFindsService, ServiceInv, ServiceTypeOK, StatesAtAwaits, ServiceWatched, RowHonest,
        Starting, Holding, Goes, status, handle, poller, world
<1>5. CASE Resolve
    <2>1. PICK found \in {port, NoProcess} :
              \/ Adopt(found)
              \/ /\ found # NoProcess
                 /\ Goes("evicting", found)
                 /\ UNCHANGED <<status, handle, poller>>
        BY <1>5 DEF Resolve
    <2>2. UNCHANGED <<killed, polls, world>> /\ Holding({"start"}, "resolving")
        BY <1>5 DEF Resolve
    <2>3. CASE Adopt(found)
        <3>1. operations' \in Seq({"start", "stop", "restart"})
            BY <2>2, <2>3, OperationsShrink DEF Adopt, Holding, ServiceInv
        <3>2. step' = "idle" /\ target' = NoProcess
            BY <2>3 DEF Adopt, Ends
        <3>. QED
            BY <2>2, <2>3, <3>1, <3>2
            DEF Adopt, ServiceInv, ServiceTypeOK, StatesAtAwaits, ServiceWatched, Watched,
                RowHonest, Starting, PollerStarts, world
    <2>4. CASE found # NoProcess /\ Goes("evicting", found) /\ UNCHANGED <<status, handle, poller>>
        BY <2>2, <2>4
        DEF ServiceInv, ServiceTypeOK, StatesAtAwaits, ServiceWatched, RowHonest, Starting,
            Holding, Goes, status, handle, poller, world
    <2>. QED
        BY <2>1, <2>3, <2>4
<1>6. CASE Evicted
    BY <1>6, SpawnKeeps, SlainTyped DEF Evicted, ServiceInv
<1>7. CASE WaitEnds
    <2>1. operations' \in Seq({"start", "stop", "restart"})
        BY <1>7, OperationsShrink DEF WaitEnds, Holding, ServiceInv
    <2>2. step = "waiting" /\ step' = "idle" /\ target' = NoProcess
        BY <1>7 DEF WaitEnds, Holding, Ends
    <2>. QED
        BY <1>7, <2>1, <2>2
        DEF WaitEnds, ServiceInv, ServiceTypeOK, StatesAtAwaits, ServiceWatched, Watched, RowHonest,
            Starting, status, handle, poller, world
<1>. QED
    BY <1>1, <1>2, <1>3, <1>4, <1>5, <1>6, <1>7

LEMMA StopKeeps ==
    ASSUME ServiceInv, StopBegins \/ StopEnds
    PROVE  ServiceInv'
<1>. USE SupervisorAssumption
<1>1. CASE StopBegins
    <2>1. CASE /\ state \in {"stopped", "stopping"}
               /\ Ends
               /\ UNCHANGED <<status, handle, killed, poller>>
        <3>1. operations' \in Seq({"start", "stop", "restart"})
            BY <1>1, <2>1, OperationsShrink DEF StopBegins, Holding, ServiceInv
        <3>2. step = "idle" /\ step' = "idle" /\ target' = NoProcess
            BY <1>1, <2>1 DEF StopBegins, Holding, Ends
        <3>. QED
            BY <1>1, <2>1, <3>1, <3>2
            DEF StopBegins, ServiceInv, ServiceTypeOK, StatesAtAwaits, ServiceWatched, Watched,
                RowHonest, Starting, status, handle, poller, world
    <2>2. CASE PollerStops /\ Stopped /\ UNCHANGED killed
        <3>1. operations' \in Seq({"start", "stop", "restart"})
            BY <1>1, <2>2, OperationsShrink DEF StopBegins, Stopped, Holding, ServiceInv
        <3>2. step' = "idle" /\ target' = NoProcess
            BY <2>2 DEF Stopped, Ends
        <3>. QED
            BY <1>1, <2>2, <3>1, <3>2
            DEF StopBegins, ServiceInv, ServiceTypeOK, StatesAtAwaits, ServiceWatched, RowHonest,
                Starting, Stopped, PollerStops, world
    <2>3. CASE /\ state \notin {"stopped", "stopping"}
               /\ current \notin killed \cup {NoProcess}
               /\ PollerStops
               /\ state' = "stopping"
               /\ killed' = IF process[current] = "alive" THEN killed \cup {current} ELSE killed
               /\ Goes("killing", current)
               /\ UNCHANGED <<row, handle>>
        BY <1>1, <2>3
        DEF StopBegins, ServiceInv, ServiceTypeOK, StatesAtAwaits, ServiceWatched, RowHonest,
            Starting, PollerStops, Goes, handle, world
    <2>. QED
        BY <1>1, <2>1, <2>2, <2>3 DEF StopBegins
<1>2. CASE StopEnds
    <2>1. operations' \in Seq({"start", "stop", "restart"})
        BY <1>2, OperationsShrink DEF StopEnds, Stopped, Holding, ServiceInv
    <2>2. step' = "idle" /\ target' = NoProcess
        BY <1>2 DEF StopEnds, Stopped, Ends
    <2>3. process' \in [Child -> {"none", "alive", "exited", "orphan"}]
        BY <1>2, SlainTyped DEF StopEnds, Escalated, ServiceInv, ServiceTypeOK
    <2>4. port' \in Child \cup {NoProcess, Stranger}
        BY <1>2, SlainTyped DEF StopEnds, ServiceInv, ServiceTypeOK
    <2>. QED
        BY <1>2, <2>1, <2>2, <2>3, <2>4
        DEF StopEnds, ServiceInv, ServiceTypeOK, StatesAtAwaits, ServiceWatched, RowHonest,
            Starting, Stopped, poller
<1>. QED
    BY <1>1, <1>2

-----------------------------------------------------------------------------
(* What happens beside the operations, at any of their awaits. *)
LEMMA EventKeeps ==
    ASSUME ServiceInv,
           \/ \E op \in {"start", "stop", "restart"} : Invoke(op)
           \/ \E c \in Child : ExitEvent(c)
           \/ PollSent \/ PollSucceeds \/ PollFails
           \/ \E p \in Child \cup {Stranger} : Listens(p) \/ Dies(p)
           \/ Crash
    PROVE  ServiceInv'
<1>. USE SupervisorAssumption
<1>1. ASSUME NEW op \in {"start", "stop", "restart"}, Invoke(op)
      PROVE  ServiceInv'
    <2>1. operations' \in Seq({"start", "stop", "restart"})
        BY <1>1 DEF Invoke, ServiceInv, ServiceTypeOK
    <2>. QED
        BY <1>1, <2>1
        DEF Invoke, ServiceInv, ServiceTypeOK, StatesAtAwaits, ServiceWatched, Watched, RowHonest,
            Starting, status, handle, poller, world
<1>2. ASSUME NEW c \in Child, ExitEvent(c)
      PROVE  ServiceInv'
    BY <1>2
    DEF ExitEvent, ServiceInv, ServiceTypeOK, StatesAtAwaits, ServiceWatched, RowHonest,
        Starting, PollerStops, Fails, status, operation
<1>3. CASE PollSent
    BY <1>3
    DEF PollSent, ServiceInv, ServiceTypeOK, StatesAtAwaits, ServiceWatched, Watched, RowHonest,
        Starting, status, handle, poller, operation, world
<1>4. CASE PollSucceeds
    BY <1>4
    DEF PollSucceeds, ServiceInv, ServiceTypeOK, StatesAtAwaits, ServiceWatched, Watched, RowHonest,
        Starting, status, handle, operation, world
<1>5. CASE PollFails
    <2>0. failures' \in 0..AlarmThreshold /\ polls' \in 0..MaxPolls
        BY <1>5 DEF PollFails, ServiceInv, ServiceTypeOK
    <2>1. UNCHANGED <<handle, operation, world, killed>>
        BY <1>5 DEF PollFails
    <2>2. CASE Alarm
        <3>1. CASE state \in {"running", "starting"}
            BY <2>0, <2>1, <2>2, <3>1
            DEF Alarm, Fails, ServiceInv, ServiceTypeOK, StatesAtAwaits, ServiceWatched, RowHonest,
                Starting, handle, operation, world
        <3>2. CASE state \notin {"running", "starting"}
            BY <2>0, <2>1, <2>2, <3>2
            DEF Alarm, ServiceInv, ServiceTypeOK, StatesAtAwaits, ServiceWatched, RowHonest,
                Starting, status, handle, operation, world
        <3>. QED
            BY <3>1, <3>2
    <2>3. CASE UNCHANGED <<status, polling, health>>
        BY <2>0, <2>1, <2>3
        DEF ServiceInv, ServiceTypeOK, StatesAtAwaits, ServiceWatched, Watched, RowHonest,
            Starting, status, handle, operation, world
    <2>. QED
        BY <1>5, <2>2, <2>3 DEF PollFails
<1>6. ASSUME NEW p \in Child \cup {Stranger}, Listens(p)
      PROVE  ServiceInv'
    BY <1>6
    DEF Listens, ServiceInv, ServiceTypeOK, StatesAtAwaits, ServiceWatched, Watched, RowHonest,
        Starting, status, handle, poller, operation
<1>7. ASSUME NEW p \in Child \cup {Stranger}, Dies(p)
      PROVE  ServiceInv'
    <2>1. /\ process' \in [Child -> {"none", "alive", "exited", "orphan"}]
          /\ port' \in Child \cup {NoProcess, Stranger}
          /\ \A c \in Child : process[c] \in {"alive", "exited"} => process'[c] \in {"alive", "exited"}
        BY <1>7, SlainTyped DEF Dies, ServiceInv
    <2>. QED
        BY <1>7, <2>1
        DEF Dies, ServiceInv, ServiceTypeOK, StatesAtAwaits, ServiceWatched, Watched, RowHonest,
            Starting, status, handle, poller, operation
<1>8. CASE Crash
    <2>1. failures' \in 0..AlarmThreshold /\ polls' \in 0..MaxPolls
        BY <1>8 DEF Crash
    <2>2. <<>> \in Seq({"start", "stop", "restart"})
        OBVIOUS
    <2>. QED
        BY <1>8, <2>1, <2>2
        DEF Crash, ServiceInv, ServiceTypeOK, StatesAtAwaits, ServiceWatched, RowHonest, Starting
<1>. QED
    BY <1>1, <1>2, <1>3, <1>4, <1>5, <1>6, <1>7, <1>8

LEMMA ServiceNextInv == ServiceInv /\ [ServiceNext]_serviceVars => ServiceInv'
<1>1. CASE UNCHANGED serviceVars
    BY <1>1
    DEF ServiceInv, ServiceTypeOK, StatesAtAwaits, ServiceWatched, Watched, RowHonest, Starting,
        serviceVars, status, handle, poller, operation, world
<1>2. CASE ServiceNext
    BY <1>2, StartKeeps, StopKeeps, EventKeeps DEF ServiceNext, Operate
<1>. QED
    BY <1>1, <1>2

LEMMA ServiceInvariance == ServiceSpec => []ServiceInv
BY ServiceInitInv, ServiceNextInv, PTL DEF ServiceSpec

(***************************************************************************)
(* The variables of the supervisor keep their types, whatever the events.  *)
(***************************************************************************)
THEOREM SupervisorTyped == ServiceSpec => []ServiceTypeOK
<1>1. ServiceInv => ServiceTypeOK
    BY DEF ServiceInv
<1>. QED
    BY <1>1, ServiceInvariance, PTL

(***************************************************************************)
(* Exits of older children, late answers to polls, failed spawns, crashes  *)
(* and whatever becomes of the port notwithstanding: a service said to be  *)
(* running is there or adopted, is watched and is stored as running, and   *)
(* an operation of start(), stop() or restart() ends in a settled state.   *)
(***************************************************************************)
THEOREM StatusStaysHonest == ServiceSpec => []StatusHonest
<1>1. ServiceInv => StatusHonest
    BY SupervisorAssumption
    DEF ServiceInv, ServiceTypeOK, StatesAtAwaits, ServiceWatched, Watched, RowHonest,
        StatusHonest, RunningIsReal, SettledAtRest
<1>. QED
    BY <1>1, ServiceInvariance, PTL
=============================================================================
