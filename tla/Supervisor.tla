----------------------------- MODULE Supervisor -----------------------------
(***************************************************************************)
(* Who decides that a model is started or stopped: requests that           *)
(* auto-switch (ProxyManager.ensure_service), the HTTP handlers and        *)
(* commands of the user, sleep and wake, the watchdog with its restart     *)
(* threads, and the HealthMonitor.  All are threads of the gateway; all    *)
(* go through ModelManager, whose GPU lock is reentrant for the process    *)
(* and so keeps none of them out.                                          *)
(*                                                                         *)
(* ModelManager.switch is taken in two steps, what it does up to the       *)
(* launch of the server and what it does once the server answers or has    *)
(* failed; an idle switch, a stop and a reconciliation are one step each.  *)
(* GpuSwitch has them in detail.  Models are vLLM conda deployments with   *)
(* sleep mode enabled; a start that a hung server's port blocks fails.     *)
(***************************************************************************)
EXTENDS Naturals, FiniteSets

CONSTANTS
    Models,
    Callers,        \* request threads of the gateway
    Restarters,     \* restart threads the watchdog may have at a time
    None,
    Roles,          \* the assignments of gpu_role to models that are tried
    Jobs,           \* what callers are asked for: records [kind, m]
    AlertAt,        \* fail_threshold_alert
    RestartAt,      \* fail_threshold_restart
    MaxRestarts,    \* max_restarts
    Budgets         \* bounds: how many jobs of callers, faults of servers, failed
                    \* checks and deaths of the gateway a behaviour may have

Kinds == {"ensure", "switch", "idle", "stop", "sleep", "wake", "reset"}
Threads == Callers \cup Restarters

ASSUME NoneAssumption == None \notin Models \cup Threads
ASSUME ThreadAssumption == Callers \cap Restarters = {}
ASSUME RoleAssumption == Roles \subseteq [Models -> {"exclusive", "shared"}]
ASSUME JobAssumption ==
    /\ Jobs \subseteq [kind : Kinds, m : Models \cup {None}]
    /\ \A j \in Jobs : j.kind \notin {"idle", "reset"} => j.m \in Models
ASSUME BoundAssumption ==
    /\ AlertAt \in Nat \ {0} /\ RestartAt \in Nat \ {0} /\ MaxRestarts \in Nat
    /\ Budgets \subseteq [{"jobs", "faults", "checks", "crashes"} -> Nat]

VARIABLES
    role,           \* gpu_role of each model, as models.d has it
    server,         \* truth: off, loading, up, hung or asleep
    pid,            \* the vLLM process group the launcher tracks
    active,         \* active_services
    target,         \* switching_target
    profile,        \* profile_state
    stops,          \* manual_stops within their time to live
    sleeping,       \* rows of the sleep_state table
    th,             \* the threads: where they are and what they have read
    switchLock,     \* _switch_lock: the thread that holds it
    cooling,        \* the last auto-switch is less than the cooldown ago
    fails,          \* _fail_counts, up to RestartAt
    total,          \* _total_restarts
    backoff,        \* models whose restart cool-down runs
    restarting,     \* _restarting
    hot,            \* history: an auto-switch ended within the cool-down
    budget          \* what is left of the jobs, faults, checks and crashes

db == <<active, target, profile, stops, sleeping>>
watch == <<fails, total, backoff, restarting>>
auto == <<switchLock, cooling, hot>>
vars == <<role, server, pid, db, th, auto, watch, budget>>

Exclusive == {m \in Models : role[m] = "exclusive"}
Answering == {m \in Models : server[m] \in {"up", "asleep"}}    \* "✅"
Alive == {m \in Models : server[m] \in {"up", "asleep", "loading"}}  \* or "⏳"

\* gpu_mode, derived from active_services.
Mode == IF active \cap Exclusive # {} THEN "exclusive"
        ELSE IF active # {} THEN "shared" ELSE "idle"

\* A job, fault, failed check or crash, while some are left.
Spend(what) ==
    /\ budget[what] > 0
    /\ budget' = [budget EXCEPT ![what] = @ - 1]

AtRest == [pc |-> "rest", kind |-> "none", m |-> None, was |-> "idle", old |-> {}]
At(t, pc) == th[t].pc = pc
Goto(t, pc) == th' = [th EXCEPT ![t].pc = pc, ![t].was = "idle", ![t].old = {}]
Rest(t) == th' = [th EXCEPT ![t] = AtRest]

Init ==
    /\ role \in Roles
    /\ active \in SUBSET Models
    /\ \A m \in active \cap Exclusive : active = {m}
    /\ server = [m \in Models |-> IF m \in active THEN "up" ELSE "off"]
    /\ pid \in IF active = {} THEN {None} ELSE active
    /\ target = "" /\ sleeping = {}
    /\ profile = IF active = {} THEN "idle" ELSE "healthy"
    /\ stops = {}
    /\ th = [t \in Threads |-> AtRest]
    /\ switchLock = None /\ cooling = FALSE /\ hot = FALSE
    /\ backoff = {} /\ restarting = {}
    /\ fails = [m \in Models |-> 0] /\ total = [m \in Models |-> 0]
    /\ budget \in Budgets

-----------------------------------------------------------------------------
(* The parts of ModelManager that every actor uses.                        *)

\* Rows of manual_stops written for the models in M.
Record(M) == stops' = stops \cup M

\* stop_vllm(port): the tracked group, whichever it is, and the port's owner.
\* Without a port and a group, stop_vllm kills every vLLM process.
StoppedWithPort(m) == {m, pid} \ {None}
StoppedByGroup == IF pid = None THEN Models ELSE {pid}
Kill(M) == server' = [m \in Models |-> IF m \in M THEN "off" ELSE server[m]]

\* Mutant: a switching_target that an earlier switch left is not cleared.
ReconcileRows ==
    /\ active' = Alive
    /\ profile' = IF Alive # {} THEN "healthy"
                  ELSE IF Mode = "idle" THEN "idle" ELSE profile
    /\ pid' = IF pid # None /\ server[pid] = "off" THEN None ELSE pid
    /\ UNCHANGED <<role, server, target, sleeping>>

\* reconcile(): active_services becomes what answers, even with 503.
Reconcile ==
    /\ active' = Alive
    /\ profile' = IF Alive # {} THEN "healthy"
                  ELSE IF Mode = "idle" THEN "idle" ELSE profile
    /\ target' = ""
    /\ pid' = IF pid # None /\ server[pid] = "off" THEN None ELSE pid
    /\ UNCHANGED <<role, server, sleeping>>

\* _switch_to_idle(): its own reconciliation, then everything is stopped.
ToIdle ==
    IF active = {}
    THEN UNCHANGED <<server, pid, active, profile>>
    ELSE /\ Kill(Models) /\ pid' = None
         /\ active' = {} /\ profile' = "idle"

\* stop_service(m): an exclusive GPU goes idle; else the process and its row.
StopService(m) ==
    \/ /\ m \notin active /\ UNCHANGED <<server, pid, active, profile, target>>
    \/ /\ m \in active /\ Mode = "exclusive" /\ ToIdle /\ target' = ""
    \/ /\ m \in active /\ Mode # "exclusive"
       /\ Kill(StoppedWithPort(m)) /\ pid' = None
       /\ active' = active \ {m}
       /\ profile' = IF active = {m} THEN "idle" ELSE profile
       /\ UNCHANGED target

\* The conditions under which switch(m) goes on to the launch.
MayEnter(m) ==
    /\ m \notin active
    /\ \/ /\ Mode = "idle" /\ \A x \in Models \ {m} : server[x] = "off"
       \/ /\ Mode = role[m]
    /\ target \in {"", m}

\* switch(m) from its checks to Popen.  A swap stops the old server first.
Enter(t, m) ==
    /\ MayEnter(m)
    /\ th' = [th EXCEPT ![t].pc = "deploy", ![t].was = Mode,
                        ![t].old = IF Mode = "exclusive" THEN active ELSE {}]
    /\ target' = m
    /\ profile' = "switching"
    /\ LET stopped == IF Mode = "exclusive"
                      THEN UNION {StoppedWithPort(x) : x \in active} ELSE {}
       IN  server' = [x \in Models |->
                        IF x = m /\ (x \in stopped \/ server[x] = "off") THEN "loading"
                        ELSE IF x \in stopped THEN "off" ELSE server[x]]
    /\ active' = IF Mode = "exclusive" THEN {} ELSE active
    /\ pid' = m
    /\ UNCHANGED <<stops, sleeping>>

\* The end of a launch.  The server answers, it or another process on its
\* port, unless it is hung.
LaunchOk(t) ==
    LET m == th[t].m IN
    /\ server[m] \in {"loading", "up", "asleep"}
    /\ server' = [server EXCEPT ![m] = IF @ = "loading" THEN "up" ELSE @]
    /\ active' = IF th[t].was = "shared" THEN active \cup {m} ELSE {m}
    /\ profile' = "healthy"
    /\ UNCHANGED <<pid, budget>>

\* A launch breaks because its server is gone or its port is blocked, or by a fault.
Breaks(t) ==
    \/ /\ server[th[t].m] \in {"off", "hung"} /\ UNCHANGED budget
    \/ /\ Spend("faults")

\* A deploy that fails cleans up by port; an added service that fails does not.
LaunchFails(t) ==
    LET m == th[t].m IN
    /\ Breaks(t)
    /\ profile' = "error" /\ pid' = None
    /\ \/ /\ th[t].was = "shared"
          /\ server' = [server EXCEPT ![m] = IF @ = "loading" THEN "off" ELSE @]
          /\ UNCHANGED active
       \/ /\ th[t].was # "shared"
          /\ Kill(StoppedWithPort(m)) /\ active' = {}

\* _switch_exclusive's rollback: the old model is deployed again, and the
\* caller of switch() is told "switched".
RolledBack(t) ==
    /\ th[t].was = "exclusive" /\ Breaks(t)
    /\ \E o \in th[t].old :
          /\ server' = [x \in Models |-> IF x = o THEN "up"
                                         ELSE IF x = th[t].m THEN "off" ELSE server[x]]
          /\ pid' = o /\ active' = {o}
    /\ profile' = "healthy"

\* switch(m): refused at once, which a caller tells from "already_active", or
\* entered; and its end, which clears switching_target.
Call(t) ==
    /\ At(t, "call")
    /\ \/ Enter(t, th[t].m)
       \/ /\ ~MayEnter(th[t].m)
          /\ Goto(t, IF th[t].m \in active THEN "already" ELSE "failed")
          /\ UNCHANGED <<server, pid, db>>
    /\ UNCHANGED <<role, auto, watch, budget>>

Launched(t) ==
    /\ At(t, "deploy")
    /\ \/ /\ LaunchOk(t) \/ RolledBack(t)
          /\ Goto(t, "ok")
       \/ /\ LaunchFails(t)
          /\ Goto(t, "failed")
    /\ target' = IF th[t].kind = "wake" THEN target ELSE ""
    /\ UNCHANGED <<role, stops, sleeping, auto, watch>>

-----------------------------------------------------------------------------
(* Requests that auto-switch.                                              *)

Arrive(t) ==
    /\ At(t, "rest") /\ t \in Callers
    /\ Spend("jobs")
    /\ \E j \in Jobs : th' = [th EXCEPT ![t] = [AtRest EXCEPT !.pc = j.kind, !.kind = j.kind,
                                                              !.m = j.m]]
    /\ UNCHANGED <<role, server, pid, db, auto, watch>>

\* ensure_service up to the lock: served already, stopped by the user, being
\* switched to by another (then it only waits), or to be switched to.
Look(t) ==
    /\ At(t, "ensure")
    /\ \/ /\ th[t].m \in active \cup stops
          /\ Rest(t)
       \/ /\ th[t].m \notin active \cup stops
          /\ Goto(t, IF target = th[t].m THEN "watch" ELSE "lock")
    /\ UNCHANGED <<role, server, pid, db, auto, watch, budget>>

\* The non-blocking lock, the cool-down, and the write of switching_target,
\* whatever it holds.
TakeLock(t) ==
    /\ At(t, "lock")
    /\ \/ /\ switchLock # None \/ cooling
          /\ Rest(t) /\ UNCHANGED <<target, switchLock>>
       \/ /\ switchLock = None /\ ~cooling
          /\ switchLock' = t
          /\ target' = th[t].m
          /\ Goto(t, "call")
    /\ UNCHANGED <<role, server, pid, active, profile, stops, sleeping, cooling, hot,
                   watch, budget>>

\* Mutant: only a switch that succeeds starts the cool-down.
AfterSuccess(t) ==
    /\ th[t].kind = "ensure" /\ th[t].pc \in {"ok", "failed", "already"}
    /\ cooling' = At(t, "ok") /\ hot' = TRUE /\ switchLock' = None
    /\ IF At(t, "ok") THEN Goto(t, "wait") /\ UNCHANGED target
                      ELSE Rest(t) /\ target' = ""
    /\ UNCHANGED <<role, server, pid, active, profile, stops, sleeping, watch, budget>>

\* The end of the switch for ensure_service: the cool-down starts whatever
\* came of it; only a failure clears the target here.
AfterSwitch(t) ==
    /\ th[t].kind = "ensure" /\ th[t].pc \in {"ok", "failed", "already"}
    /\ cooling' = TRUE /\ hot' = TRUE /\ switchLock' = None
    /\ IF At(t, "ok") THEN Goto(t, "wait") /\ UNCHANGED target
                      ELSE Rest(t) /\ target' = ""
    /\ UNCHANGED <<role, server, pid, active, profile, stops, sleeping, watch, budget>>

\* Mutant: the wait has no deadline.
WaitForEver(t) ==
    /\ At(t, "wait") \/ At(t, "watch")
    /\ server[th[t].m] = "up"
    /\ target' = IF At(t, "wait") THEN "" ELSE target
    /\ Rest(t)
    /\ UNCHANGED <<role, server, pid, active, profile, stops, sleeping, auto, watch, budget>>

\* _wait_healthy: until /health answers 200, or 180 s.  The thread that
\* switched clears the target, whoever's it is by then.
WaitHealthy(t) ==
    /\ At(t, "wait") \/ At(t, "watch")
    /\ target' = IF At(t, "wait") THEN "" ELSE target
    /\ Rest(t)
    /\ UNCHANGED <<role, server, pid, active, profile, stops, sleeping, auto, watch, budget>>

CoolDown ==
    /\ cooling \/ hot
    /\ cooling' = FALSE /\ hot' = FALSE
    /\ UNCHANGED <<role, server, pid, db, th, switchLock, watch, budget>>

-----------------------------------------------------------------------------
(* Requests of the user: /switch, /switch idle, /stop, /reset.             *)

\* The gate of the handler, then the record of an earlier stop is deleted.
UserSwitch(t) ==
    /\ At(t, "switch")
    /\ \/ /\ target \notin {"", th[t].m} /\ Rest(t) /\ UNCHANGED stops
       \/ /\ target \in {"", th[t].m}
          /\ stops' = stops \ {th[t].m}
          /\ Goto(t, "call")
    /\ UNCHANGED <<role, server, pid, active, target, profile, sleeping, auto, watch, budget>>

\* Whatever switch() said, the handler clears the target once more.
UserSwitched(t) ==
    /\ th[t].kind = "switch" /\ th[t].pc \in {"ok", "failed", "already"}
    /\ target' = ""
    /\ Rest(t)
    /\ UNCHANGED <<role, server, pid, active, profile, stops, sleeping, auto, watch, budget>>

\* Stops of everything active are recorded before it is stopped ...
RecordAll(t) ==
    /\ At(t, "idle") \/ At(t, "reset")
    /\ Record(active)
    /\ Goto(t, IF At(t, "idle") THEN "toidle" ELSE "clear")
    /\ UNCHANGED <<role, server, pid, active, target, profile, sleeping, auto, watch, budget>>

UserIdle(t) ==
    /\ At(t, "toidle")
    /\ ToIdle /\ target' = ""
    /\ Rest(t)
    /\ UNCHANGED <<role, stops, sleeping, auto, watch, budget>>

\* force_reset: sleep rows stay, it empties the key they had before v5.2.
UserReset(t) ==
    /\ At(t, "clear")
    /\ Kill(Models) /\ pid' = None
    /\ active' = {} /\ target' = "" /\ profile' = "idle"
    /\ Rest(t)
    /\ UNCHANGED <<role, stops, sleeping, auto, watch, budget>>

\* ... and the stop of one model after it.
UserStop(t) ==
    /\ At(t, "stop")
    /\ StopService(th[t].m)
    /\ IF th[t].m \in active THEN Goto(t, "record") ELSE Rest(t)
    /\ UNCHANGED <<role, stops, sleeping, auto, watch, budget>>

RecordStop(t) ==
    /\ At(t, "record")
    /\ Record({th[t].m})
    /\ Rest(t)
    /\ UNCHANGED <<role, server, pid, active, target, profile, sleeping, auto, watch, budget>>

-----------------------------------------------------------------------------
(* Sleep and wake.                                                         *)

\* Only one model may sleep, by the rows as they are before the server is asked.
Sleep(t) ==
    /\ At(t, "sleep")
    /\ IF th[t].m \in active /\ sleeping = {} THEN Goto(t, "asleep") ELSE Rest(t)
    /\ UNCHANGED <<role, server, pid, db, auto, watch, budget>>

FallAsleep(t) ==
    LET m == th[t].m IN
    /\ At(t, "asleep")
    /\ \/ /\ m \in Answering
          /\ server' = [server EXCEPT ![m] = "asleep"]
          /\ sleeping' = sleeping \cup {m}
          /\ profile' = IF role[m] = "exclusive" THEN "idle" ELSE profile
       \/ /\ m \notin Answering
          /\ sleeping' = sleeping \ {m}
          /\ UNCHANGED <<server, profile>>
    /\ Rest(t)
    /\ UNCHANGED <<role, pid, active, target, stops, auto, watch, budget>>

\* A wake needs a GPU that may take the model's role.  The model itself, still
\* in active_services, makes the GPU exclusive if it is.
MayWake(m) == m \in sleeping /\ (Mode = "idle" \/ (Mode = "shared" /\ role[m] = "shared"))

\* Waking is killing the tracked group and, for a shared model, a new start.
\* An exclusive one is listed as served and nothing starts it.
Wake(t) ==
    LET m == th[t].m IN
    /\ At(t, "wake")
    /\ \/ /\ ~MayWake(m) /\ Rest(t) /\ UNCHANGED <<server, pid, active, profile, sleeping>>
       \/ /\ MayWake(m)
          /\ Kill(StoppedByGroup) /\ pid' = None
          /\ sleeping' = sleeping \ {m}
          /\ \/ /\ role[m] = "exclusive"
                /\ active' = active \cup {m} /\ profile' = "healthy"
                /\ Rest(t)
             \/ /\ role[m] = "shared" /\ Goto(t, "restart")
                /\ UNCHANGED <<active, profile>>
    /\ UNCHANGED <<role, target, stops, auto, watch, budget>>

\* The new start finds the model still listed and does nothing.
Restart(t) ==
    LET m == th[t].m IN
    /\ At(t, "restart") /\ t \in Callers
    /\ \/ /\ m \in active /\ Mode # "idle"
          /\ Rest(t)
          /\ UNCHANGED <<server, pid>>
       \/ /\ m \notin active \/ Mode = "idle"
          /\ th' = [th EXCEPT ![t].pc = "deploy", ![t].was = IF Mode = "idle" THEN "idle" ELSE "shared"]
          /\ server' = [server EXCEPT ![m] = IF @ = "off" THEN "loading" ELSE @]
          /\ pid' = m
    /\ UNCHANGED <<role, db, auto, watch, budget>>

Woken(t) ==
    /\ th[t].kind = "wake" /\ th[t].pc \in {"ok", "failed"}
    /\ Rest(t)
    /\ UNCHANGED <<role, server, pid, db, auto, watch, budget>>

-----------------------------------------------------------------------------
(* The watchdog and its restart threads.                                   *)

\* A cycle checks the active services in turn.  A model that a thread restarts
\* is passed over, unless it has been for 120 s: then another may start.
CheckHealthy(m) ==
    /\ m \in active \cap Answering
    /\ restarting' = restarting \ {m}
    /\ fails' = [fails EXCEPT ![m] = 0]
    /\ total' = [total EXCEPT ![m] = 0]
    /\ backoff' = backoff \ {m}
    /\ UNCHANGED <<role, server, pid, db, th, auto, budget>>

GivesUp(m) == total[m] >= MaxRestarts

\* A failed check: count, and at the thresholds alert, restart or give up.
CheckFailed(m) ==
    LET n == IF fails[m] < RestartAt THEN fails[m] + 1 ELSE RestartAt
        due == n >= RestartAt /\ m \notin backoff
    IN
    /\ m \in active \ Answering
    /\ Spend("checks")
    /\ fails' = [fails EXCEPT ![m] = n]
    /\ \/ /\ due /\ ~GivesUp(m)
          /\ \E r \in Restarters :
                /\ At(r, "rest")
                /\ th' = [th EXCEPT ![r] = [AtRest EXCEPT !.pc = "restart", !.kind = "restart",
                                                          !.m = m]]
          /\ total' = [total EXCEPT ![m] = @ + 1]
          /\ backoff' = backoff \cup {m}
          /\ restarting' = restarting \cup {m}
          /\ UNCHANGED profile
       \/ /\ ~(due /\ ~GivesUp(m))
          /\ restarting' = restarting \ {m}
          /\ profile' = IF due \/ (n < RestartAt /\ n >= AlertAt) THEN "error" ELSE profile
          /\ UNCHANGED <<th, total, backoff>>
    /\ UNCHANGED <<role, server, pid, active, target, stops, sleeping, auto>>

BackoffEnds(m) ==
    /\ m \in backoff /\ backoff' = backoff \ {m}
    /\ UNCHANGED <<role, server, pid, db, th, auto, fails, total, restarting, budget>>

\* _restart_model: not while another model is switched to; then a reconciliation.
RestartBegins(r) ==
    /\ At(r, "restart") /\ r \in Restarters
    /\ \/ /\ target \notin {"", th[r].m}
          /\ Rest(r) /\ restarting' = restarting \ {th[r].m}
       \/ /\ target \in {"", th[r].m}
          /\ Goto(r, "reconcile") /\ UNCHANGED restarting
    /\ UNCHANGED <<role, server, pid, db, auto, fails, total, backoff, budget>>

RestartReconciles(r) ==
    /\ At(r, "reconcile")
    /\ Reconcile
    /\ Goto(r, "decide")
    /\ UNCHANGED <<stops, auto, watch, budget>>

RestartDecides(r) ==
    /\ At(r, "decide")
    /\ Goto(r, IF th[r].m \in active THEN "already" ELSE "call")
    /\ UNCHANGED <<role, server, pid, db, auto, watch, budget>>

\* A model that is still listed, or listed again, is stopped and its row removed.
RestartStops(r) ==
    /\ At(r, "already") /\ th[r].kind = "restart"
    /\ StopService(th[r].m)
    /\ Rest(r) /\ restarting' = restarting \ {th[r].m}
    /\ UNCHANGED <<role, stops, sleeping, auto, fails, total, backoff, budget>>

Restarted(r) ==
    /\ th[r].kind = "restart" /\ th[r].pc \in {"ok", "failed"}
    /\ fails' = IF At(r, "ok") THEN [fails EXCEPT ![th[r].m] = 0] ELSE fails
    /\ Rest(r) /\ restarting' = restarting \ {th[r].m}
    /\ UNCHANGED <<role, server, pid, db, auto, total, backoff, budget>>

-----------------------------------------------------------------------------
(* The monitor, time, and what breaks.                                     *)

MonitorTick ==
    /\ Reconcile
    /\ UNCHANGED <<stops, th, auto, watch, budget>>

StopExpires(m) ==
    /\ m \in stops /\ stops' = stops \ {m}
    /\ UNCHANGED <<role, server, pid, active, target, profile, sleeping, th, auto, watch, budget>>

ServerBreaks(m) ==
    /\ m \in Answering /\ Spend("faults")
    /\ \E s \in {"off", "hung"} : server' = [server EXCEPT ![m] = s]
    /\ UNCHANGED <<role, pid, db, th, auto, watch>>

\* The gateway dies; servers that load go on without it.
Crash ==
    /\ Spend("crashes")
    /\ \E S \in SUBSET {m \in Models : server[m] = "loading"} :
          server' = [m \in Models |-> IF m \in S THEN "up"
                                      ELSE IF server[m] = "loading" THEN "off" ELSE server[m]]
    /\ th' = [t \in Threads |-> AtRest]
    /\ switchLock' = None /\ cooling' = FALSE /\ hot' = FALSE
    /\ backoff' = {} /\ restarting' = {}
    /\ fails' = [m \in Models |-> 0] /\ total' = [m \in Models |-> 0]
    /\ UNCHANGED <<role, pid, db>>

-----------------------------------------------------------------------------
CallerStep(t) ==
    \/ Look(t) \/ TakeLock(t) \/ AfterSwitch(t) \/ WaitHealthy(t)
    \/ UserSwitch(t) \/ UserSwitched(t) \/ RecordAll(t) \/ UserIdle(t) \/ UserReset(t)
    \/ UserStop(t) \/ RecordStop(t)
    \/ Sleep(t) \/ FallAsleep(t) \/ Wake(t) \/ Restart(t) \/ Woken(t)

RestarterStep(r) ==
    \/ RestartBegins(r) \/ RestartReconciles(r) \/ RestartDecides(r)
    \/ RestartStops(r) \/ Restarted(r)

ThreadStep(t) == Call(t) \/ Launched(t) \/ CallerStep(t) \/ RestarterStep(t)
Check(m) == CheckHealthy(m) \/ CheckFailed(m)

Next ==
    \/ \E t \in Callers : Arrive(t)
    \/ \E t \in Threads : ThreadStep(t)
    \/ MonitorTick \/ CoolDown \/ Crash
    \/ \E m \in Models : Check(m) \/ BackoffEnds(m) \/ StopExpires(m) \/ ServerBreaks(m)

Spec == Init /\ [][Next]_vars

\* Every wait of a thread has a timeout; monitor and watchdog loop for ever.
FairSpec ==
    /\ Spec /\ WF_vars(MonitorTick)
    /\ \A m \in Models : WF_vars(Check(m))
    /\ \A t \in Threads : WF_vars(ThreadStep(t))

-----------------------------------------------------------------------------
(* Properties.                                                             *)

Places == {"rest", "lock", "call", "deploy", "ok", "failed", "already", "wait", "watch",
           "toidle", "clear", "record", "asleep", "restart", "reconcile", "decide"} \cup Kinds

\* The type of every variable; what a thread is asked for fits where it is.
TypeOK ==
    /\ role \in Roles
    /\ server \in [Models -> {"off", "loading", "up", "hung", "asleep"}]
    /\ pid \in Models \cup {None}
    /\ active \subseteq Models /\ sleeping \subseteq Models
    /\ target \in Models \cup {""}
    /\ profile \in {"idle", "switching", "healthy", "error"}
    /\ stops \subseteq Models
    /\ th \in [Threads -> [pc : Places, kind : Kinds \cup {"none", "restart"},
                           m : Models \cup {None}, was : {"idle", "exclusive", "shared"},
                           old : SUBSET Models]]
    /\ switchLock \in Callers \cup {None} /\ cooling \in BOOLEAN /\ hot \in BOOLEAN
    /\ backoff \subseteq Models /\ restarting \subseteq Models
    /\ fails \in [Models -> 0 .. RestartAt] /\ total \in [Models -> 0 .. MaxRestarts]
    /\ budget \in [{"jobs", "faults", "checks", "crashes"} -> Nat]

\* A thread that is switching for a request.
AutoSwitching(t) ==
    th[t].kind = "ensure" /\ th[t].pc \in {"call", "deploy", "ok", "failed", "already"}

\* Requests for models that are not served make no switch storm: none begins a
\* switch while another request's is under way, or before the cool-down after
\* its end has passed, whether it succeeded, failed or was refused.
NoStorm ==
    [][\A t \in Callers : AutoSwitching(t)' /\ ~AutoSwitching(t)
          => ~hot /\ \A u \in Callers : ~AutoSwitching(u)]_vars

\* Every request ends, auto-switching ones too: nothing waits for a model for ever.
Answered == \A t \in Callers : ~At(t, "rest") ~> At(t, "rest")

\* When requests, faults and deaths are over, the rows agree with the servers
\* for good: no model is served on paper only, no target blocks later switches.
Settles ==
    <>[](/\ active = Answering /\ target = ""
         /\ (profile = "healthy") = (active # {}))

\* While a switch the user asked for is starting a model, the watchdog neither
\* stops nor starts one.
WatchdogYields ==
    [][\A r \in Restarters : (\E t \in Callers : th[t].kind = "switch" /\ At(t, "deploy"))
          /\ RestarterStep(r) => UNCHANGED server]_vars
=============================================================================
