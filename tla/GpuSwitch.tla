----------------------------- MODULE GpuSwitch ------------------------------
(***************************************************************************)
(* Who is on the GPU: ModelManager.switch, ModelLifecycle and              *)
(* GpuStateMachine.                                                        *)
(*                                                                         *)
(* The state database says which models are served (active_services), a    *)
(* profile state, the target of the switch under way and the one process   *)
(* group the vLLM launcher tracks (vllm_pid).  The truth is which server   *)
(* processes run.  Request threads of the gateway, the HealthMonitor       *)
(* thread and `iff` commands change both, in steps that take from          *)
(* milliseconds to minutes, so every step that reads the database and      *)
(* every step that writes it after a wait is an action of its own.  The    *)
(* GPU mode is not stored: the source derives it from active_services.     *)
(*                                                                         *)
(* Models have one port each (as in models.d).  Exclusive and shared ones  *)
(* are vLLM conda deployments; role "none" ones are llama-server, which    *)
(* no pid key tracks.  The flock is taken as atomic and reentrant in a     *)
(* process; GpuLock has its races.                                         *)
(***************************************************************************)
EXTENDS Naturals, FiniteSets

CONSTANTS
    Models,
    RoleOf,         \* gpu_role of a model: "exclusive", "shared" or "none"
    Procs,          \* operating-system processes of InferFabric
    Gateway,        \* the one that serves HTTP
    Workers,        \* threads that handle requests or are commands
    Monitors,       \* HealthMonitor threads
    ProcOf,         \* the process a thread runs in
    Jobs,           \* what is asked for: records [kind, m]
    Early,          \* models whose server may answer 503 while it loads
    None, Dead,     \* no process group; one whose processes have died
    MaxRequests,    \* bound: jobs and configuration edits
    MaxFaults,      \* bound: dead servers, failed starts, refusals, stuck GPUs
    MaxMisses,      \* bound: probes of a healthy server that fail
    MaxDeaths       \* bound: deaths of InferFabric processes

Threads == Workers \cup Monitors
Roles == {"exclusive", "shared", "none"}
Kinds == {"switch", "idle", "stop", "reconcile", "reset"}

ASSUME RoleAssumption ==
    /\ IsFiniteSet(Models)
    /\ RoleOf \in [Models -> Roles] /\ Early \subseteq Models
ASSUME NoneAssumption == None \notin Models /\ Dead \notin Models
ASSUME ThreadAssumption ==
    /\ IsFiniteSet(Threads)
    /\ Gateway \in Procs
    /\ ProcOf \in [Threads -> Procs]
    /\ \A t \in Monitors : ProcOf[t] = Gateway
    /\ Workers \cap Monitors = {}
ASSUME JobAssumption ==
    /\ Jobs \subseteq [kind : Kinds, m : Models \cup {None}]
    /\ \A j \in Jobs : j.kind \in {"switch", "stop"} => j.m \in Models
ASSUME BoundAssumption ==
    /\ MaxRequests \in Nat /\ MaxFaults \in Nat
    /\ MaxMisses \in Nat /\ MaxDeaths \in Nat

VARIABLES
    proc,           \* the server process of a model: Down, Loading or Up
    active,         \* state database: active_services
    profile,        \* state database: profile_state
    target,         \* state database: switching_target
    pid,            \* state database: vllm_pid, as the model it belongs to
    drift,          \* models whose YAML differs from the deployed hash
    depth,          \* matching acquires an InferFabric process has made
    locker,         \* processes that flocked the present lock file
    th,             \* threads: where they are and what they have read
    requests, faults, misses, deaths

db == <<active, profile, target, pid, drift>>
lock == <<depth, locker>>
bounds == <<requests, faults, misses, deaths>>
vars == <<proc, db, lock, th, bounds>>

Down == "down"
Loading == "loading"        \* spawned; /health refuses or answers 503
Up == "up"                  \* /health answers 200

Running == {m \in Models : proc[m] # Down}
Serving == {m \in Models : proc[m] = Up}
Gpu == {m \in Models : RoleOf[m] # "none"}

(* StateDB.gpu_mode and _derive_gpu_mode.                                  *)
GpuMode(services) ==
    IF \E m \in services : RoleOf[m] = "exclusive" THEN "exclusive"
    ELSE IF services \cap Gpu # {} THEN "shared" ELSE "idle"

Locations ==
    {"rest", "entered", "validate", "guard", "gate", "lock", "deploy", "starting",
     "failStop", "failWrite", "deployed", "retire", "retireWrite",
     "rollback", "add",
     "addRead", "addWrite", "finish", "respond",
     "idle", "scan", "apply", "idleLock", "idleStop", "idleWait", "idleWrite",
     "stop", "stopKill", "stopRead", "stopWrite",
     "reset", "resetKill", "resetWrite"}

Resting == [pc |-> "rest", kind |-> "none", m |-> None, mode |-> "idle",
            seen |-> {}, was |-> {}, own |-> TRUE, ok |-> TRUE]

Init ==
    /\ proc = [m \in Models |-> Down]
    /\ active = {}
    /\ profile = "idle"
    /\ target = None
    /\ pid = None
    /\ drift = {}
    /\ depth = [p \in Procs |-> 0]
    /\ locker = {}
    /\ th = [t \in Threads |-> Resting]
    /\ requests = 0 /\ faults = 0 /\ misses = 0 /\ deaths = 0

-----------------------------------------------------------------------------
(* Threads and the lock.                                                   *)

At(t, pc) == th[t].pc = pc
Goto(t, pc) == th' = [th EXCEPT ![t].pc = pc]
Rest(t) == th' = [th EXCEPT ![t] = Resting]
Fail(t, pc) == th' = [th EXCEPT ![t].pc = pc, ![t].ok = FALSE]

Fault(n) == faults + n <= MaxFaults /\ faults' = faults + n

(* Mutant: the answer of flock() is not looked at.                         *)
IgnoreFlock(p) == TRUE
CanAcquire(p) == depth[p] > 0 \/ locker = {}
Acquire(p) ==
    /\ CanAcquire(p)
    /\ depth' = [depth EXCEPT ![p] = @ + 1]
    /\ locker' = IF depth[p] = 0 THEN {p} ELSE locker

(* Mutant: the finally clause does not release.                            *)
KeepLock(p) == UNCHANGED lock
Release(p) ==
    /\ depth' = [depth EXCEPT ![p] = IF @ > 0 THEN @ - 1 ELSE 0]
    /\ locker' = IF depth[p] <= 1 THEN locker \ {p} ELSE locker

-----------------------------------------------------------------------------
(* Server processes, and how the code stops and sees them.                 *)

Kill(dead) ==
    proc' = [m \in Models |-> IF m \in dead THEN Down ELSE proc[m]]

(* What stopping models S kills: for vLLM the tracked process group, which *)
(* is the one started last whatever model is being stopped, then whoever   *)
(* listens on the ports of S; a server still loading may not listen yet.   *)
Victims(S) ==
    LET tracked == IF S \cap Gpu # {} THEN {pid} \cap Models ELSE {}
    IN  {k \in SUBSET (Running \cap (S \cup tracked)) :
            tracked \cup (Serving \cap S) \subseteq k}

(* Mutant: only the tracked process group is stopped, not the port.        *)
StopTracked(S) ==
    /\ Kill({pid} \cap Models \cap Running)
    /\ pid' = IF S \cap Gpu # {} THEN None ELSE pid

(* _stop_model_process of each model of S.                                 *)
StopProcesses(S) ==
    /\ \E k \in Victims(S) : Kill(k)
    /\ pid' = IF S \cap Gpu # {} THEN None ELSE pid

(* force_kill_all: every vLLM process, by name.                            *)
ForceKill == Kill(Gpu) /\ pid' = None

(* A health scan: servers that are up, but for probes that time out three  *)
(* times, and perhaps some that are loading and answer 503.                *)
Scan(seen) ==
    /\ seen \subseteq Serving \cup (Running \cap Early)
    /\ misses' = misses + Cardinality(Serving \ seen)
    /\ misses' <= MaxMisses

(* fuser: who owns the port of a GPU model.                                *)
PortOwners ==
    {o \in SUBSET (Running \cap Gpu) : Serving \cap Gpu \subseteq o}

Loaded(m) ==
    /\ proc[m] = Loading
    /\ proc' = [proc EXCEPT ![m] = Up]
    /\ UNCHANGED <<db, lock, th, bounds>>

(* A server process dies by itself.                                        *)
ServerDies(m) ==
    /\ m \in Running
    /\ Fault(1)
    /\ Kill({m})
    /\ pid' = IF pid = m THEN Dead ELSE pid
    /\ UNCHANGED <<active, profile, target, drift, lock, th, requests, misses, deaths>>

(* The operator edits the YAML of a deployed model.                        *)
EditConfig(m) ==
    /\ requests < MaxRequests
    /\ requests' = requests + 1
    /\ m \in (active \cap Gpu) \ drift
    /\ drift' = drift \cup {m}
    /\ UNCHANGED <<proc, active, profile, target, pid, lock, th, faults, misses, deaths>>

-----------------------------------------------------------------------------
(* switch(target), up to the lock.                                         *)

(* A request arrives.  The handler answers 409 to a switch while another   *)
(* target is being switched to; a refused request changes nothing.         *)
Request(t) ==
    /\ t \in Workers /\ At(t, "rest")
    /\ requests < MaxRequests
    /\ requests' = requests + 1
    /\ \E j \in Jobs :
          /\ j.kind = "switch" /\ ProcOf[t] = Gateway
                => target \in {None, j.m}
          /\ th' = [th EXCEPT
               ![t] = [Resting EXCEPT
                         !.kind = j.kind, !.m = j.m,
                         !.pc = CASE j.kind = "switch" -> "entered"
                                  [] j.kind = "reconcile" -> "scan"
                                  [] OTHER -> j.kind]]
    /\ UNCHANGED <<proc, db, lock, faults, misses, deaths>>

(* Already served: answered at once, unless its configuration drifted.     *)
(* Otherwise dispatch by role.                                             *)
Enter(t) ==
    LET m == th[t].m IN
    /\ At(t, "entered")
    /\ Goto(t, IF m \in active THEN IF m \in drift THEN "idle" ELSE "respond"
               ELSE IF RoleOf[m] = "none" THEN "add" ELSE "validate")
    /\ UNCHANGED <<proc, db, lock, bounds>>

(* validate_transition, and the exclusive swap switch() allows besides.    *)
Allowed(from, to) == from = "idle" \/ from = to

Validate(t) ==
    LET mode == GpuMode(active) IN
    /\ At(t, "validate")
    /\ th' = [th EXCEPT
         ![t].mode = mode,
         ![t].pc = IF ~Allowed(mode, RoleOf[th[t].m]) THEN "respond"
                   ELSE IF mode = "idle" THEN "guard" ELSE "gate"]
    /\ UNCHANGED <<proc, db, lock, bounds>>

(* Mutant: the guard trusts the health scan alone.                         *)
GuardByHealth(t) ==
    /\ At(t, "guard")
    /\ \E seen \in SUBSET Running :
          /\ Scan(seen)
          /\ Goto(t, IF seen \cap Gpu \subseteq {th[t].m}
                     THEN "gate" ELSE "respond")
    /\ UNCHANGED <<proc, db, lock, requests, faults, deaths>>

(* The occupancy guard of an idle GPU: no other GPU model answers its      *)
(* probe or owns its port.                                                 *)
Guard(t) ==
    /\ At(t, "guard")
    /\ \E seen \in SUBSET Running, owners \in PortOwners :
          /\ Scan(seen)
          /\ Goto(t, IF (seen \cap Gpu) \cup owners \subseteq {th[t].m}
                     THEN "gate" ELSE "respond")
    /\ UNCHANGED <<proc, db, lock, requests, faults, deaths>>

(* No switch to another target is under way, as far as this read shows.    *)
Gate(t) ==
    /\ At(t, "gate")
    /\ Goto(t, IF target \in {None, th[t].m} THEN "lock" ELSE "respond")
    /\ UNCHANGED <<proc, db, lock, bounds>>

(* The lock is taken and the switch is on.  The mode that chooses the path *)
(* is the one Validate read.                                               *)
Begin(t) ==
    /\ At(t, "lock")
    /\ Acquire(ProcOf[t])
    /\ profile' = "switching"
    /\ target' = th[t].m
    /\ Goto(t, CASE th[t].mode = "idle" -> "deploy"
                 [] th[t].mode = "exclusive" -> "retire"
                 [] OTHER -> "add")
    /\ UNCHANGED <<proc, active, pid, drift, bounds>>

Refused(t) ==
    /\ At(t, "lock")
    /\ ~CanAcquire(ProcOf[t])
    /\ Goto(t, "respond")
    /\ UNCHANGED <<proc, db, lock, bounds>>

-----------------------------------------------------------------------------
(* _start_model and the launchers under it.                                *)

(* The model is spawned.  Its process group becomes the tracked one; if a  *)
(* server already has the port, the new process cannot bind it and dies.   *)
Spawn(t) ==
    LET m == th[t].m
        free == proc[m] = Down
    IN  /\ proc' = [proc EXCEPT ![m] = IF free THEN Loading ELSE @]
        /\ pid' = IF RoleOf[m] = "none" THEN pid ELSE IF free THEN m ELSE Dead
        /\ th' = [th EXCEPT ![t].pc = "starting", ![t].own = free,
                            ![t].seen = {s \in active : RoleOf[s] = "none"}
                                           \ {m}]

(* Where a start that was for an add, a deploy or a rollback goes on.      *)
Adding(t) == RoleOf[th[t].m] = "none" \/ th[t].mode = "shared"
AfterFailure(t) ==
    IF RoleOf[th[t].m] = "none" THEN "respond"
    ELSE IF Adding(t) THEN "finish" ELSE "failStop"

(* wait_http: the port answers 200, whoever's process it is.               *)
StartHealthy(t) ==
    /\ At(t, "starting")
    /\ th[t].m \in Serving
    /\ Goto(t, IF Adding(t) THEN "addRead" ELSE "deployed")
    /\ UNCHANGED <<proc, db, lock, bounds>>

(* Failed starts leave profile_state ERROR, but for independent models.    *)
Failed(t) ==
    /\ Fail(t, AfterFailure(t))
    /\ profile' = IF RoleOf[th[t].m] = "none" THEN profile ELSE "error"
    /\ UNCHANGED <<active, target, drift, lock, requests, misses, deaths>>

(* Mutant: the wait does not notice that the server has gone.              *)
StartExitsEarly(t) ==
    LET m == th[t].m IN
    /\ At(t, "starting")
    /\ th[t].own /\ proc[m] = Loading
    /\ Fault(1)
    /\ Kill({m})
    /\ pid' = IF RoleOf[m] = "none" THEN pid ELSE None
    /\ Failed(t)

(* The launched process exits: within the startup check the pid is reset,  *)
(* later ("crashed during loading") it is left.                            *)
StartExits(t) ==
    LET m == th[t].m
        gpu == RoleOf[m] # "none"
    IN  /\ At(t, "starting")
        /\ \/ /\ th[t].own /\ proc[m] = Loading
              /\ Fault(1)
              /\ Kill({m})
              /\ pid' \in IF gpu THEN {None, IF pid = m THEN Dead ELSE pid}
                          ELSE {pid}
           \/ /\ ~th[t].own \/ proc[m] = Down
              /\ pid' \in IF gpu THEN {None, pid} ELSE {pid}
              /\ UNCHANGED <<proc, faults>>
        /\ Failed(t)

(* It is alive but never healthy.  stop_vllm() without a port kills the    *)
(* tracked group; when none is, PID files and every vLLM port.             *)
StartTimesOut(t) ==
    LET m == th[t].m IN
    /\ At(t, "starting")
    /\ proc[m] = Loading
    /\ Fault(1)
    /\ \/ RoleOf[m] = "none" /\ StopProcesses({m})
       \/ RoleOf[m] # "none" /\ pid \in Models /\ Kill({pid}) /\ pid' = None
       \/ /\ RoleOf[m] # "none" /\ pid \notin Models
          /\ \E o \in PortOwners : Kill(o)
          /\ pid' = None
    /\ Failed(t)

-----------------------------------------------------------------------------
(* _deploy_model.                                                          *)

Deploy(t) ==
    /\ At(t, "deploy")
    /\ Spawn(t)
    /\ UNCHANGED <<active, profile, target, drift, lock, bounds>>

(* The VRAM budget refuses the model before anything is done.              *)
DeployRefused(t) ==
    /\ At(t, "deploy")
    /\ Fault(1)
    /\ Fail(t, IF th[t].mode = "exclusive" THEN "rollback" ELSE "finish")
    /\ UNCHANGED <<proc, db, lock, requests, misses, deaths>>

(* Clean-up of a failed deploy: the model is stopped ...                   *)
DeployFailStop(t) ==
    /\ At(t, "failStop")
    /\ StopProcesses({th[t].m})
    /\ Goto(t, "failWrite")
    /\ UNCHANGED <<active, profile, target, drift, lock, bounds>>

(* ... and active_services emptied, its role-none services with it.        *)
DeployFailWrite(t) ==
    /\ At(t, "failWrite")
    /\ active' = {}
    /\ pid' = None
    /\ Goto(t, IF th[t].mode = "exclusive" THEN "rollback" ELSE "finish")
    /\ UNCHANGED <<proc, profile, target, drift, lock, bounds>>

(* Mutant: the role-none services are not kept.                            *)
DeployedAlone(t) ==
    /\ At(t, "deployed")
    /\ active' = {th[t].m}
    /\ profile' = "healthy"
    /\ drift' = drift \ active'
    /\ th' = [th EXCEPT ![t].pc = "finish", ![t].ok = TRUE]
    /\ UNCHANGED <<proc, target, pid, lock, bounds>>

(* Success: the model, and the role-none services read before the start.   *)
Deployed(t) ==
    /\ At(t, "deployed")
    /\ active' = {th[t].m} \cup th[t].seen
    /\ profile' = "healthy"
    /\ drift' = drift \ active'
    /\ th' = [th EXCEPT ![t].pc = "finish", ![t].ok = TRUE]
    /\ UNCHANGED <<proc, target, pid, lock, bounds>>

(* _switch_exclusive: the GPU models served at this moment are stopped ... *)
RetireStop(t) ==
    /\ At(t, "retire")
    /\ StopProcesses(active \cap Gpu)
    /\ th' = [th EXCEPT ![t].pc = "retireWrite", ![t].seen = active]
    /\ UNCHANGED <<active, profile, target, drift, lock, bounds>>

(* ... and active_services written without them, to deploy the new one.    *)
RetireWrite(t) ==
    /\ At(t, "retireWrite")
    /\ active' = th[t].seen \ Gpu
    /\ th' = [th EXCEPT ![t].pc = "deploy", ![t].was = th[t].seen \cap Gpu]
    /\ UNCHANGED <<proc, profile, target, pid, drift, lock, bounds>>

(* The swap failed: the models it retired are deployed again, one after    *)
(* the other until one is up.                                              *)
Rollback(t) ==
    /\ At(t, "rollback")
    /\ \/ /\ th[t].was = {}
          /\ profile' = "error"
          /\ Goto(t, "finish")
       \/ /\ \E m \in th[t].was :
                th' = [th EXCEPT ![t].pc = "deploy", ![t].m = m,
                                 ![t].was = @ \ {m}]
          /\ UNCHANGED profile
    /\ UNCHANGED <<proc, active, target, pid, drift, lock, bounds>>

-----------------------------------------------------------------------------
(* _shared_add_service, which wants the lock, and _switch_independent,     *)
(* which takes none: both append the model to what active_services says    *)
(* when the server is up.                                                  *)

Add(t) ==
    LET shared == RoleOf[th[t].m] = "shared" IN
    /\ At(t, "add")
    /\ shared => depth[ProcOf[t]] > 0 /\ th[t].m \notin active
    /\ Spawn(t)
    /\ UNCHANGED <<active, profile, target, drift, lock, bounds>>

(* Already there; not holding the lock; or no VRAM headroom.               *)
AddRefused(t) ==
    /\ At(t, "add")
    /\ RoleOf[th[t].m] = "shared"
    /\ \/ /\ depth[ProcOf[t]] > 0 /\ th[t].m \in active
          /\ Goto(t, "finish")
          /\ UNCHANGED faults
       \/ /\ depth[ProcOf[t]] = 0
          /\ Fail(t, "finish")
          /\ UNCHANGED faults
       \/ /\ depth[ProcOf[t]] > 0 /\ th[t].m \notin active
          /\ Fault(1)
          /\ Fail(t, "finish")
    /\ UNCHANGED <<proc, db, lock, requests, misses, deaths>>

AddRead(t) ==
    /\ At(t, "addRead")
    /\ th' = [th EXCEPT ![t].pc = "addWrite", ![t].seen = active]
    /\ UNCHANGED <<proc, db, lock, bounds>>

AddWrite(t) ==
    LET m == th[t].m IN
    /\ At(t, "addWrite")
    /\ active' = th[t].seen \cup {m}
    /\ profile' = "healthy"
    /\ drift' = drift \ {m}
    /\ Goto(t, IF RoleOf[m] = "none" THEN "respond" ELSE "finish")
    /\ UNCHANGED <<proc, target, pid, lock, bounds>>

(* Mutant: an error result leaves profile_state as it is.                  *)
FinishSilently(t) ==
    /\ At(t, "finish")
    /\ target' = None
    /\ Release(ProcOf[t])
    /\ Goto(t, "respond")
    /\ UNCHANGED <<proc, active, profile, pid, drift, bounds>>

(* The end of a switch that took the lock, and its finally clause.         *)
Finish(t) ==
    /\ At(t, "finish")
    /\ profile' = IF th[t].ok THEN profile ELSE "error"
    /\ target' = None
    /\ Release(ProcOf[t])
    /\ Goto(t, "respond")
    /\ UNCHANGED <<proc, active, pid, drift, bounds>>

(* The handler clears switching_target whatever switch() answered.         *)
Respond(t) ==
    /\ At(t, "respond")
    /\ target' = IF ProcOf[t] = Gateway THEN None ELSE target
    /\ Rest(t)
    /\ UNCHANGED <<proc, active, profile, pid, drift, lock, bounds>>

-----------------------------------------------------------------------------
(* reconcile(): the database is made to say what a scan has seen.          *)

ReconcileScan(t) ==
    /\ At(t, "scan")
    /\ \E seen \in SUBSET Running :
          /\ Scan(seen)
          /\ th' = [th EXCEPT ![t].pc = "apply", ![t].seen = seen,
                              ![t].was = active]
    /\ UNCHANGED <<proc, db, lock, requests, faults, deaths>>

(* _detect_orphan_pids, then _restore_dead_pids: a pid with no service     *)
(* behind it is dropped, a service with no pid gets one.                   *)
PidsFor(actual, owners) ==
    LET services == actual \cap owners
        orphan == \/ pid = Dead /\ services = {}
                  \/ pid \in Models /\ actual = {} /\ owners = {}
    IN  IF pid = None \/ orphan
        THEN IF services = {} THEN {None} ELSE services
        ELSE {pid}

(* Where an idle switch that reconciles first goes on.                     *)
AfterReconcile(t) == IF th[t].kind = "reconcile" THEN "rest" ELSE "idleLock"

(* Mutant: a stale switching_target is not cleared.                        *)
ReconcileKeepsTarget(t) ==
    LET actual == th[t].seen IN
    /\ At(t, "apply")
    /\ active' = IF actual # th[t].was THEN actual ELSE active
    /\ profile' = IF actual # {} THEN "healthy"
                  ELSE IF GpuMode(th[t].was) = "idle" THEN "idle" ELSE profile
    /\ \E owners \in PortOwners : pid' \in PidsFor(actual, owners)
    /\ IF AfterReconcile(t) = "rest" THEN Rest(t) ELSE Goto(t, "idleLock")
    /\ UNCHANGED <<proc, target, drift, lock, bounds>>

ReconcileApply(t) ==
    LET actual == th[t].seen IN
    /\ At(t, "apply")
    /\ active' = IF actual # th[t].was THEN actual ELSE active
    /\ profile' = IF actual # {} THEN "healthy"
                  ELSE IF GpuMode(th[t].was) = "idle" THEN "idle" ELSE profile
    /\ \E owners \in PortOwners : pid' \in PidsFor(actual, owners)
    /\ target' = None
    /\ IF AfterReconcile(t) = "rest" THEN Rest(t) ELSE Goto(t, "idleLock")
    /\ UNCHANGED <<proc, drift, lock, bounds>>

MonitorTick(t) ==
    /\ t \in Monitors /\ At(t, "rest")
    /\ th' = [th EXCEPT ![t].pc = "scan", ![t].kind = "reconcile"]
    /\ UNCHANGED <<proc, db, lock, bounds>>

-----------------------------------------------------------------------------
(* _switch_to_idle, asked for by a request, by the stop of an exclusive    *)
(* model or by a switch whose configuration drifted.                       *)

AfterIdle(t) ==
    CASE th[t].kind = "switch" -> "validate"
      [] th[t].kind = "stop" -> "rest"
      [] OTHER -> "respond"
Return(t) == IF AfterIdle(t) = "rest" THEN Rest(t) ELSE Goto(t, AfterIdle(t))

IdleCheck(t) ==
    /\ At(t, "idle")
    /\ IF active = {} THEN Return(t) ELSE Goto(t, "scan")
    /\ UNCHANGED <<proc, db, lock, bounds>>

IdleLock(t) ==
    /\ At(t, "idleLock")
    /\ IF CanAcquire(ProcOf[t])
       THEN Acquire(ProcOf[t]) /\ Goto(t, "idleStop")
       ELSE Return(t) /\ UNCHANGED lock
    /\ UNCHANGED <<proc, db, bounds>>

(* Mutant: role-none services are stopped too.                             *)
IdleStopAll(t) ==
    /\ At(t, "idleStop")
    /\ \E k \in Victims(active) : Kill(k)
    /\ pid' = None
    /\ th' = [th EXCEPT ![t].pc = "idleWait", ![t].seen = active]
    /\ UNCHANGED <<active, profile, target, drift, lock, bounds>>

(* The served GPU models are stopped and the tracked pids dropped.         *)
IdleStop(t) ==
    /\ At(t, "idleStop")
    /\ \E k \in Victims(active \cap Gpu) : Kill(k)
    /\ pid' = None
    /\ th' = [th EXCEPT ![t].pc = "idleWait", ![t].seen = active]
    /\ UNCHANGED <<active, profile, target, drift, lock, bounds>>

(* GPU memory is back to its baseline: nothing is up on the GPU.           *)
IdleFreed(t) ==
    /\ At(t, "idleWait")
    /\ Serving \cap Gpu = {}
    /\ Goto(t, "idleWrite")
    /\ UNCHANGED <<proc, db, lock, bounds>>

(* It is not: force_kill_all.                                              *)
IdleForced(t) ==
    /\ At(t, "idleWait")
    /\ Fault(IF Running \cap Gpu = {} THEN 1 ELSE 0)
    /\ ForceKill
    /\ Goto(t, "idleWrite")
    /\ UNCHANGED <<active, profile, target, drift, lock, requests, misses, deaths>>

(* Nor after that: the switch fails.                                       *)
IdleStuck(t) ==
    /\ At(t, "idleWait")
    /\ Fault(1)
    /\ ForceKill
    /\ profile' = "error"
    /\ Release(ProcOf[t])
    /\ Return(t)
    /\ UNCHANGED <<active, target, drift, requests, misses, deaths>>

(* Only the role-none services of the list read before the stops remain.   *)
IdleWrite(t) ==
    /\ At(t, "idleWrite")
    /\ active' = th[t].seen \ Gpu
    /\ profile' = "idle"
    /\ pid' = None
    /\ Release(ProcOf[t])
    /\ Return(t)
    /\ UNCHANGED <<proc, target, drift, bounds>>

-----------------------------------------------------------------------------
(* stop_service and stop_independent.                                      *)

StopCheck(t) ==
    LET m == th[t].m IN
    /\ At(t, "stop")
    /\ IF m \notin active THEN Rest(t)
       ELSE Goto(t, IF m \in Gpu /\ GpuMode(active) = "exclusive"
                    THEN "idle" ELSE "stopKill")
    /\ UNCHANGED <<proc, db, lock, bounds>>

StopKill(t) ==
    /\ At(t, "stopKill")
    /\ StopProcesses({th[t].m})
    /\ Goto(t, "stopRead")
    /\ UNCHANGED <<active, profile, target, drift, lock, bounds>>

StopRead(t) ==
    /\ At(t, "stopRead")
    /\ th' = [th EXCEPT ![t].pc = "stopWrite", ![t].seen = active \ {th[t].m}]
    /\ UNCHANGED <<proc, db, lock, bounds>>

(* The last service gone, a GPU stop goes idle.                            *)
StopWrite(t) ==
    /\ At(t, "stopWrite")
    /\ active' = th[t].seen
    /\ profile' = IF active' = {} /\ th[t].m \in Gpu THEN "idle" ELSE profile
    /\ Rest(t)
    /\ UNCHANGED <<proc, target, pid, drift, lock, bounds>>

-----------------------------------------------------------------------------
(* force_reset: stop everything, kill everything, clear everything.  The   *)
(* lock file is unlinked, so the next acquire of any process gets a new    *)
(* one, and this process releases once whether or not it held it.          *)

ResetStop(t) ==
    /\ At(t, "reset")
    /\ StopProcesses(active)
    /\ Goto(t, "resetKill")
    /\ UNCHANGED <<active, profile, target, drift, lock, bounds>>

ResetKill(t) ==
    /\ At(t, "resetKill")
    /\ ForceKill
    /\ Goto(t, "resetWrite")
    /\ UNCHANGED <<active, profile, target, drift, lock, bounds>>

ResetWrite(t) ==
    LET p == ProcOf[t] IN
    /\ At(t, "resetWrite")
    /\ active' = {}
    /\ profile' = "idle"
    /\ target' = None
    /\ pid' = None
    /\ depth' = [depth EXCEPT ![p] = IF @ > 0 THEN @ - 1 ELSE 0]
    /\ locker' = {}
    /\ Rest(t)
    /\ UNCHANGED <<proc, drift, bounds>>

-----------------------------------------------------------------------------
(* An InferFabric process dies: its threads and its flock are gone, the    *)
(* database and the servers (start_new_session) stay.                      *)
Dies(p) ==
    /\ deaths < MaxDeaths
    /\ deaths' = deaths + 1
    /\ th' = [t \in Threads |-> IF ProcOf[t] = p THEN Resting ELSE th[t]]
    /\ depth' = [depth EXCEPT ![p] = 0]
    /\ locker' = locker \ {p}
    /\ UNCHANGED <<proc, db, requests, faults, misses>>

Switching(t) ==
    \/ Enter(t) \/ Validate(t) \/ Guard(t) \/ Gate(t) \/ Begin(t) \/ Refused(t)
    \/ Deploy(t) \/ DeployRefused(t) \/ DeployFailStop(t)
    \/ DeployFailWrite(t) \/ Deployed(t)
    \/ RetireStop(t) \/ RetireWrite(t) \/ Rollback(t)
    \/ Add(t) \/ AddRefused(t) \/ AddRead(t) \/ AddWrite(t)
    \/ Finish(t) \/ Respond(t)
Starting(t) == StartHealthy(t) \/ StartExits(t) \/ StartTimesOut(t)
Reconciling(t) == ReconcileScan(t) \/ ReconcileApply(t)
Idling(t) ==
    \/ IdleCheck(t) \/ IdleLock(t) \/ IdleStop(t) \/ IdleFreed(t)
    \/ IdleForced(t) \/ IdleStuck(t) \/ IdleWrite(t)
Stopping(t) == StopCheck(t) \/ StopKill(t) \/ StopRead(t) \/ StopWrite(t)
Resetting(t) == ResetStop(t) \/ ResetKill(t) \/ ResetWrite(t)

Works(t) ==
    \/ Switching(t) \/ Starting(t) \/ Reconciling(t)
    \/ Idling(t) \/ Stopping(t) \/ Resetting(t)

Next ==
    \/ \E t \in Threads : Works(t) \/ Request(t) \/ MonitorTick(t)
    \/ \E m \in Models : Loaded(m) \/ ServerDies(m) \/ EditConfig(m)
    \/ \E p \in Procs : Dies(p)

Spec == Init /\ [][Next]_vars

(* Every wait of the code has a timeout, so a thread that has work goes    *)
(* on; a loading server comes up, or the fault budget pays for its death;  *)
(* the HealthMonitor loop ticks for as long as the gateway runs.           *)
FairSpec ==
    /\ Spec
    /\ \A t \in Threads : WF_vars(Works(t)) /\ WF_vars(MonitorTick(t))
    /\ \A m \in Models : WF_vars(Loaded(m))

-----------------------------------------------------------------------------
TypeOK ==
    /\ proc \in [Models -> {Down, Loading, Up}]
    /\ active \subseteq Models
    /\ profile \in {"idle", "healthy", "switching", "error"}
    /\ target \in Models \cup {None}
    /\ pid \in Models \cup {None, Dead}
    /\ drift \subseteq Models
    /\ depth \in [Procs -> Nat]
    /\ locker \subseteq Procs
    /\ th \in [Threads ->
          [pc : Locations, kind : Kinds \cup {"none"}, m : Models \cup {None},
           mode : {"idle", "exclusive", "shared"}, seen : SUBSET Models,
           was : SUBSET Models, own : BOOLEAN, ok : BOOLEAN]]
    /\ requests \in 0 .. MaxRequests /\ faults \in 0 .. MaxFaults
    /\ misses \in 0 .. MaxMisses /\ deaths \in 0 .. MaxDeaths

AtRest == \A t \in Threads : At(t, "rest")

(***************************************************************************)
(* "you can't accidentally start two exclusive models": while the server   *)
(* of an exclusive model runs, no other GPU server does.  It takes the     *)
(* transition table, the occupancy guard and the clean-up of every failed  *)
(* start together.                                                         *)
(***************************************************************************)
OneTenant ==
    \A m, n \in Running \cap Gpu :
        RoleOf[m] = "exclusive" => n = m

(***************************************************************************)
(* Between requests no GPU server runs that active_services does not list, *)
(* unless a probe was missed: nothing is left behind by failed deploys,    *)
(* rollbacks and stops.                                                    *)
(***************************************************************************)
GpuAccounted == AtRest /\ misses = 0 => Running \cap Gpu \subseteq active

(***************************************************************************)
(* After a request the gate is open again and the profile no longer says   *)
(* SWITCHING, whatever path the switch took; a restart for changed         *)
(* configuration whose stop failed is apart: it may leave SWITCHING.       *)
(***************************************************************************)
GateReopens ==
    AtRest => target = None /\ (profile = "switching" => drift # {})

(***************************************************************************)
(* GPU operations never stop a role-none server: one goes down by itself,  *)
(* by its own stop or by a reset.                                          *)
(***************************************************************************)
NoneUndisturbed ==
    [][\A m \in Models \ Gpu :
          m \in Running /\ m \notin Running' =>
              \/ faults' > faults
              \/ \E t \in Workers :
                    \/ th[t].kind = "reset"
                    \/ th[t].kind = "stop" /\ th[t].m = m]_vars

(***************************************************************************)
(* "Preserve gpu_role=none services in active_services": one that is       *)
(* served and up stays listed through switches, swaps, rollbacks and idle, *)
(* but for its own stop, a reset, a scan that did not see it, and the      *)
(* clean-up of a failed deploy, which empties the list.                    *)
(***************************************************************************)
NonePreserved ==
    [][\A m \in (active \cap Serving) \ Gpu :
          \/ m \in active'
          \/ \E t \in Threads :
                \/ At(t, "apply") /\ m \notin th[t].seen
                \/ At(t, "failWrite")
                \/ th[t].kind = "reset"
                \/ th[t].kind = "stop" /\ th[t].m = m]_vars

(***************************************************************************)
(* "shared: stops just that service".                                      *)
(***************************************************************************)
StopIsolated ==
    [][\A t \in Workers :
          StopKill(t) => Serving \subseteq Serving' \cup {th[t].m}]_vars

\* Inside the code between a successful acquire() and its release().
InSection(t) ==
    \/ At(t, "idleStop") \/ At(t, "idleWait") \/ At(t, "idleWrite")
    \/ /\ th[t].m \in Gpu
       /\ th[t].pc \in {"deploy", "starting", "failStop", "failWrite",
                        "deployed", "retire", "retireWrite",
                        "rollback", "add", "addRead", "addWrite", "finish"}

(***************************************************************************)
(* Every acquire() of the switch and idle paths is matched by one          *)
(* release(), whichever way they end (no reset).                           *)
(***************************************************************************)
LockBalanced ==
    \A p \in Procs :
        depth[p] = Cardinality({t \in Threads : ProcOf[t] = p /\ InSection(t)})

(***************************************************************************)
(* The locked parts of switches never run in two processes at a time (no   *)
(* reset).                                                                 *)
(***************************************************************************)
OneProcessSwitches ==
    \A t, u \in Threads :
        InSection(t) /\ InSection(u) => ProcOf[t] = ProcOf[u]

(***************************************************************************)
(* When requests, faults and deaths come to an end, the reconciler makes   *)
(* the database agree with the servers for good, and leaves no switch      *)
(* target behind to refuse the next request.                               *)
(***************************************************************************)
Settled ==
    /\ active = Running
    /\ profile = IF active = {} THEN "idle" ELSE "healthy"
    /\ target = None
Settles == <>[]Settled

(***************************************************************************)
(* Every request is answered.                                              *)
(***************************************************************************)
Answered == \A t \in Workers : ~At(t, "rest") ~> At(t, "rest")
=============================================================================
