-------------------------------- MODULE Tune --------------------------------
(***************************************************************************)
(* Scenario tuning of one model (tune.py; the hooks of engine_adapter/     *)
(* ninfer.py; handler.py and cli.py, its two callers; config.py, which     *)
(* lays the applied layer over the model's YAML).                          *)
(*                                                                         *)
(* apply() previews and checks the scenario, takes the flock of the        *)
(* applied layer, writes the scenario there and restarts the engine        *)
(* through the GPU state machine: stop_service, which refuses a service    *)
(* that is not active, then switch, which checks that it is not active,    *)
(* takes the GPU lock, reads YAML and applied layer from disk and starts   *)
(* the container.  A failed restart or smoke test writes the previous      *)
(* entry back and restarts once more.  The gateway, an `iff tune` command, *)
(* requests and commands that deploy or stop the model, deaths and edits   *)
(* of the YAML interleave.                                                 *)
(*                                                                         *)
(* A scenario sets some of the engine's fields.  Its values are those      *)
(* after _clamp; scenarios.yaml does not change, and reading the disk does *)
(* not fail.  Of the registries in memory only what the check reads is     *)
(* kept: the gateway loads its own for each request, a command when it     *)
(* starts and before it asks for confirmation, a deployment once more.     *)
(* The model is an exclusive one, the only one that is deployed meanwhile: *)
(* switching_target, which restart clears again when switch has returned   *)
(* (ninfer.py:182), keeps out switches to other models only.               *)
(***************************************************************************)
EXTENDS Integers

CONSTANTS
    Tuners,         \* callers of apply()
    Deployers,      \* other callers of switch()
    Commands,       \* those of both that are processes of their own, `iff
                    \* tune` and `iff switch`; the others are gateway threads
    Fields,         \* scenario_fields
    Scenarios,      \* preset -> the values it sets, after _clamp
    MtpPresets,     \* presets with draft_tokens > 1
    Yamls,          \* contents the model's YAML takes: Fields -> value
    Default, Off, None,
    MaxFaults,      \* bound: stops, starts and smoke tests that fail
    MaxEdits,       \* bound: edits of the YAML
    MaxDeaths       \* bound: processes that die

Callers == Tuners \cup Deployers
Presets == DOMAIN Scenarios
Entries == Presets \cup {Default}

ASSUME ScenariosAssumption ==
    /\ \A p \in Presets :
          /\ DOMAIN Scenarios[p] \subseteq Fields
          /\ \A f \in DOMAIN Scenarios[p] : Scenarios[p][f] \in Nat
    /\ Commands \subseteq Callers /\ Tuners \cap Deployers = {}
    /\ Yamls \subseteq [Fields -> Nat]
    /\ {"kv_capacity", "max_context"} \subseteq Fields
    /\ {Off, Default, None} \cap Presets = {} /\ None \notin Callers
    /\ Off # Default /\ None # Default
    /\ {MaxFaults, MaxEdits, MaxDeaths} \subseteq Nat

VARIABLES
    yaml,           \* the engine block of the model's YAML
    file,           \* the model's entry in active_scenarios.yaml
    running,        \* the entry the engine was started with, or Off
    active,         \* is the model in active_services?
    lock,           \* who holds the flock of _applied_lock, or None
    pc,             \* where a caller is in apply() or switch()
    got,            \* the entry its deployment has read
    seen,           \* a command: the pool in the registry it has loaded
    want, restart,  \* its preset and its restart flag
    prev,           \* prev_entry: the entry it found under the lock
    undo,           \* "no", or what it is rolling back: "restart", "smoke"
    result,         \* the status the last call returned
    pending,        \* file and engine were left apart
    faults, edits, deaths

call == <<seen, want, restart, prev, undo, result>>
bounds == <<faults, edits, deaths>>
vars == <<yaml, file, running, active, got, lock, pc, seen, want, restart, prev, undo,
          result, pending, faults, edits, deaths>>

\* _merge_applied_layers: the values an engine started now would get.
Overlay(e) ==
    [f \in Fields |-> IF e # Default /\ f \in DOMAIN Scenarios[e]
                      THEN Scenarios[e][f] ELSE yaml[f]]

\* The engine's own validation.
Startable(e) == Overlay(e)["kv_capacity"] >= Overlay(e)["max_context"]

\* _target_values: default stands for all the fields of the YAML.
Target(p) == IF p = Default THEN yaml ELSE Scenarios[p]

\* validate_scenario: an error when the KV pool is below the window.  The
\* pool of a scenario that does not set it is that of the registry.
Pool == Overlay(file)["kv_capacity"]
Blocking(p, pool) ==
    LET values == Target(p)
        kv == IF "kv_capacity" \in DOMAIN values THEN values["kv_capacity"] ELSE pool
    IN "max_context" \in DOMAIN values /\ kv < values["max_context"]

Init ==
    /\ yaml \in Yamls /\ file = Default
    /\ \/ running = Off /\ active = FALSE
       \/ running = Default /\ active = TRUE /\ Startable(Default)
    /\ lock = None
    /\ pc = [c \in Callers |-> "idle"]
    /\ got = [c \in Callers |-> Default]
    /\ seen = [t \in Tuners |-> 0]
    /\ want = [t \in Tuners |-> Default]
    /\ restart = [t \in Tuners |-> FALSE]
    /\ prev = [t \in Tuners |-> Default]
    /\ undo = [t \in Tuners |-> "no"]
    /\ result = "none"
    /\ pending = FALSE
    /\ faults = 0 /\ edits = 0 /\ deaths = 0

At(c, place) == pc[c] = place
Go(c, place) == pc' = [pc EXCEPT ![c] = place]

\* The call is over, with its local state; the flock goes with it.
Forget(C) ==
    /\ pc' = [c \in Callers |-> IF c \in C THEN "idle" ELSE pc[c]]
    /\ got' = [c \in Callers |-> IF c \in C THEN Default ELSE got[c]]
    /\ lock' = IF lock \in C THEN None ELSE lock
    /\ seen' = [t \in Tuners |-> IF t \in C THEN 0 ELSE seen[t]]
    /\ want' = [t \in Tuners |-> IF t \in C THEN Default ELSE want[t]]
    /\ restart' = [t \in Tuners |-> IF t \in C THEN FALSE ELSE restart[t]]
    /\ prev' = [t \in Tuners |-> IF t \in C THEN Default ELSE prev[t]]
    /\ undo' = [t \in Tuners |-> IF t \in C THEN "no" ELSE undo[t]]

Return(t, status) == Forget({t}) /\ result' = status

Fault == faults < MaxFaults /\ faults' = faults + 1

\* ------------------------------------------------------------------ apply()

\* preview() under a registry with this pool; what blocks is refused.
Preview(t, p, r, pool) ==
    /\ ~Blocking(p, pool)
    /\ want' = [want EXCEPT ![t] = p]
    /\ restart' = [restart EXCEPT ![t] = r]
    /\ seen' = [seen EXCEPT ![t] = 0]
    /\ Go(t, "lock")
    /\ UNCHANGED <<yaml, file, running, active, got, lock, prev, undo, result, pending,
                   bounds>>

\* POST /admin/tune reads the registry again and applies.
GatewayTunes(t, p, r) == At(t, "idle") /\ t \notin Commands /\ Preview(t, p, r, Pool)

\* `iff tune` loads the registry, shows the difference and asks.
CommandAsks(t) ==
    /\ At(t, "idle") /\ t \in Commands
    /\ seen' = [seen EXCEPT ![t] = Pool]
    /\ Go(t, "asks")
    /\ UNCHANGED <<yaml, file, running, active, got, lock, want, restart, prev, undo,
                   result, pending, bounds>>

CommandTunes(t, p, r) == At(t, "asks") /\ Preview(t, p, r, seen[t])

CommandCancels(t) ==
    /\ At(t, "asks")
    /\ seen' = [seen EXCEPT ![t] = 0]
    /\ Go(t, "idle")
    /\ UNCHANGED <<yaml, file, running, active, got, lock, want, restart, prev, undo,
                   result, pending, bounds>>

\* Mutant: the flock is not waited for.
LockedAnyway(t) == At(t, "lock")

Locked(t) == At(t, "lock") /\ lock = None

\* default without an entry, and no engine to restart: nothing to do.
Nothing(t) == want[t] = Default /\ file = Default /\ ~(restart[t] /\ active)

AlreadyDefault(t) ==
    /\ Locked(t) /\ Nothing(t)
    /\ Return(t, "already_default")
    /\ UNCHANGED <<yaml, file, running, active, pending, bounds>>

\* _save_applied_entry, by rename.
Write(t) ==
    /\ Locked(t) /\ ~Nothing(t)
    /\ file' = want[t]
    /\ IF restart[t]
       THEN /\ lock' = t /\ Go(t, "stop")
            /\ prev' = [prev EXCEPT ![t] = file]
            /\ UNCHANGED <<got, seen, want, restart, undo, result, pending>>
       ELSE /\ Return(t, "restart_pending")
            /\ pending' = TRUE
    /\ UNCHANGED <<yaml, running, active, bounds>>

\* -------------------------------------------------------- adapter.restart

\* self._lock.acquire() comes through: reentrant in the gateway, whose
\* threads may be in their deployments together, refused between processes.
GpuFree(c) ==
    \A d \in Callers \ {c} :
        pc[d] \in {"boot", "doomed"} => {c, d} \cap Commands = {}

\* stop_service: only a service that is active can be stopped.
StopEngine(t) ==
    /\ At(t, "stop") /\ active /\ GpuFree(t)
    /\ running' = Off /\ active' = FALSE
    /\ Go(t, "switch")
    /\ UNCHANGED <<yaml, file, got, lock, call, pending, bounds>>

\* switch: "already_active" is not a success for tune.
Switch(t) ==
    /\ At(t, "switch") /\ ~active
    /\ Go(t, "deploy")
    /\ UNCHANGED <<yaml, file, running, active, got, lock, call, pending, bounds>>

\* _deploy_model, under the GPU lock: YAML and applied layer are read.  What
\* the engine refuses is doomed.
DeployReads(c) ==
    /\ At(c, "deploy") /\ GpuFree(c)
    /\ got' = [got EXCEPT ![c] = file]
    /\ Go(c, IF Startable(file) THEN "boot" ELSE "doomed")
    /\ UNCHANGED <<yaml, file, running, active, lock, call, pending, bounds>>

\* A deployment beside this one is about to replace the container by one
\* with another entry than the file has now.
Overtaken(c) == \E d \in Callers \ {c} : At(d, "boot") /\ got[d] # file

\* A container of the same name is stopped, then this one runs.
Started(c) == At(c, "boot") /\ running' = got[c] /\ active' = TRUE

\* It does not come up: it is stopped by its name, whoever started it, and
\* active_services is emptied.  No memory for it: nothing has been touched.
StartFails(c) ==
    \/ /\ (At(c, "boot") /\ Fault) \/ (At(c, "doomed") /\ UNCHANGED faults)
       /\ running' = Off /\ active' = FALSE
    \/ At(c, "deploy") /\ Fault /\ UNCHANGED <<running, active>>
    \/ At(c, "deploy") /\ ~GpuFree(c) /\ UNCHANGED <<running, active, faults>>

Status(t) ==
    IF undo[t] = "smoke" THEN "rolled_back"
    ELSE IF undo[t] = "restart" THEN "failed_rolled_back"
    ELSE IF want[t] # Default THEN "applied"
    ELSE IF prev[t] = Default THEN "restarted" ELSE "rolled_back"

StartEngine(t) ==
    /\ Started(t)
    /\ pending' = Overtaken(t)
    /\ IF undo[t] = "no" /\ want[t] \in MtpPresets
       THEN Go(t, "smoke") /\ UNCHANGED <<got, lock, call>>
       ELSE Return(t, Status(t))
    /\ UNCHANGED <<yaml, file, bounds>>

\* Every way in which adapter.restart does not succeed.
RestartError(t) ==
    \/ At(t, "stop") /\ ~(active /\ GpuFree(t)) /\ UNCHANGED <<running, active, faults>>
    \/ At(t, "stop") /\ Fault /\ running' \in {running, Off} /\ UNCHANGED active
    \/ At(t, "switch") /\ active /\ UNCHANGED <<running, active, faults>>
    \/ StartFails(t)

\* ------------------------------------------------------- what follows it

\* Mutant: the failed scenario stays in the applied layer.
NotRestored(t) == file' = file

\* _restore_previous writes the previous entry back.
Restored(t) == file' = prev[t]

RestartFails(t) ==
    /\ undo[t] = "no" /\ RestartError(t)
    /\ Restored(t)
    /\ undo' = [undo EXCEPT ![t] = "restart"]
    /\ Go(t, "stop")
    /\ UNCHANGED <<yaml, got, lock, seen, want, restart, prev, result, pending, edits,
                   deaths>>

SmokePasses(t) ==
    /\ At(t, "smoke")
    /\ Return(t, "applied")
    /\ UNCHANGED <<yaml, file, running, active, pending, bounds>>

SmokeFails(t) ==
    /\ At(t, "smoke") /\ Fault
    /\ Restored(t)
    /\ undo' = [undo EXCEPT ![t] = "smoke"]
    /\ Go(t, "stop")
    /\ UNCHANGED <<yaml, running, active, got, lock, seen, want, restart, prev, result,
                   pending, edits, deaths>>

\* The rollback's own restart fails; after a smoke test the status is
\* "rolled_back" all the same.
RollbackFails(t) ==
    /\ undo[t] # "no" /\ RestartError(t)
    /\ Return(t, IF undo[t] = "smoke" THEN "rolled_back" ELSE "failed_rollback_failed")
    /\ pending' = TRUE
    /\ UNCHANGED <<yaml, file, edits, deaths>>

\* ------------------------------------------------------------- the others

\* A request or a command deploys the model.
DeployAsked(d) ==
    /\ At(d, "idle") /\ ~active
    /\ Go(d, "deploy")
    /\ UNCHANGED <<yaml, file, running, active, got, lock, call, pending, bounds>>

DeployStarts(d) ==
    /\ Started(d)
    /\ pending' = (pending /\ (running' # file \/ Overtaken(d)))
    /\ Forget({d})
    /\ UNCHANGED <<yaml, file, result, bounds>>

DeployFails(d) ==
    /\ StartFails(d)
    /\ Forget({d})
    /\ UNCHANGED <<yaml, file, result, pending, edits, deaths>>

\* Somebody stops it, or it dies and leaves its row.
Stop ==
    /\ running # Off
    /\ running' = Off /\ active' \in {active, FALSE}
    /\ UNCHANGED <<yaml, file, got, lock, pc, call, pending, bounds>>

\* reconcile() writes what a scan saw: the engine answered at the time, or
\* it was off or did not answer.
Reconcile ==
    /\ active' = ~active
    /\ UNCHANGED <<yaml, file, running, got, lock, pc, call, pending, bounds>>

Edit ==
    /\ edits < MaxEdits /\ edits' = edits + 1
    /\ yaml' \in Yamls \ {yaml}
    /\ UNCHANGED <<file, running, active, got, lock, pc, call, pending, faults, deaths>>

\* A process dies, the gateway with all its threads.  The kernel gives the
\* flocks back; a container that was being started may have come up.
Processes == {{c} : c \in Commands} \cup {Callers \ Commands}

Die(C) ==
    /\ deaths < MaxDeaths /\ deaths' = deaths + 1
    /\ \E c \in C : pc[c] \notin {"idle", "asks"}
    /\ running' \in {running} \cup {got[c] : c \in {d \in C : At(d, "boot")}}
    /\ pending' = (pending \/ lock \in C)
    /\ Forget(C) /\ result' = "none"
    /\ UNCHANGED <<yaml, file, active, faults, edits>>

Apply(t) ==
    \/ \E p \in Entries, r \in BOOLEAN : GatewayTunes(t, p, r) \/ CommandTunes(t, p, r)
    \/ CommandAsks(t) \/ CommandCancels(t)
    \/ AlreadyDefault(t) \/ Write(t)
    \/ StopEngine(t) \/ Switch(t) \/ DeployReads(t) \/ StartEngine(t)
    \/ RestartFails(t) \/ SmokePasses(t) \/ SmokeFails(t) \/ RollbackFails(t)

Deploy(d) == DeployAsked(d) \/ DeployReads(d) \/ DeployStarts(d) \/ DeployFails(d)

Next ==
    \/ \E t \in Tuners : Apply(t)
    \/ \E d \in Deployers : Deploy(d)
    \/ Stop \/ Reconcile \/ Edit
    \/ \E C \in Processes : Die(C)

Spec == Init /\ [][Next]_vars

\* -------------------------------------------------------------- properties

TypeOK ==
    /\ yaml \in [Fields -> Nat] /\ file \in Entries
    /\ running \in Entries \cup {Off} /\ active \in BOOLEAN
    /\ lock \in Tuners \cup {None}
    /\ pc \in [Callers -> {"idle", "asks", "lock", "stop", "switch", "deploy", "boot",
                           "doomed", "smoke"}]
    /\ got \in [Callers -> Entries]
    /\ seen \in [Tuners -> Nat]
    /\ want \in [Tuners -> Entries] /\ prev \in [Tuners -> Entries]
    /\ restart \in [Tuners -> BOOLEAN] /\ undo \in [Tuners -> {"no", "restart", "smoke"}]
    /\ pending \in BOOLEAN

(***************************************************************************)
(* "The applied layer is what the container runs" (D5), on which the       *)
(* dashboard relies: when no tuning is in progress, a running engine was   *)
(* started with the entry of the file, unless a tuning was told not to     *)
(* restart, died, could not restart after its rollback, or started its     *)
(* engine while another thread of the gateway was starting one.            *)
(***************************************************************************)
FileIsContainer ==
    lock = None /\ running # Off /\ ~pending => running = file

(***************************************************************************)
(* A tuning leaves what it reports, under the same exceptions: when it     *)
(* has not rolled back, its preset in the file and nothing else running;   *)
(* when it has, for a restart or a smoke test that failed, the entry that  *)
(* it found under the lock.                                                *)
(***************************************************************************)
Holders == {t \in Tuners : lock = t}
Left(t) == IF undo[t] = "no" THEN want[t] ELSE prev[t]
ReportTrue ==
    [][\A t \in Holders : lock' # t /\ result' # "none" =>
          /\ file' = Left(t)
          /\ pending' \/ running' \in {Left(t), Off}]_vars

(***************************************************************************)
(* "Unset means the fixed value of the model's YAML": a scenario that the  *)
(* check let pass, on a YAML nobody edits, is one the engine accepts.      *)
(***************************************************************************)
CheckedStarts == \A t \in Tuners : ~At(t, "doomed")

(***************************************************************************)
(* "A failed restart or smoke test restores the entry and restarts with    *)
(* it" (tune.py:12): when only one thing fails, the rollback's restart     *)
(* does not fail too.  The code's does, for the engine is off by then.     *)
(***************************************************************************)
RollbackRestarts == faults <= 1 => result # "failed_rollback_failed"

(***************************************************************************)
(* A call that says "rolled_back" does not leave the failed preset         *)
(* running.                                                                *)
(***************************************************************************)
RollbackRuns ==
    [][\A t \in Holders :
          lock' # t /\ result' = "rolled_back" => running' = file']_vars
=============================================================================
