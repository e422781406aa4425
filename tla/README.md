# InferFabric in TLA+

InferFabric is a gateway for LLM servers on one GPU host. It starts and stops
inference servers (vLLM, llama.cpp, ...), decides which of them may share the
GPU, and forwards OpenAI- and Anthropic-style requests to them under rate and
concurrency limits. Its state is spread over a SQLite database, a lock file,
in-memory counters of a many-threaded gateway, and the operating system's
processes; `iff` commands change the same state from other processes.

This directory models that state and the steps that change it, checks the
models with TLC on small instances, and proves the most important invariants
with TLAPS for all instances. Paths below are relative to `src/inferfabric/`
unless they start with `src/`.

## Inventory

What each part keeps, does, talks to, and what makes it correct.

| part | state | operations | interacts with | hard part | correct when |
|---|---|---|---|---|---|
| GPU lock (`gpu_lock.py`) | lock file, flock, `_fd`, reentrancy count | `acquire`, `release`, `force_clear` | switch paths of the gateway's threads and of `iff` | threads share one unprotected object; death inside; unlink while locked | mutual exclusion, no leaked flock, always returned |
| switch machine (`manager.py`, `model_lifecycle.py`, `gpu_state.py`) | `active_services`, `profile_state`, `switching_target`, pid keys, config hashes | `switch`, deploy, swap and rollback, shared add, independent start, idle, stop, `reconcile`, `force_reset`, sleep and wake | database, process managers, health probes, lock | minutes pass between reads and writes; failures at every step; two actors | one exclusive tenant, nothing left running unlisted, gate reopens, state converges |
| state database (`state.py`, `db.py`, `migrations/`) | SQLite key/value, histories | get/set, add/remove service, manual stops | all of the above | read-modify-write without a transaction | callers' invariants |
| process managers (`process_manager/`) | tracked process group, PID files | start, stop by group and by port, force kill | servers | one pid key for all vLLM servers | a stop stops what it says |
| health probing, monitor (`health.py`, `health_monitor.py`, `health_checker.py`) | none; a thread | scan, wait, periodic reconcile | servers, switch machine | false negatives; scan older than the state it overwrites | convergence |
| rate and concurrency gates (`ratelimit.py`) | token buckets, semaphores, what a request holds | `acquire`, `GateResult.release`, refill | every forwarded request | partial acquisition, time-outs, give-back paths | permits conserved, bounds kept, everything drains |
| HTTP handlers, routing (`proxy/handler.py`, `proxy/chat_handlers.py`, `forwarder.py`) | per request | route, gate, retry, forward, log | gates, replicas, auto-switch, cloud | retries after partial responses, `finally` clauses | one answer, everything taken is released |
| auto-switch (`proxy_manager.py`) | `_switch_lock`, cooldown, manual stops | `ensure_service` | switch machine | writes `switching_target` outside the GPU lock | no switch storms, no lost target |
| edge server (`proxy/async_server.py`, `proxy/sse_buffer.py`) | bounded queue, sink buffer | enqueue from a worker thread, pump on the event loop, disconnect | handlers, client | full queue, dropped end marker, disconnect | prefix delivery, every stream ends |
| sleep and wake (`model_lifecycle.py`, `engine_adapter/vllm.py`) | sleep states | sleep, wake | switch machine | a second truth beside `active_services` | a woken model is served |
| replicas (`proxy/replica_selector.py`) | in-flight counts, health | select, release | handlers | one select, several releases; a shared `port` field | counts match requests in flight |
| watchdog (`watchdog.py`) | failure counts, restarting set | check, restart | switch machine | races with monitor and user | failed model restarted or reported |
| request log, statistics (`proxy/request_logger.py`, `request_log_db.py`, `token_stats.py`, ...) | buffer, SQLite | log, flush, aggregate | handlers | failed flush, overflow, last flush | no record twice; losses only by the cap |
| response cache (`proxy/response_cache.py`) | LRU map | get, put | handlers | concurrent use | bounded, no stale answer |
| configuration (`config.py`, `config_watcher.py`, `config_reloader.py`) | parsed YAML, hashes | load, drift, reload | switch machine | reload while in use | all or nothing |
| tuning (`tune.py`, `engine_adapter/ninfer.py`) | applied layer (a file with a flock) | preview, apply, roll back | switch machine, `iff tune` | the file is written before the restart that needs it | the file says what runs |
| cloud (`cloud_discovery.py`) | providers, registry of routed models, `cloud_provider.yaml`, `secrets.env` | discover, poll, add, drop, curate, save, reload | handlers, SIGHUP, providers | three truths (memory, registry, file), network waits between reads and writes | file and registry agree with memory |
| the rest: other adapters, auth, counters and metrics, agent registry, CLI, dashboard | little | stateless dispatch, counters, text | - | - | - |

`PROJECT.json` lists the parts again with the status of each, and under
"hazards" what of it is hard to test, at its line.

## Modules

| module | models | composed of |
|---|---|---|
| `GpuMutex` | what a lock promises: one holder, the holder may die | - |
| `GpuLock` | `gpu_lock.py` step by step, with threads, processes, deaths | refines `GpuMutex` |
| `GpuLockProofs` | theorems about `GpuLock` | `GpuLock` |
| `GpuSwitch` | `switch`, idle, stop, reconcile, reset over database and servers | the lock as `GpuLock` provides it when it works |
| `GpuSwitchProofs` | theorems about `GpuSwitch` | `GpuSwitch` |
| `DualGate` | the gates of `ratelimit.py` under concurrent requests | - |
| `DualGateProofs` | theorems about `DualGate` | `DualGate` |
| `EdgeStream` | one forwarded request on the edge: worker thread, sink, event loop, queue, pump, client | - |
| `EdgeStreamProofs` | theorems about `EdgeStream` | `EdgeStream` |
| `Supervisor` | everyone who starts and stops models: auto-switching requests, user, sleep and wake, watchdog, monitor | the switch of `GpuSwitch` in two steps |
| `Forward` | one inference request in its thread, every protocol: refusals, cache, replica, gate, attempts, log row | the gate of `DualGate` as a counter |
| `RequestProofs` | theorems about `Forward`, and about the switches of requests in `Supervisor` | `Forward`; `Supervisor` as the instance `S` |
| `RequestLog` | the buffered request log, its database and the dashboard's window | - |
| `RequestLogProofs` | theorems about `RequestLog` | `RequestLog` |
| `Tune` | scenario tuning: applied layer, restart, smoke test, rollback | the switch as stop, check and start under the GPU lock |
| `TuneProofs` | theorems about `Tune` | `Tune` |
| `CloudRegistry` | cloud providers: discovery, polling, edits, saving, reload, keys | - |
| `CloudRegistryProofs` | theorems about `CloudRegistry` | `CloudRegistry` |
| `MCGpuLock`, `MCGpuSwitch`, `MCDualGate`, `MCEdgeStream`, `MCSupervisor`, `MCForward`, `MCRequestLog`, `MCTune`, `MCCloudRegistry` | small instances | |

The modules meet at narrow places, and each states there what the other checks.
`Supervisor` and `Tune` use a switch as `GpuSwitch` shows it to be (it ends, it
leaves one tenant or none, its lock is reentrant in the gateway); `GpuSwitch`
uses a lock that is what `GpuMutex` promises; `Forward` uses permits that
`DualGate` shows to be conserved, writes its rows to what `RequestLog` models,
and its reply goes through `EdgeStream` when the client came in on the edge.

### GpuLock

One action per point at which another thread can get in: opening the file,
`flock`, assigning `_fd`, and in `release` the unlock, the close and the
clearing of `_fd`. `owner` is the kernel's side (one lock per inode, held by one
open file description), `fd` and `count` the object's side. A file description
that is overwritten is closed by nobody but stays locked until its process dies,
as in the code. `force_clear` unlinks the path, so that later acquires create a
new inode. `acquire` with a timeout has no caller and is left out.

### GpuSwitch

Truth and belief: `proc` is what runs; `active`, `profile`, `target`, `pid`,
`drift` are the database's rows. Every thread has a program counter `th[t].pc`
and the values it has read (`seen`, `was`, `mode`); an action is what happens
between two waits or between a read and the write that depends on it. The
correspondence of actions and code lines is in the map of `PROJECT.json`.
Abstractions:

- A port belongs to one model (as in `models.d`). Exclusive and shared models
  are vLLM deployments under conda; role "none" are llama-server, which no pid
  key tracks.
- A health scan returns servers that are up, minus those whose probe times out
  (bounded by `MaxMisses`), plus perhaps those that answer 503 while loading.
- Killing by port is effective for a server that listens; a server that still
  loads may or may not listen.
- The lock is atomic and reentrant per process. `GpuLock` has its races.
- Merged into one step each: a scan and the database read next to it; the writes
  of `reconcile`; the writes of the end of a switch; the reading of role-none
  services and the launch after it; the guard's scan and its port check.
- Not modelled here: sleep and wake and manual stops (they are in `Supervisor`),
  Docker deployments, `auto_deploy`, `cleanup_dead_services` (no caller), the
  branch for exclusive services in `reconcile` that cannot be reached
  (`gpu_state.py:275-284`).

### DualGate

A request thread goes through the server's bucket, the bucket of the model it names, the
global semaphore and the model's semaphore, and releases in the handler's
`finally`. The limiter keys buckets and semaphores on the name in the request
(`proxy/handler.py:2095`, `proxy/chat_handlers.py:398`), while `find_model_by_served_name`
(`manager.py:218`) routes the served name and the configured one to the same model; so
`Names` and `Models` are apart, and `ModelOf` gives a model one name or two.
`settings` is chosen in `Init` and never changes, as the limiter
reads `iff.yaml` once. A wait for a semaphore may time out only while there is
nothing to take. Tokens arrive whole (the code adds fractions at each look).
Semaphores that the code creates at first use start with the same value.

### EdgeStream

Three actors share an exchange: the worker thread that runs the route and the
forwarder, the event loop that runs callbacks in the order they were scheduled,
and the pump, the request's coroutine, which may run between any two callbacks.
`ready` is the loop's list: the headers' event, `_put` of an item, the end of the
worker. `RunPut` is where a full queue drops its item and marks the client as
gone. Chunks are numbers in the order the worker writes them, and `origin` is the attempt
each belongs to; 0 is the end marker, which the last frame and the end of the worker both
send.

`route` is the code that forwards, for the three differ where an answer breaks off in the
middle. `chat` (`_forward_request`, Ollama's routes too) has sent its headers by then and
returns. `messages` (`forward_anthropic_local`) and `cloud` (`forward_to_cloud`) catch the
exception around the whole attempt and try again: the next answer's chunks follow in the
same sink, whose headers are locked, and after the last attempt the JSON of the error goes
into a sink that expects frames and never leaves it. A whole answer of the cloud that was
sent and whose usage cannot be read is one more failed attempt (`WriteBody`).

Exchanges share only the thread
pool, so one is enough. Left out: the bytes of the frames (three writes of the
forwarder that hand over one chunk are one step), the retries' pauses, the shutdown
of the server, and the buffered routes, which await one thread and send one body.

### Supervisor

Threads are request threads (`Callers`) and the watchdog's restart threads; the
watchdog's loop, the monitor and the passing of time are actions without a
thread. `server` is the truth: off, loading, up, hung or asleep. `active`,
`sleeping`, `target`, `profile`, `stops` and `pid` are rows, `switchLock` and
`cooling` are `ProxyManager`'s, `fails`, `total`, `backoff` and `restarting` the
watchdog's. A caller is given a job: `ensure` (a request for a model), or one of
the user's. `Call` is `ModelManager.switch` up to the launch, `Launched` what it
does when the server answers or has failed, the rollback included; between the two
anybody may act, for the GPU lock keeps no thread of the gateway out. `hot`
remembers that a cool-down has not passed, as the property needs it. Sleep mode is
on for every model, and the engine's own errors are a server that is gone. Embeddings and rerank
requests, which call `switch` themselves and know no cool-down (`proxy/handler.py:2134`,
`2146`), are left out; `NoStorm` is about the others.

### Forward

`rq[r]` is one thread and its locals: the protocol, the attempt, the port it holds,
the status lines it has sent, whether the reply was a replay. What threads share is
`inflight` (the counters of `ReplicaSelector`), `mport` (the `port` attribute of the
model object, which Anthropic requests overwrite and restore), `permits`, `cache` and
`rows`. An upstream's answer is "ok", "busy" (a status that is retried) or "bad". The
bodies, the translation between protocols and the waits between attempts are left out,
as are metrics. Where a request is routed and whether its model can be started is any
outcome.

### RequestLog

A record is a number in the order of logging. Flushers are the flush thread and
`close`, each with the batch it has swapped out; `pc` says where it is. `dropped` is
what the overflow discarded, `logged` the history. `Exit` is a process that ends
without `close`, as the servers' `finally` blocks do; `Crash` one that dies. The
database write is one step that happens or fails; JSONL files, the deletion of rows
after 90 days, and the migration of the schema are left out.

### Tune

`file` is the applied layer's entry for the model, `running` the entry the engine was
started with, `active` its row in `active_services`; row and engine part when the engine
dies, when somebody stops it half way, and when `reconcile` writes an old scan. A tuner
holds the flock of the layer from its write to its result. `adapter.restart` is
`StopEngine` (`stop_service`, an error for a model without a row), `Switch` (an error for one
with a row), `DeployReads` and `StartEngine`, and `RestartError` is every other way out.
A start that fails stops the container of that name, whoever started it, and empties the
list of services.

The GPU lock excludes processes only: `GpuFree` lets two threads of the gateway be in their
deployments together, as `acquire` does, and `switching_target` keeps out switches to other
models alone, so it is not in the model (`restart` clears it at `engine_adapter/ninfer.py:182`).
A container that starts replaces the one of its name, so the later of two deployments wins
(`Overtaken`). `pending` notes the four ways in which file and engine may differ: a
tuning told not to restart, one that died, one whose rollback could not restart, and one that
started its engine while another thread was about to replace it.

### CloudRegistry

`providers` is the configuration in memory, `registry` what requests are routed by
(short names and provider/model names), `file`, `secrets` and `environ` what outlives a
reload or the process. A discovery (`find[d]`) asks one provider after the other and
collects into `merged` while edits go on; `Publish` replaces the registry. `old` is the
dictionary that a discovery goes on iterating over after a reload has replaced it,
`size` lets it fail when that dictionary grows under it, and `held` is the white list of a
provider that was dropped or replaced while it was being asked. An edit is a change in memory with its
rebuild of the registry, then `save_config` in its lock.

Environment variables are shared: providers of one preset have one `VarOf`. A provider may
come without a key, or with a reference to a variable that is not set. `secrets.env` is
truncated (`KeyOpens`) and written again (`KeyCloses`) for every key of every save; who reads
it in between finds nothing, a death in between leaves nothing. A save writes a specified
model under its short name (`Written`), so a load need not give back what was saved. A reload
is five steps, as the code takes them in no lock or in several: the poll thread is joined, the dictionary
replaced, the environment set, the file read, each provider put in; a file that is
missing or broken leaves the memory empty. `HandEdit` is the operator's change of the file,
for which there are reloads at all.

All providers are enabled and all are discovered. Left out: the discovery and routing settings that a
save writes flat though a load reads them nested (`cloud_discovery.py:545-557`, `682-708`), the
capability fields of a specification that a save drops (`570-575`), variables whose names are not
words (a provider named with a dot), which a load does not expand, and keys written into the file by hand.

## Runs

| run | result | question |
|---|---|---|
| `lock_processes` | pass | Do single-threaded processes that may die exclude each other, implement `GpuMutex`, never leak the flock and always return it? |
| `lock_threads` | pass | With threads and resets: does a set `_fd` outside `release` always have the kernel lock behind it? |
| `switch_serial` | pass | Jobs one at a time, all roles and failures: one exclusive tenant, nothing unlisted on the GPU, the gate reopens, role-none services undisturbed and kept. |
| `switch_live` | pass | Gateway, command and monitor together, a failing server, a death: the lock is paired and excludes processes; requests end; the state converges. |
| `switch_two_exclusive` | violation | Is there one exclusive tenant with two request threads? No. |
| `supervise` | pass | Requests, user, sleep and wake, watchdog, monitor together: no switch storm (`NoStorm`), every request ends (`Answered`), rows and servers agree in the end (`Settles`). |
| `gates` | pass | Both modes, with a global gate and without, a model asked for by two names: permits conserved, concurrency per name and rate bounded, everything drains. |
| `forward` | pass | Two requests of any protocol: does a retry show in the reply (`RetriesHidden`), is what was served logged once (`ServedIsLogged`), does every request end with its permit back (`Answered`)? |
| `stream` | pass | Each of the three routes: a queue that fills, retries before and within an answer, a client that stops reading or leaves: is the order kept, also between two answers, is nothing missing before a drop, does an end mean all, has a chat one answer (`ChatOneAnswer`), do worker and request end? |
| `request_log` | pass | Failing writes, a full buffer, `close` beside the flush thread, a death: is every record accounted for once, do the oldest go first, is everything before `close` kept, does a lone record get out? |
| `tune` | pass | Two tuners and a deployment under a lock that the gateway's threads share, stops, stale scans, edits, failures and a death: does the applied layer say what runs, and the result what was done? |
| `cloud` | pass | Edits by handlers and by hand, discoveries, reloads, failed reads and writes, a restart: do file, memory and registry agree, now (`Saved`, `BothNames`) or in the end (`Converges`)? |

`TypeOK` is a theorem for `GpuLock`, `GpuSwitch`, `DualGate`, `EdgeStream`, `Tune` and
`CloudRegistry` and is not run with them; for the other three it can be checked by adding `INVARIANT TypeOK`
to the run's configuration. Sixteen more configurations belong to no run of `PROJECT.json`; each
reproduces a disagreement that is described below with `tlc -config X.cfg M`.

### Bounds

- Lock: two threads are the smallest number that race inside an object, a second
  process the smallest that sees the effect, a third shows that waiting ones do
  not starve each other's lock. Two inodes: the locked one and the one after an
  unlink. `MaxCrashes` allows a death inside the section and one after it.
- Switch: two models of each GPU role allow a swap and its rollback, and a shared
  set with one member more; one role-none model stays beside them. Five requests
  reach deploy, add, edit, restart and stop in one behaviour; two faults make a
  swap and its rollback both fail. `switch_live` has two models, two requests
  (one in the gateway, one in a command, or two of either), a fault and a death,
  which leaves a switch half done and someone to find it. It counts no missed
  probes: a scan that is applied late has the same effect on the database.
- Gates: three requests for a model with two names, one permit each and two global ones
  make every gate the one that refuses, and put two requests at the upstream; the two semaphores stand for two
  models as well. Four arrivals reuse a thread.
- Stream: four chunks and two end markers at a queue of two fill it, overflow it
  with a chunk, with a marker and with both, and let a chunk in behind a dropped
  one; they make up to three answers with the code's three attempts.
- Supervise: two models (two exclusive, two shared, or one of each) make a swap, an
  addition and a refusal possible; two callers and one restart thread are the actors that
  can meet in a switch. `Budgets` splits the behaviours: two jobs and nothing broken; one job
  with a server that breaks and three failed checks, which reach alert, restart and giving up
  (`AlertAt` 1, `RestartAt` 2, `MaxRestarts` 1); one job and a death of the gateway. The
  three together do not fit into five minutes.
- Forward: two requests and two replicas make a selection depend on another request,
  one permit makes the second wait or be refused, three attempts are the code's.
- Request log: a batch of two in a buffer of two overflows with the first re-insertion; four
  records, two workers, two failing writes and a death reach an overflow during `close`.
- Tune: a scenario with a window and one that is smoke-tested are the kinds the check and the
  smoke test tell apart, two YAMLs make the first startable with one and not with the other. Two
  callers in the gateway and one command meet inside the lock and outside. The fault, the
  edit and the death are one each: what is doomed fails by itself, and so does the restart after it.
- Cloud: two providers offer one model, so that a short name has two claimants, and one offers
  another whose short name is the first's. They share an environment variable, which has a key
  from the start; another has none. Two pollers, for a reload can leave one behind. The file has one provider
  at first; dropping it or a failed load leaves none.
  `Budgets` gives two edits; one with a reload or discovery; a reload with an edit by hand or
  with a failure; an edit with a failure and a restart.

Counters `created`, `crashes`, `requests`, `faults`, `misses`, `deaths`, `arrivals`,
`refills` and the records `budget` exist only for these bounds, but for `refills`, which
the rate bound mentions.

### Deadlock

Where the budget of requests can be used up (`switch_serial`, `gates`, `forward`,
`stream`, `request_log`, `cloud`) and in `lock_threads`, a state without a step is the
end and is allowed. `lock_processes`, `switch_live`, `supervise` and `tune` check for
deadlock: lock users, monitor, watchdog and deployments go on for ever.

### Fairness

- Lock: a thread that is inside or in the middle of an operation goes on (the
  `finally` clauses release); nobody is forced to acquire.
- Switch: weak fairness of each thread's work, because every wait of the code
  has a timeout (`wait_http`, probes, subprocess calls); of the monitor's tick,
  because its loop runs while the gateway does; of a loading server, because
  loading ends in health or in a death that the fault budget pays for.
- Gates: weak fairness of each request's acquisition (all semaphore waits have a
  timeout) and of its release (upstream calls have one). None for refills.
- Stream: the worker goes on (its reads have a timeout of 300 s), the loop runs its
  callbacks, the pump runs when it can. None for the client: `WorkerEnds` holds
  for one that never reads. `Ends` and `StreamEnds` have its reading as their
  premise, inside the property.
- Supervise: weak fairness of each thread's next step (`wait_http`, `_wait_healthy` and
  the engine's calls have timeouts, and locks are not waited for), of the monitor's cycle
  and of the watchdog's check of each model, both loops of the gateway. None for the end of
  the cool-down, of back-off or of a manual stop.
- Forward: weak fairness of each request's step: connections, reads and the gate's wait have
  timeouts. None for arrivals.
- Request log: weak fairness of the flush thread only; `wait` has a timeout.
- Cloud: weak fairness of a save once begun, of the poll threads (the wait has a
  timeout, requests to providers too) and of the admin thread's task. None for edits.
- `tune` has safety properties only.

## Proofs

All theorems hold for any sets of processes, threads, requests and models, any
capacity and any bounds, under the named assumptions on constants: types, jobs
that name models, scenarios that set numbers, a `None` that is no model, thread, key or
editor, and finiteness of `Requests`, `Models`, `Threads` and `Providers`. Every safety
property that a passing run checks is a theorem.

| theorem | property | argument |
|---|---|---|
| `GpuLockProofs!TypeCorrect`, `HeldIsLockedHolds` | `TypeOK`, `HeldIsLocked` | `HeldInv`: besides the types, where a description may be open: a thread past `open` has its own, a thread past `flock` owns the inode, and a set `_fd` is owned unless some thread of the process is in `release`. `HeldIsLocked` alone is not inductive: it says nothing of the thread about to assign `_fd`. |
| `ProcessExclusionHolds`, `NoLeakedLockHolds` | the same | for one thread per process and no `force_clear`. `SingleInv` identifies the owner of the one inode with the thread that is between its `flock` and its unlock. |
| `LockImplementsMutex` | `ImplementsMutex` | same assumption: each step of `GpuLock` is a step of `GpuMutex` or changes no holder. |
| `DualGateProofs!TypeCorrect` | `TypeOK` | buckets never leave 0 .. burst, whatever is refilled and refunded. |
| `PermitsConservedHolds`, `HardGateHolds` | the same | `PermitInv` adds `HeldWhere`: what a request holds agrees with where it is. Without it a second take or a release of nothing could not be excluded. The bound at an upstream is the sum over the names of its model (`NameGate`), of which there are two at most. |
| `RateBoundHolds` | `RateBound` | with `NoTokensHeld`: in mode "reject" no request holds tokens that gate 2 could give back. |
| `GpuSwitchProofs!TypeCorrect` | `TypeOK` | `SwitchInv`. Types alone are not inductive: a rollback writes the models it has stopped into the database, which is typed only if they were GPU models, and a thread knows that from where it is. `Fits` says for each place in the code which model, kind of job and GPU mode a thread can have there. |
| `LockBalancedHolds`, `OneProcessSwitchesHolds` | the same | for runs without resets (`force_reset` clears the lock under its holders). `LockInv`: the depth of the lock is the number of threads inside the section, and a process has the flock exactly while its depth is positive. Both properties follow, but neither is inductive without the other. |
| `OneTenantHolds` | `OneTenant` | if `InTurn`, see below. `Turn(Current)`: what the thread at work has read, where it is, and how rows and servers fit then. `OneTenant` alone is not inductive: nothing keeps a start away from a running server but what the guards before it have read. |
| `GpuAccountedHolds`, `GateReopensHolds` | the same | if `InTurn`. `Known` and `GateFit`, two parts of `Turn`: a server that runs unlisted is the one that is on its way in; a closed gate belongs to a switch under way. |
| `NonePreservedHolds` | `NonePreserved` | if `InTurn`: the list a thread writes back is the one that is there (`ReadFit`, a part of `Turn`). |
| `NoneUndisturbedHolds` | `NoneUndisturbed` | for any interleaving: what a thread kills follows from its place and its job (`SwitchInv`), and the tracked group is a GPU model's. |
| `AloneHolds` | `OneTenant`, `GpuAccounted`, `GateReopens`, `NonePreserved` | one thread and no deaths, as in `switch_serial`, imply `InTurn`. |
| `EdgeStreamProofs!TypeCorrect`, `ErrorMeansSilenceHolds` | `TypeOK`, `ErrorMeansSilence` | `Stages`: where worker, loop and pump can be together. |
| `InOrderHolds`, `ChatOneAnswerHolds` | the same | `Order`: the client's chunks, the pump's, the queue's and those of the scheduled callbacks stand in one ascending line. `InOrder` alone says nothing of what is still to come. `Origins`: later chunks are of the same attempt or a later one, and on the chat route all are of one. |
| `NoGapHolds`, `EndMeansAllHolds` | the same | `Whole`: before a drop that line is 1, 2, .. up to the last chunk written and then only end markers. Each place of the line is counted through all four parts, with the callback for the headers in front of them. |
| `TuneProofs!TypeCorrect` | `TypeOK` | with `Held`: nobody writes the file from a place without the flock. |
| `FileIsContainerHolds`, `ReportTrueHolds` | the same | `TuneInv`: the flock is held exactly from the write to the result (`Held`); its holder finds there what it wrote (`Known`), for only holders write; between tunings and during a smoke test the engine, and what deployments under way have read, are of the file (`Agree`). `FileIsContainer` says nothing of a deployment that has read and not yet started, so it is not inductive; nor does the GPU lock keep such ones out in the gateway. |
| `RequestLogProofs!NothingVanishesHolds` | `NothingVanishes` | `Apart` and `Accounted`: a logged record is in one of three sequences, dropped or written; `Fresh`: one on its way into the buffer is in none of them, and is one worker's. |
| `CloseKeepsHolds` | `CloseKeeps` | `Closing`: after the join the flush thread is gone, unless the join gave up, so after the last swap nothing early can come back to the buffer unless this write fails. |
| `OldestDroppedHolds` | `OldestDropped` | `OrderInv`: no record is logged twice, and until `close` what was dropped, what is in the batch and what is in the buffer follow one another in the order of logging (`Sequel`). A batch that failed goes back in front of the buffer, so the cap, which cuts in front, takes the oldest; the property says nothing of the batch. |
| `RequestProofs!RetriesHiddenHolds`, `ServedIsLoggedHolds` | the same | `Placed`: what a client was sent and what was logged follow from where the thread is; no row before the end, no status line before the first answer. Neither property says anything of a thread on its way. |
| `NoStormHolds`, `SwitchLockHolds` | `NoStorm`; the lock is held by the request that switches and by nobody else | `StormInv`: a request between its write of `switching_target` and the end of its switch, and nobody else, holds `_switch_lock`, only threads of `ensure_service` are in its places, and the cool-down runs as long as a switch has ended within it. No step of user, watchdog, monitor or sleep enters or leaves these places; the one that does finds the lock free and the cool-down over. |
| `CloudRegistryProofs!Typed` | `TypeOK` | among it: a discovery asks only providers that exist or whose object it keeps, and it keeps at most one older dictionary. |
| `BothNamesHolds` | `BothNames` | `NamesInv`: besides the registry that is routed by, the one that a discovery has collected so far has both names of each model. |
| `SavedHolds` | `Saved` | `SaveInv`: while nothing exempts (`Quiet`), what the holder of `_save_lock` has serialized says what the memory says, or the file does if nobody holds it; in a reload no save stands, the memory is empty until the file has been read, every reference in the file resolves, and then what is read and what is put in make up the file. `KeysInv`: a key that the memory or a save has is in `secrets.env`, and a variable that is set once has a key. `Asked`: the reload is under way exactly while its task is. |

`InTurn` says that requests, commands and the monitor's ticks do not overlap and that no
process dies while a thread of it works. The code needs both. Its guards read rows and
probe servers before they take the lock, and the lock is reentrant for the threads of the
gateway, so two requests can make each other's reads untrue (`switch_two_exclusive`); a
process that dies at work leaves a server loading that no row lists and that no
probe sees until it is up. Requests, faults, missed probes, edits, and deaths between
requests are not restricted, in any number of processes. `AloneHolds` names the simplest
case in which `InTurn` is true. The inductive invariants were checked with TLC before they
were proved: `Turn(Current)` also with two workers in two processes that take turns, the
monitor, and a death.

`NoStorm` is proved in `RequestProofs`, where `Supervisor` is an instance, so its
assumptions on `None` and `Jobs` are written out in the theorems.

Only model-checked: all liveness (`LockReturned`, `Settles`, `Answered`, `Drains`,
`WorkerEnds`, `Ends`, `Persisted`, `Converges`), for liveness under fairness and ENABLED are out
of the prover's reach; and `TypeOK` of `RequestLog` (the replay sorts a set, which
is recursion over data), of `Forward` in full (`Typed` has what the theorems need) and of
`Supervisor`.

## Where the code disagrees with its documents

Shown by a run, and a finding of `PROJECT.json`:

- `src/README.md:108`, "you can't accidentally start two exclusive models": two
  request threads can (`switch_two_exclusive`), for `switching_target` is read
  before the lock and the lock is reentrant for the whole gateway.

Reproducible with the configuration named, which violates its property:

- `gpu_lock.py:22` promises mutual exclusion via flock. `release` unlocks before
  it clears `_fd`; another thread of the gateway that acquires in between is told
  that the lock is held (`MCGpuLock`, `lock_threads_exclusion.cfg`). A matched set of
  acquires and releases of two threads can also leave the flock taken, against
  `gpu_lock.py:63`.
- `model_lifecycle.py:473`, "shared: stops just that service": vLLM's tracked
  process group is killed first, whichever service it belongs to (`MCGpuSwitch`,
  `switch_stop_isolated.cfg`).
- `ratelimit.py:317`, acquire and release are symmetric: not in mode "observe"
  with a global gate (`MCDualGate`, `gate_observe_global.cfg`).
- `proxy/async_server.py:337`, the worker's end is the end of the stream: an end
  marker that finds the queue full is dropped, and the pump then waits for ever
  behind the last chunk of a client that only was slow (`MCEdgeStream`,
  `stream_end_lost.cfg`).
- `watchdog.py:169`, a restart gives way to a switch in progress: it looks at
  `switching_target`, once, before it reconciles and stops (`MCSupervisor`,
  `watchdog_yields.cfg`).
- `engine_adapter/ninfer.py:127`, an unset field is checked with the YAML's fixed
  value: the pool it reads is that of the registry in memory, the applied layer
  included (`MCTune`, `tune_checked_starts.cfg`).
- `ratelimit.py:7`, `max_concurrent` is taken from the server's `max_num_seqs`, and
  `docs/RATE_LIMIT_ANALYSIS.md:36`, the semaphore bounds the requests forwarded at one time: a
  model with a served name of its own has two semaphores, one for each name clients use, so its
  upstream works on twice as many requests (`MCDualGate`, `gate_two_names.cfg`).
- `specs/v53-gateway-hardening/plan.md:589`, a failure in mid-stream is not retried since the
  head of the response cannot be withdrawn: `forwarder.py:309` and `:382` do, and
  the client gets a part of one answer and then another one (`MCEdgeStream`,
  `stream_one_answer.cfg`).
- `tune.py:12`, "a failed restart restores the entry and restarts with it";
  `engine_adapter/ninfer.py:176`, `already_stopped` goes on; `tests/unit/test_tune.py:371-391`
  and `449-459` expect as much of a fake manager. `stop_service` never says `already_stopped`: it returns an error
  for a service that is not active (`model_lifecycle.py:480`), and after a failed start none is, so the
  rollback's restart fails always and the engine stays off (`MCTune`, `tune_rollback_restarts.cfg`).
- `tune.py:414`, after a failed smoke test the status is "rolled_back" although the
  restart of the rollback may have failed and the engine may be off
  (`MCTune`, `tune_rollback_runs.cfg`).
- `proxy/request_logger.py:170`, a final flush at the end: nothing calls
  `TelemetryHub.close` when a server stops, so what is in the buffer is lost
  (`MCRequestLog`, `log_exit_keeps.cfg`).
- `metrics_aggregator.py`, a sliding window: the replay fills the deque newest first,
  so the samples it drops afterwards are the newest of the replay (`MCRequestLog`,
  `log_window_slides.cfg`).
- `cloud_discovery.py:478-480`, a reload empties the providers and then reads the file,
  not in the lock of saves: a save in between writes a file without providers
  (`MCCloudRegistry`, `cloud_reload_keeps.cfg`).
- A provider that is dropped and added with a new key: the environment keeps the old one
  (`setdefault`, `cloud_discovery.py:286`), which a reload uses and the next save writes back
  (`cloud_key_last.cfg`).
- `secrets.env` holds the keys that `cloud_provider.yaml` refers to: it is truncated in place
  for every key of every save, so a death or a failed write loses all of them, and a reload in between reads
  none (`cloud_key_resolves.cfg`). `docs/reviews/2026-09-21-interaction-chain-review.md:60`
  notes that the write is not atomic.
- One poll thread: the join of `stop_polling` gives up after 10 s, and starting again clears
  the stop event for the old thread as well (`cloud_one_poller.cfg`).
- With `forward.cfg` and its properties exchanged for one of these: `OneReply` (a stream
  of an Anthropic request that breaks off is taken for a failed attempt, and a second status
  line follows), `ReplicaCounts` (each attempt of a chat releases the one port it took, up to
  three times; a 429 leaves it counted), `ReplyInProtocol` (a cached reply is sent in the
  protocol of whoever stored it), and, with `MaxPermits = 2`, `PortRestored` (two requests
  that swap the port of the model object restore each other's).

Met while modelling and allowed for in the properties:

- `src/README.md:110`, "state never drifts": `reconcile` takes no lock and writes
  what it scanned earlier, over the result of a switch in between. What holds is
  that the state converges (`Settles`).
- `model_lifecycle.py:111` preserves role-none services, but the clean-up of a
  failed deploy (`:141`) empties the list. `NonePreserved` excepts it.
- `manager.py:428` resets the profile on failure, but a restart whose idle half
  failed (`:319`) may end SWITCHING. `GateReopens` excepts it.
- `src/specs/pr19-gateway-async-edge/spec.md:81`, a full queue cuts the answer off:
  callbacks that were scheduled before the cut can still get in when the client
  reads on, so the client may see a hole and not a truncated answer. `NoGap`
  excepts it; `InOrder` still holds.
- `proxy/async_server.py:89`, a write after a disconnect raises for the forwarder
  to catch: `_safe_write` swallows it (`proxy/handler.py:280`), so the worker reads
  the upstream to its end and keeps its permits until then.
- The tokens of a request that gate 2 refuses are not given back in mode
  "reject": `rpm_held` is never set there and the branches that test it are dead,
  against `src/specs/v461-metrics-hardening/test_dual_gate_acceptance.py:71`.
- Auto-switch: `ensure_service` overwrites the `switching_target` of a switch in
  progress and clears it at its own end (`proxy_manager.py:451`), so the gate is open
  for the rest of the other; `Settles` asks that no target stays, not that none is lost.
  A swap that was rolled back is reported as "switched".
- Sleep: a sleeping exclusive model stays in `active_services`, so the derived mode is
  exclusive and its wake is refused; a shared one is killed to be woken, the start that
  should follow finds it listed and does nothing, and the reconciler removes the row. Stop,
  idle and reset leave the sleep row, and then nothing else may sleep. The rule that one
  model sleeps at a time is checked before the server is asked.
- `_handle_stop` and `iff stop` record a manual stop after the stop, idle and reset before
  it; a request in between starts the model again.
- Forward: the row of a chat says 200 whatever the upstream said; a message's 429 and its
  503 after the last attempt have no row; Ollama chats are neither logged nor gated. `ServedIsLogged`
  therefore speaks of replies with 200 only.
- Tune: the difference shown to the user is computed before the flock is taken.
- Cloud: "keep previous models" keeps dropped models routable when nothing else is to be
  routed, and `Converges` excepts it; dropping a provider hides another's short name until the next
  discovery; SIGHUP's reload stops polling and never starts it again.
- A reload of the models within 5 s of the last returns an empty list, which callers
  report as "all reloaded" (not modelled).

## Not modelled

- Token, agent and power statistics, the anomaly buffer, Prometheus and JSON metrics: each is
  arithmetic over rows or samples in one thread or under one lock. In production the token
  collector always has its database; the delta logic without it is a fallback.
- The agent registry, API specification and model discovery are pure matching and
  directory scans; the dashboard, status pages and listings only read.
- Docker deployments, SGLang, ComfyUI, TTS and ASR servers start and stop as vLLM and
  llama-server do, with other commands; `auto_deploy` and `pull_model` download files.
- Parsing, validation and migration of YAML and of the database schema, which run
  before anything else does; the reload of keys and of the model list.
- The buffered routes of the edge server (one thread, one body), `sse_buffer.py` (it observes),
  the start and stop of the servers.

## Plan

Done: every component above has its module, its run and its proofs. `Supervisor` has
requests, sleep and wake, and watchdog in one module, for they race with each other.

Theorems worth proving next, in this order:

1. Type correctness of `Supervisor` and of `Forward` in full.
2. The safety half of `Answered` in `Forward`: permits in use are those of threads in
   places that give one back.
3. What remains of `GpuAccounted` and `GateReopens` when requests overlap: which of their
   parts need `InTurn`.
4. A refinement of the switch of `GpuSwitch` to the two steps it has in `Supervisor`, for one
   thread at a time.
