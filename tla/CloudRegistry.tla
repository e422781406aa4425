---------------------------- MODULE CloudRegistry ----------------------------
(***************************************************************************)
(* The cloud providers of the gateway and the models that requests may be  *)
(* routed to (cloud_discovery.py, the /admin/cloud handlers, SIGHUP's      *)
(* config_reloader.py).                                                    *)
(*                                                                         *)
(* A discovery asks every provider for its models, one request after the   *)
(* other, and then replaces the registry; poll threads, handlers and the   *)
(* first request run it.  Handlers add, drop and curate providers under a  *)
(* lock and save them to cloud_provider.yaml under another.  A reload      *)
(* empties the providers and reads the file again.  API keys are kept in   *)
(* secrets.env, which is truncated and written anew for every key of every *)
(* save; the file refers to them through environment variables, which      *)
(* providers may share.                                                    *)
(*                                                                         *)
(* Of a provider the model keeps what routing needs and a save keeps: the  *)
(* names of its models, and whether it has a key.  All providers are       *)
(* enabled and discovered.  Left out are the settings that a save writes   *)
(* flat though a load reads them nested (discovery, routing) and the       *)
(* capability fields of a specification, which a save drops; variables     *)
(* whose names are not words, which a load does not expand; keys written   *)
(* into the file by hand; and the order of the providers: any may come     *)
(* first.                                                                  *)
(***************************************************************************)
EXTENDS Naturals, FiniteSets

CONSTANTS
    Providers, Models, Keys, Vars, None,
    VarOf,          \* key_env_var: one per provider, or one per preset
    Short,          \* the name under which a save writes a specified model
    Offers,         \* the models each provider's /models lists
    Editors,        \* threads in a handler that changes providers
    Pollers,        \* bound: poll threads there may ever be at a time
    Admin,          \* the thread that reloads or discovers
    Disks,          \* what cloud_provider.yaml and secrets.env may say at first
    Budgets         \* bounds: changes, reloads, failures, restarts, edits by hand

Discoverers == Pollers \cup {Admin}
Tasks == {"first", "discover", "reload", "signal"}
Row == [listed : SUBSET Models, specs : SUBSET Models, keyed : BOOLEAN]
Tables(S) == UNION {[D -> S] : D \in SUBSET Providers}

ASSUME OffersAssumption == Offers \in [Providers -> SUBSET Models]
ASSUME VarAssumption == VarOf \in [Providers -> Vars] /\ Keys \cap Vars = {}
ASSUME ShortAssumption ==
    Short \in [Models -> Models] /\ \A m \in Models : Short[Short[m]] = Short[m]
ASSUME NoneAssumption == None \notin Providers \cup Keys \cup Vars \cup Editors \cup Pollers
ASSUME ProvidersAssumption == IsFiniteSet(Providers)
ASSUME ThreadAssumption == Admin \notin Pollers
ASSUME DisksAssumption ==
    Disks \subseteq {x \in [file : Tables(Row), secrets : [Vars -> Keys \cup {None}]] :
                    \A p \in DOMAIN x.file : x.file[p].keyed => x.secrets[VarOf[p]] # None}
ASSUME BudgetAssumption ==
    Budgets \subseteq [{"edits", "tasks", "faults", "restarts", "hands"} -> Nat]

VARIABLES
    providers,      \* _providers: name -> enabled_models, model_specs, api_key
    registry,       \* _cloud_models: its model names, its provider/model names
    candidates,     \* _candidates
    file,           \* cloud_provider.yaml
    secrets,        \* secrets.env, as the write in progress will leave the others
    keyLock,        \* SecretsManager._lock: its holder has truncated the file
    environ,        \* os.environ, as far as these variables go
    edit,           \* the editors: where they are, what they have yet to write
    saveLock,       \* _save_lock
    find,           \* the discoverers: where they are, what they have collected
    read,           \* what a reload has read and not put into _providers yet
    task,           \* what the admin thread has been asked for
    pollThread,     \* _poll_thread
    stop,           \* _stop_event
    discovered,     \* _cloud_discovered
    unsaved,        \* history: file and memory have parted, and one of them knows
    torn,           \* history: a write of secrets.env was broken off
    budget

config == <<providers, registry, candidates>>
keys == <<secrets, keyLock, torn>>
disk == <<file, keys>>
polling == <<pollThread, stop, discovered>>
editing == <<edit, saveLock, unsaved>>
vars == <<config, disk, environ, editing, find, read, task, polling, budget>>

Spend(S) ==
    /\ \A what \in S : budget[what] > 0
    /\ budget' = [what \in DOMAIN budget |-> IF what \in S THEN budget[what] - 1 ELSE budget[what]]

-----------------------------------------------------------------------------
(* The registry: a model's own name, its short one here, leads to one      *)
(* provider; the name with a provider's in front leads to that provider.   *)

Empty == [short |-> [m \in Models |-> None], full |-> {}]

\* Models S of provider p: a short name that is taken stays.
With(reg, p, S) ==
    [short |-> [m \in Models |-> IF m \in S /\ reg.short[m] = None THEN p ELSE reg.short[m]],
     full |-> reg.full \cup {p} \X S]

Without(reg, p) ==
    [short |-> [m \in Models |-> IF reg.short[m] = p THEN None ELSE reg.short[m]],
     full |-> {k \in reg.full : k[1] # p}]

\* _register_spec_only_models: a specified model whose short name is free goes
\* to the first provider that specifies it.
WithSpecs(reg, provs) ==
    LET specified(m) == {p \in DOMAIN provs : m \in provs[p].specs}
        free == {m \in Models : reg.short[m] = None /\ specified(m) # {}}
    IN {[short |-> [m \in Models |-> IF m \in free THEN owner[m] ELSE reg.short[m]],
         full |-> reg.full \cup {<<owner[m], m>> : m \in free}] :
            owner \in {f \in [free -> DOMAIN provs] : \A m \in free : f[m] \in specified(m)}}

\* _rebuild_provider_registry of p, under providers that are about to be.
Rebuilt(p, provs) ==
    WithSpecs(With(Without(registry, p), p, candidates[p] \cap provs[p].listed), provs)

-----------------------------------------------------------------------------
(* The file and the keys.                                                  *)

NoKeys == [v \in Vars |-> None]

\* What a reader of secrets.env finds, who takes no lock.
OnDisk == IF keyLock = None THEN secrets ELSE NoKeys

\* _inject_secrets_env: variables that are set keep their value.
Injected(env) == [v \in Vars |-> IF env[v] = None THEN OnDisk[v] ELSE env[v]]

\* What _load_config makes of the file: a reference to a variable that is not
\* set gives no key.
Loaded(env) ==
    [p \in DOMAIN file |->
        [listed |-> file[p].listed, specs |-> file[p].specs,
         key |-> IF file[p].keyed THEN env[VarOf[p]] ELSE None]]

\* How a save writes it.
Written(row) == [row EXCEPT !.specs = {Short[m] : m \in row.specs}]
AsSaved(table) == [p \in DOMAIN table |-> Written(table[p])]

\* _serialize_providers: a key becomes a reference, and goes to secrets.env.
Serialized ==
    AsSaved([p \in DOMAIN providers |->
                [listed |-> providers[p].listed, specs |-> providers[p].specs,
                 keyed |-> providers[p].key # None]])
KeysOf ==
    {<<VarOf[p], providers[p].key>> : p \in {q \in DOMAIN providers : providers[q].key # None}}

-----------------------------------------------------------------------------
Idle == [pc |-> "idle", p |-> None, key |-> None, todo |-> {}, data |-> {}]
NoDiscovery == [pc |-> "off", seen |-> {}, size |-> 0, at |-> None, held |-> {}, old |-> {},
                merged |-> Empty]
Waiting == [NoDiscovery EXCEPT !.pc = "wait"]

\* A process has just started, and read its file and the keys the file names.
Init ==
    /\ \E x \in Disks : file = x.file /\ secrets = x.secrets
    /\ environ = secrets /\ providers = Loaded(environ) /\ read = <<>>
    /\ registry \in WithSpecs(Empty, providers) /\ candidates = [p \in Providers |-> {}]
    /\ edit = [e \in Editors |-> Idle]
    /\ find = [d \in Discoverers |-> NoDiscovery]
    /\ saveLock = None /\ keyLock = None /\ task = "none"
    /\ pollThread = None /\ stop = FALSE /\ discovered = FALSE /\ unsaved = FALSE /\ torn = FALSE
    /\ budget \in Budgets

\* The process starts again: an empty environment, and what the disk says, if
\* the file can be read.
Restart ==
    /\ secrets' = OnDisk /\ torn' = (torn \/ keyLock # None)
    /\ environ' = Injected(NoKeys)
    /\ \/ Spend({"restarts"}) /\ providers' = Loaded(environ') /\ unsaved' = FALSE
       \/ Spend({"restarts", "faults"}) /\ providers' = <<>> /\ unsaved' = TRUE
    /\ registry' \in WithSpecs(Empty, providers')
    /\ candidates' = [p \in Providers |-> {}]
    /\ edit' = [e \in Editors |-> Idle]
    /\ find' = [d \in Discoverers |-> NoDiscovery]
    /\ saveLock' = None /\ keyLock' = None /\ read' = <<>> /\ task' = "none"
    /\ pollThread' = None /\ stop' = FALSE /\ discovered' = FALSE
    /\ UNCHANGED file

\* The operator edits the file, and takes no lock; a reload is to follow.
HandEdit(p) ==
    /\ Spend({"hands"})
    /\ \/ p \in DOMAIN file /\ file' = [q \in DOMAIN file \ {p} |-> file[q]]
       \/ \E row \in Row :
             /\ row.keyed => secrets[VarOf[p]] # None
             /\ file' = [q \in DOMAIN file \cup {p} |-> IF q = p THEN row ELSE file[q]]
    /\ unsaved' = TRUE
    /\ UNCHANGED <<config, keys, environ, edit, saveLock, find, read, task, polling>>

-----------------------------------------------------------------------------
(* Handlers that change providers.                                         *)

Step(e, pc) == edit' = [edit EXCEPT ![e].pc = pc]

\* POST /admin/cloud/providers: the name is new.  A key is written first; the
\* request may refer to a variable instead, or give none.
AddChecked(e, p, k) ==
    /\ edit[e].pc = "idle" /\ Spend({"edits"})
    /\ p \notin DOMAIN providers
    /\ edit' = [edit EXCEPT ![e] = [Idle EXCEPT !.pc = "insert", !.p = p, !.key = k,
                                        !.todo = IF k \in Keys THEN {<<VarOf[p], k>>} ELSE {}]]
    /\ UNCHANGED <<config, disk, environ, saveLock, unsaved, find, read, task, polling>>

\* SecretsManager.write, under its lock: the file is read and truncated,
KeyOpens(e) ==
    /\ edit[e].todo # {} /\ keyLock = None
    /\ keyLock' = e
    /\ UNCHANGED <<config, file, secrets, torn, environ, editing, find, read, task, polling, budget>>

\* and written with one key more,
KeyCloses(e) ==
    /\ keyLock = e /\ keyLock' = None
    /\ \E t \in edit[e].todo :
          /\ secrets' = [secrets EXCEPT ![t[1]] = t[2]]
          /\ edit' = [edit EXCEPT ![e].todo = @ \ {t}]
    /\ UNCHANGED <<config, file, torn, environ, saveLock, unsaved, find, read, task, polling, budget>>

\* or not: the handler answers 500, and the file may be left empty.
KeyFails(e) ==
    /\ keyLock = e /\ Spend({"faults"})
    /\ secrets' \in {secrets, NoKeys} /\ torn' = (torn \/ secrets' # secrets)
    /\ keyLock' = None /\ saveLock' = IF saveLock = e THEN None ELSE saveLock
    /\ unsaved' = (unsaved \/ saveLock = e)
    /\ edit' = [edit EXCEPT ![e] = Idle]
    /\ UNCHANGED <<config, file, environ, find, read, task, polling>>

\* A discovery that has been asking p goes on with the object it had.
Kept(p) ==
    find' = [d \in Discoverers |->
               IF /\ find[d].pc = "ask" /\ find[d].at = p /\ p \in DOMAIN providers
                  /\ find[d].old = {} /\ find[d].held = {}
               THEN [find[d] EXCEPT !.held = {providers[p].listed}] ELSE find[d]]

Put(p, row) ==
    providers' = [q \in DOMAIN providers \cup {p} |-> IF q = p THEN row ELSE providers[q]]

\* The environment is set, the reference resolved; specifications if it is made
\* from a preset.
Inserted(e, S) ==
    LET p == edit[e].p  k == edit[e].key IN
    /\ edit[e].pc = "insert" /\ edit[e].todo = {}
    /\ environ' = Injected(environ)
    /\ Put(p, [listed |-> {}, specs |-> S, key |-> IF k \in Vars THEN environ'[k] ELSE k])
    /\ Kept(p)
    /\ registry' \in WithSpecs(registry, providers')
    /\ Step(e, "save")
    /\ UNCHANGED <<candidates, disk, saveLock, unsaved, read, task, polling, budget>>

\* A change of the models of provider p, and its new registry.
Curated(e, p, listed, specs) ==
    /\ edit[e].pc = "idle" /\ Spend({"edits"})
    /\ providers' = [providers EXCEPT ![p].listed = listed, ![p].specs = specs]
    /\ registry' \in Rebuilt(p, providers')
    /\ Step(e, "save")
    /\ UNCHANGED <<candidates, disk, environ, saveLock, unsaved, find, read, task, polling>>

EnableModel(e, p, m) == Curated(e, p, providers[p].listed \cup {m}, providers[p].specs)
DisableModel(e, p, m) == Curated(e, p, providers[p].listed \ {m}, providers[p].specs)
AddManual(e, p, m) == Curated(e, p, providers[p].listed, providers[p].specs \cup {m})
RemoveManual(e, p, m) ==
    /\ m \in providers[p].specs
    /\ Curated(e, p, providers[p].listed, providers[p].specs \ {m})

Dropped(e, p) ==
    /\ edit[e].pc = "idle" /\ Spend({"edits"})
    /\ providers' = [q \in DOMAIN providers \ {p} |-> providers[q]]
    /\ Kept(p)
    /\ candidates' = [candidates EXCEPT ![p] = {}]
    /\ edit' = [edit EXCEPT ![e].pc = "save", ![e].p = p]
    /\ UNCHANGED <<disk, environ, saveLock, unsaved, read, task, polling>>

\* Mutant: the model names of a dropped provider stay.
DropProviderNames(e, p) ==
    Dropped(e, p) /\ registry' = [registry EXCEPT !.full = Without(registry, p).full]

DropProvider(e, p) == Dropped(e, p) /\ registry' = Without(registry, p)

\* A reload has emptied the providers and not put all of the file's there yet.
Loading == find[Admin].pc \in {"inject", "read", "install"}

Serializes(e) ==
    /\ edit[e].pc = "save"
    /\ saveLock' = e
    /\ edit' = [edit EXCEPT ![e].pc = "write", ![e].data = {Serialized}, ![e].todo = KeysOf]
    /\ unsaved' = Loading
    /\ UNCHANGED <<config, disk, environ, find, read, task, polling, budget>>

\* Mutant: the providers are serialized before the lock is taken.
SerializeUnlocked(e) == Serializes(e)

\* save_config, in _save_lock: what it writes of a provider is taken when it
\* begins, since a change that comes into it is followed by a save of its own;
\* then the keys,
Serialize(e) == saveLock = None /\ Serializes(e)

\* and the file, written beside and renamed,
Replace(e) ==
    /\ edit[e].pc = "write" /\ edit[e].todo = {}
    /\ file' \in edit[e].data
    /\ edit' = [edit EXCEPT ![e] = Idle]
    /\ saveLock' = None
    /\ UNCHANGED <<config, keys, environ, unsaved, find, read, task, polling, budget>>

\* or not.
SaveFails(e) ==
    /\ edit[e].pc = "write" /\ edit[e].todo = {} /\ Spend({"faults"})
    /\ edit' = [edit EXCEPT ![e] = Idle]
    /\ saveLock' = None /\ unsaved' = TRUE
    /\ UNCHANGED <<config, disk, environ, find, read, task, polling>>

-----------------------------------------------------------------------------
(* discover_all.                                                           *)

\* The dictionary it iterates over: _providers, or what it was before a reload.
Table(d) == IF find[d].old = {} THEN providers ELSE CHOOSE f \in find[d].old : TRUE

Begin(d) ==
    find' = [find EXCEPT ![d] = [NoDiscovery EXCEPT !.pc = "next",
                                                    !.size = Cardinality(DOMAIN providers)]]

\* A poller waits again; the admin thread goes on with its task.
Ends(d) == find' = [find EXCEPT ![d] = IF d = Admin THEN [NoDiscovery EXCEPT !.pc = "done"]
                                                    ELSE Waiting]

\* The next provider is asked, or there is none left.
Ask(d) ==
    /\ find[d].pc = "next" /\ Cardinality(DOMAIN Table(d)) = find[d].size
    /\ \/ \E p \in DOMAIN Table(d) \ find[d].seen :
             find' = [find EXCEPT ![d].pc = "ask", ![d].at = p, ![d].seen = @ \cup {p}]
       \/ /\ DOMAIN Table(d) \subseteq find[d].seen
          /\ find' = [find EXCEPT ![d].pc = "publish", ![d].seen = {}, ![d].size = 0,
                                  ![d].old = {}]
    /\ UNCHANGED <<config, disk, environ, editing, read, task, polling, budget>>

\* "dictionary changed size during iteration": the discovery is over.
Raises(d) ==
    /\ find[d].pc = "next" /\ Cardinality(DOMAIN Table(d)) # find[d].size
    /\ find' = [find EXCEPT ![d] = IF d = Admin THEN NoDiscovery ELSE Waiting]
    /\ task' = IF d = Admin THEN "none" ELSE task
    /\ UNCHANGED <<config, disk, environ, editing, read, polling, budget>>

\* The provider's list becomes the candidates; those on the white list of the
\* object it was asked by, as that is by now, are collected.
Answers(d) ==
    LET p == find[d].at
        listed == IF find[d].held = {} THEN Table(d)[p].listed ELSE UNION find[d].held
    IN
    /\ find[d].pc = "ask"
    /\ candidates' = [candidates EXCEPT ![p] = IF Offers[p] # {} THEN Offers[p] ELSE @]
    /\ find' = [find EXCEPT ![d].pc = "next", ![d].at = None, ![d].held = {},
                            ![d].merged = With(@, p, Offers[p] \cap listed)]
    /\ UNCHANGED <<providers, registry, disk, environ, editing, read, task, polling, budget>>

\* No answer is an empty list, and the old candidates are kept.
NoAnswer(d) ==
    /\ find[d].pc = "ask" /\ Spend({"faults"})
    /\ find' = [find EXCEPT ![d].pc = "next", ![d].at = None, ![d].held = {}]
    /\ UNCHANGED <<config, disk, environ, editing, read, task, polling>>

\* Mutant: what is collected is added to the registry.
PublishAdds(d) ==
    /\ find[d].pc = "publish"
    /\ registry' \in WithSpecs([short |-> [m \in Models |-> IF registry.short[m] = None
                                   THEN find[d].merged.short[m] ELSE registry.short[m]],
                                full |-> registry.full \cup find[d].merged.full], providers)
    /\ Ends(d)
    /\ UNCHANGED <<providers, candidates, disk, environ, editing, read, task, polling, budget>>

\* The registry is replaced, unless by nothing.
Publish(d) ==
    /\ find[d].pc = "publish"
    /\ \E r \in WithSpecs(find[d].merged, providers) :
          registry' = IF r = Empty THEN registry ELSE r
    /\ Ends(d)
    /\ UNCHANGED <<providers, candidates, disk, environ, editing, read, task, polling, budget>>

Discovers(d) == Ask(d) \/ Raises(d) \/ Answers(d) \/ NoAnswer(d) \/ Publish(d)

-----------------------------------------------------------------------------
(* Polling.                                                                *)

\* _poll_loop: the event, or the interval has passed.
PollStarts(w) ==
    /\ find[w].pc = "wait" /\ ~stop
    /\ Begin(w)
    /\ UNCHANGED <<config, disk, environ, editing, read, task, polling, budget>>

PollExits(w) ==
    /\ find[w].pc = "wait" /\ stop
    /\ find' = [find EXCEPT ![w] = NoDiscovery]
    /\ UNCHANGED <<config, disk, environ, editing, read, task, polling, budget>>

PollerAlive == pollThread # None /\ find[pollThread].pc # "off"

\* A new thread, whichever.
Fresh == CHOOSE w \in Pollers : find[w].pc = "off"

\* start_polling, at the end of a task: not beside a living thread that is
\* known, nor without a provider.
StartPolling ==
    \/ /\ DOMAIN providers = {} \/ PollerAlive
       /\ find' = [find EXCEPT ![Admin] = NoDiscovery]
       /\ UNCHANGED <<pollThread, stop>>
    \/ /\ DOMAIN providers # {} /\ ~PollerAlive
       /\ stop' = FALSE
       /\ \E w \in Pollers : find[w].pc = "off"
       /\ pollThread' = Fresh
       /\ find' = [find EXCEPT ![Admin] = NoDiscovery, ![Fresh] = Waiting]

-----------------------------------------------------------------------------
(* The admin thread: the first request, /admin/cloud/discover and          *)
(* /admin/cloud/reload, SIGHUP.                                            *)

\* ensure_cloud_discovered.
FirstRequest ==
    /\ task = "none" /\ ~discovered /\ DOMAIN providers # {}
    /\ task' = "first" /\ Begin(Admin)
    /\ UNCHANGED <<config, disk, environ, editing, read, polling, budget>>

Discover ==
    /\ task = "none" /\ Spend({"tasks"})
    /\ task' = "discover" /\ Begin(Admin)
    /\ UNCHANGED <<config, disk, environ, editing, read, polling>>

\* reload: stop_polling, which waits 10 s for the thread; a discovery may last
\* longer than that and goes on.
ReloadBegins(t) ==
    /\ task = "none" /\ Spend({"tasks"})
    /\ task' = t /\ stop' = TRUE
    /\ find' = [find EXCEPT ![Admin].pc = "join"]
    /\ UNCHANGED <<config, disk, environ, editing, read, pollThread, discovered>>

\* It then waits for _save_lock, but keeps it only to note the path.
Joined ==
    /\ find[Admin].pc = "join" /\ saveLock = None
    /\ ~(PollerAlive /\ find[pollThread].pc = "wait")
    /\ pollThread' = None
    /\ find' = [find EXCEPT ![Admin].pc = "clear"]
    /\ UNCHANGED <<config, disk, environ, editing, read, task, stop, discovered, budget>>

\* The providers are a new dictionary; discoveries keep the one they have.
Clear ==
    /\ find[Admin].pc = "clear"
    /\ providers' = <<>>
    /\ find' = [d \in Discoverers |->
                  IF d = Admin THEN [find[d] EXCEPT !.pc = "inject"]
                  ELSE IF find[d].pc \in {"next", "ask"} /\ find[d].old = {}
                       THEN [find[d] EXCEPT !.old = {providers}] ELSE find[d]]
    /\ unsaved' = (\E e \in Editors : edit[e].pc = "write")
    /\ UNCHANGED <<registry, candidates, disk, environ, edit, saveLock, read, task, polling, budget>>

\* _load_config: the environment is set,
Inject ==
    /\ find[Admin].pc = "inject"
    /\ environ' = Injected(environ)
    /\ unsaved' = (unsaved \/ keyLock # None)
    /\ find' = [find EXCEPT ![Admin].pc = "read"]
    /\ UNCHANGED <<config, disk, edit, saveLock, read, task, polling, budget>>

\* the file read and its references expanded, unless it is missing or broken,
ReadConfig ==
    /\ find[Admin].pc = "read"
    /\ \/ read' = Loaded(environ) /\ UNCHANGED <<unsaved, budget>>
       \/ Spend({"faults"}) /\ unsaved' = TRUE /\ UNCHANGED read
    /\ find' = [find EXCEPT ![Admin].pc = "install"]
    /\ UNCHANGED <<config, disk, environ, edit, saveLock, task, polling>>

\* and its providers put into the dictionary, in no lock.
Install(p) ==
    /\ find[Admin].pc = "install"
    /\ Put(p, read[p]) /\ Kept(p)
    /\ read' = [q \in DOMAIN read \ {p} |-> read[q]]
    /\ UNCHANGED <<registry, candidates, disk, environ, editing, task, polling, budget>>

\* SIGHUP's reload ends here; the handler's discovers and polls again.
Reloaded ==
    /\ find[Admin].pc = "install" /\ DOMAIN read = {}
    /\ IF task = "signal"
       THEN task' = "none" /\ find' = [find EXCEPT ![Admin] = NoDiscovery]
       ELSE Begin(Admin) /\ UNCHANGED task
    /\ UNCHANGED <<config, disk, environ, editing, read, polling, budget>>

\* /admin/cloud/discover starts no polling, and the first request none after it.
TaskEnds ==
    /\ find[Admin].pc = "done"
    /\ task' = "none" /\ discovered' = TRUE
    /\ IF task = "discover"
       THEN find' = [find EXCEPT ![Admin] = NoDiscovery] /\ UNCHANGED <<pollThread, stop>>
       ELSE StartPolling
    /\ UNCHANGED <<config, disk, environ, editing, read, budget>>

-----------------------------------------------------------------------------
Edits(e) ==
    \/ \E p \in Providers, k \in Keys \cup Vars \cup {None} : AddChecked(e, p, k)
    \/ \E S \in {{}, Models} : Inserted(e, S)
    \/ \E p \in DOMAIN providers : DropProvider(e, p)
    \/ \E p \in DOMAIN providers, m \in Models :
          EnableModel(e, p, m) \/ DisableModel(e, p, m) \/ AddManual(e, p, m) \/ RemoveManual(e, p, m)

Saves(e) ==
    KeyOpens(e) \/ KeyCloses(e) \/ KeyFails(e) \/ Serialize(e) \/ Replace(e) \/ SaveFails(e)
Polls(w) == PollStarts(w) \/ PollExits(w) \/ Discovers(w)
Loads == Clear \/ Inject \/ ReadConfig \/ \E p \in DOMAIN read : Install(p)
AdminStep == Joined \/ Loads \/ Reloaded \/ TaskEnds \/ Discovers(Admin)

Next ==
    \/ \E e \in Editors : Edits(e) \/ Saves(e)
    \/ \E w \in Pollers : Polls(w)
    \/ FirstRequest \/ Discover \/ ReloadBegins("reload") \/ ReloadBegins("signal") \/ AdminStep
    \/ Restart \/ \E p \in Providers : HandEdit(p)

Spec == Init /\ [][Next]_vars

\* Requests to providers and writes end; the poll loop's wait has a timeout.
FairSpec ==
    /\ Spec /\ WF_vars(AdminStep)
    /\ \A e \in Editors : WF_vars(Saves(e))
    /\ \A w \in Pollers : WF_vars(Polls(w))

-----------------------------------------------------------------------------
(* Properties.                                                             *)

Provider == [listed : SUBSET Models, specs : SUBSET Models, key : Keys \cup {None}]
Registry == [short : [Models -> Providers \cup {None}], full : SUBSET (Providers \X Models)]

EditState == [pc : {"idle", "insert", "save", "write"}, p : Providers \cup {None},
              key : Keys \cup Vars \cup {None}, todo : SUBSET (Vars \X Keys),
              data : SUBSET Tables(Row)]
AdminOnly == {"done", "join", "clear", "inject", "read", "install"}
FindState == [pc : {"off", "wait", "next", "ask", "publish"} \cup AdminOnly,
              seen : SUBSET Providers, size : 0 .. Cardinality(Providers),
              at : Providers \cup {None}, held : SUBSET SUBSET Models,
              old : SUBSET Tables(Provider), merged : Registry]

\* A discovery asks a provider that it has, or whose object it keeps.
Asking ==
    \A d \in Discoverers : find[d].pc = "ask" =>
        find[d].at \in Providers /\ (find[d].held # {} \/ find[d].at \in DOMAIN Table(d))

\* The type of every variable but the bounds; a discovery keeps at most one old dictionary.
TypeOK ==
    /\ providers \in Tables(Provider) /\ registry \in Registry /\ read \in Tables(Provider)
    /\ candidates \in [Providers -> SUBSET Models] /\ file \in Tables(Row)
    /\ {secrets, environ} \subseteq [Vars -> Keys \cup {None}]
    /\ edit \in [Editors -> EditState] /\ find \in [Discoverers -> FindState]
    /\ \A e \in Editors : edit[e].pc = "insert" => edit[e].p \in Providers
    /\ \A d \in Discoverers :
          /\ Cardinality(find[d].old) <= 1
          /\ find[d].pc \in AdminOnly => d = Admin
    /\ Asking
    /\ {saveLock, keyLock} \subseteq Editors \cup {None} /\ task \in Tasks \cup {"none"}
    /\ pollThread \in Pollers \cup {None} /\ {stop, discovered, unsaved, torn} \subseteq BOOLEAN

\* What the handlers have changed is in the file, and what the file says came
\* into the memory, keys included: when no handler is between its change and
\* the end of its save and no reload under way, the file says what the memory
\* would save. Excepted: the last save failed, overlapped a reload or has been
\* edited by hand since; the last reload failed; secrets.env was lost.
Saved ==
    (\A e \in Editors : edit[e].pc \in {"idle", "insert"}) /\ ~Loading /\ ~unsaved /\ ~torn
        => AsSaved(file) = Serialized

\* A short name leads to a provider under whose own name the model is known as
\* well: no edit and no discovery leaves one without the other.
BothNames == \A m \in Models :
    registry.short[m] # None => <<registry.short[m], m>> \in registry.full

\* The models a provider serves: specified, or listed and offered.
Serves(p) == providers[p].specs \cup (providers[p].listed \cap Offers[p])
Served(m) == {p \in DOMAIN providers : m \in Serves(p)}
Agrees ==
    /\ \A m \in Models : IF Served(m) = {} THEN registry.short[m] = None
                                           ELSE registry.short[m] \in Served(m)
    /\ \A k \in registry.full : k[1] \in Served(k[2])

\* While polling goes on, the registry comes to agree with the providers: a
\* discovery that overlapped an edit, or an edit that hides a name of another
\* provider, does no lasting harm.  (Nothing to serve is taken for a failure.)
Converges ==
    <>[](pollThread # None) => <>[](Agrees \/ \A m \in Models : Served(m) = {})

\* Where no save fails and nobody edits the file by hand, a provider leaves it
\* only when a handler is dropping it: reloading loses none.
ProviderKept ==
    [][\A p \in DOMAIN file \ DOMAIN file' : \E e \in Editors : edit[e].p = p]_vars

\* A provider is used with the key that was given last.
KeyGivenLast ==
    [][\A p \in DOMAIN providers \cap DOMAIN providers' :
          providers[p].key # providers'[p].key => \E e \in Editors : Inserted(e, {}) \/ Inserted(e, Models)]_vars

\* A provider that the file gives a key has one in the memory.
KeyResolves ==
    \A p \in DOMAIN providers \cap DOMAIN file : file[p].keyed => providers[p].key # None

\* There is one poll thread.
OnePoller == Cardinality({w \in Pollers : find[w].pc # "off"}) <= 1
=============================================================================
