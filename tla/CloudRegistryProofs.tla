------------------------- MODULE CloudRegistryProofs -------------------------
(***************************************************************************)
(* Proofs about CloudRegistry: its type, that a model's own name has the   *)
(* one with the provider's in front beside it, and that the file says what *)
(* the memory would save.                                                  *)
(*                                                                         *)
(* They hold for every number of providers, models, keys, editors and      *)
(* pollers, for whatever the providers offer and whichever variables they  *)
(* share, and for any number of edits, by handlers or by hand, tasks,      *)
(* failures and restarts.                                                  *)
(***************************************************************************)
EXTENDS CloudRegistry, FiniteSetTheorems, TLAPS

-----------------------------------------------------------------------------
(* Tables and registries.                                                  *)

(* A table is a function whose domain is a set of providers.               *)
LEMMA TablesMeans ==
    ASSUME NEW S, NEW f
    PROVE  f \in Tables(S) <=> \E D \in SUBSET Providers : f \in [D -> S]
BY DEF Tables

(* What a table holds, and that it is the function of what it holds.       *)
LEMMA TableHas ==
    ASSUME NEW S, NEW f \in Tables(S)
    PROVE  /\ DOMAIN f \subseteq Providers /\ \A p \in DOMAIN f : f[p] \in S
           /\ f = [p \in DOMAIN f |-> f[p]]
BY TablesMeans

(* The empty tuple is the table without a provider.                        *)
LEMMA NoTable ==
    ASSUME NEW S
    PROVE  <<>> \in Tables(S) /\ DOMAIN <<>> = {}
<1>1. <<>> \in [{} -> S] /\ DOMAIN <<>> = {} OBVIOUS
<1> QED BY <1>1, TablesMeans

(* A function on a set of providers is a table.                            *)
LEMMA IsTable ==
    ASSUME NEW S, NEW D \in SUBSET Providers, NEW f, f \in [D -> S]
    PROVE  f \in Tables(S) /\ DOMAIN f = D
BY TablesMeans

(* Adding the models of a provider keeps a registry one.                   *)
LEMMA WithTyped ==
    ASSUME NEW reg \in Registry, NEW p \in Providers, NEW S \in SUBSET Models
    PROVE  With(reg, p, S) \in Registry
BY DEF With, Registry

(* So does removing a provider.                                            *)
LEMMA WithoutTyped ==
    ASSUME NEW reg \in Registry, NEW p
    PROVE  Without(reg, p) \in Registry
BY DEF Without, Registry

(* The empty registry is one.                                              *)
LEMMA EmptyTyped == Empty \in Registry
BY DEF Empty, Registry

(* _register_spec_only_models adds, for some models, a provider as their   *)
(* owner, under both names.                                                *)
LEMMA WithSpecsMeans ==
    ASSUME NEW reg \in Registry, NEW provs \in Tables(Provider), NEW r \in WithSpecs(reg, provs)
    PROVE  \E F \in SUBSET Models : \E owner \in [F -> Providers] :
              r = [short |-> [m \in Models |-> IF m \in F THEN owner[m] ELSE reg.short[m]],
                   full |-> reg.full \cup {<<owner[m], m>> : m \in F}]
<1> DEFINE specified(m) == {p \in DOMAIN provs : m \in provs[p].specs}
           F == {m \in Models : reg.short[m] = None /\ specified(m) # {}}
<1>1. PICK owner \in [F -> DOMAIN provs] :
         r = [short |-> [m \in Models |-> IF m \in F THEN owner[m] ELSE reg.short[m]],
              full |-> reg.full \cup {<<owner[m], m>> : m \in F}]
      BY Zenon DEF WithSpecs
<1>2. DOMAIN provs \subseteq Providers BY TableHas
<1>3. F \in SUBSET Models OBVIOUS
<1> HIDE DEF F
<1>4. owner \in [F -> Providers] BY <1>1, <1>2
<1> QED BY <1>1, <1>3, <1>4

(* So it keeps a registry one.                                             *)
LEMMA WithSpecsTyped ==
    ASSUME NEW reg \in Registry, NEW provs \in Tables(Provider), NEW r \in WithSpecs(reg, provs)
    PROVE  r \in Registry
<1>0. PICK F \in SUBSET Models : \E owner \in [F -> Providers] :
         r = [short |-> [m \in Models |-> IF m \in F THEN owner[m] ELSE reg.short[m]],
              full |-> reg.full \cup {<<owner[m], m>> : m \in F}]
      BY WithSpecsMeans
<1>1. PICK owner \in [F -> Providers] :
         r = [short |-> [m \in Models |-> IF m \in F THEN owner[m] ELSE reg.short[m]],
              full |-> reg.full \cup {<<owner[m], m>> : m \in F}]
      BY <1>0
<1>2. [m \in Models |-> IF m \in F THEN owner[m] ELSE reg.short[m]]
         \in [Models -> Providers \cup {None}]
      BY DEF Registry
<1>3. reg.full \cup {<<owner[m], m>> : m \in F} \in SUBSET (Providers \X Models) BY DEF Registry
<1> QED BY <1>1, <1>2, <1>3 DEF Registry

(* And so does _rebuild_provider_registry.                                 *)
LEMMA RebuiltTyped ==
    ASSUME TypeOK, NEW p \in Providers, NEW provs \in Tables(Provider), p \in DOMAIN provs,
           NEW r \in Rebuilt(p, provs)
    PROVE  r \in Registry
<1>1. provs[p] \in Provider BY TableHas
<1>2. candidates[p] \cap provs[p].listed \in SUBSET Models BY <1>1 DEF TypeOK, Provider
<1>3. With(Without(registry, p), p, candidates[p] \cap provs[p].listed) \in Registry
      BY <1>2, WithoutTyped, WithTyped DEF TypeOK
<1> QED BY <1>3, WithSpecsTyped DEF Rebuilt

KeyTable == [Vars -> Keys \cup {None}]

(* What a reader finds in secrets.env, and what it makes of the            *)
(* environment.                                                            *)
LEMMA InjectedTyped ==
    ASSUME secrets \in KeyTable, NEW env \in KeyTable
    PROVE  OnDisk \in KeyTable /\ NoKeys \in KeyTable /\ Injected(env) \in KeyTable
BY DEF KeyTable, OnDisk, NoKeys, Injected

(* _load_config makes a table of what the file holds.                      *)
LEMMA LoadedTyped ==
    ASSUME file \in Tables(Row), NEW env \in KeyTable
    PROVE  Loaded(env) \in Tables(Provider) /\ DOMAIN Loaded(env) = DOMAIN file
<1>1. DOMAIN file \subseteq Providers /\ \A p \in DOMAIN file : file[p] \in Row BY TableHas
<1>2. \A p \in DOMAIN file : VarOf[p] \in Vars BY <1>1, VarAssumption
<1>3. Loaded(env) \in [DOMAIN file -> Provider]
      BY <1>1, <1>2 DEF Loaded, Row, Provider, KeyTable
<1> QED BY <1>1, <1>3, IsTable

(* One provider is put into a table, or taken out of it.                   *)
LEMMA PutTyped ==
    ASSUME providers \in Tables(Provider), NEW p \in Providers, NEW row \in Provider, Put(p, row)
    PROVE  /\ providers' \in Tables(Provider) /\ DOMAIN providers' = DOMAIN providers \cup {p}
           /\ \A q \in DOMAIN providers' : providers'[q] = IF q = p THEN row ELSE providers[q]
<1>1. DOMAIN providers \subseteq Providers /\ \A q \in DOMAIN providers : providers[q] \in Provider
      BY TableHas
<1>2. providers' \in [DOMAIN providers \cup {p} -> Provider] BY <1>1 DEF Put
<1> QED BY <1>1, <1>2, IsTable DEF Put

(* A table without one of its entries is a table.                          *)
LEMMA LessTyped ==
    ASSUME NEW S, NEW f \in Tables(S), NEW p
    PROVE  [q \in DOMAIN f \ {p} |-> f[q]] \in Tables(S)
<1>1. DOMAIN f \subseteq Providers /\ \A q \in DOMAIN f : f[q] \in S BY TableHas
<1>2. [q \in DOMAIN f \ {p} |-> f[q]] \in [DOMAIN f \ {p} -> S] BY <1>1
<1> QED BY <1>1, <1>2, IsTable

-----------------------------------------------------------------------------
(* The type of every variable.                                             *)

(* No dictionary has more entries than there are providers.                *)
LEMMA SizeTyped ==
    ASSUME NEW f \in Tables(Provider)
    PROVE  Cardinality(DOMAIN f) \in 0 .. Cardinality(Providers)
<1>1. DOMAIN f \subseteq Providers BY TableHas
<1>2. IsFiniteSet(DOMAIN f) /\ Cardinality(DOMAIN f) <= Cardinality(Providers)
      BY <1>1, ProvidersAssumption, FS_Subset
<1> QED BY <1>2, ProvidersAssumption, FS_CardinalityType

(* A discoverer that is off, or waits.                                     *)
LEMMA NoDiscoveryTyped ==
    /\ NoDiscovery \in FindState /\ Waiting \in FindState
    /\ NoDiscovery.pc = "off" /\ Waiting.pc = "wait"
    /\ Cardinality(NoDiscovery.old) = 0 /\ Cardinality(Waiting.old) = 0
<1>1. 0 \in 0 .. Cardinality(Providers) BY ProvidersAssumption, FS_CardinalityType
<1>2. Cardinality({}) = 0 BY FS_EmptySet
<1> QED BY <1>1, <1>2, EmptyTyped DEF NoDiscovery, Waiting, FindState

\* What a discoverer is, whatever the providers are.
Finder(d, x) ==
    x \in FindState /\ Cardinality(x.old) <= 1 /\ (x.pc \in AdminOnly => d = Admin)

Finders == find \in [Discoverers -> FindState] /\ \A d \in Discoverers : Finder(d, find[d])

(* The type of the discoverers, from that of the variables.                *)
LEMMA FindersTyped ==
    TypeOK => Finders
BY DEF TypeOK, Finders, Finder

(* One discoverer moves, to where it may be.                               *)
LEMMA OneFinds ==
    ASSUME Finders, NEW d \in Discoverers, NEW x, Finder(d, x), find' = [find EXCEPT ![d] = x]
    PROVE  Finders'
BY DEF Finders, Finder

(* A discovery that asks nobody has nothing to keep of a provider.         *)
LEMMA NotAsking ==
    ASSUME TypeOK, NEW d \in Discoverers, NEW x, x.pc # "ask", find' = [find EXCEPT ![d] = x],
           DOMAIN providers \subseteq DOMAIN providers'
    PROVE  Asking'
BY DEF TypeOK, Asking, Table

(* Where no discoverer moves, and no provider leaves.                      *)
LEMMA StillAsking ==
    ASSUME TypeOK, UNCHANGED find, DOMAIN providers \subseteq DOMAIN providers'
    PROVE  Asking'
BY DEF TypeOK, Asking, Table

(* A provider that is replaced or taken out leaves its object to those     *)
(* that are asking it.                                                     *)
LEMMA KeptTyped ==
    ASSUME TypeOK, NEW p \in Providers, Kept(p), DOMAIN providers \ {p} \subseteq DOMAIN providers'
    PROVE  Finders' /\ Asking'
<1>0. \A q \in DOMAIN providers : providers[q] \in Provider BY TableHas DEF TypeOK
<1>1. ASSUME NEW d \in Discoverers
      PROVE  Finder(d, find'[d]) /\ (find'[d].pc = "ask" =>
               find'[d].at \in Providers /\ (find'[d].held # {} \/ find'[d].at \in DOMAIN Table(d)'))
  <2>1. Finder(d, find[d]) BY FindersTyped DEF Finders
  <2>2. CASE /\ find[d].pc = "ask" /\ find[d].at = p /\ p \in DOMAIN providers
             /\ find[d].old = {} /\ find[d].held = {}
    <3> DEFINE x == [find[d] EXCEPT !.held = {providers[p].listed}]
    <3>1. find'[d] = x BY <2>2 DEF Kept
    <3>2. providers[p].listed \in SUBSET Models BY <1>0, <2>2 DEF Provider
    <3>3. /\ x \in FindState /\ x.pc = find[d].pc /\ x.at = find[d].at /\ x.old = find[d].old
          /\ x.held # {}
          BY <2>1, <3>2 DEF Finder, FindState
    <3> HIDE DEF x
    <3> QED BY <2>1, <2>2, <3>1, <3>3 DEF Finder, AdminOnly
  <2>3. CASE ~(/\ find[d].pc = "ask" /\ find[d].at = p /\ p \in DOMAIN providers
               /\ find[d].old = {} /\ find[d].held = {})
    <3>1. find'[d] = find[d] BY <2>3 DEF Kept
    <3> QED BY <2>1, <2>3, <3>1 DEF TypeOK, Asking, Table
  <2> QED BY <2>2, <2>3
<1>2. find' \in [Discoverers -> FindState]
  <2>1. find' = [d \in Discoverers |-> find'[d]] BY DEF Kept
  <2> QED BY <1>1, <2>1 DEF Finder
<1> QED BY <1>1, <1>2 DEF Finders, Asking

(* A discovery that has just begun.                                        *)
LEMMA NextTyped ==
    ASSUME NEW d \in Discoverers, NEW n \in 0 .. Cardinality(Providers)
    PROVE  Finder(d, [NoDiscovery EXCEPT !.pc = "next", !.size = n])
<1> DEFINE x == [NoDiscovery EXCEPT !.pc = "next", !.size = n]
<1>1. x \in FindState BY NoDiscoveryTyped DEF FindState
<1>2. x.pc = "next" /\ x.old = NoDiscovery.old BY DEF NoDiscovery
<1> QED BY <1>1, <1>2, NoDiscoveryTyped DEF Finder, AdminOnly

(* Beginning a discovery keeps the discoverers' type.                      *)
LEMMA BeginTyped ==
    ASSUME TypeOK, NEW d \in Discoverers, Begin(d)
    PROVE  Finders'
<1> DEFINE x == [NoDiscovery EXCEPT !.pc = "next", !.size = Cardinality(DOMAIN providers)]
<1>1. Cardinality(DOMAIN providers) \in 0 .. Cardinality(Providers) BY SizeTyped DEF TypeOK
<1>2. Finder(d, x) BY <1>1, NextTyped
<1>3. find' = [find EXCEPT ![d] = x] BY DEF Begin
<1> QED BY <1>2, <1>3, OneFinds, FindersTyped

(* Ending one does.                                                        *)
LEMMA EndsTyped ==
    ASSUME TypeOK, NEW d \in Discoverers, Ends(d)
    PROVE  Finders'
<1> DEFINE x == IF d = Admin THEN [NoDiscovery EXCEPT !.pc = "done"] ELSE Waiting
<1>1. Finder(d, x) BY NoDiscoveryTyped DEF NoDiscovery, Finder, FindState, AdminOnly
<1>2. find' = [find EXCEPT ![d] = x] BY DEF Ends
<1> QED BY <1>1, <1>2, OneFinds, FindersTyped

(* The type holds when the process starts.                                 *)
LEMMA InitTyped == Init => TypeOK
<1> SUFFICES ASSUME Init PROVE TypeOK OBVIOUS
<1>1. file \in Tables(Row) /\ secrets \in KeyTable /\ environ = secrets
      BY DisksAssumption DEF Init, KeyTable
<1>2. providers \in Tables(Provider) /\ read \in Tables(Provider)
      BY <1>1, LoadedTyped, NoTable DEF Init
<1>3. registry \in Registry BY <1>2, EmptyTyped, WithSpecsTyped DEF Init
<1>4. edit \in [Editors -> EditState] /\ \A e \in Editors : edit[e].pc = "idle"
      BY DEF Init, EditState, Idle
<1>5. Finders /\ Asking BY NoDiscoveryTyped DEF Init, Finders, Finder, AdminOnly, Asking
<1> QED BY <1>1, <1>2, <1>3, <1>4, <1>5 DEF Init, TypeOK, Finders, Finder, KeyTable

(* And when it starts again.                                               *)
LEMMA RestartTyped == TypeOK /\ Restart => TypeOK'
<1> SUFFICES ASSUME TypeOK, Restart PROVE TypeOK' OBVIOUS
<1>1. secrets' \in KeyTable /\ environ' \in KeyTable
      BY InjectedTyped DEF Restart, TypeOK, KeyTable
<1>2. providers' \in Tables(Provider) /\ read' \in Tables(Provider)
      BY <1>1, LoadedTyped, NoTable DEF Restart, TypeOK
<1>3. registry' \in Registry BY <1>2, WithSpecsTyped, EmptyTyped DEF Restart
<1>4. edit' \in [Editors -> EditState] /\ \A e \in Editors : edit'[e].pc = "idle"
      BY DEF Restart, EditState, Idle
<1>5. Finders' /\ Asking' BY NoDiscoveryTyped DEF Restart, Finders, Finder, AdminOnly, Asking
<1>6. candidates' \in [Providers -> SUBSET Models] /\ unsaved' \in BOOLEAN /\ torn' \in BOOLEAN
      BY DEF Restart, TypeOK
<1> QED BY <1>1, <1>2, <1>3, <1>4, <1>5, <1>6 DEF Restart, TypeOK, Finders, Finder, KeyTable

(* The operator's edit leaves a table.                                     *)
LEMMA HandTyped ==
    ASSUME TypeOK, NEW p \in Providers, HandEdit(p)
    PROVE  TypeOK'
<1>1. DOMAIN file \subseteq Providers /\ \A q \in DOMAIN file : file[q] \in Row
      BY TableHas DEF TypeOK
<1>2. file' \in Tables(Row)
  <2>1. CASE file' = [q \in DOMAIN file \ {p} |-> file[q]] BY <2>1, LessTyped DEF TypeOK
  <2>2. ASSUME NEW row \in Row,
               file' = [q \in DOMAIN file \cup {p} |-> IF q = p THEN row ELSE file[q]]
        PROVE  file' \in Tables(Row)
    <3>1. file' \in [DOMAIN file \cup {p} -> Row] BY <1>1, <2>2
    <3> QED BY <1>1, <3>1, IsTable
  <2> QED BY <2>1, <2>2 DEF HandEdit
<1>3. Asking' BY StillAsking DEF HandEdit, config
<1> QED BY <1>2, <1>3 DEF HandEdit, TypeOK, config, keys, polling

\* Where an editor is, and what is yet to be written.
Edited ==
    edit \in [Editors -> EditState] /\ \A e \in Editors : edit[e].pc = "insert" => edit[e].p \in Providers

(* One editor goes on, to where it may be.                                 *)
LEMMA OneEdits ==
    ASSUME TypeOK, NEW e \in Editors, NEW x \in EditState, x.pc = "insert" => x.p \in Providers,
           edit' = [edit EXCEPT ![e] = x]
    PROVE  Edited'
BY DEF TypeOK, Edited

(* An added provider, its key yet to be written.                           *)
LEMMA AddTyped ==
    ASSUME TypeOK, NEW e \in Editors, NEW p \in Providers, NEW k \in Keys \cup Vars \cup {None},
           AddChecked(e, p, k)
    PROVE  TypeOK'
<1> DEFINE todo == IF k \in Keys THEN {<<VarOf[p], k>>} ELSE {}
           new == [Idle EXCEPT !.pc = "insert", !.p = p, !.key = k, !.todo = todo]
<1>1. todo \subseteq Vars \X Keys BY VarAssumption
<1> HIDE DEF todo
<1>2. new \in EditState /\ new.p = p BY <1>1 DEF Idle, EditState
<1> HIDE DEF new
<1>3. edit' = [edit EXCEPT ![e] = new] BY DEF AddChecked, new, todo
<1>4. Edited' BY <1>2, <1>3, OneEdits
<1>5. Asking' BY StillAsking DEF AddChecked, config
<1> QED BY <1>4, <1>5 DEF AddChecked, TypeOK, Edited, config, disk, keys, polling

(* An editor that goes on, but not to the insertion.                       *)
LEMMA StepTyped ==
    ASSUME TypeOK, NEW e \in Editors, NEW pc \in {"idle", "save", "write"}, Step(e, pc)
    PROVE  Edited'
BY DEF Step, TypeOK, EditState, Edited

(* A provider that is inserted.                                            *)
LEMMA InsertTyped ==
    ASSUME TypeOK, NEW e \in Editors, NEW S \in SUBSET Models, Inserted(e, S)
    PROVE  TypeOK'
<1> DEFINE p == edit[e].p
           k == edit[e].key
           row == [listed |-> {}, specs |-> S, key |-> IF k \in Vars THEN environ'[k] ELSE k]
<1>1. p \in Providers /\ k \in Keys \cup Vars \cup {None}
      BY DEF Inserted, TypeOK, EditState
<1>2. environ' \in KeyTable BY InjectedTyped DEF Inserted, TypeOK, KeyTable
<1>3. row \in Provider BY <1>1, <1>2 DEF Provider, KeyTable
<1>4. Put(p, row) /\ Kept(p) /\ Step(e, "save") /\ registry' \in WithSpecs(registry, providers')
      BY DEF Inserted
<1> HIDE DEF p, row
<1>5. providers' \in Tables(Provider) /\ DOMAIN providers' = DOMAIN providers \cup {p}
      BY <1>1, <1>3, <1>4, PutTyped DEF TypeOK
<1>6. registry' \in Registry BY <1>4, <1>5, WithSpecsTyped DEF TypeOK
<1>7. Finders' /\ Asking' BY <1>1, <1>4, <1>5, KeptTyped
<1>8. Edited' BY <1>4, StepTyped
<1>9. UNCHANGED <<candidates, disk, saveLock, unsaved, read, task, polling>> BY DEF Inserted
<1> QED BY <1>2, <1>5, <1>6, <1>7, <1>8, <1>9
        DEF TypeOK, Finders, Finder, Edited, KeyTable, disk, keys, polling

(* A change of a provider's models.                                        *)
LEMMA CurateTyped ==
    ASSUME TypeOK, NEW e \in Editors, NEW p \in DOMAIN providers, NEW l \in SUBSET Models,
           NEW s \in SUBSET Models, Curated(e, p, l, s)
    PROVE  TypeOK'
<1>1. DOMAIN providers \subseteq Providers /\ \A q \in DOMAIN providers : providers[q] \in Provider
      BY TableHas DEF TypeOK
<1>2. DOMAIN providers' = DOMAIN providers BY DEF Curated
<1>3. providers' \in [DOMAIN providers -> Provider] BY <1>1 DEF Curated, Provider
<1>4. providers' \in Tables(Provider) BY <1>1, <1>3, IsTable
<1>5. registry' \in Registry BY <1>1, <1>2, <1>4, RebuiltTyped DEF Curated
<1>6. Edited' /\ Asking' BY <1>2, StepTyped, StillAsking DEF Curated
<1> QED BY <1>4, <1>5, <1>6 DEF Curated, TypeOK, Edited, disk, keys, polling

(* A provider that is dropped.                                             *)
LEMMA DropTyped ==
    ASSUME TypeOK, NEW e \in Editors, NEW p \in DOMAIN providers, DropProvider(e, p)
    PROVE  TypeOK'
<1>1. p \in Providers BY TableHas DEF TypeOK
<1>2. providers' \in Tables(Provider) /\ DOMAIN providers' = DOMAIN providers \ {p}
      BY LessTyped DEF DropProvider, Dropped, TypeOK
<1>3. registry' \in Registry BY WithoutTyped DEF DropProvider, TypeOK
<1>4. Finders' /\ Asking' BY <1>1, <1>2, KeptTyped DEF DropProvider, Dropped
<1>5. Edited'
  <2> DEFINE x == [edit[e] EXCEPT !.pc = "save", !.p = p]
  <2>1. edit[e] \in EditState BY DEF TypeOK
  <2>2. x \in EditState /\ x.pc = "save" BY <1>1, <2>1 DEF EditState
  <2>3. edit' = [edit EXCEPT ![e] = x] BY <2>1 DEF DropProvider, Dropped, TypeOK, EditState
  <2> HIDE DEF x
  <2> QED BY <2>2, <2>3, OneEdits
<1>6. candidates' \in [Providers -> SUBSET Models] BY DEF DropProvider, Dropped, TypeOK
<1>7. UNCHANGED <<disk, environ, saveLock, unsaved, read, task, polling>>
      BY DEF DropProvider, Dropped
<1> QED BY <1>2, <1>3, <1>4, <1>5, <1>6, <1>7
        DEF TypeOK, Finders, Finder, Edited, disk, keys, polling

(* What a save writes of a row is one, and a table of them a table.        *)
LEMMA AsSavedTyped ==
    ASSUME NEW f \in Tables(Row)
    PROVE  /\ AsSaved(f) \in Tables(Row) /\ DOMAIN AsSaved(f) = DOMAIN f
           /\ \A p \in DOMAIN f : /\ AsSaved(f)[p].listed = f[p].listed
                                  /\ AsSaved(f)[p].specs = {Short[m] : m \in f[p].specs}
                                  /\ AsSaved(f)[p].keyed = f[p].keyed
<1>1. DOMAIN f \subseteq Providers /\ \A p \in DOMAIN f : f[p] \in Row BY TableHas
<1>2. ASSUME NEW p \in DOMAIN f
      PROVE  /\ Written(f[p]) \in Row /\ Written(f[p]).listed = f[p].listed
             /\ Written(f[p]).specs = {Short[m] : m \in f[p].specs}
             /\ Written(f[p]).keyed = f[p].keyed
  <2>1. {Short[m] : m \in f[p].specs} \in SUBSET Models BY <1>1, ShortAssumption DEF Row
  <2> QED BY <1>1, <2>1 DEF Written, Row
<1>3. AsSaved(f) \in [DOMAIN f -> Row] BY <1>2 DEF AsSaved
<1> QED BY <1>1, <1>2, <1>3, IsTable DEF AsSaved

\* The rows that the memory holds, as a file would.
Rows == [p \in DOMAIN providers |->
            [listed |-> providers[p].listed, specs |-> providers[p].specs,
             keyed |-> providers[p].key # None]]

(* What save_config serializes is a table for the file, and keys.          *)
LEMMA SerializedTyped ==
    ASSUME TypeOK
    PROVE  /\ Rows \in Tables(Row) /\ Serialized = AsSaved(Rows) /\ DOMAIN Rows = DOMAIN providers
           /\ Serialized \in Tables(Row) /\ DOMAIN Serialized = DOMAIN providers
           /\ KeysOf \subseteq Vars \X Keys
<1>1. DOMAIN providers \subseteq Providers /\ \A q \in DOMAIN providers : providers[q] \in Provider
      BY TableHas DEF TypeOK
<1>2. Rows \in [DOMAIN providers -> Row] BY <1>1 DEF Rows, Row, Provider
<1>3. Rows \in Tables(Row) /\ DOMAIN Rows = DOMAIN providers BY <1>1, <1>2, IsTable
<1>4. Serialized = AsSaved(Rows) BY DEF Serialized, Rows
<1>5. KeysOf \subseteq Vars \X Keys BY <1>1, VarAssumption DEF KeysOf, Provider
<1> QED BY <1>3, <1>4, <1>5, AsSavedTyped

(* An editor at rest again.                                                *)
LEMMA IdleTyped == Idle \in EditState /\ Idle.pc = "idle" /\ Idle.data = {} /\ Idle.todo = {}
BY DEF Idle, EditState

(* Saving, whether it succeeds or fails.                                   *)
LEMMA SaveTyped ==
    ASSUME TypeOK, NEW e \in Editors, Saves(e)
    PROVE  TypeOK'
<1>0. Asking'
      BY StillAsking DEF Saves, KeyOpens, KeyCloses, KeyFails, Serialize, Serializes, Replace,
                         SaveFails, config
<1>1. CASE KeyOpens(e)
      BY <1>0, <1>1 DEF KeyOpens, TypeOK, config, editing, polling
<1>2. CASE KeyCloses(e)
  <2>1. PICK t \in edit[e].todo : /\ secrets' = [secrets EXCEPT ![t[1]] = t[2]]
                                  /\ edit' = [edit EXCEPT ![e].todo = @ \ {t}]
        BY <1>2 DEF KeyCloses
  <2>2. t[1] \in Vars /\ t[2] \in Keys BY DEF TypeOK, EditState
  <2>3. secrets' \in KeyTable BY <2>1, <2>2 DEF TypeOK, KeyTable
  <2>4. Edited' BY <2>1 DEF TypeOK, EditState, Edited
  <2> QED BY <1>0, <1>2, <2>3, <2>4 DEF KeyCloses, TypeOK, Edited, KeyTable, config, polling
<1>3. CASE KeyFails(e)
  <2>1. secrets' \in KeyTable BY <1>3, InjectedTyped DEF KeyFails, TypeOK, KeyTable, NoKeys
  <2>2. Edited' BY <1>3, IdleTyped, OneEdits DEF KeyFails
  <2>3. saveLock' \in Editors \cup {None} /\ unsaved' \in BOOLEAN /\ torn' \in BOOLEAN
        BY <1>3 DEF KeyFails, TypeOK
  <2> QED BY <1>0, <1>3, <2>1, <2>2, <2>3 DEF KeyFails, TypeOK, Edited, KeyTable, config, polling
<1>4. CASE Serialize(e)
  <2> DEFINE x == [edit[e] EXCEPT !.pc = "write", !.data = {Serialized}, !.todo = KeysOf]
  <2>1. x \in EditState /\ x.pc = "write" BY SerializedTyped DEF TypeOK, EditState
  <2>2. edit' = [edit EXCEPT ![e] = x] BY <1>4 DEF Serialize, Serializes
  <2> HIDE DEF x
  <2>3. Edited' BY <2>1, <2>2, OneEdits
  <2>4. unsaved' \in BOOLEAN BY <1>4 DEF Serialize, Serializes, Loading
  <2> QED BY <1>0, <1>4, <2>3, <2>4
          DEF Serialize, Serializes, TypeOK, Edited, config, disk, keys, polling
<1>5. CASE Replace(e)
  <2>1. file' \in Tables(Row) BY <1>5 DEF Replace, TypeOK, EditState
  <2>2. Edited' BY <1>5, IdleTyped, OneEdits DEF Replace
  <2> QED BY <1>0, <1>5, <2>1, <2>2 DEF Replace, TypeOK, Edited, config, keys, polling
<1>6. CASE SaveFails(e)
  <2>1. Edited' BY <1>6, IdleTyped, OneEdits DEF SaveFails
  <2> QED BY <1>0, <1>6, <2>1 DEF SaveFails, TypeOK, Edited, config, disk, keys, polling
<1> QED BY <1>1, <1>2, <1>3, <1>4, <1>5, <1>6 DEF Saves

(* The dictionary a discovery iterates over is a table.                    *)
LEMMA TableTyped ==
    ASSUME TypeOK, NEW d \in Discoverers
    PROVE  Table(d) \in Tables(Provider)
<1>1. find[d].old \subseteq Tables(Provider) BY DEF TypeOK, FindState
<1> QED BY <1>1 DEF Table, TypeOK

(* The type after a step of the discoverers alone.                         *)
LEMMA FoundTyped ==
    ASSUME TypeOK, Finders', Asking', registry' \in Registry,
           candidates' \in [Providers -> SUBSET Models], task' \in Tasks \cup {"none"},
           UNCHANGED <<providers, disk, environ, editing, read, polling>>
    PROVE  TypeOK'
BY DEF TypeOK, Finders, Finder, disk, keys, editing, polling

(* The next provider is asked, or none is left.                            *)
LEMMA AskTyped ==
    ASSUME TypeOK, NEW d \in Discoverers, Ask(d)
    PROVE  TypeOK'
<1>1. Finder(d, find[d]) BY FindersTyped DEF Finders
<1>2. DOMAIN Table(d) \subseteq Providers BY TableTyped, TableHas
<1>3. UNCHANGED <<config, disk, environ, editing, read, task, polling>> BY DEF Ask
<1>4. Finders' /\ Asking'
  <2>1. CASE \E p \in DOMAIN Table(d) \ find[d].seen :
                find' = [find EXCEPT ![d].pc = "ask", ![d].at = p, ![d].seen = @ \cup {p}]
    <3>1. PICK p \in DOMAIN Table(d) \ find[d].seen :
                find' = [find EXCEPT ![d].pc = "ask", ![d].at = p, ![d].seen = @ \cup {p}]
          BY <2>1
    <3> DEFINE x == [find[d] EXCEPT !.pc = "ask", !.at = p, !.seen = @ \cup {p}]
    <3>2. /\ x \in FindState /\ x.old = find[d].old /\ x.pc = "ask" /\ x.at = p
          /\ x.held = find[d].held
          BY <1>1, <1>2, <3>1 DEF Finder, FindState
    <3>3. find' = [find EXCEPT ![d] = x] BY <3>1 DEF Finders, TypeOK
    <3> HIDE DEF x
    <3>4. Finder(d, x) BY <1>1, <3>2 DEF Finder, AdminOnly
    <3>5. Finders' BY <3>3, <3>4, OneFinds, FindersTyped
    <3>6. p \in Providers /\ p \in DOMAIN Table(d) BY <1>2
    <3>7. \A y \in Discoverers :
             find'[y].old = find[y].old /\ (y # d => find'[y] = find[y]) /\ find'[d] = x
          BY <3>2, <3>3 DEF TypeOK
    <3>8. ASSUME NEW y \in Discoverers PROVE Table(y)' = Table(y)
      <4>1. providers' = providers BY <1>3 DEF config
      <4>2. find'[y].old = find[y].old BY <3>7
      <4>3. (CHOOSE f \in find'[y].old : TRUE) = (CHOOSE f \in find[y].old : TRUE) BY <4>2, Zenon
      <4>4. CASE find[y].old = {} BY <4>1, <4>2, <4>4 DEF Table
      <4>5. CASE find[y].old # {} BY <4>2, <4>3, <4>5, Zenon DEF Table
      <4> QED BY <4>4, <4>5
    <3>9. ASSUME NEW y \in Discoverers, find'[y].pc = "ask"
          PROVE  find'[y].at \in Providers /\ (find'[y].held # {} \/ find'[y].at \in DOMAIN Table(y)')
      <4>1. CASE y = d BY <3>2, <3>6, <3>7, <3>8, <4>1
      <4>2. CASE y # d
        <5>1. find'[y] = find[y] BY <3>7, <4>2
        <5> QED BY <3>8, <3>9, <5>1 DEF TypeOK, Asking
      <4> QED BY <4>1, <4>2
    <3>10. Asking' BY <3>9 DEF Asking
    <3> QED BY <3>5, <3>10
  <2>2. CASE find' = [find EXCEPT ![d].pc = "publish", ![d].seen = {}, ![d].size = 0, ![d].old = {}]
    <3> DEFINE x == [find[d] EXCEPT !.pc = "publish", !.seen = {}, !.size = 0, !.old = {}]
    <3>1. 0 \in 0 .. Cardinality(Providers) /\ Cardinality({}) = 0
          BY ProvidersAssumption, FS_CardinalityType, FS_EmptySet
    <3>2. x \in FindState BY <1>1, <3>1 DEF Finder, FindState
    <3>3. x.pc = "publish" /\ x.old = {} BY <1>1 DEF Finder, FindState
    <3>4. Finder(d, x) BY <3>1, <3>2, <3>3 DEF Finder, AdminOnly
    <3>5. find' = [find EXCEPT ![d] = x] BY <2>2 DEF Finders, TypeOK
    <3> HIDE DEF x
    <3> QED BY <1>3, <3>3, <3>4, <3>5, OneFinds, NotAsking, FindersTyped DEF config
  <2> QED BY <2>1, <2>2 DEF Ask
<1> QED BY <1>3, <1>4, FoundTyped DEF TypeOK, config

(* The dictionary has changed its size.                                    *)
LEMMA RaisesTyped ==
    ASSUME TypeOK, NEW d \in Discoverers, Raises(d)
    PROVE  TypeOK'
<1> DEFINE x == IF d = Admin THEN NoDiscovery ELSE Waiting
<1>1. Finder(d, x) /\ x.pc # "ask" BY NoDiscoveryTyped DEF Finder, AdminOnly
<1>2. find' = [find EXCEPT ![d] = x] BY DEF Raises
<1> HIDE DEF x
<1>3. Finders' BY <1>1, <1>2, OneFinds, FindersTyped
<1>4. Asking' BY <1>1, <1>2, NotAsking DEF Raises, config
<1> QED BY <1>3, <1>4, FoundTyped DEF Raises, TypeOK, config

(* A discovery goes on to the next provider.                               *)
LEMMA OnTyped ==
    ASSUME TypeOK, NEW d \in Discoverers, NEW m \in Registry,
           find' = [find EXCEPT ![d].pc = "next", ![d].at = None, ![d].held = {}, ![d].merged = m],
           UNCHANGED providers
    PROVE  Finders' /\ Asking'
<1> DEFINE x == [find[d] EXCEPT !.pc = "next", !.at = None, !.held = {}, !.merged = m]
<1>1. Finder(d, find[d]) BY FindersTyped DEF Finders
<1>2. x \in FindState /\ x.pc = "next" /\ x.old = find[d].old BY <1>1 DEF Finder, FindState
<1>3. find' = [find EXCEPT ![d] = x] BY DEF TypeOK
<1> HIDE DEF x
<1>4. Finder(d, x) BY <1>1, <1>2 DEF Finder, AdminOnly
<1> QED BY <1>2, <1>3, <1>4, OneFinds, NotAsking, FindersTyped

(* A provider has answered.                                                *)
LEMMA AnswersTyped ==
    ASSUME TypeOK, NEW d \in Discoverers, Answers(d)
    PROVE  TypeOK'
<1> DEFINE p == find[d].at
           listed == IF find[d].held = {} THEN Table(d)[p].listed ELSE UNION find[d].held
<1>1. Finder(d, find[d]) BY FindersTyped DEF Finders
<1>2. p \in Providers /\ Offers[p] \in SUBSET Models
      BY OffersAssumption DEF Answers, TypeOK, Asking
<1>3. With(find[d].merged, p, Offers[p] \cap listed) \in Registry
      BY <1>1, <1>2, WithTyped DEF Finder, FindState
<1> HIDE DEF listed, p
<1>4. /\ find' = [find EXCEPT ![d].pc = "next", ![d].at = None, ![d].held = {},
                              ![d].merged = With(@, p, Offers[p] \cap listed)]
      /\ candidates' = [candidates EXCEPT ![p] = IF Offers[p] # {} THEN Offers[p] ELSE @]
      BY Zenon DEF Answers, p, listed
<1>5. UNCHANGED <<providers, registry, disk, environ, editing, read, task, polling>>
      BY DEF Answers
<1>6. find' = [find EXCEPT ![d].pc = "next", ![d].at = None, ![d].held = {},
                           ![d].merged = With(find[d].merged, p, Offers[p] \cap listed)]
      BY <1>1, <1>4 DEF TypeOK, Finder, FindState
<1>7. Finders' /\ Asking' BY <1>3, <1>5, <1>6, OnTyped
<1>8. candidates' \in [Providers -> SUBSET Models] BY <1>2, <1>4 DEF TypeOK
<1> QED BY <1>5, <1>7, <1>8, FoundTyped DEF TypeOK

(* A provider has not.                                                     *)
LEMMA NoAnswerTyped ==
    ASSUME TypeOK, NEW d \in Discoverers, NoAnswer(d)
    PROVE  TypeOK'
<1>1. find[d].merged \in Registry BY DEF TypeOK, FindState
<1>2. find' = [find EXCEPT ![d].pc = "next", ![d].at = None, ![d].held = {},
                           ![d].merged = find[d].merged]
      BY DEF NoAnswer, TypeOK, FindState
<1>3. UNCHANGED <<config, disk, environ, editing, read, task, polling>> BY DEF NoAnswer
<1>4. Finders' /\ Asking' BY <1>1, <1>2, <1>3, OnTyped DEF config
<1> QED BY <1>3, <1>4, FoundTyped DEF TypeOK, config

(* The registry is replaced.                                               *)
LEMMA PublishTyped ==
    ASSUME TypeOK, NEW d \in Discoverers, Publish(d)
    PROVE  TypeOK'
<1> DEFINE x == IF d = Admin THEN [NoDiscovery EXCEPT !.pc = "done"] ELSE Waiting
<1>1. x.pc # "ask" BY NoDiscoveryTyped DEF NoDiscovery
<1>2. find' = [find EXCEPT ![d] = x] BY DEF Publish, Ends
<1> HIDE DEF x
<1>3. Finders' /\ Asking' BY <1>1, <1>2, EndsTyped, NotAsking DEF Publish
<1>4. find[d].merged \in Registry BY DEF TypeOK, FindState
<1>5. registry' \in Registry BY <1>4, WithSpecsTyped DEF Publish, TypeOK
<1> QED BY <1>3, <1>5, FoundTyped DEF Publish, TypeOK

(* A step of discover_all.                                                 *)
LEMMA DiscoversTyped ==
    ASSUME TypeOK, NEW d \in Discoverers, Discovers(d)
    PROVE  TypeOK'
BY AskTyped, RaisesTyped, AnswersTyped, NoAnswerTyped, PublishTyped DEF Discovers

(* A discovery that begins asks nobody yet.                                *)
LEMMA BeginAsking ==
    ASSUME TypeOK, NEW d \in Discoverers, Begin(d), UNCHANGED providers
    PROVE  Asking'
<1> DEFINE x == [NoDiscovery EXCEPT !.pc = "next", !.size = Cardinality(DOMAIN providers)]
<1>1. x.pc # "ask" /\ find' = [find EXCEPT ![d] = x] BY DEF Begin, NoDiscovery
<1> HIDE DEF x
<1> QED BY <1>1, NotAsking

(* A step of the poll loop.                                                *)
LEMMA PollTyped ==
    ASSUME TypeOK, NEW w \in Pollers, Polls(w)
    PROVE  TypeOK'
<1> USE DEF Discoverers
<1>1. CASE PollStarts(w)
  <2>1. Finders' /\ Asking' BY <1>1, BeginTyped, BeginAsking DEF PollStarts, config
  <2> QED BY <1>1, <2>1, FoundTyped DEF PollStarts, TypeOK, config
<1>2. CASE PollExits(w)
  <2>1. Finder(w, NoDiscovery) BY NoDiscoveryTyped DEF Finder, AdminOnly
  <2>2. Finders' BY <1>2, <2>1, OneFinds, FindersTyped DEF PollExits
  <2>3. Asking' BY <1>2, NotAsking, NoDiscoveryTyped DEF PollExits, config
  <2> QED BY <1>2, <2>2, <2>3, FoundTyped DEF PollExits, TypeOK, config
<1> QED BY <1>1, <1>2, DiscoversTyped DEF Polls

(* The admin thread is asked for a task.                                   *)
LEMMA AsksTyped ==
    ASSUME TypeOK, FirstRequest \/ Discover \/ ReloadBegins("reload") \/ ReloadBegins("signal")
    PROVE  TypeOK'
<1>0. Admin \in Discoverers BY DEF Discoverers
<1>1. CASE FirstRequest \/ Discover
  <2>1. Finders' /\ Asking'
        BY <1>0, <1>1, BeginTyped, BeginAsking DEF FirstRequest, Discover, config
  <2> QED BY <1>1, <2>1, FoundTyped DEF FirstRequest, Discover, TypeOK, config, Tasks
<1>2. ASSUME NEW t \in {"reload", "signal"}, ReloadBegins(t) PROVE TypeOK'
  <2> DEFINE x == [find[Admin] EXCEPT !.pc = "join"]
  <2>1. Finder(Admin, x) /\ x.pc = "join"
        BY <1>0, FindersTyped DEF Finders, Finder, FindState, AdminOnly
  <2>2. find' = [find EXCEPT ![Admin] = x] BY <1>2 DEF ReloadBegins
  <2> HIDE DEF x
  <2>3. Finders' /\ Asking'
        BY <1>0, <1>2, <2>1, <2>2, OneFinds, FindersTyped, NotAsking DEF ReloadBegins, config
  <2> QED BY <1>2, <2>3
          DEF ReloadBegins, TypeOK, Finders, Finder, config, disk, keys, editing, Tasks
<1> QED BY <1>1, <1>2

(* The memory is emptied; discoveries keep what they iterate over.         *)
LEMMA ClearTyped ==
    ASSUME TypeOK, Clear
    PROVE  TypeOK'
<1>0. Admin \in Discoverers BY DEF Discoverers
<1>1. Cardinality({providers}) = 1 BY FS_Singleton
<1>2. ASSUME NEW d \in Discoverers
      PROVE  Finder(d, find'[d]) /\ (find'[d].pc = "ask" =>
               find'[d].at \in Providers /\ (find'[d].held # {} \/ find'[d].at \in DOMAIN Table(d)'))
  <2>1. Finder(d, find[d]) BY FindersTyped DEF Finders
  <2>2. CASE d = Admin
    <3>1. find'[d] = [find[d] EXCEPT !.pc = "inject"] BY <2>2 DEF Clear
    <3>2. find'[d] \in FindState /\ find'[d].pc = "inject" /\ find'[d].old = find[d].old
          BY <2>1, <3>1 DEF Finder, FindState, AdminOnly
    <3> QED BY <2>1, <2>2, <3>2 DEF Finder
  <2>3. CASE d # Admin /\ find[d].pc \in {"next", "ask"} /\ find[d].old = {}
    <3> DEFINE x == [find[d] EXCEPT !.old = {providers}]
    <3>1. x \in FindState BY <2>1 DEF Finder, FindState, TypeOK
    <3>2. /\ x.pc = find[d].pc /\ x.at = find[d].at /\ x.held = find[d].held
          /\ x.old = {providers}
          BY <2>1 DEF Finder, FindState
    <3>3. find'[d] = x BY <2>3 DEF Clear
    <3> HIDE DEF x
    <3>4. Finder(d, x) BY <1>1, <2>1, <3>1, <3>2 DEF Finder
    <3>5. Table(d)' = providers /\ Table(d) = providers BY <2>3, <3>2, <3>3 DEF Table
    <3> QED BY <3>2, <3>3, <3>4, <3>5 DEF TypeOK, Asking
  <2>4. CASE d # Admin /\ ~(find[d].pc \in {"next", "ask"} /\ find[d].old = {})
    <3>1. find'[d] = find[d] BY <2>4 DEF Clear
    <3> QED BY <2>1, <2>4, <3>1 DEF TypeOK, Asking, Table
  <2> QED BY <2>2, <2>3, <2>4
<1>3. Finders' /\ Asking'
  <2>1. find' = [d \in Discoverers |-> find'[d]] BY DEF Clear
  <2> QED BY <1>2, <2>1 DEF Finders, Finder, Asking
<1>4. providers' \in Tables(Provider) BY NoTable DEF Clear
<1>5. unsaved' \in BOOLEAN BY DEF Clear
<1> QED BY <1>3, <1>4, <1>5 DEF Clear, TypeOK, Finders, Finder, disk, keys, polling

(* A provider that has been read comes into the memory.                    *)
LEMMA InstallTyped ==
    ASSUME TypeOK, NEW p \in DOMAIN read, Install(p)
    PROVE  TypeOK'
<1>1. p \in Providers /\ read[p] \in Provider BY TableHas DEF TypeOK
<1>2. providers' \in Tables(Provider) /\ DOMAIN providers' = DOMAIN providers \cup {p}
      BY <1>1, PutTyped DEF Install, TypeOK
<1>3. Finders' /\ Asking' BY <1>1, <1>2, KeptTyped DEF Install
<1>4. read' \in Tables(Provider) BY LessTyped DEF Install, TypeOK
<1>5. UNCHANGED <<registry, candidates, disk, environ, editing, task, polling>> BY DEF Install
<1> QED BY <1>2, <1>3, <1>4, <1>5 DEF TypeOK, Finders, Finder, disk, keys, editing, polling

(* The admin thread moves on in a reload.                                  *)
LEMMA AdminOn ==
    ASSUME TypeOK, NEW pc \in {"clear", "read", "install"}, find' = [find EXCEPT ![Admin].pc = pc],
           UNCHANGED providers
    PROVE  Finders' /\ Asking'
<1> DEFINE x == [find[Admin] EXCEPT !.pc = pc]
<1>0. Admin \in Discoverers BY DEF Discoverers
<1>1. Finder(Admin, x) /\ x.pc = pc
      BY <1>0, FindersTyped DEF Finders, Finder, FindState, AdminOnly
<1>2. find' = [find EXCEPT ![Admin] = x] OBVIOUS
<1> HIDE DEF x
<1> QED BY <1>0, <1>1, <1>2, OneFinds, FindersTyped, NotAsking

(* It goes on with its task.                                               *)
LEMMA AdminTyped ==
    ASSUME TypeOK, AdminStep
    PROVE  TypeOK'
<1>0. Admin \in Discoverers BY DEF Discoverers
<1>1. CASE Joined
  <2>1. Finders' /\ Asking' BY <1>1, AdminOn DEF Joined, config
  <2> QED BY <1>1, <2>1 DEF Joined, TypeOK, Finders, Finder, config, disk, keys, editing
<1>2. CASE Inject
  <2>1. Finders' /\ Asking' BY <1>2, AdminOn DEF Inject, config
  <2>2. environ' \in KeyTable /\ unsaved' \in BOOLEAN
        BY <1>2, InjectedTyped DEF Inject, TypeOK, KeyTable
  <2> QED BY <1>2, <2>1, <2>2
          DEF Inject, TypeOK, KeyTable, Finders, Finder, config, disk, keys, polling
<1>3. CASE ReadConfig
  <2>1. Finders' /\ Asking' BY <1>3, AdminOn DEF ReadConfig, config
  <2>2. read' \in Tables(Provider) /\ unsaved' \in BOOLEAN
        BY <1>3, LoadedTyped DEF ReadConfig, TypeOK, KeyTable
  <2> QED BY <1>3, <2>1, <2>2 DEF ReadConfig, TypeOK, Finders, Finder, config, disk, keys, polling
<1>4. CASE Reloaded
  <2>1. Finders' /\ Asking' /\ task' \in Tasks \cup {"none"}
    <3>1. CASE task = "signal"
      <4>1. Finder(Admin, NoDiscovery) /\ NoDiscovery.pc # "ask"
            BY NoDiscoveryTyped DEF Finder, AdminOnly
      <4> QED BY <1>0, <1>4, <3>1, <4>1, OneFinds, NotAsking, FindersTyped DEF Reloaded, config
    <3>2. CASE task # "signal"
          BY <1>0, <1>4, <3>2, BeginTyped, BeginAsking DEF Reloaded, TypeOK, config
    <3> QED BY <3>1, <3>2
  <2> QED BY <1>4, <2>1, FoundTyped DEF Reloaded, TypeOK, config
<1>5. CASE TaskEnds
  <2>1. /\ Finder(Admin, NoDiscovery) /\ \A d \in Discoverers : Finder(d, Waiting)
        /\ NoDiscovery.pc # "ask" /\ Waiting.pc # "ask"
        BY NoDiscoveryTyped DEF Finder, AdminOnly
  <2>2. CASE find' = [find EXCEPT ![Admin] = NoDiscovery] /\ UNCHANGED <<pollThread, stop>>
    <3>1. Finders' /\ Asking'
          BY <1>0, <1>5, <2>1, <2>2, OneFinds, NotAsking, FindersTyped DEF TaskEnds, config
    <3> QED BY <1>5, <2>2, <3>1
            DEF TaskEnds, TypeOK, Finders, Finder, config, disk, keys, editing
  <2>3. CASE /\ \E w \in Pollers : find[w].pc = "off"
             /\ pollThread' = Fresh /\ stop' = FALSE
             /\ find' = [find EXCEPT ![Admin] = NoDiscovery, ![Fresh] = Waiting]
    <3>1. Fresh \in Pollers BY <2>3 DEF Fresh
    <3>2. Fresh \in Discoverers BY <3>1 DEF Discoverers
    <3>3. Finders' BY <1>0, <2>1, <2>3, <3>2, FindersTyped DEF Finders, Finder
    <3>4. \A d \in Discoverers : find'[d].pc = "ask" => find'[d] = find[d]
          BY <1>0, <2>1, <2>3, <3>2 DEF TypeOK
    <3>5. Asking' BY <1>5, <3>4 DEF TaskEnds, TypeOK, Asking, Table, config
    <3> QED BY <1>5, <2>3, <3>1, <3>3, <3>5
            DEF TaskEnds, TypeOK, Finders, Finder, config, disk, keys, editing
  <2> QED BY <1>5, <2>2, <2>3 DEF TaskEnds, StartPolling
<1> QED BY <1>0, <1>1, <1>2, <1>3, <1>4, <1>5, ClearTyped, InstallTyped, DiscoversTyped
        DEF AdminStep, Loads

(* A step of a handler that changes providers.                             *)
LEMMA EditTyped ==
    ASSUME TypeOK, NEW e \in Editors, Edits(e)
    PROVE  TypeOK'
<1>1. \A p \in DOMAIN providers : providers[p] \in Provider BY TableHas DEF TypeOK
<1>2. ASSUME NEW p \in DOMAIN providers, NEW m \in Models,
             EnableModel(e, p, m) \/ DisableModel(e, p, m) \/ AddManual(e, p, m) \/ RemoveManual(e, p, m)
      PROVE  TypeOK'
  <2>1. PICK l \in SUBSET Models, s \in SUBSET Models : Curated(e, p, l, s)
        BY <1>1, <1>2 DEF EnableModel, DisableModel, AddManual, RemoveManual, Provider
  <2> QED BY <2>1, CurateTyped
<1> QED BY <1>2, AddTyped, InsertTyped, DropTyped DEF Edits

(* The type of the variables, for any number of providers, models, keys,   *)
(* threads and budgets: among them, that a discovery asks only providers   *)
(* it has, or whose objects it keeps, and keeps at most one old            *)
(* dictionary.                                                             *)
THEOREM Typed == Spec => []TypeOK
<1>1. TypeOK /\ Next => TypeOK'
      BY EditTyped, SaveTyped, PollTyped, AsksTyped, AdminTyped, RestartTyped, HandTyped DEF Next
<1>2. TypeOK /\ UNCHANGED vars => TypeOK'
      BY DEF TypeOK, Asking, Table, vars, config, disk, keys, editing, polling
<1> QED BY <1>1, <1>2, InitTyped, PTL DEF Spec

(* A short name has its provider's own name beside it.                     *)

Named(reg) == \A m \in Models : reg.short[m] # None => <<reg.short[m], m>> \in reg.full

NamesInv == Named(registry) /\ \A d \in Discoverers : Named(find[d].merged)

(* No name, none without the other.                                        *)
LEMMA EmptyNamed == Named(Empty)
BY DEF Named, Empty

(* A short name is added with the full one beside it.                      *)
LEMMA WithNamed ==
    ASSUME NEW reg \in Registry, Named(reg), NEW p \in Providers, NEW S \in SUBSET Models
    PROVE  Named(With(reg, p, S))
BY DEF Named, With, Registry

(* A provider leaves with all of its names, short and full.                *)
LEMMA WithoutNamed ==
    ASSUME NEW reg \in Registry, Named(reg), NEW p
    PROVE  Named(Without(reg, p))
BY DEF Named, Without, Registry

(* An owner gets both names.                                               *)
LEMMA WithSpecsNamed ==
    ASSUME NEW reg \in Registry, Named(reg), NEW provs \in Tables(Provider),
           NEW r \in WithSpecs(reg, provs)
    PROVE  Named(r)
<1>0. PICK F \in SUBSET Models : \E owner \in [F -> Providers] :
         r = [short |-> [m \in Models |-> IF m \in F THEN owner[m] ELSE reg.short[m]],
              full |-> reg.full \cup {<<owner[m], m>> : m \in F}]
      BY WithSpecsMeans
<1>1. PICK owner \in [F -> Providers] :
         r = [short |-> [m \in Models |-> IF m \in F THEN owner[m] ELSE reg.short[m]],
              full |-> reg.full \cup {<<owner[m], m>> : m \in F}]
      BY <1>0
<1> QED BY <1>1 DEF Named

(* So a rebuilt registry has both.                                         *)
LEMMA RebuiltNamed ==
    ASSUME TypeOK, Named(registry), NEW p \in Providers, NEW provs \in Tables(Provider),
           p \in DOMAIN provs, NEW r \in Rebuilt(p, provs)
    PROVE  Named(r)
<1>1. provs[p] \in Provider BY TableHas
<1>2. candidates[p] \cap provs[p].listed \in SUBSET Models BY <1>1 DEF TypeOK, Provider
<1>3. Without(registry, p) \in Registry /\ Named(Without(registry, p))
      BY WithoutTyped, WithoutNamed DEF TypeOK
<1>4. /\ With(Without(registry, p), p, candidates[p] \cap provs[p].listed) \in Registry
      /\ Named(With(Without(registry, p), p, candidates[p] \cap provs[p].listed))
      BY <1>2, <1>3, WithTyped, WithNamed
<1> QED BY <1>4, WithSpecsNamed DEF Rebuilt

(* A discoverer that moves without collecting anything.                    *)
LEMMA MovesNamed ==
    ASSUME TypeOK, NamesInv, NEW d \in Discoverers, NEW x, find' = [find EXCEPT ![d] = x],
           x.merged = find[d].merged \/ x.merged = Empty
    PROVE  \A y \in Discoverers : Named(find'[y].merged)
BY EmptyNamed DEF TypeOK, NamesInv

(* A discovery that begins has collected nothing.                          *)
LEMMA NextMerged ==
    ASSUME NEW n
    PROVE  [NoDiscovery EXCEPT !.pc = "next", !.size = n].merged = Empty
BY DEF NoDiscovery

(* Nor has one that is over.                                               *)
LEMMA DoneMerged ==
    /\ NoDiscovery.merged = Empty /\ Waiting.merged = Empty
    /\ [NoDiscovery EXCEPT !.pc = "done"].merged = Empty
BY DEF NoDiscovery, Waiting

(* A discovery keeps both names in what it collects, and publishes them    *)
(* together.                                                               *)
LEMMA DiscoversNamed ==
    ASSUME TypeOK, TypeOK', NamesInv, NEW d \in Discoverers, Discovers(d)
    PROVE  NamesInv'
<1>1. find[d] \in FindState BY DEF TypeOK
<1>2. CASE Ask(d) \/ NoAnswer(d)
  <2>1. CASE NoAnswer(d) BY <1>1, <2>1 DEF NoAnswer, FindState, NamesInv, Named, TypeOK, config
  <2>2. ASSUME NEW p, find' = [find EXCEPT ![d].pc = "ask", ![d].at = p, ![d].seen = @ \cup {p}]
        PROVE  \A y \in Discoverers : find'[y].merged = find[y].merged
        BY <1>1, <2>2 DEF FindState, TypeOK
  <2>3. ASSUME find' = [find EXCEPT ![d].pc = "publish", ![d].seen = {}, ![d].size = 0, ![d].old = {}]
        PROVE  \A y \in Discoverers : find'[y].merged = find[y].merged
        BY <1>1, <2>3 DEF FindState, TypeOK
  <2>4. CASE Ask(d)
    <3>1. \A y \in Discoverers : find'[y].merged = find[y].merged BY <2>2, <2>3, <2>4 DEF Ask
    <3> QED BY <2>4, <3>1 DEF Ask, NamesInv, Named, config
  <2> QED BY <1>2, <2>1, <2>4
<1>3. CASE Raises(d)
  <2>1. \A y \in Discoverers : Named(find'[y].merged)
        BY <1>3, MovesNamed, DoneMerged DEF Raises
  <2> QED BY <1>3, <2>1 DEF Raises, NamesInv, config, Named
<1>4. CASE Answers(d)
  <2> DEFINE p == find[d].at
             listed == IF find[d].held = {} THEN Table(d)[p].listed ELSE UNION find[d].held
             new == With(find[d].merged, p, Offers[p] \cap listed)
  <2>1. p \in Providers /\ Offers[p] \in SUBSET Models
        BY <1>4, OffersAssumption DEF Answers, TypeOK, Asking
  <2>2. Named(new) BY <1>1, <2>1, WithNamed DEF NamesInv, FindState
  <2> HIDE DEF listed, p
  <2>3. find' = [find EXCEPT ![d].pc = "next", ![d].at = None, ![d].held = {},
                            ![d].merged = With(@, p, Offers[p] \cap listed)]
        BY <1>4, Zenon DEF Answers, p, listed
  <2>4. find'[d].merged = new /\ \A y \in Discoverers : y # d => find'[y] = find[y]
        BY <1>1, <2>3 DEF TypeOK, FindState
  <2> HIDE DEF new
  <2>5. \A y \in Discoverers : Named(find'[y].merged) BY <2>2, <2>4 DEF NamesInv
  <2>6. UNCHANGED registry BY <1>4 DEF Answers
  <2> QED BY <2>5, <2>6 DEF NamesInv, Named
<1>5. CASE Publish(d)
  <2>1. \A y \in Discoverers : Named(find'[y].merged)
        BY <1>5, MovesNamed, DoneMerged DEF Publish, Ends
  <2>2. find[d].merged \in Registry /\ Named(find[d].merged)
        BY <1>1 DEF FindState, NamesInv
  <2>3. Named(registry')
    <3>1. PICK r \in WithSpecs(find[d].merged, providers) :
             registry' = IF r = Empty THEN registry ELSE r
          BY <1>5 DEF Publish
    <3>2. Named(r) BY <2>2, WithSpecsNamed DEF TypeOK
    <3> QED BY <3>1, <3>2 DEF NamesInv
  <2> QED BY <2>1, <2>3 DEF NamesInv, Named
<1> QED BY <1>2, <1>3, <1>4, <1>5 DEF Discovers

(* What it has collected is left alone when it keeps a provider's object.  *)
LEMMA KeptMerged ==
    ASSUME TypeOK, NEW p, Kept(p)
    PROVE  \A y \in Discoverers : find'[y].merged = find[y].merged /\ find'[y].pc = find[y].pc
<1>1. \A y \in Discoverers : find[y] \in FindState BY DEF TypeOK
<1> QED BY <1>1 DEF Kept, FindState

(* So does a handler, in the registry it changes in place.                 *)
LEMMA EditNamed ==
    ASSUME TypeOK, TypeOK', NamesInv, NEW e \in Editors, Edits(e)
    PROVE  NamesInv'
<1>0. ASSUME Named(registry'), \A y \in Discoverers : find'[y].merged = find[y].merged
      PROVE  NamesInv'
      BY <1>0 DEF NamesInv, Named
<1>1. ASSUME NEW p, NEW k, AddChecked(e, p, k) PROVE NamesInv'
      BY <1>1 DEF AddChecked, NamesInv, Named, config
<1>2. ASSUME NEW S \in SUBSET Models, Inserted(e, S) PROVE NamesInv'
  <2>1. Named(registry') BY <1>2, WithSpecsNamed DEF Inserted, TypeOK, NamesInv
  <2> QED BY <1>0, <1>2, <2>1, KeptMerged DEF Inserted
<1>3. ASSUME NEW p \in DOMAIN providers, DropProvider(e, p) PROVE NamesInv'
  <2>1. Named(registry') BY <1>3, WithoutNamed DEF DropProvider, TypeOK, NamesInv
  <2> QED BY <1>0, <1>3, <2>1, KeptMerged DEF DropProvider, Dropped
<1>4. ASSUME NEW p \in DOMAIN providers, NEW l, NEW s, Curated(e, p, l, s) PROVE NamesInv'
  <2>1. DOMAIN providers \subseteq Providers BY TableHas DEF TypeOK
  <2>2. DOMAIN providers' = DOMAIN providers BY <1>4 DEF Curated
  <2>3. Named(registry') BY <1>4, <2>1, <2>2, RebuiltNamed DEF Curated, TypeOK, NamesInv
  <2> QED BY <1>0, <1>4, <2>3 DEF Curated
<1> QED BY <1>1, <1>2, <1>3, <1>4
        DEF Edits, EnableModel, DisableModel, AddManual, RemoveManual

(* The admin thread changes names only by discovering.                     *)
LEMMA AdminNamed ==
    ASSUME TypeOK, TypeOK', NamesInv, AdminStep
    PROVE  NamesInv'
<1>0. Admin \in Discoverers BY DEF Discoverers
<1>1. CASE Joined \/ Inject \/ ReadConfig
  <2>1. ASSUME NEW pc, find' = [find EXCEPT ![Admin].pc = pc]
        PROVE  \A y \in Discoverers : find'[y].merged = find[y].merged
        BY <1>0, <2>1 DEF TypeOK, FindState
  <2>2. \A y \in Discoverers : find'[y].merged = find[y].merged
        BY <1>1, <2>1 DEF Joined, Inject, ReadConfig
  <2> QED BY <1>1, <2>2 DEF Joined, Inject, ReadConfig, NamesInv, Named, config
<1>2. CASE Clear
  <2>1. ASSUME NEW d \in Discoverers PROVE find'[d].merged = find[d].merged
        BY <1>2 DEF Clear, TypeOK, FindState
  <2> QED BY <1>2, <2>1 DEF Clear, NamesInv, Named
<1>3. CASE Reloaded
  <2>1. \A y \in Discoverers : Named(find'[y].merged)
        BY <1>0, <1>3, MovesNamed, NextMerged, DoneMerged DEF Reloaded, Begin
  <2> QED BY <1>3, <2>1 DEF Reloaded, NamesInv, Named, config
<1>4. CASE TaskEnds
  <2>1. \A y \in Discoverers : Named(find'[y].merged)
    <3>1. CASE find' = [find EXCEPT ![Admin] = NoDiscovery]
          BY <1>0, <3>1, MovesNamed, DoneMerged
    <3>2. CASE find' = [find EXCEPT ![Admin] = NoDiscovery, ![Fresh] = Waiting]
      <4>1. \A y \in Discoverers :
               find'[y] = find[y] \/ find'[y] = NoDiscovery \/ find'[y] = Waiting
            BY <3>2 DEF TypeOK
      <4> QED BY <4>1, EmptyNamed, DoneMerged DEF NamesInv
    <3> QED BY <1>4, <3>1, <3>2 DEF TaskEnds, StartPolling
  <2> QED BY <1>4, <2>1 DEF TaskEnds, NamesInv, Named, config
<1>5. ASSUME NEW p, Install(p) PROVE NamesInv'
      BY <1>5, KeptMerged DEF Install, NamesInv, Named
<1> QED BY <1>0, <1>1, <1>2, <1>3, <1>4, <1>5, DiscoversNamed DEF AdminStep, Loads

(* Every step keeps both names together.                                   *)
LEMMA NextNamed ==
    TypeOK /\ TypeOK' /\ NamesInv /\ [Next]_vars => NamesInv'
<1> SUFFICES ASSUME TypeOK, TypeOK', NamesInv, [Next]_vars PROVE NamesInv' OBVIOUS
<1>0. Admin \in Discoverers BY DEF Discoverers
<1>1. ASSUME NEW e \in Editors, Saves(e) PROVE NamesInv'
      BY <1>1 DEF Saves, KeyOpens, KeyCloses, KeyFails, Serialize, Serializes, Replace, SaveFails,
                  NamesInv, Named, config
<1>2. ASSUME NEW w \in Pollers, Polls(w) PROVE NamesInv'
  <2>0. w \in Discoverers BY DEF Discoverers
  <2>1. CASE PollStarts(w) \/ PollExits(w)
    <3>1. \A y \in Discoverers : Named(find'[y].merged)
          BY <2>0, <2>1, MovesNamed, NextMerged, DoneMerged DEF PollStarts, PollExits, Begin
    <3> QED BY <2>1, <3>1 DEF PollStarts, PollExits, NamesInv, Named, config
  <2> QED BY <1>2, <2>0, <2>1, DiscoversNamed DEF Polls
<1>3. CASE FirstRequest \/ Discover
  <2>1. \A y \in Discoverers : Named(find'[y].merged)
        BY <1>0, <1>3, MovesNamed, NextMerged DEF FirstRequest, Discover, Begin
  <2> QED BY <1>3, <2>1 DEF FirstRequest, Discover, NamesInv, Named, config
<1>4. ASSUME NEW t, ReloadBegins(t) PROVE NamesInv'
      BY <1>0, <1>4 DEF ReloadBegins, NamesInv, Named, config, TypeOK, FindState
<1>5. CASE Restart
  <2>1. Named(registry') BY <1>5, EmptyTyped, EmptyNamed, WithSpecsNamed DEF Restart, TypeOK
  <2>2. \A y \in Discoverers : Named(find'[y].merged)
        BY <1>5, EmptyNamed, DoneMerged DEF Restart
  <2> QED BY <2>1, <2>2 DEF NamesInv, Named
<1>6. CASE UNCHANGED vars BY <1>6 DEF vars, config, NamesInv, Named
<1>7. ASSUME NEW p, HandEdit(p) PROVE NamesInv'
      BY <1>7 DEF HandEdit, config, NamesInv, Named
<1> QED BY <1>1, <1>2, <1>3, <1>4, <1>5, <1>6, <1>7, EditNamed, AdminNamed DEF Next

(* BothNames: a short name that requests are routed by always leads to a   *)
(* provider under whose own name the model is known too. Edits in place    *)
(* and discoveries that overlap them replace one registry by another; each *)
(* of them is built with both names, and so is what a discovery has        *)
(* collected so far.                                                       *)
THEOREM BothNamesHolds == Spec => []BothNames
<1>1. Init => NamesInv
  <2>1. Init => TypeOK BY InitTyped
  <2> QED BY <2>1, EmptyTyped, EmptyNamed, WithSpecsNamed, DoneMerged DEF Init, NamesInv, TypeOK
<1>2. NamesInv => BothNames BY DEF NamesInv, Named, BothNames
<1> QED BY <1>1, <1>2, NextNamed, Typed, PTL DEF Spec


-----------------------------------------------------------------------------
(* The keys that the file refers to.                                       *)

\* Only a handler in SecretsManager.write holds its lock. Until secrets.env is
\* lost, it has a key for every reference in the file, and has one or is about to
\* get it for every reference that a save is about to write.
KeysInv ==
    /\ \A e \in Editors : /\ edit[e].todo # {} => edit[e].pc \in {"insert", "write"}
                          /\ keyLock = e => edit[e].todo # {}
    /\ ~torn => \A p \in DOMAIN file : file[p].keyed => secrets[VarOf[p]] # None
    /\ ~torn => \A e \in Editors : edit[e].pc = "write" =>
          \A f \in edit[e].data : \A p \in DOMAIN f : f[p].keyed =>
              secrets[VarOf[p]] # None \/ \E t \in edit[e].todo : t[1] = VarOf[p]

(* A step that touches neither the files nor the handlers.                 *)
LEMMA AsideKeys ==
    ASSUME KeysInv, UNCHANGED <<file, secrets, keyLock, torn, edit>>
    PROVE  KeysInv'
BY DEF KeysInv

(* A handler that changes something writes nothing yet.                    *)
LEMMA EditMoves ==
    ASSUME TypeOK, NEW e \in Editors, Edits(e)
    PROVE  /\ UNCHANGED <<file, secrets, keyLock, torn, saveLock, unsaved>>
           /\ \A x \in Editors : x # e => edit'[x] = edit[x]
           /\ \/ /\ edit[e].pc = "idle" /\ edit'[e].pc = "insert"
                 /\ UNCHANGED <<providers, environ, read, find>>
              \/ /\ edit[e].pc \in {"idle", "insert"} /\ edit'[e].pc = "save"
                 /\ edit[e].pc = "insert" => edit[e].todo = {}
                 /\ edit'[e].todo = edit[e].todo
<1>0. edit[e] \in EditState BY DEF TypeOK
<1>1. ASSUME NEW p, NEW k, AddChecked(e, p, k)
      PROVE  /\ UNCHANGED <<file, secrets, keyLock, torn, saveLock, unsaved>>
             /\ \A x \in Editors : x # e => edit'[x] = edit[x]
             /\ edit[e].pc = "idle" /\ edit'[e].pc = "insert"
             /\ UNCHANGED <<providers, environ, read, find>>
      BY <1>1 DEF AddChecked, TypeOK, Idle, config, disk, keys
<1>2. ASSUME NEW S, Inserted(e, S)
      PROVE  /\ UNCHANGED <<file, secrets, keyLock, torn, saveLock, unsaved>>
             /\ \A x \in Editors : x # e => edit'[x] = edit[x]
             /\ edit[e].pc = "insert" /\ edit'[e].pc = "save"
             /\ edit[e].todo = {} /\ edit'[e].todo = edit[e].todo
      BY <1>0, <1>2 DEF Inserted, Step, TypeOK, EditState, disk, keys
<1>3. ASSUME NEW p, DropProvider(e, p)
      PROVE  /\ UNCHANGED <<file, secrets, keyLock, torn, saveLock, unsaved>>
             /\ \A x \in Editors : x # e => edit'[x] = edit[x]
             /\ edit[e].pc = "idle" /\ edit'[e].pc = "save" /\ edit'[e].todo = edit[e].todo
  <2> DEFINE x == [edit[e] EXCEPT !.pc = "save", !.p = p]
  <2>1. x.pc = "save" /\ x.todo = edit[e].todo BY <1>0 DEF EditState
  <2>2. edit' = [edit EXCEPT ![e] = x]
        BY <1>0, <1>3 DEF DropProvider, Dropped, TypeOK, EditState
  <2> HIDE DEF x
  <2>3. edit'[e] = x /\ \A y \in Editors : y # e => edit'[y] = edit[y] BY <2>2 DEF TypeOK
  <2> QED BY <1>3, <2>1, <2>3 DEF DropProvider, Dropped, disk, keys
<1>4. ASSUME NEW p, NEW l, NEW s, Curated(e, p, l, s)
      PROVE  /\ UNCHANGED <<file, secrets, keyLock, torn, saveLock, unsaved>>
             /\ \A x \in Editors : x # e => edit'[x] = edit[x]
             /\ edit[e].pc = "idle" /\ edit'[e].pc = "save" /\ edit'[e].todo = edit[e].todo
      BY <1>0, <1>4 DEF Curated, Step, TypeOK, EditState, disk, keys
<1> QED BY <1>1, <1>2, <1>3, <1>4 DEF Edits, EnableModel, DisableModel, AddManual, RemoveManual

(* Every reference that a save is about to write has a key to go with it.  *)
LEMMA SerializedKeyed ==
    ASSUME TypeOK, NEW p \in DOMAIN Serialized, Serialized[p].keyed
    PROVE  \E t \in KeysOf : t[1] = VarOf[p]
<1>1. p \in DOMAIN Rows /\ Rows[p].keyed BY SerializedTyped, AsSavedTyped
<1>2. p \in DOMAIN providers /\ providers[p].key # None BY <1>1 DEF Rows
<1>3. <<VarOf[p], providers[p].key>> \in KeysOf BY <1>2 DEF KeysOf
<1> QED BY <1>3

(* A handler that changes something leaves the keys as they are.           *)
LEMMA EditKeys ==
    ASSUME TypeOK, KeysInv, NEW e \in Editors, Edits(e)
    PROVE  KeysInv'
<1>1. UNCHANGED <<file, secrets, keyLock, torn>> /\ \A x \in Editors : x # e => edit'[x] = edit[x]
      BY EditMoves
<1>2. /\ edit'[e].pc # "write" /\ (edit'[e].todo # {} => edit'[e].pc = "insert") /\ keyLock # e
  <2>1. CASE edit[e].pc = "idle" /\ edit'[e].pc = "insert" BY <2>1 DEF KeysInv
  <2>2. CASE /\ edit[e].pc \in {"idle", "insert"} /\ edit'[e].pc = "save"
             /\ edit[e].pc = "insert" => edit[e].todo = {}
             /\ edit'[e].todo = edit[e].todo
        BY <2>2 DEF KeysInv
  <2> QED BY <2>1, <2>2, EditMoves
<1>3. \A x \in Editors : /\ edit'[x].todo # {} => edit'[x].pc \in {"insert", "write"}
                         /\ keyLock' = x => edit'[x].todo # {}
      BY <1>1, <1>2 DEF KeysInv
<1>4. ~torn' => \A p \in DOMAIN file' : file'[p].keyed => secrets'[VarOf[p]] # None
      BY <1>1 DEF KeysInv
<1>5. ASSUME ~torn', NEW x \in Editors, edit'[x].pc = "write"
      PROVE  \A f \in edit'[x].data : \A p \in DOMAIN f : f[p].keyed =>
                secrets'[VarOf[p]] # None \/ \E s \in edit'[x].todo : s[1] = VarOf[p]
  <2>1. x # e /\ edit'[x] = edit[x] BY <1>1, <1>2, <1>5
  <2> QED BY <1>1, <1>5, <2>1 DEF KeysInv
<1> QED BY <1>3, <1>4, <1>5 DEF KeysInv

(* A save writes every key before it writes the reference.                 *)
LEMMA SaveKeys ==
    ASSUME TypeOK, KeysInv, NEW e \in Editors, Saves(e)
    PROVE  KeysInv'
<1>0. edit[e] \in EditState /\ None \notin Keys /\ None \notin Editors
      BY NoneAssumption DEF TypeOK
<1>1. CASE KeyOpens(e)
  <2>1. keyLock' = e /\ edit[e].todo # {} /\ UNCHANGED <<file, secrets, torn, edit>>
        BY <1>1 DEF KeyOpens, editing
  <2> QED BY <2>1 DEF KeysInv
<1>2. CASE KeyCloses(e)
  <2>1. PICK t \in edit[e].todo : /\ secrets' = [secrets EXCEPT ![t[1]] = t[2]]
                                  /\ edit' = [edit EXCEPT ![e].todo = @ \ {t}]
        BY <1>2 DEF KeyCloses
  <2>2. t[1] \in Vars /\ t[2] \in Keys /\ t[2] # None BY <1>0 DEF EditState
  <2>3. \A v \in Vars : secrets'[v] = IF v = t[1] THEN t[2] ELSE secrets[v]
        BY <2>1, <2>2 DEF TypeOK
  <2>4. /\ edit'[e].pc = edit[e].pc /\ edit'[e].data = edit[e].data
        /\ edit'[e].todo = edit[e].todo \ {t}
        /\ \A x \in Editors : x # e => edit'[x] = edit[x]
        BY <1>0, <2>1 DEF TypeOK, EditState
  <2>5. keyLock' = None /\ UNCHANGED <<file, torn>> BY <1>2 DEF KeyCloses
  <2>6. \A x \in Editors : /\ edit'[x].todo # {} => edit'[x].pc \in {"insert", "write"}
                           /\ keyLock' # x
        BY <1>0, <2>4, <2>5 DEF KeysInv
  <2>7. \A p \in DOMAIN file : VarOf[p] \in Vars BY TableHas, VarAssumption DEF TypeOK
  <2>8. ~torn' => \A p \in DOMAIN file' : file'[p].keyed => secrets'[VarOf[p]] # None
        BY <2>2, <2>3, <2>5, <2>7 DEF KeysInv
  <2>9. ASSUME ~torn', NEW x \in Editors, edit'[x].pc = "write", NEW f \in edit'[x].data,
               NEW p \in DOMAIN f, f[p].keyed
        PROVE  secrets'[VarOf[p]] # None \/ \E s \in edit'[x].todo : s[1] = VarOf[p]
    <3>1. f \in edit[x].data /\ edit[x].pc = "write" /\ ~torn BY <2>4, <2>5, <2>9
    <3>2. f \in Tables(Row) BY <3>1 DEF TypeOK, EditState
    <3>3. VarOf[p] \in Vars BY <3>2, TableHas, VarAssumption
    <3>4. secrets[VarOf[p]] # None \/ \E s \in edit[x].todo : s[1] = VarOf[p]
          BY <2>9, <3>1 DEF KeysInv
    <3>5. CASE secrets[VarOf[p]] # None BY <2>2, <2>3, <3>3, <3>5
    <3>6. ASSUME NEW s \in edit[x].todo, s[1] = VarOf[p]
          PROVE  secrets'[VarOf[p]] # None \/ \E r \in edit'[x].todo : r[1] = VarOf[p]
      <4>1. CASE x = e /\ s = t BY <2>2, <2>3, <3>3, <3>6, <4>1
      <4>2. CASE ~(x = e /\ s = t)
        <5>1. s \in edit'[x].todo BY <2>4, <3>6, <4>2
        <5> QED BY <3>6, <5>1
      <4> QED BY <4>1, <4>2
    <3> QED BY <3>4, <3>5, <3>6
  <2> QED BY <2>6, <2>8, <2>9 DEF KeysInv
<1>3. CASE KeyFails(e)
  <2>1. edit'[e] = Idle /\ \A x \in Editors : x # e => edit'[x] = edit[x]
        BY <1>3 DEF KeyFails, TypeOK
  <2>2. keyLock' = None /\ UNCHANGED file /\ (~torn' => ~torn /\ secrets' = secrets)
        BY <1>3 DEF KeyFails
  <2> QED BY <1>0, <2>1, <2>2, IdleTyped DEF KeysInv
<1>4. CASE Serialize(e)
  <2>1. /\ edit'[e].pc = "write" /\ edit'[e].data = {Serialized} /\ edit'[e].todo = KeysOf
        /\ edit[e].pc = "save" /\ \A x \in Editors : x # e => edit'[x] = edit[x]
        BY <1>0, <1>4 DEF Serialize, Serializes, TypeOK, EditState
  <2>2. UNCHANGED <<file, secrets, keyLock, torn>> BY <1>4 DEF Serialize, Serializes, disk, keys
  <2>3. keyLock # e BY <2>1 DEF KeysInv
  <2>4. \A x \in Editors : /\ edit'[x].todo # {} => edit'[x].pc \in {"insert", "write"}
                           /\ keyLock' = x => edit'[x].todo # {}
        BY <2>1, <2>2, <2>3 DEF KeysInv
  <2>5. ~torn' => \A p \in DOMAIN file' : file'[p].keyed => secrets'[VarOf[p]] # None
        BY <2>2 DEF KeysInv
  <2>6. ASSUME ~torn', NEW x \in Editors, edit'[x].pc = "write", NEW f \in edit'[x].data,
               NEW p \in DOMAIN f, f[p].keyed
        PROVE  secrets'[VarOf[p]] # None \/ \E s \in edit'[x].todo : s[1] = VarOf[p]
    <3>1. CASE x = e
      <4>1. f = Serialized BY <2>1, <2>6, <3>1
      <4>2. \E s \in KeysOf : s[1] = VarOf[p] BY <2>6, <4>1, SerializedKeyed
      <4> QED BY <2>1, <3>1, <4>2
    <3>2. CASE x # e BY <2>1, <2>2, <2>6, <3>2 DEF KeysInv
    <3> QED BY <3>1, <3>2
  <2> QED BY <2>4, <2>5, <2>6 DEF KeysInv
<1>5. CASE Replace(e)
  <2>1. /\ edit[e].pc = "write" /\ edit[e].todo = {} /\ file' \in edit[e].data
        /\ edit'[e] = Idle /\ \A x \in Editors : x # e => edit'[x] = edit[x]
        BY <1>5 DEF Replace, TypeOK
  <2>2. UNCHANGED <<secrets, keyLock, torn>> BY <1>5 DEF Replace, keys
  <2>3. ~torn => \A p \in DOMAIN file' : file'[p].keyed => secrets[VarOf[p]] # None
        BY <2>1 DEF KeysInv
  <2> QED BY <2>1, <2>2, <2>3, IdleTyped DEF KeysInv
<1>6. CASE SaveFails(e)
  <2>1. edit[e].todo = {} /\ edit'[e] = Idle /\ \A x \in Editors : x # e => edit'[x] = edit[x]
        BY <1>6 DEF SaveFails, TypeOK
  <2>2. UNCHANGED <<file, secrets, keyLock, torn>> BY <1>6 DEF SaveFails, disk, keys
  <2> QED BY <2>1, <2>2, IdleTyped DEF KeysInv
<1> QED BY <1>1, <1>2, <1>3, <1>4, <1>5, <1>6 DEF Saves

(* Every step keeps them.                                                  *)
LEMMA NextKeys ==
    TypeOK /\ KeysInv /\ [Next]_vars => KeysInv'
<1> SUFFICES ASSUME TypeOK, KeysInv, [Next]_vars PROVE KeysInv' OBVIOUS
<1>1. ASSUME NEW d, Discovers(d) PROVE UNCHANGED <<file, secrets, keyLock, torn, edit>>
      BY <1>1 DEF Discovers, Ask, Raises, Answers, NoAnswer, Publish, disk, keys, editing
<1>2. ASSUME NEW w \in Pollers, Polls(w) PROVE KeysInv'
  <2>1. UNCHANGED <<file, secrets, keyLock, torn, edit>>
        BY <1>1, <1>2 DEF Polls, PollStarts, PollExits, disk, keys, editing
  <2> QED BY <2>1, AsideKeys
<1>3. CASE FirstRequest \/ Discover \/ ReloadBegins("reload") \/ ReloadBegins("signal")
  <2>1. UNCHANGED <<file, secrets, keyLock, torn, edit>>
        BY <1>3 DEF FirstRequest, Discover, ReloadBegins, disk, keys, editing
  <2> QED BY <2>1, AsideKeys
<1>4. CASE AdminStep
  <2>1. UNCHANGED <<file, secrets, keyLock, torn, edit>>
        BY <1>1, <1>4 DEF AdminStep, Loads, Joined, Clear, Inject, ReadConfig, Install, Reloaded,
                          TaskEnds, disk, keys, editing
  <2> QED BY <2>1, AsideKeys
<1>5. CASE Restart
  <2>1. /\ edit' = [e \in Editors |-> Idle] /\ keyLock' = None /\ UNCHANGED file
        /\ ~torn' => ~torn /\ secrets' = secrets
        BY <1>5 DEF Restart, OnDisk
  <2>2. \A e \in Editors : edit'[e] = Idle /\ keyLock' # e BY <2>1, NoneAssumption
  <2> QED BY <2>1, <2>2, IdleTyped DEF KeysInv
<1>6. ASSUME NEW p \in Providers, HandEdit(p) PROVE KeysInv'
  <2>1. UNCHANGED <<secrets, keyLock, torn, edit>> BY <1>6 DEF HandEdit, keys
  <2>2. CASE file' = [q \in DOMAIN file \ {p} |-> file[q]] BY <2>1, <2>2 DEF KeysInv
  <2>3. ASSUME NEW row \in Row, row.keyed => secrets[VarOf[p]] # None,
               file' = [q \in DOMAIN file \cup {p} |-> IF q = p THEN row ELSE file[q]]
        PROVE  KeysInv'
        BY <2>1, <2>3 DEF KeysInv
  <2> QED BY <1>6, <2>2, <2>3 DEF HandEdit
<1>7. CASE UNCHANGED vars BY <1>7, AsideKeys DEF vars, disk, keys, editing
<1> QED BY <1>2, <1>3, <1>4, <1>5, <1>6, <1>7, EditKeys, SaveKeys DEF Next

-----------------------------------------------------------------------------
(* What is in the file, or about to be.                                    *)

\* The row that a save would make of an entry of the memory.
RowOf(x) == [listed |-> x.listed, specs |-> x.specs, keyed |-> x.key # None]

\* A row that a save would leave as it makes that one.
Says(row, x) == Written(row) = Written(RowOf(x))

\* The file says what the memory does.
Agree == DOMAIN file = DOMAIN providers /\ \A p \in DOMAIN file : Says(file[p], providers[p])

\* What a reload will have put into the memory in the end.
Got(p) == IF p \in DOMAIN read THEN read[p] ELSE providers[p]

\* No handler has changed what it has yet to serialize, and nothing exempts.
Quiet == (\A e \in Editors : edit[e].pc # "save") /\ ~unsaved /\ ~torn
Writing == \E e \in Editors : edit[e].pc = "write"

\* A save that stands takes place outside a reload, and writes what the memory
\* says; when none is under way the file says it, but for the time of a reload.
\* Then the memory is empty until all has been read, every reference in the file
\* can be resolved, and what has been read and installed is what the file says.
SaveInv ==
    /\ \A e \in Editors : edit[e].pc = "write" => saveLock = e
    /\ Quiet => \A e \in Editors : edit[e].pc = "write" => \A f \in edit[e].data : f = Serialized
    /\ Quiet /\ Loading => ~Writing
    /\ Quiet /\ ~Loading /\ ~Writing => Agree
    /\ Quiet /\ find[Admin].pc \in {"inject", "read"} => DOMAIN providers = {}
    /\ Quiet /\ find[Admin].pc = "read" =>
          \A p \in DOMAIN file : file[p].keyed => environ[VarOf[p]] # None
    /\ Quiet /\ find[Admin].pc = "install" =>
          /\ DOMAIN file = DOMAIN providers \cup DOMAIN read
          /\ \A p \in DOMAIN file : Says(file[p], Got(p))

(* The file agrees with the memory when a save of the one and of the other *)
(* would be the same.                                                      *)
LEMMA AgreeMeans ==
    ASSUME TypeOK
    PROVE  Agree <=> AsSaved(file) = Serialized
<1>1. /\ DOMAIN Rows = DOMAIN providers /\ Serialized = AsSaved(Rows)
      /\ \A p \in DOMAIN providers : Rows[p] = RowOf(providers[p])
      BY SerializedTyped DEF Rows, RowOf
<1>2. /\ AsSaved(file) = [p \in DOMAIN file |-> Written(file[p])]
      /\ Serialized = [p \in DOMAIN providers |-> Written(Rows[p])]
      BY <1>1, Zenon DEF AsSaved
<1>3. ASSUME Agree PROVE AsSaved(file) = Serialized
  <2>1. \A p \in DOMAIN file : Written(file[p]) = Written(Rows[p]) BY <1>1, <1>3 DEF Agree, Says
  <2> QED BY <1>2, <1>3, <2>1 DEF Agree
<1>4. ASSUME AsSaved(file) = Serialized PROVE Agree
  <2>1. DOMAIN file = DOMAIN providers BY <1>2, <1>4
  <2>2. \A p \in DOMAIN file : Written(file[p]) = Written(Rows[p])
    <3>1. \A p \in DOMAIN file : AsSaved(file)[p] = Written(file[p]) BY <1>2
    <3>2. \A p \in DOMAIN providers : Serialized[p] = Written(Rows[p]) BY <1>2
    <3> QED BY <1>4, <2>1, <3>1, <3>2
  <2> QED BY <1>1, <2>1, <2>2 DEF Agree, Says
<1> QED BY <1>3, <1>4

(* Saving what a save has written changes nothing.                         *)
LEMMA WrittenTwice ==
    ASSUME NEW row \in Row
    PROVE  Written(Written(row)) = Written(row)
<1>1. {Short[m] : m \in {Short[k] : k \in row.specs}} = {Short[k] : k \in row.specs}
      BY ShortAssumption DEF Row
<1>2. ASSUME NEW r \in Row
      PROVE  /\ Written(r) \in Row /\ Written(r).specs = {Short[m] : m \in r.specs}
             /\ Written(r).listed = r.listed /\ Written(r).keyed = r.keyed
  <2>1. {Short[m] : m \in r.specs} \in SUBSET Models BY ShortAssumption DEF Row
  <2> QED BY <2>1 DEF Written, Row
<1>3. \A r, s \in Row : r.listed = s.listed /\ r.specs = s.specs /\ r.keyed = s.keyed => r = s
      BY DEF Row
<1>4. /\ Written(row) \in Row /\ Written(Written(row)) \in Row
      /\ Written(Written(row)).specs = {Short[m] : m \in Written(row).specs}
      /\ Written(row).specs = {Short[m] : m \in row.specs}
      /\ Written(Written(row)).listed = Written(row).listed
      /\ Written(Written(row)).keyed = Written(row).keyed
      BY <1>2
<1> QED BY <1>1, <1>3, <1>4

(* So a file that has just been written agrees.                            *)
LEMMA SerializedAgrees ==
    ASSUME TypeOK
    PROVE  /\ DOMAIN Serialized = DOMAIN providers
           /\ \A p \in DOMAIN providers : Says(Serialized[p], providers[p])
<1>1. /\ DOMAIN Serialized = DOMAIN providers /\ Rows \in Tables(Row)
      /\ DOMAIN Rows = DOMAIN providers /\ Serialized = AsSaved(Rows)
      /\ \A p \in DOMAIN providers : Rows[p] = RowOf(providers[p])
      BY SerializedTyped DEF Rows, RowOf
<1>2. \A p \in DOMAIN providers : Rows[p] \in Row BY <1>1, TableHas
<1>3. \A p \in DOMAIN providers : Serialized[p] = Written(Rows[p]) BY <1>1 DEF AsSaved
<1>4. \A p \in DOMAIN providers : Written(Serialized[p]) = Written(Rows[p])
      BY <1>2, <1>3, WrittenTwice
<1> QED BY <1>1, <1>4 DEF Says

(* And so does one that is loaded with every reference resolved.           *)
LEMMA LoadedSays ==
    ASSUME TypeOK, NEW env \in KeyTable,
           \A p \in DOMAIN file : file[p].keyed => env[VarOf[p]] # None
    PROVE  \A p \in DOMAIN file : Says(file[p], Loaded(env)[p])
<1>1. ASSUME NEW p \in DOMAIN file PROVE Says(file[p], Loaded(env)[p])
  <2>1. file[p] \in Row BY TableHas DEF TypeOK
  <2>2. /\ Loaded(env)[p].listed = file[p].listed /\ Loaded(env)[p].specs = file[p].specs
        /\ (Loaded(env)[p].key # None) = file[p].keyed
        BY <2>1 DEF Loaded, Row
  <2>3. RowOf(Loaded(env)[p]) = file[p] BY <2>1, <2>2 DEF RowOf, Row
  <2> QED BY <2>3 DEF Says
<1> QED BY <1>1

(* What a save says does not change while the memory does not.             *)
LEMMA SameSerialized ==
    ASSUME UNCHANGED providers
    PROVE  Serialized' = Serialized
BY DEF Serialized, AsSaved

(* A step that touches neither the memory, nor the file, nor where the     *)
(* handlers are, nor the course of a reload.                               *)
LEMMA AsideSaved ==
    ASSUME SaveInv, UNCHANGED <<providers, file, environ, read, saveLock, unsaved, torn>>,
           \A e \in Editors : edit'[e].pc = edit[e].pc /\ edit'[e].data = edit[e].data,
           find'[Admin].pc = find[Admin].pc \/ (~Loading /\ ~Loading')
    PROVE  SaveInv'
<1>1. /\ Serialized' = Serialized /\ Quiet' = Quiet /\ Writing' = Writing /\ Agree' = Agree
      /\ Loading' = Loading
      BY SameSerialized DEF Quiet, Writing, Agree, Loading, Says
<1>2. /\ \A e \in Editors : edit'[e].pc = "write" => saveLock' = e
      /\ Quiet' => \A e \in Editors : edit'[e].pc = "write" => \A f \in edit'[e].data : f = Serialized'
      /\ Quiet' /\ Loading' => ~Writing'
      /\ Quiet' /\ ~Loading' /\ ~Writing' => Agree'
      BY <1>1 DEF SaveInv
<1>3. Loading' => find'[Admin].pc = find[Admin].pc BY DEF Loading
<1>4. /\ Quiet' /\ find'[Admin].pc \in {"inject", "read"} => DOMAIN providers' = {}
      /\ Quiet' /\ find'[Admin].pc = "read" =>
            \A p \in DOMAIN file' : file'[p].keyed => environ'[VarOf[p]] # None
      BY <1>1, <1>3 DEF SaveInv, Loading
<1>5. Quiet' /\ find'[Admin].pc = "install" =>
          /\ DOMAIN file' = DOMAIN providers' \cup DOMAIN read'
          /\ \A p \in DOMAIN file' : Says(file'[p], Got(p)')
      BY <1>1, <1>3 DEF SaveInv, Loading, Got
<1> QED BY <1>2, <1>4, <1>5 DEF SaveInv, Says

(* While something exempts, or has yet to be saved, there is little to     *)
(* keep.                                                                   *)
LEMMA NotQuietSaved ==
    ASSUME ~Quiet', \A e \in Editors : edit'[e].pc = "write" => saveLock' = e
    PROVE  SaveInv'
BY DEF SaveInv

(* A handler that has changed something has yet to save it.                *)
LEMMA EditSaved ==
    ASSUME TypeOK, SaveInv, NEW e \in Editors, Edits(e)
    PROVE  SaveInv'
<1>1. UNCHANGED <<file, torn, saveLock, unsaved>> /\ \A x \in Editors : x # e => edit'[x] = edit[x]
      BY EditMoves
<1>2. CASE edit'[e].pc = "save"
  <2>1. ~Quiet' BY <1>2 DEF Quiet
  <2>2. \A x \in Editors : edit'[x].pc = "write" => saveLock' = x BY <1>1, <1>2 DEF SaveInv
  <2> QED BY <2>1, <2>2, NotQuietSaved
<1>3. CASE /\ edit[e].pc = "idle" /\ edit'[e].pc = "insert"
           /\ UNCHANGED <<providers, environ, read, find>>
  <2>1. /\ Serialized' = Serialized /\ Quiet' = Quiet /\ Writing' = Writing /\ Agree' = Agree
        /\ Loading' = Loading
        BY <1>1, <1>3, SameSerialized DEF Quiet, Writing, Agree, Loading, Says
  <2>2. \A x \in Editors : edit'[x].pc = "write" => edit'[x] = edit[x] BY <1>1, <1>3
  <2> QED BY <1>1, <1>3, <2>1, <2>2 DEF SaveInv, Says, Got
<1> QED BY <1>2, <1>3, EditMoves

(* A save serializes what the memory says, alone; it ends with that in the *)
(* file, or fails.                                                         *)
LEMMA SaveSaved ==
    ASSUME TypeOK, TypeOK', KeysInv, SaveInv, NEW e \in Editors, Saves(e)
    PROVE  SaveInv'
<1>0. edit[e] \in EditState /\ None \notin Editors BY NoneAssumption DEF TypeOK
<1>1. CASE KeyOpens(e)
      BY <1>1, AsideSaved DEF KeyOpens, config, editing
<1>2. CASE KeyCloses(e)
  <2>1. PICK t : edit' = [edit EXCEPT ![e].todo = @ \ {t}] BY <1>2 DEF KeyCloses
  <2>2. \A x \in Editors : edit'[x].pc = edit[x].pc /\ edit'[x].data = edit[x].data
        BY <1>0, <2>1 DEF TypeOK, EditState
  <2> QED BY <1>2, <2>2, AsideSaved DEF KeyCloses, config
<1>3. CASE KeyFails(e)
  <2>1. edit'[e] = Idle /\ \A x \in Editors : x # e => edit'[x] = edit[x]
        BY <1>3 DEF KeyFails, TypeOK
  <2>2. edit[e].pc \in {"insert", "write"} BY <1>3 DEF KeyFails, KeysInv
  <2>3. UNCHANGED <<providers, file, environ, read, find>> BY <1>3 DEF KeyFails, config
  <2>4. /\ saveLock' = IF saveLock = e THEN None ELSE saveLock
        /\ unsaved' = (unsaved \/ saveLock = e) /\ (torn => torn')
        BY <1>3 DEF KeyFails
  <2>5. \A x \in Editors : edit'[x].pc = "write" => edit'[x] = edit[x] /\ saveLock' = x
        BY <1>0, <2>1, <2>4, IdleTyped DEF SaveInv
  <2>6. CASE ~Quiet' BY <2>5, <2>6, NotQuietSaved
  <2>7. CASE Quiet'
    <3>1. edit[e].pc = "insert" BY <2>2, <2>4, <2>7 DEF SaveInv, Quiet
    <3>2. Quiet BY <2>1, <2>4, <2>7, <3>1 DEF Quiet
    <3>3. /\ Serialized' = Serialized /\ Writing' = Writing /\ Agree' = Agree
          /\ Loading' = Loading
          BY <2>1, <2>3, <3>1, IdleTyped, SameSerialized DEF Writing, Agree, Loading, Says
    <3> QED BY <2>3, <2>5, <3>2, <3>3 DEF SaveInv, Says, Got
  <2> QED BY <2>6, <2>7
<1>4. CASE Serialize(e)
  <2>1. /\ edit'[e].pc = "write" /\ edit'[e].data = {Serialized} /\ saveLock' = e
        /\ saveLock = None /\ unsaved' = Loading
        /\ \A x \in Editors : x # e => edit'[x] = edit[x]
        BY <1>0, <1>4 DEF Serialize, Serializes, TypeOK, EditState, Loading
  <2>2. \A x \in Editors : edit[x].pc # "write" BY <1>0, <2>1 DEF SaveInv
  <2>3. UNCHANGED <<providers, find>> BY <1>4 DEF Serialize, Serializes, config
  <2>4. Serialized' = Serialized /\ Loading' = Loading BY <2>3, SameSerialized DEF Loading
  <2>5. Quiet' => ~Loading' BY <2>1, <2>4 DEF Quiet
  <2>6. \A x \in Editors : edit'[x].pc = "write" => x = e BY <2>1, <2>2
  <2>7. Writing' BY <2>1 DEF Writing
  <2>8. /\ \A x \in Editors : edit'[x].pc = "write" => saveLock' = x
        /\ \A x \in Editors : edit'[x].pc = "write" => \A f \in edit'[x].data : f = Serialized'
        BY <2>1, <2>4, <2>6
  <2> QED BY <2>5, <2>7, <2>8 DEF SaveInv, Loading
<1>5. CASE Replace(e)
  <2>1. /\ edit[e].pc = "write" /\ file' \in edit[e].data /\ saveLock' = None
        /\ edit'[e] = Idle /\ \A x \in Editors : x # e => edit'[x] = edit[x]
        BY <1>5 DEF Replace, TypeOK
  <2>2. UNCHANGED <<providers, environ, unsaved, torn, read, find>>
        BY <1>5 DEF Replace, config, keys
  <2>3. \A x \in Editors : edit'[x].pc # "write" BY <1>0, <2>1, IdleTyped DEF SaveInv
  <2>4. CASE ~Quiet' BY <2>3, <2>4, NotQuietSaved
  <2>5. CASE Quiet'
    <3>1. Quiet BY <2>1, <2>2, <2>5 DEF Quiet
    <3>2. Writing /\ ~Loading BY <2>1, <3>1 DEF Writing, SaveInv
    <3>3. file' = Serialized BY <2>1, <3>1 DEF SaveInv
    <3>4. Agree' BY <2>2, <3>3, SerializedAgrees DEF Agree, Says
    <3>5. ~Writing' /\ ~Loading' BY <2>2, <2>3, <3>2 DEF Writing, Loading
    <3> QED BY <2>3, <3>4, <3>5 DEF SaveInv, Loading
  <2> QED BY <2>4, <2>5
<1>6. CASE SaveFails(e)
  <2>1. /\ edit[e].pc = "write" /\ unsaved' /\ saveLock' = None
        /\ edit'[e] = Idle /\ \A x \in Editors : x # e => edit'[x] = edit[x]
        BY <1>6 DEF SaveFails, TypeOK
  <2>2. \A x \in Editors : edit'[x].pc # "write" BY <1>0, <2>1, IdleTyped DEF SaveInv
  <2> QED BY <2>1, <2>2, NotQuietSaved DEF Quiet
<1> QED BY <1>1, <1>2, <1>3, <1>4, <1>5, <1>6 DEF Saves

\* The admin thread is idle while it has been asked for nothing.
Asked == task = "none" => find[Admin].pc = "off"

(* Discoveries touch none of this.                                         *)
LEMMA DiscoversAside ==
    ASSUME TypeOK, NEW d \in Discoverers, Discovers(d)
    PROVE  /\ UNCHANGED <<providers, file, environ, read, edit, saveLock, unsaved, torn>>
           /\ find'[Admin].pc = find[Admin].pc \/ (~Loading /\ ~Loading')
           /\ Asked => Asked'
<1>0. Admin \in Discoverers BY DEF Discoverers
<1>1. UNCHANGED <<providers, file, environ, read, edit, saveLock, unsaved, torn>>
      BY DEF Discovers, Ask, Raises, Answers, NoAnswer, Publish, config, disk, keys, editing
<1>2. /\ find[d].pc \in {"next", "ask", "publish"}
      /\ find'[d].pc \in {"next", "ask", "publish", "done", "off", "wait"}
      /\ \A x \in Discoverers : x # d => find'[x] = find[x]
      /\ task' = task \/ (task' = "none" /\ d = Admin /\ find'[d].pc = "off")
  <2>1. CASE Ask(d)
    <3>1. ASSUME NEW p, find' = [find EXCEPT ![d].pc = "ask", ![d].at = p, ![d].seen = @ \cup {p}]
          PROVE  find'[d].pc = "ask" /\ \A x \in Discoverers : x # d => find'[x] = find[x]
          BY <3>1 DEF TypeOK, FindState
    <3>2. ASSUME find' = [find EXCEPT ![d].pc = "publish", ![d].seen = {}, ![d].size = 0, ![d].old = {}]
          PROVE  find'[d].pc = "publish" /\ \A x \in Discoverers : x # d => find'[x] = find[x]
          BY <3>2 DEF TypeOK, FindState
    <3> QED BY <2>1, <3>1, <3>2 DEF Ask
  <2>2. CASE Raises(d)
    <3> DEFINE x == IF d = Admin THEN NoDiscovery ELSE Waiting
    <3>1. x.pc = IF d = Admin THEN "off" ELSE "wait" BY NoDiscoveryTyped
    <3>2. find' = [find EXCEPT ![d] = x] BY <2>2 DEF Raises
    <3> HIDE DEF x
    <3>3. find'[d] = x /\ \A y \in Discoverers : y # d => find'[y] = find[y] BY <3>2 DEF TypeOK
    <3> QED BY <2>2, <3>1, <3>3 DEF Raises
  <2>3. CASE Answers(d) \/ NoAnswer(d)
    <3>1. ASSUME NEW m, find' = [find EXCEPT ![d].pc = "next", ![d].at = None, ![d].held = {},
                                             ![d].merged = m]
          PROVE  find'[d].pc = "next" /\ \A x \in Discoverers : x # d => find'[x] = find[x]
          BY <3>1 DEF TypeOK, FindState
    <3>2. ASSUME find' = [find EXCEPT ![d].pc = "next", ![d].at = None, ![d].held = {}]
          PROVE  find'[d].pc = "next" /\ \A x \in Discoverers : x # d => find'[x] = find[x]
          BY <3>2 DEF TypeOK, FindState
    <3>3. /\ find[d].pc = "ask" /\ task' = task
          /\ \/ \E m : find' = [find EXCEPT ![d].pc = "next", ![d].at = None, ![d].held = {},
                                            ![d].merged = m]
             \/ find' = [find EXCEPT ![d].pc = "next", ![d].at = None, ![d].held = {}]
          BY <2>3 DEF Answers, NoAnswer
    <3> QED BY <3>1, <3>2, <3>3
  <2>4. CASE Publish(d)
    <3> DEFINE x == IF d = Admin THEN [NoDiscovery EXCEPT !.pc = "done"] ELSE Waiting
    <3>1. x.pc = IF d = Admin THEN "done" ELSE "wait" BY NoDiscoveryTyped DEF NoDiscovery
    <3>2. find' = [find EXCEPT ![d] = x] BY <2>4 DEF Publish, Ends
    <3> HIDE DEF x
    <3>3. find'[d] = x /\ \A y \in Discoverers : y # d => find'[y] = find[y] BY <3>2 DEF TypeOK
    <3> QED BY <2>4, <3>1, <3>3 DEF Publish
  <2> QED BY <2>1, <2>2, <2>3, <2>4 DEF Discovers
<1>3. find'[Admin].pc = find[Admin].pc \/ (~Loading /\ ~Loading')
  <2>1. CASE d = Admin BY <1>2, <2>1 DEF Loading
  <2>2. CASE d # Admin BY <1>0, <1>2, <2>2
  <2> QED BY <2>1, <2>2
<1>4. ASSUME Asked PROVE Asked'
  <2>1. CASE d = Admin
    <3>1. task # "none" BY <1>2, <1>4, <2>1 DEF Asked
    <3> QED BY <1>2, <2>1, <3>1 DEF Asked
  <2>2. CASE d # Admin
    <3>1. find'[Admin] = find[Admin] /\ task' = task BY <1>0, <1>2, <2>2
    <3> QED BY <1>4, <3>1 DEF Asked
  <2> QED BY <2>1, <2>2
<1> QED BY <1>1, <1>3, <1>4

(* A task begins only when it has been asked for none, and saves nothing.  *)
LEMMA BegunAdmin ==
    ASSUME TypeOK, FirstRequest \/ Discover \/ ReloadBegins("reload") \/ ReloadBegins("signal")
    PROVE  /\ find'[Admin].pc \in {"next", "join"} /\ task = "none" /\ task' # "none"
           /\ UNCHANGED <<providers, file, environ, read, edit, saveLock, unsaved, torn>>
<1>0. Admin \in Discoverers BY DEF Discoverers
<1>1. ASSUME Begin(Admin) PROVE find'[Admin].pc = "next"
  <2>1. find' = [find EXCEPT ![Admin] = [NoDiscovery EXCEPT !.pc = "next",
                                         !.size = Cardinality(DOMAIN providers)]]
        BY <1>1 DEF Begin
  <2> QED BY <1>0, <2>1 DEF TypeOK, NoDiscovery
<1>2. CASE FirstRequest BY <1>1, <1>2 DEF FirstRequest, config, disk, keys, editing
<1>3. CASE Discover BY <1>1, <1>3 DEF Discover, config, disk, keys, editing
<1>4. ASSUME NEW t \in {"reload", "signal"}, ReloadBegins(t)
      PROVE  /\ find'[Admin].pc = "join" /\ task = "none" /\ task' = t
             /\ UNCHANGED <<providers, file, environ, read, edit, saveLock, unsaved, torn>>
      BY <1>0, <1>4 DEF ReloadBegins, TypeOK, FindState, config, disk, keys, editing
<1> QED BY <1>2, <1>3, <1>4

(* Where the admin thread's step takes it.                                 *)
LEMMA AdminMoves ==
    ASSUME TypeOK
    PROVE  /\ Joined => find[Admin].pc = "join" /\ find'[Admin].pc = "clear"
           /\ Clear => find[Admin].pc = "clear" /\ find'[Admin].pc = "inject"
           /\ Inject => find[Admin].pc = "inject" /\ find'[Admin].pc = "read"
           /\ ReadConfig => find[Admin].pc = "read" /\ find'[Admin].pc = "install"
           /\ \A p : Install(p) => find[Admin].pc = "install" /\ find'[Admin].pc = "install"
           /\ Reloaded => /\ find[Admin].pc = "install" /\ find'[Admin].pc \in {"off", "next"}
                          /\ \/ task' = task /\ find'[Admin].pc = "next"
                             \/ task' = "none" /\ find'[Admin].pc = "off"
           /\ TaskEnds => find[Admin].pc = "done" /\ find'[Admin].pc = "off"
<1>0. Admin \in Discoverers /\ Admin \notin Pollers BY ThreadAssumption DEF Discoverers
<1>1. ASSUME NEW pc, find' = [find EXCEPT ![Admin].pc = pc] PROVE find'[Admin].pc = pc
      BY <1>0, <1>1 DEF TypeOK, FindState
<1>2. ASSUME Clear PROVE find'[Admin].pc = "inject"
      BY <1>0, <1>2 DEF Clear, TypeOK, FindState
<1>3. ASSUME NEW p, Install(p) PROVE find'[Admin].pc = "install"
      BY <1>0, <1>3, KeptMerged DEF Install
<1>4. ASSUME Reloaded
      PROVE  \/ task' = task /\ find'[Admin].pc = "next"
             \/ task' = "none" /\ find'[Admin].pc = "off"
  <2>1. CASE task = "signal" BY <1>0, <1>4, <2>1, NoDiscoveryTyped DEF Reloaded, TypeOK
  <2>2. CASE task # "signal"
    <3>1. find' = [find EXCEPT ![Admin] = [NoDiscovery EXCEPT !.pc = "next",
                                                !.size = Cardinality(DOMAIN providers)]]
          BY <1>4, <2>2 DEF Reloaded, Begin
    <3>2. find'[Admin].pc = "next" BY <1>0, <3>1 DEF TypeOK, NoDiscovery
    <3> QED BY <1>4, <2>2, <3>2 DEF Reloaded
  <2> QED BY <2>1, <2>2
<1>5. ASSUME TaskEnds PROVE find'[Admin].pc = "off"
  <2>1. CASE find' = [find EXCEPT ![Admin] = NoDiscovery]
        BY <1>0, <2>1, NoDiscoveryTyped DEF TypeOK
  <2>2. CASE /\ \E w \in Pollers : find[w].pc = "off"
             /\ find' = [find EXCEPT ![Admin] = NoDiscovery, ![Fresh] = Waiting]
    <3>1. Fresh # Admin BY <1>0, <2>2 DEF Fresh
    <3> QED BY <1>0, <2>2, <3>1, NoDiscoveryTyped DEF TypeOK
  <2> QED BY <1>5, <2>1, <2>2 DEF TaskEnds, StartPolling
<1>6. Joined => find[Admin].pc = "join" /\ find'[Admin].pc = "clear" BY <1>1 DEF Joined
<1>7. Inject => find[Admin].pc = "inject" /\ find'[Admin].pc = "read" BY <1>1 DEF Inject
<1>8. ReadConfig => find[Admin].pc = "read" /\ find'[Admin].pc = "install" BY <1>1 DEF ReadConfig
<1> QED BY <1>2, <1>3, <1>4, <1>5, <1>6, <1>7, <1>8 DEF Clear, Install, Reloaded, TaskEnds

(* It is asked for something until its task has ended.                     *)
LEMMA NextAsked ==
    TypeOK /\ Asked /\ [Next]_vars => Asked'
<1> SUFFICES ASSUME TypeOK, Asked, [Next]_vars PROVE Asked' OBVIOUS
<1>0. Admin \in Discoverers /\ Admin \notin Pollers BY ThreadAssumption DEF Discoverers
<1>1. ASSUME NEW w \in Pollers, Polls(w) PROVE Asked'
  <2>0. w \in Discoverers BY DEF Discoverers
  <2>1. CASE PollStarts(w) \/ PollExits(w)
    <3>1. find'[Admin] = find[Admin]
          BY <1>0, <2>1 DEF PollStarts, PollExits, Begin, TypeOK
    <3> QED BY <2>1, <3>1 DEF PollStarts, PollExits, Asked
  <2> QED BY <1>1, <2>0, <2>1, DiscoversAside DEF Polls
<1>2. CASE FirstRequest \/ Discover \/ ReloadBegins("reload") \/ ReloadBegins("signal")
      BY <1>2, BegunAdmin DEF Asked
<1>3. CASE Restart BY <1>0, <1>3, NoDiscoveryTyped DEF Restart, Asked
<1>4. CASE UNCHANGED vars BY <1>4 DEF vars, Asked
<1>5. ASSUME NEW e \in Editors, Edits(e) \/ Saves(e) PROVE Asked'
  <2>1. CASE Saves(e)
        BY <2>1 DEF Saves, KeyOpens, KeyCloses, KeyFails, Serialize, Serializes, Replace, SaveFails,
                    Asked
  <2>2. ASSUME NEW p, Kept(p), UNCHANGED task PROVE Asked'
        BY <1>0, <2>2, KeptMerged DEF Asked
  <2>3. CASE Edits(e)
        BY <2>2, <2>3 DEF Edits, AddChecked, Inserted, DropProvider, Dropped, EnableModel,
                    DisableModel, AddManual, RemoveManual, Curated, Asked
  <2> QED BY <1>5, <2>1, <2>3
<1>6. ASSUME NEW p, HandEdit(p) PROVE Asked' BY <1>6 DEF HandEdit, Asked
<1>7. CASE Discovers(Admin) BY <1>0, <1>7, DiscoversAside
<1>8. CASE Joined \/ Loads \/ Reloaded \/ TaskEnds
  <2>1. CASE Joined \/ Loads
    <3>1. UNCHANGED task BY <2>1 DEF Joined, Loads, Clear, Inject, ReadConfig, Install
    <3>2. find[Admin].pc # "off" BY <2>1, AdminMoves DEF Loads
    <3> QED BY <3>1, <3>2 DEF Asked
  <2>2. CASE Reloaded \/ TaskEnds BY <2>2, AdminMoves DEF Asked
  <2> QED BY <1>8, <2>1, <2>2
<1> QED BY <1>1, <1>2, <1>3, <1>4, <1>5, <1>6, <1>7, <1>8 DEF Next, AdminStep

(* A reload empties the memory, sets the environment, reads the file and   *)
(* puts into the memory one provider after the other.                      *)
LEMMA AdminSaved ==
    ASSUME TypeOK, KeysInv, SaveInv, AdminStep
    PROVE  SaveInv'
<1>0. Admin \in Discoverers BY DEF Discoverers
<1>1. CASE Joined \/ TaskEnds
  <2>1. UNCHANGED <<providers, file, environ, read, edit, saveLock, unsaved, torn>>
        BY <1>1 DEF Joined, TaskEnds, config, disk, keys, editing
  <2>2. ~Loading /\ ~Loading' BY <1>1, AdminMoves DEF Loading
  <2> QED BY <2>1, <2>2, AsideSaved
<1>2. CASE Clear
  <2>1. UNCHANGED <<file, edit, saveLock, torn, read, environ>> /\ unsaved' = Writing
        BY <1>2 DEF Clear, disk, keys, Writing
  <2>2. DOMAIN providers' = {} BY <1>2, NoTable DEF Clear
  <2>3. find'[Admin].pc = "inject" BY <1>2, AdminMoves
  <2>4. \A e \in Editors : edit'[e].pc = "write" => saveLock' = e BY <2>1 DEF SaveInv
  <2>5. CASE ~Quiet' BY <2>4, <2>5, NotQuietSaved
  <2>6. CASE Quiet'
    <3>1. ~Writing' BY <2>1, <2>6 DEF Quiet, Writing
    <3> QED BY <2>2, <2>3, <2>4, <3>1 DEF SaveInv, Loading, Writing
  <2> QED BY <2>5, <2>6
<1>3. CASE Inject
  <2>1. /\ UNCHANGED <<providers, file, edit, saveLock, torn, secrets, keyLock, read>>
        /\ environ' = Injected(environ) /\ unsaved' = (unsaved \/ keyLock # None)
        BY <1>3 DEF Inject, config, disk, keys
  <2>2. find[Admin].pc = "inject" /\ find'[Admin].pc = "read" BY <1>3, AdminMoves
  <2>3. \A e \in Editors : edit'[e].pc = "write" => saveLock' = e BY <2>1 DEF SaveInv
  <2>4. CASE ~Quiet' BY <2>3, <2>4, NotQuietSaved
  <2>5. CASE Quiet'
    <3>1. Quiet /\ keyLock = None /\ ~torn BY <2>1, <2>5 DEF Quiet
    <3>2. ~Writing' /\ DOMAIN providers' = {} BY <2>1, <2>2, <3>1 DEF SaveInv, Writing, Loading
    <3>3. \A p \in DOMAIN file : VarOf[p] \in Vars BY TableHas, VarAssumption DEF TypeOK
    <3>4. \A v \in Vars : environ'[v] = IF environ[v] = None THEN secrets[v] ELSE environ[v]
          BY <2>1, <3>1 DEF Injected, OnDisk
    <3>5. \A p \in DOMAIN file' : file'[p].keyed => environ'[VarOf[p]] # None
          BY <2>1, <3>1, <3>3, <3>4 DEF KeysInv
    <3> QED BY <2>2, <2>3, <3>2, <3>5 DEF SaveInv, Loading, Writing
  <2> QED BY <2>4, <2>5
<1>4. CASE ReadConfig
  <2>1. /\ UNCHANGED <<providers, file, edit, saveLock, torn, environ>>
        /\ unsaved' \/ (read' = Loaded(environ) /\ UNCHANGED unsaved)
        BY <1>4 DEF ReadConfig, config, disk, keys
  <2>2. find[Admin].pc = "read" /\ find'[Admin].pc = "install" BY <1>4, AdminMoves
  <2>3. \A e \in Editors : edit'[e].pc = "write" => saveLock' = e BY <2>1 DEF SaveInv
  <2>4. CASE ~Quiet' BY <2>3, <2>4, NotQuietSaved
  <2>5. CASE Quiet'
    <3>1. Quiet /\ read' = Loaded(environ) BY <2>1, <2>5 DEF Quiet
    <3>2. ~Writing' /\ DOMAIN providers' = {} BY <2>1, <2>2, <3>1 DEF SaveInv, Writing, Loading
    <3>3. environ \in KeyTable BY DEF TypeOK, KeyTable
    <3>4. DOMAIN read' = DOMAIN file BY <3>1, <3>3, LoadedTyped DEF TypeOK
    <3>5. \A p \in DOMAIN file : Says(file[p], read'[p])
          BY <2>2, <3>1, <3>3, LoadedSays DEF SaveInv
    <3>6. /\ DOMAIN file' = DOMAIN providers' \cup DOMAIN read'
          /\ \A p \in DOMAIN file' : Says(file'[p], Got(p)')
          BY <2>1, <3>2, <3>4, <3>5 DEF Got
    <3> QED BY <2>2, <2>3, <3>2, <3>6 DEF SaveInv, Loading, Writing, Says
  <2> QED BY <2>4, <2>5
<1>5. ASSUME NEW p \in DOMAIN read, Install(p) PROVE SaveInv'
  <2>1. /\ UNCHANGED <<file, edit, saveLock, torn, environ, unsaved>> /\ Put(p, read[p])
        /\ read' = [q \in DOMAIN read \ {p} |-> read[q]]
        BY <1>5 DEF Install, disk, keys, editing
  <2>2. find[Admin].pc = "install" /\ find'[Admin].pc = "install" BY <1>5, AdminMoves
  <2>3. \A e \in Editors : edit'[e].pc = "write" => saveLock' = e BY <2>1 DEF SaveInv
  <2>4. CASE ~Quiet' BY <2>3, <2>4, NotQuietSaved
  <2>5. CASE Quiet'
    <3>1. Quiet BY <2>1, <2>5 DEF Quiet
    <3>2. ~Writing' BY <2>1, <2>2, <3>1 DEF SaveInv, Writing, Loading
    <3>3. /\ DOMAIN providers' = DOMAIN providers \cup {p} /\ DOMAIN read' = DOMAIN read \ {p}
          /\ \A q \in DOMAIN providers' : providers'[q] = IF q = p THEN read[p] ELSE providers[q]
          /\ \A q \in DOMAIN read' : read'[q] = read[q]
          BY <2>1 DEF Put
    <3>4. /\ DOMAIN file = DOMAIN providers \cup DOMAIN read
          /\ \A q \in DOMAIN file : Says(file[q], Got(q))
          BY <2>2, <3>1 DEF SaveInv
    <3>5. DOMAIN file' = DOMAIN providers' \cup DOMAIN read' BY <2>1, <3>3, <3>4
    <3>6. \A q \in DOMAIN file : Got(q)' = Got(q) BY <3>3, <3>4 DEF Got
    <3>7. \A q \in DOMAIN file' : Says(file'[q], Got(q)') BY <2>1, <3>4, <3>6
    <3> QED BY <2>2, <2>3, <3>2, <3>5, <3>7 DEF SaveInv, Loading, Writing, Says
  <2> QED BY <2>4, <2>5
<1>6. CASE Reloaded
  <2>1. UNCHANGED <<providers, file, edit, saveLock, torn, environ, unsaved, read>>
        BY <1>6 DEF Reloaded, config, disk, keys, editing
  <2>2. find[Admin].pc = "install" /\ find'[Admin].pc \in {"off", "next"} BY <1>6, AdminMoves
  <2>3. \A e \in Editors : edit'[e].pc = "write" => saveLock' = e BY <2>1 DEF SaveInv
  <2>4. CASE ~Quiet' BY <2>3, <2>4, NotQuietSaved
  <2>5. CASE Quiet'
    <3>1. Quiet /\ DOMAIN read = {} BY <1>6, <2>1, <2>5 DEF Quiet, Reloaded
    <3>2. ~Writing' BY <2>1, <2>2, <3>1 DEF SaveInv, Writing, Loading
    <3>3. Agree BY <2>2, <3>1 DEF SaveInv, Agree, Got
    <3>4. Agree' BY <2>1, <3>3 DEF Agree, Says
    <3> QED BY <2>2, <2>3, <3>2, <3>4 DEF SaveInv, Loading, Writing
  <2> QED BY <2>4, <2>5
<1>7. CASE Discovers(Admin)
      BY <1>0, <1>7, DiscoversAside, AsideSaved
<1> QED BY <1>1, <1>2, <1>3, <1>4, <1>5, <1>6, <1>7 DEF AdminStep, Loads

(* A process that starts again has read the file.                          *)
LEMMA RestartSaved ==
    ASSUME TypeOK, KeysInv, Restart
    PROVE  SaveInv'
<1>1. \A e \in Editors : edit'[e].pc = "idle" BY IdleTyped DEF Restart
<1>2. ~Loading' BY NoDiscoveryTyped DEF Restart, Loading, Discoverers
<1>3. CASE ~Quiet' BY <1>1, <1>3, NotQuietSaved
<1>4. CASE Quiet'
  <2>1. ~torn /\ keyLock = None /\ UNCHANGED file /\ environ' = Injected(NoKeys)
        BY <1>4 DEF Quiet, Restart
  <2>2. providers' = Loaded(environ') BY <1>4 DEF Quiet, Restart
  <2>3. environ' \in KeyTable BY <2>1, InjectedTyped DEF TypeOK, KeyTable
  <2>4. \A v \in Vars : environ'[v] = secrets[v] BY <2>1 DEF Injected, OnDisk, NoKeys
  <2>5. \A p \in DOMAIN file : VarOf[p] \in Vars BY TableHas, VarAssumption DEF TypeOK
  <2>6. \A p \in DOMAIN file : file[p].keyed => environ'[VarOf[p]] # None
        BY <2>1, <2>4, <2>5 DEF KeysInv
  <2>7. \A p \in DOMAIN file : Says(file[p], Loaded(environ')[p]) BY <2>3, <2>6, LoadedSays
  <2>8. DOMAIN Loaded(environ') = DOMAIN file BY <2>3, LoadedTyped DEF TypeOK
  <2>9. Agree'
    <3>1. DOMAIN file' = DOMAIN providers' BY <2>1, <2>2, <2>8
    <3>2. \A p \in DOMAIN file' : Says(file'[p], providers'[p]) BY <2>1, <2>2, <2>7
    <3> QED BY <3>1, <3>2 DEF Agree, Says
  <2> QED BY <1>1, <1>2, <2>9 DEF SaveInv, Loading
<1> QED BY <1>3, <1>4

(* Every step keeps what the file is to say.                               *)
LEMMA NextSaved ==
    TypeOK /\ TypeOK' /\ Asked /\ KeysInv /\ SaveInv /\ [Next]_vars => SaveInv'
<1> SUFFICES ASSUME TypeOK, TypeOK', Asked, KeysInv, SaveInv, [Next]_vars PROVE SaveInv' OBVIOUS
<1>0. Admin \in Discoverers /\ Admin \notin Pollers BY ThreadAssumption DEF Discoverers
<1>1. ASSUME NEW w \in Pollers, Polls(w) PROVE SaveInv'
  <2>0. w \in Discoverers BY DEF Discoverers
  <2>1. CASE PollStarts(w) \/ PollExits(w)
    <3>1. find'[Admin] = find[Admin]
          BY <1>0, <2>1 DEF PollStarts, PollExits, Begin, TypeOK
    <3>2. UNCHANGED <<providers, file, environ, read, edit, saveLock, unsaved, torn>>
          BY <2>1 DEF PollStarts, PollExits, config, disk, keys, editing
    <3> QED BY <3>1, <3>2, AsideSaved
  <2>2. CASE Discovers(w) BY <2>0, <2>2, DiscoversAside, AsideSaved
  <2> QED BY <1>1, <2>1, <2>2 DEF Polls
<1>2. CASE FirstRequest \/ Discover \/ ReloadBegins("reload") \/ ReloadBegins("signal")
  <2>1. ~Loading /\ ~Loading' BY <1>2, BegunAdmin DEF Asked, Loading
  <2> QED BY <1>2, <2>1, BegunAdmin, AsideSaved
<1>3. ASSUME NEW p, HandEdit(p) PROVE SaveInv'
  <2>1. unsaved' /\ UNCHANGED <<edit, saveLock>> BY <1>3 DEF HandEdit
  <2> QED BY <2>1, NotQuietSaved DEF Quiet, SaveInv
<1>4. CASE UNCHANGED vars
  <2>1. UNCHANGED <<providers, file, environ, read, edit, saveLock, unsaved, torn, find>>
        BY <1>4 DEF vars, config, disk, keys, editing
  <2> QED BY <2>1, AsideSaved
<1> QED BY <1>1, <1>2, <1>3, <1>4, EditSaved, SaveSaved, AdminSaved, RestartSaved DEF Next

(* Saved: once no handler is between its change and the end of its save    *)
(* and no reload is under way, the file says what the memory would save,   *)
(* unless one of the two has been changed without the other for a stated   *)
(* reason. The invariant is about the save that holds _save_lock, and      *)
(* about a reload between emptying the memory and having filled it again:  *)
(* what it has installed and what it has read and has yet to install are   *)
(* then what the file says; keys, because every reference in the file can  *)
(* be resolved from secrets.env until a write of that is broken off.       *)
THEOREM SavedHolds == Spec => []Saved
<1>1. Init => KeysInv /\ SaveInv /\ Asked
  <2> SUFFICES ASSUME Init PROVE KeysInv /\ SaveInv /\ Asked OBVIOUS
  <2>0. TypeOK BY InitTyped
  <2>1. \A e \in Editors : edit[e] = Idle /\ keyLock # e BY NoneAssumption DEF Init
  <2>2. find[Admin].pc = "off" BY NoDiscoveryTyped DEF Init, Discoverers
  <2>3. \A p \in DOMAIN file : file[p].keyed => secrets[VarOf[p]] # None
        BY DisksAssumption DEF Init
  <2>4. secrets \in KeyTable /\ environ = secrets /\ providers = Loaded(environ)
        BY <2>0 DEF Init, TypeOK, KeyTable
  <2>5. Agree
    <3>1. DOMAIN file = DOMAIN providers BY <2>0, <2>4, LoadedTyped DEF TypeOK
    <3>2. \A p \in DOMAIN file : Says(file[p], providers[p])
          BY <2>0, <2>3, <2>4, LoadedSays
    <3> QED BY <3>1, <3>2 DEF Agree
  <2> QED BY <2>1, <2>2, <2>3, <2>5, IdleTyped DEF KeysInv, SaveInv, Asked, Loading
<1>2. TypeOK /\ SaveInv => Saved
  <2> SUFFICES ASSUME TypeOK, SaveInv, \A e \in Editors : edit[e].pc \in {"idle", "insert"},
                      ~Loading, ~unsaved, ~torn
               PROVE  AsSaved(file) = Serialized
      BY DEF Saved
  <2>1. Quiet /\ ~Writing BY DEF Quiet, Writing
  <2> QED BY <2>1, AgreeMeans DEF SaveInv
<1> QED BY <1>1, <1>2, NextAsked, NextKeys, NextSaved, Typed, PTL DEF Spec
=============================================================================
