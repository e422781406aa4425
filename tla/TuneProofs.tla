----------------------------- MODULE TuneProofs -----------------------------
(***************************************************************************)
(* Theorems about Tune, for any callers, scenarios, YAMLs and failures.    *)
(*                                                                         *)
(* FileIsContainer speaks of the moments when nobody tunes.  It holds      *)
(* because a tuning that ends well has started the engine with the file as *)
(* it was then, and left no other deployment behind that had read another  *)
(* entry: between processes the GPU lock sees to it, between the threads   *)
(* of the gateway only the exception for an overtaken start.  So what the  *)
(* deployments under way have read is part of the invariant (Agree), and   *)
(* so is what the holder of the flock knows of the file (Known), for only  *)
(* the holder writes it.                                                   *)
(***************************************************************************)
EXTENDS Tune, TLAPS

Restarting == {"stop", "switch", "deploy", "boot", "doomed"}

\* The flock is held exactly by the caller that is past its write.
Held == \A t \in Tuners : lock = t <=> pc[t] \in Restarting \cup {"smoke"}

\* The holder finds its preset in the file, or what it wrote back, and so
\* does its deployment.
Known ==
    \A t \in Tuners :
        /\ pc[t] \in Restarting \cup {"smoke"} => file = Left(t)
        /\ pc[t] = "boot" => got[t] = file
        /\ pc[t] \notin Restarting => undo[t] = "no"

\* The engine, and what deployments are about to start, are those of the
\* file: between two tunings, and during a smoke test.
Current ==
    /\ running \in {file, Off}
    /\ \A c \in Callers : pc[c] = "boot" => got[c] = file
Agree ==
    ~pending /\ (lock = None \/ \E t \in Tuners : pc[t] = "smoke") => Current

TuneInv == TypeOK /\ Held /\ Known /\ Agree

-----------------------------------------------------------------------------
(* Types.                                                                  *)

(* The values an engine would get are numbers.                             *)
LEMMA OverlayType ==
  ASSUME yaml \in [Fields -> Nat], NEW e \in Entries
  PROVE  Overlay(e) \in [Fields -> Nat]
  BY ScenariosAssumption DEF Overlay, Entries, Presets

(* So is the pool that the check reads.                                    *)
LEMMA PoolType == TypeOK => Pool \in Nat
  BY OverlayType, ScenariosAssumption DEF TypeOK, Pool

(* The initial state has its types.                                        *)
LEMMA TypeInit == Init => TypeOK
<1> SUFFICES ASSUME Init PROVE TypeOK
  OBVIOUS
<1>1. yaml \in [Fields -> Nat]
  BY ScenariosAssumption DEF Init
<1>2. restart \in [Tuners -> BOOLEAN]
  BY Zenon DEF Init
<1> QED
  BY <1>1, <1>2 DEF Init, TypeOK, Entries

(* Ending calls keeps the types of what is local to them.                  *)
LEMMA ForgetType ==
  ASSUME TypeOK, NEW C, Forget(C)
  PROVE  /\ lock' \in Tuners \cup {None}
         /\ pc' \in [Callers -> {"idle", "asks", "lock", "stop", "switch", "deploy",
                                 "boot", "doomed", "smoke"}]
         /\ got' \in [Callers -> Entries]
         /\ seen' \in [Tuners -> Nat]
         /\ want' \in [Tuners -> Entries] /\ prev' \in [Tuners -> Entries]
         /\ restart' \in [Tuners -> BOOLEAN]
         /\ undo' \in [Tuners -> {"no", "restart", "smoke"}]
<1>1. restart' \in [Tuners -> BOOLEAN]
  BY Zenon DEF TypeOK, Forget
<1> QED
  BY <1>1 DEF TypeOK, Forget, Entries

(* No step of a tuner leaves the types.                                    *)
LEMMA TypeApply ==
  ASSUME TypeOK, NEW t \in Tuners, Apply(t)
  PROVE  TypeOK'
<1> USE ScenariosAssumption DEF Callers
<1>1. ASSUME NEW p \in Entries, NEW r \in BOOLEAN, NEW pool, Preview(t, p, r, pool)
      PROVE  TypeOK'
  BY <1>1 DEF Preview, TypeOK, Go, bounds
<1>2. CASE CommandAsks(t)
  BY <1>2, PoolType DEF CommandAsks, TypeOK, Go, bounds
<1>3. CASE CommandCancels(t)
  BY <1>3 DEF CommandCancels, TypeOK, Go, bounds
<1>4. ASSUME NEW status, Return(t, status), UNCHANGED <<yaml, file>>,
             running' \in Entries \cup {Off}, active' \in BOOLEAN, pending' \in BOOLEAN
      PROVE  TypeOK'
  BY <1>4, ForgetType DEF Return, TypeOK
<1>5. CASE AlreadyDefault(t)
  BY <1>4, <1>5 DEF AlreadyDefault, TypeOK, bounds
<1>6. CASE Write(t)
  <2>1. CASE restart[t]
    BY <1>6, <2>1 DEF Write, TypeOK, Go, bounds
  <2>2. CASE ~restart[t]
    BY <1>6, <2>2, ForgetType DEF Write, Return, TypeOK, bounds
  <2> QED
    BY <2>1, <2>2
<1>7. CASE StopEngine(t)
  BY <1>7 DEF StopEngine, TypeOK, Go, call, bounds
<1>8. CASE Switch(t)
  BY <1>8 DEF Switch, TypeOK, Go, call, bounds
<1>9. CASE DeployReads(t)
  BY <1>9 DEF DeployReads, TypeOK, Go, call, bounds
<1>10. CASE StartEngine(t)
  <2>1. running' \in Entries /\ active' \in BOOLEAN /\ pending' \in BOOLEAN
    BY <1>10 DEF StartEngine, Started, Overtaken, TypeOK
  <2>2. CASE undo[t] = "no" /\ want[t] \in MtpPresets
    BY <1>10, <2>1, <2>2 DEF StartEngine, TypeOK, Go, call, bounds
  <2>3. CASE ~(undo[t] = "no" /\ want[t] \in MtpPresets)
    BY <1>4, <1>10, <2>1, <2>3 DEF StartEngine
  <2> QED
    BY <2>2, <2>3
<1>11. ASSUME RestartError(t)
       PROVE  running' \in Entries \cup {Off} /\ active' \in BOOLEAN
  BY <1>11 DEF RestartError, StartFails, TypeOK
<1>12. CASE RestartFails(t)
  BY <1>11, <1>12 DEF RestartFails, Restored, TypeOK, Go
<1>13. CASE SmokePasses(t)
  BY <1>4, <1>13 DEF SmokePasses, TypeOK, bounds
<1>14. CASE SmokeFails(t)
  BY <1>14 DEF SmokeFails, Restored, TypeOK, Go
<1>15. CASE RollbackFails(t)
  BY <1>4, <1>11, <1>15 DEF RollbackFails, TypeOK
<1> QED
  BY <1>1, <1>2, <1>3, <1>5, <1>6, <1>7, <1>8, <1>9, <1>10, <1>12, <1>13, <1>14, <1>15
  DEF Apply, GatewayTunes, CommandTunes

(* What the others do: deployments, and what no caller does.               *)
Others ==
    \/ \E d \in Deployers : Deploy(d)
    \/ Stop \/ Reconcile \/ Edit
    \/ \E C \in Processes : Die(C)

(* No step of the others leaves the types.                                 *)
LEMMA TypeOthers == TypeOK /\ Others => TypeOK'
<1> USE ScenariosAssumption DEF Callers
<1> SUFFICES ASSUME TypeOK, Others PROVE TypeOK'
  OBVIOUS
<1>1. ASSUME NEW d \in Deployers, DeployAsked(d) PROVE TypeOK'
  BY <1>1 DEF DeployAsked, TypeOK, Go, call, bounds
<1>2. ASSUME NEW d \in Deployers, DeployReads(d) PROVE TypeOK'
  BY <1>2 DEF DeployReads, TypeOK, Go, call, bounds
<1>3. ASSUME NEW d \in Deployers, DeployStarts(d) PROVE TypeOK'
  <2>1. running' \in Entries /\ active' \in BOOLEAN /\ pending' \in BOOLEAN
    BY <1>3 DEF DeployStarts, Started, Overtaken, TypeOK
  <2> QED
    BY <1>3, <2>1, ForgetType DEF DeployStarts, TypeOK
<1>4. ASSUME NEW d \in Deployers, DeployFails(d) PROVE TypeOK'
  <2>1. running' \in Entries \cup {Off} /\ active' \in BOOLEAN
    BY <1>4 DEF DeployFails, StartFails, TypeOK
  <2> QED
    BY <1>4, <2>1, ForgetType DEF DeployFails, TypeOK
<1>5. CASE Stop
  BY <1>5 DEF Stop, TypeOK, call, bounds
<1>6. CASE Reconcile
  BY <1>6 DEF Reconcile, TypeOK, call, bounds
<1>7. CASE Edit
  BY <1>7 DEF Edit, TypeOK, call
<1>8. ASSUME NEW C \in Processes, Die(C) PROVE TypeOK'
  <2>1. C \subseteq Callers
    BY DEF Processes
  <2>2. running' \in Entries \cup {Off} /\ pending' \in BOOLEAN
    BY <1>8, <2>1 DEF Die, TypeOK
  <2> QED
    BY <1>8, <2>2, ForgetType DEF Die, TypeOK
<1> QED
  BY <1>1, <1>2, <1>3, <1>4, <1>5, <1>6, <1>7, <1>8 DEF Others, Deploy

-----------------------------------------------------------------------------
(* The invariant.                                                          *)

(* What the holder knows holds initially, and the engine runs the file.    *)
LEMMA InvInit == Init => TuneInv
<1> SUFFICES ASSUME Init PROVE TuneInv
  OBVIOUS
<1>1. TypeOK
  BY TypeInit
<1>2. Held /\ Known
  BY ScenariosAssumption DEF Init, Held, Known, Restarting, Callers
<1>3. Agree
  BY DEF Init, Agree, Current
<1> QED
  BY <1>1, <1>2, <1>3 DEF TuneInv

(* Two callers are never past their writes together.                       *)
LEMMA OneHolder ==
  ASSUME Held, NEW t \in Tuners, NEW u \in Tuners,
         pc[t] \in Restarting \cup {"smoke"}, pc[u] \in Restarting \cup {"smoke"}
  PROVE  t = u
  BY DEF Held

(* A tuner that returns gives the flock back; the others keep their places. *)
LEMMA InvReturn ==
  ASSUME TuneInv, NEW t \in Tuners, NEW status, Return(t, status), file' = file,
         lock \in {t, None}, ~pending' => Current'
  PROVE  Held' /\ Known' /\ Agree'
<1> USE ScenariosAssumption DEF Callers, TuneInv, TypeOK
<1>1. /\ \A c \in Callers : pc'[c] = IF c = t THEN "idle" ELSE pc[c]
      /\ \A c \in Callers : got'[c] = IF c = t THEN Default ELSE got[c]
      /\ \A u \in Tuners : u # t => want'[u] = want[u] /\ prev'[u] = prev[u]
                                    /\ undo'[u] = undo[u]
      /\ undo'[t] = "no" /\ lock' = None
  BY DEF Return, Forget
<1>2. Held'
  BY <1>1 DEF Held, Restarting
<1>3. Known'
  BY <1>1 DEF Known, Restarting, Left
<1>4. Agree'
  BY DEF Agree
<1> QED
  BY <1>2, <1>3, <1>4

(* A tuner that goes on and touches neither the file nor the flock.        *)
LEMMA InvGo ==
  ASSUME TuneInv, NEW t \in Tuners, NEW place, Go(t, place),
         UNCHANGED <<file, got, lock, want, prev, undo>>,
         pending' = pending, running' \in {running, Off},
         \/ pc[t] \in Restarting /\ place \in Restarting \ {"boot"}
         \/ pc[t] \in {"idle", "asks"} /\ place \in {"idle", "asks"}
  PROVE  Held' /\ Known' /\ Agree'
<1> USE ScenariosAssumption DEF Callers, TuneInv, TypeOK
<1>1. \A c \in Callers : pc'[c] = IF c = t THEN place ELSE pc[c]
  BY DEF Go
<1>2. Held'
  BY <1>1 DEF Held, Restarting
<1>3. Known'
  BY <1>1 DEF Known, Restarting, Left
<1>4. Agree'
  BY <1>1 DEF Agree, Current, Restarting
<1> QED
  BY <1>2, <1>3, <1>4

(* A step of a tuner preserves the invariant.                              *)
LEMMA InvApply ==
  ASSUME TuneInv, NEW t \in Tuners, Apply(t)
  PROVE  Held' /\ Known' /\ Agree'
<1> USE ScenariosAssumption DEF Callers
<1>0. /\ lock = t <=> pc[t] \in Restarting \cup {"smoke"}
      /\ TypeOK
  BY DEF TuneInv, Held
<1>1. ASSUME NEW p \in Entries, NEW r \in BOOLEAN, NEW pool, Preview(t, p, r, pool),
             pc[t] \in {"idle", "asks"}
      PROVE  Held' /\ Known' /\ Agree'
  <2>1. /\ \A c \in Callers : pc'[c] = IF c = t THEN "lock" ELSE pc[c]
        /\ \A u \in Tuners : u # t => want'[u] = want[u]
        /\ UNCHANGED <<file, running, got, lock, prev, undo, pending>>
    BY <1>0, <1>1 DEF Preview, Go, TypeOK
  <2>2. Held'
    BY <1>1, <2>1 DEF TuneInv, Held, Restarting
  <2>3. Known'
    BY <1>1, <2>1 DEF TuneInv, Known, Restarting, Left
  <2>4. Agree'
    BY <1>1, <2>1 DEF TuneInv, Agree, Current
  <2> QED
    BY <2>2, <2>3, <2>4
<1>2. CASE CommandAsks(t)
  BY <1>2, InvGo DEF CommandAsks, At
<1>3. CASE CommandCancels(t)
  BY <1>3, InvGo DEF CommandCancels, At
<1>4. CASE AlreadyDefault(t)
  <2>1. Current' \/ pending'
    BY <1>0, <1>4 DEF AlreadyDefault, Locked, At, TuneInv, Agree, Current, Return, Forget, TypeOK
  <2> QED
    BY <1>4, <2>1, InvReturn DEF AlreadyDefault, Locked
<1>5. CASE Write(t)
  <2>0. lock = None /\ pc[t] = "lock" /\ \A u \in Tuners : pc[u] \notin Restarting \cup {"smoke"}
    BY <1>5 DEF Write, Locked, At, TuneInv, Held
  <2>1. CASE restart[t]
    <3>1. /\ \A c \in Callers : pc'[c] = IF c = t THEN "stop" ELSE pc[c]
          /\ lock' = t /\ file' = want[t]
          /\ UNCHANGED <<want, undo>>
      BY <1>0, <1>5, <2>1 DEF Write, Go, TypeOK
    <3>2. Held'
      BY <2>0, <3>1 DEF Held, Restarting
    <3>3. Known'
      BY <2>0, <3>1 DEF TuneInv, Known, Restarting, Left
    <3>4. Agree'
      BY <2>0, <3>1 DEF Agree, Restarting
    <3> QED
      BY <3>2, <3>3, <3>4
  <2>2. CASE ~restart[t]
    <3>1. /\ \A c \in Callers : pc'[c] = IF c = t THEN "idle" ELSE pc[c]
          /\ lock' = None /\ pending' = TRUE
          /\ \A u \in Tuners : undo'[u] = IF u = t THEN "no" ELSE undo[u]
      BY <1>0, <1>5, <2>0, <2>2 DEF Write, Return, Forget, TypeOK
    <3>2. Held'
      BY <2>0, <3>1 DEF Held, Restarting
    <3>3. Known'
      BY <2>0, <3>1 DEF TuneInv, Known, Restarting
    <3>4. Agree'
      BY <3>1 DEF Agree
    <3> QED
      BY <3>2, <3>3, <3>4
  <2> QED
    BY <2>1, <2>2
<1>6. CASE StopEngine(t)
  BY <1>6, InvGo DEF StopEngine, At, Restarting, call
<1>7. CASE Switch(t)
  BY <1>7, InvGo DEF Switch, At, Restarting, call
<1>8. CASE DeployReads(t)
  <2>1. /\ pc[t] = "deploy" /\ lock = t
        /\ \A c \in Callers : c # t => pc'[c] = pc[c] /\ got'[c] = got[c]
        /\ pc'[t] \in {"boot", "doomed"} /\ got'[t] = file
        /\ UNCHANGED <<file, running, lock, want, prev, undo, pending>>
    BY <1>0, <1>8 DEF DeployReads, At, Go, TypeOK, call, Restarting
  <2>2. Held'
    BY <2>1 DEF TuneInv, Held, Restarting
  <2>3. Known'
    BY <2>1 DEF TuneInv, Known, Restarting, Left
  <2>4. Agree'
    BY <2>1 DEF TuneInv, Agree, Current
  <2> QED
    BY <2>2, <2>3, <2>4
<1>9. CASE StartEngine(t)
  <2>1. /\ pc[t] = "boot" /\ lock = t /\ got[t] = file
        /\ running' = got[t] /\ pending' = Overtaken(t) /\ file' = file
    BY <1>0, <1>9 DEF StartEngine, Started, At, Restarting, TuneInv, Known
  <2>2. CASE undo[t] = "no" /\ want[t] \in MtpPresets
    <3>1. /\ \A c \in Callers : pc'[c] = IF c = t THEN "smoke" ELSE pc[c]
          /\ UNCHANGED <<got, lock, want, prev, undo>>
      BY <1>0, <1>9, <2>2 DEF StartEngine, Go, TypeOK, call
    <3>2. Held'
      BY <2>1, <3>1 DEF TuneInv, Held, Restarting
    <3>3. Known'
      BY <2>1, <2>2, <3>1 DEF TuneInv, Known, Restarting, Left
    <3>4. ~pending' => Current'
      BY <2>1, <3>1 DEF Overtaken, At, Current
    <3> QED
      BY <3>2, <3>3, <3>4 DEF Agree
  <2>3. CASE ~(undo[t] = "no" /\ want[t] \in MtpPresets)
    <3>1. Return(t, Status(t))
      BY <1>9, <2>3 DEF StartEngine
    <3>2. ~pending' => Current'
      BY <1>0, <2>1, <3>1 DEF Return, Forget, Overtaken, At, Current, TypeOK
    <3> QED
      BY <2>1, <3>1, <3>2, InvReturn
  <2> QED
    BY <2>2, <2>3
<1>10. ASSUME RestartError(t) PROVE pc[t] \in Restarting
  BY <1>10 DEF RestartError, StartFails, At, Restarting
<1>11. CASE RestartFails(t) \/ SmokeFails(t)
  <2>1. /\ pc[t] \in Restarting \cup {"smoke"} /\ lock = t
        /\ \A c \in Callers : pc'[c] = IF c = t THEN "stop" ELSE pc[c]
        /\ file' = prev[t] /\ undo'[t] # "no"
        /\ \A u \in Tuners : u # t => undo'[u] = undo[u]
        /\ UNCHANGED <<got, lock, want, prev>>
    BY <1>0, <1>10, <1>11 DEF RestartFails, SmokeFails, Restored, At, Go, TypeOK
  <2>2. \A u \in Tuners : u # t => pc[u] \notin Restarting \cup {"smoke"}
    BY <2>1 DEF TuneInv, Held
  <2>3. Held'
    BY <2>1, <2>2 DEF TuneInv, Held, Restarting
  <2>4. Known'
    BY <2>1, <2>2 DEF TuneInv, Known, Restarting, Left
  <2>5. Agree'
    BY <2>1, <2>2 DEF Agree, Restarting
  <2> QED
    BY <2>3, <2>4, <2>5
<1>12. CASE SmokePasses(t)
  <2>1. ~pending' => Current'
    BY <1>0, <1>12 DEF SmokePasses, At, TuneInv, Agree, Current, Return, Forget, TypeOK
  <2> QED
    BY <1>0, <1>12, <2>1, InvReturn DEF SmokePasses, At
<1>13. CASE RollbackFails(t)
  BY <1>0, <1>10, <1>13, InvReturn DEF RollbackFails
<1> QED
  BY <1>1, <1>2, <1>3, <1>4, <1>5, <1>6, <1>7, <1>8, <1>9, <1>11, <1>12, <1>13
  DEF Apply, GatewayTunes, CommandTunes, At

(* A step of the others preserves the invariant.                           *)
LEMMA InvOthers == TuneInv /\ Others => Held' /\ Known' /\ Agree'
<1> USE ScenariosAssumption DEF Callers
<1> SUFFICES ASSUME TuneInv, Others PROVE Held' /\ Known' /\ Agree'
  OBVIOUS
<1>0. TypeOK
  BY DEF TuneInv
<1>1. ASSUME NEW d \in Deployers, UNCHANGED <<file, lock, want, prev, undo>>,
             \A c \in Callers : c # d => pc'[c] = pc[c] /\ got'[c] = got[c]
      PROVE  Held' /\ Known' /\ \A t \in Tuners : pc'[t] = pc[t]
  <2>1. \A t \in Tuners : t \in Callers /\ t # d
    OBVIOUS
  <2>2. \A t \in Tuners : pc'[t] = pc[t] /\ got'[t] = got[t]
    BY <1>1, <2>1
  <2>3. Held'
    BY <1>1, <2>2 DEF TuneInv, Held
  <2>4. Known'
    BY <1>1, <2>2 DEF TuneInv, Known, Left
  <2> QED
    BY <2>2, <2>3, <2>4
<1>2. ASSUME NEW d \in Deployers, Forget({d})
      PROVE  /\ UNCHANGED <<lock, want, prev, undo>>
             /\ \A c \in Callers : c # d => pc'[c] = pc[c] /\ got'[c] = got[c]
             /\ pc'[d] = "idle"
  <2>1. \A t \in Tuners : t # d
    OBVIOUS
  <2>2. lock' = lock
    BY <1>0, <1>2, <2>1 DEF Forget, TypeOK
  <2>3. want' = want /\ prev' = prev /\ undo' = undo
    BY <1>0, <1>2, <2>1 DEF Forget, TypeOK
  <2> QED
    BY <1>2, <2>2, <2>3 DEF Forget
<1>3. ASSUME NEW d \in Deployers, DeployAsked(d) PROVE Held' /\ Known' /\ Agree'
  <2>1. /\ UNCHANGED <<file, lock, want, prev, undo, running, pending>>
        /\ \A c \in Callers : c # d => pc'[c] = pc[c] /\ got'[c] = got[c]
        /\ pc'[d] = "deploy"
    BY <1>0, <1>3 DEF DeployAsked, Go, TypeOK, call
  <2>2. Held' /\ Known' /\ \A t \in Tuners : pc'[t] = pc[t]
    BY <1>1, <2>1
  <2>3. Agree'
    BY <2>1, <2>2 DEF TuneInv, Agree, Current
  <2> QED
    BY <2>2, <2>3
<1>4. ASSUME NEW d \in Deployers, DeployReads(d) PROVE Held' /\ Known' /\ Agree'
  <2>1. /\ UNCHANGED <<file, lock, want, prev, undo, running, pending>>
        /\ \A c \in Callers : c # d => pc'[c] = pc[c] /\ got'[c] = got[c]
        /\ got'[d] = file
    BY <1>0, <1>4 DEF DeployReads, Go, TypeOK, call
  <2>2. Held' /\ Known' /\ \A t \in Tuners : pc'[t] = pc[t]
    BY <1>1, <2>1
  <2>3. Agree'
    BY <2>1, <2>2 DEF TuneInv, Agree, Current
  <2> QED
    BY <2>2, <2>3
<1>5. ASSUME NEW d \in Deployers, DeployStarts(d) PROVE Held' /\ Known' /\ Agree'
  <2>1. /\ UNCHANGED <<file, lock, want, prev, undo>>
        /\ \A c \in Callers : c # d => pc'[c] = pc[c] /\ got'[c] = got[c]
        /\ pc'[d] = "idle" /\ pc[d] = "boot" /\ running' = got[d]
        /\ pending' = (pending /\ (running' # file \/ Overtaken(d)))
    BY <1>2, <1>5 DEF DeployStarts, Started, At
  <2>2. Held' /\ Known' /\ \A t \in Tuners : pc'[t] = pc[t]
    BY <1>1, <2>1
  <2>3. Agree'
    <3> SUFFICES ASSUME ~pending', lock = None \/ \E t \in Tuners : pc[t] = "smoke"
                 PROVE  Current'
      BY <2>1, <2>2 DEF Agree
    <3>1. CASE pending
      BY <2>1, <3>1 DEF Overtaken, At, Current
    <3>2. CASE ~pending
      <4>1. Current
        BY <3>2 DEF TuneInv, Agree
      <4> QED
        BY <2>1, <4>1 DEF Current
    <3> QED
      BY <3>1, <3>2
  <2> QED
    BY <2>2, <2>3
<1>6. ASSUME NEW d \in Deployers, DeployFails(d) PROVE Held' /\ Known' /\ Agree'
  <2>1. /\ UNCHANGED <<file, lock, want, prev, undo, pending>>
        /\ \A c \in Callers : c # d => pc'[c] = pc[c] /\ got'[c] = got[c]
        /\ pc'[d] = "idle" /\ running' \in {running, Off}
    BY <1>2, <1>6 DEF DeployFails, StartFails
  <2>2. Held' /\ Known' /\ \A t \in Tuners : pc'[t] = pc[t]
    BY <1>1, <2>1
  <2>3. Agree'
    BY <2>1, <2>2 DEF TuneInv, Agree, Current
  <2> QED
    BY <2>2, <2>3
<1>7. CASE Stop \/ Reconcile \/ Edit
  <2>1. /\ UNCHANGED <<file, lock, want, prev, undo, pc, got, pending>>
        /\ running' \in {running, Off}
    BY <1>7 DEF Stop, Reconcile, Edit, call
  <2> QED
    BY <2>1 DEF TuneInv, Held, Known, Left, Agree, Current
<1>8. ASSUME NEW C \in Processes, Die(C) PROVE Held' /\ Known' /\ Agree'
  <2>1. /\ \A c \in Callers : pc'[c] = IF c \in C THEN "idle" ELSE pc[c]
        /\ \A c \in Callers : got'[c] = IF c \in C THEN Default ELSE got[c]
        /\ \A t \in Tuners : want'[t] = IF t \in C THEN Default ELSE want[t]
        /\ \A t \in Tuners : prev'[t] = IF t \in C THEN Default ELSE prev[t]
        /\ \A t \in Tuners : undo'[t] = IF t \in C THEN "no" ELSE undo[t]
        /\ lock' = IF lock \in C THEN None ELSE lock
        /\ file' = file /\ pending' = (pending \/ lock \in C)
    BY <1>8 DEF Die, Forget
  <2>2. running' = running \/ \E c \in Callers : pc[c] = "boot" /\ running' = got[c]
    BY <1>8 DEF Die, Processes, At
  <2>3. None \notin C
    BY DEF Processes
  <2>4. Held'
    BY <2>1, <2>3 DEF TuneInv, Held, Restarting
  <2>5. Known'
    BY <2>1 DEF TuneInv, Known, Restarting, Left
  <2>6. Agree'
    BY <2>1, <2>2 DEF TuneInv, Agree, Current
  <2> QED
    BY <2>4, <2>5, <2>6
<1> QED
  BY <1>3, <1>4, <1>5, <1>6, <1>7, <1>8 DEF Others, Deploy

(* Every step preserves the invariant.                                     *)
LEMMA InvStep == TuneInv /\ [Next]_vars => TuneInv'
<1> SUFFICES ASSUME TuneInv, [Next]_vars PROVE TuneInv'
  OBVIOUS
<1>1. TypeOK
  BY DEF TuneInv
<1>2. ASSUME NEW t \in Tuners, Apply(t) PROVE TuneInv'
  BY <1>1, <1>2, TypeApply, InvApply DEF TuneInv
<1>3. CASE Others
  BY <1>1, <1>3, TypeOthers, InvOthers DEF TuneInv
<1>4. CASE UNCHANGED vars
  BY <1>4 DEF vars, TuneInv, TypeOK, Held, Known, Left, Agree, Current
<1> QED
  BY <1>2, <1>3, <1>4 DEF Next, Others

(* The invariant holds in every state.                                     *)
THEOREM Invariance == Spec => []TuneInv
  BY InvInit, InvStep, PTL DEF Spec

(* Every variable has its type.                                            *)
THEOREM TypeCorrect == Spec => []TypeOK
<1>1. TuneInv => TypeOK
  BY DEF TuneInv
<1> QED
  BY <1>1, Invariance, PTL

(* When nobody tunes, the engine runs what the applied layer says, with    *)
(* the exceptions that FileIsContainer names.                              *)
THEOREM FileIsContainerHolds == Spec => []FileIsContainer
<1>1. TuneInv => FileIsContainer
  BY DEF TuneInv, Agree, Current, FileIsContainer
<1> QED
  BY <1>1, Invariance, PTL

-----------------------------------------------------------------------------
(* The reports.                                                            *)

(* What a tuning must have left when it returns.                           *)
Report(t) == file' = Left(t) /\ (pending' \/ running' \in {Left(t), Off})

(* The holder's own last step reports the truth, and no other gives up its *)
(* flock.                                                                  *)
LEMMA ReportApply ==
  ASSUME TuneInv, NEW t \in Tuners, lock = t, lock' # t, NEW u \in Tuners, Apply(u)
  PROVE  Report(t)
<1> USE ScenariosAssumption
<1>0. file = Left(t)
  BY DEF TuneInv, Held, Known
<1>1. u = t
  <2>1. t # None /\ (u # t => lock \notin {u})
    BY DEF Callers
  <2>2. CASE AlreadyDefault(u) \/ Write(u)
    BY <2>1, <2>2 DEF AlreadyDefault, Write, Locked
  <2>3. ASSUME u # t, UNCHANGED lock \/ (\E s : Return(u, s)) PROVE FALSE
    BY <2>1, <2>3 DEF Return, Forget
  <2>4. UNCHANGED lock \/ (\E s : Return(u, s)) \/ AlreadyDefault(u) \/ Write(u)
    BY DEF Apply, GatewayTunes, CommandTunes, Preview, CommandAsks, CommandCancels,
           StopEngine, Switch, DeployReads, StartEngine, RestartFails, SmokePasses,
           SmokeFails, RollbackFails
  <2> QED
    BY <2>2, <2>3, <2>4
<1>2. CASE StartEngine(t)
  <2>1. got[t] = file /\ running' = got[t] /\ file' = file
    BY <1>2 DEF StartEngine, Started, At, TuneInv, Known
  <2> QED
    BY <1>0, <2>1 DEF Report
<1>3. CASE SmokePasses(t)
  BY <1>0, <1>3 DEF SmokePasses, At, TuneInv, Agree, Current, Report
<1>4. CASE RollbackFails(t)
  BY <1>0, <1>4 DEF RollbackFails, Report
<1>5. CASE AlreadyDefault(t) \/ Write(t)
  BY <1>5 DEF AlreadyDefault, Write, Locked, Callers
<1>6. CASE \/ StartEngine(t) \/ SmokePasses(t) \/ RollbackFails(t) \/ UNCHANGED lock
  BY <1>2, <1>3, <1>4, <1>6
<1>7. StartEngine(t) \/ SmokePasses(t) \/ RollbackFails(t) \/ UNCHANGED lock
         \/ AlreadyDefault(t) \/ Write(t)
  BY <1>1 DEF Apply, GatewayTunes, CommandTunes, Preview, CommandAsks, CommandCancels,
              StopEngine, Switch, DeployReads, RestartFails, SmokeFails
<1> QED
  BY <1>5, <1>6, <1>7

(* A tuning leaves file and engine as it reports.                          *)
THEOREM ReportTrueHolds == Spec => ReportTrue
<1> DEFINE Truth == \A t \in Holders : lock' # t /\ result' # "none" =>
          /\ file' = Left(t)
          /\ pending' \/ running' \in {Left(t), Off}
<1>1. TuneInv /\ [Next]_vars => [Truth]_vars
  <2> SUFFICES ASSUME TuneInv, Next, NEW t \in Holders, lock' # t, result' # "none"
               PROVE  Report(t)
    BY DEF Report
  <2>1. t \in Tuners /\ lock = t
    BY DEF Holders
  <2>2. ASSUME NEW u \in Tuners, Apply(u) PROVE Report(t)
    BY <2>1, <2>2, ReportApply
  <2>3. ASSUME NEW C \in Processes, Die(C) PROVE Report(t)
    BY <2>3 DEF Die
  <2>4. ASSUME NEW d \in Deployers, Deploy(d) PROVE lock' = lock
    <3>1. lock \notin {d}
      BY <2>1, ScenariosAssumption
    <3> QED
      BY <2>4, <3>1 DEF Deploy, DeployAsked, DeployReads, DeployStarts, DeployFails, Forget
  <2>5. ASSUME Stop \/ Reconcile \/ Edit PROVE lock' = lock
    BY <2>5 DEF Stop, Reconcile, Edit
  <2> QED
    BY <2>1, <2>2, <2>3, <2>4, <2>5 DEF Next
<1> QED
  BY <1>1, Invariance, PTL DEF Spec, ReportTrue
=============================================================================
