--------------------------- MODULE GpuSwitchProofs --------------------------
(***************************************************************************)
(* Proofs about GpuSwitch, for any models, processes and threads.          *)
(*                                                                         *)
(* Types need to know what a thread works on where: a switch or a stop     *)
(* names a model, the locked part of a switch a GPU model, and a swap      *)
(* rolls back to GPU models only.  The lock needs its depth related to the *)
(* threads inside.  That the GPU has one tenant needs to know, besides,    *)
(* how servers, rows and what a thread has read fit together at each of    *)
(* its places; this much is true while requests take turns (InTurn).       *)
(***************************************************************************)
EXTENDS GpuSwitch, FiniteSetTheorems, TLAPS

Local ==
    [pc : Locations, kind : Kinds \cup {"none"}, m : Models \cup {None},
     mode : {"idle", "exclusive", "shared"}, seen : SUBSET Models,
     was : SUBSET Models, own : BOOLEAN, ok : BOOLEAN]

SwapPcs == {"deploy", "starting", "failStop", "failWrite", "deployed", "rollback"}
GpuPcs == {"validate", "guard", "gate", "lock", "deploy", "failStop", "failWrite",
           "deployed", "retire", "retireWrite", "rollback", "finish"}
SwitchPcs == GpuPcs \cup {"entered", "add", "starting", "addRead", "addWrite"}
IdlePcs == {"idle", "scan", "apply", "idleLock", "idleStop", "idleWait", "idleWrite"}
StopPcs == {"stop", "stopKill", "stopRead", "stopWrite"}
Asked == {"none", "reconcile"} \cup {j.kind : j \in Jobs}

(* What the other fields of a thread are when its pc is at some place.     *)
Fits(pc, kind, m, mode, was) ==
    /\ kind \in {"switch", "stop"} => m \in Models
    /\ pc \in SwitchPcs => kind = "switch"
    /\ pc \in StopPcs => kind = "stop"
    /\ pc \in {"reset", "resetKill", "resetWrite"} => kind = "reset"
    /\ pc \in GpuPcs => m \in Gpu
    /\ pc \in IdlePcs /\ kind = "switch" => m \in Gpu
    /\ pc \in SwapPcs /\ mode = "exclusive" => was \subseteq Gpu
    /\ pc = "rollback" => mode = "exclusive"
    /\ pc \in {"entered", "add"} => mode # "exclusive"

Shape(r) == Fits(r.pc, r.kind, r.m, r.mode, r.was) /\ r.kind \in Asked

(* The types of everything but the threads.                                *)
SharedOK ==
    /\ proc \in [Models -> {Down, Loading, Up}]
    /\ active \subseteq Models
    /\ profile \in {"idle", "healthy", "switching", "error"}
    /\ target \in Models \cup {None}
    /\ pid \in Models \cup {None, Dead}
    /\ drift \subseteq Gpu
    /\ depth \in [Procs -> Nat]
    /\ locker \subseteq Procs
    /\ requests \in 0 .. MaxRequests /\ faults \in 0 .. MaxFaults
    /\ misses \in 0 .. MaxMisses /\ deaths \in 0 .. MaxDeaths

ThreadsOK == th \in [Threads -> Local] /\ \A t \in Threads : Shape(th[t])

SwitchInv == SharedOK /\ ThreadsOK

(* Thread t goes to a state that fits, and nobody else moves.              *)
Steps(t) == \E r \in Local : Shape(r) /\ th' = [th EXCEPT ![t] = r]

(* The invariant implies the types.                                        *)
LEMMA InvTypes == SwitchInv => TypeOK
  BY DEF SwitchInv, SharedOK, ThreadsOK, TypeOK, Local, Gpu

(* A step of one thread to a state that fits keeps all threads fitting.    *)
LEMMA StepsOK ==
  ASSUME ThreadsOK, NEW t \in Threads, Steps(t)
  PROVE  ThreadsOK'
<1>1. PICK r \in Local : Shape(r) /\ th' = [th EXCEPT ![t] = r]
  BY DEF Steps
<1>2. th' \in [Threads -> Local]
  BY <1>1 DEF ThreadsOK
<1>3. ASSUME NEW u \in Threads PROVE Shape(th'[u])
  BY <1>1 DEF ThreadsOK
<1> QED
  BY <1>2, <1>3 DEF ThreadsOK, Shape, Fits, Gpu

(***************************************************************************)
(* A thread that goes to a place where what it has read fits.              *)
(***************************************************************************)
LEMMA GotoSteps ==
  ASSUME ThreadsOK, NEW t \in Threads, NEW l \in Locations, Goto(t, l),
         Fits(l, th[t].kind, th[t].m, th[t].mode, th[t].was)
  PROVE  Steps(t)
<1> DEFINE r == [th[t] EXCEPT !.pc = l]
<1>1. th[t] \in Local
  BY DEF ThreadsOK
<1>2. r \in Local
  BY <1>1 DEF Local
<1>3. Shape(r)
  BY <1>1 DEF ThreadsOK, Shape, Local
<1>4. th' = [th EXCEPT ![t] = r]
  BY DEF Goto
<1> QED
  BY <1>2, <1>3, <1>4 DEF Steps

(* The same for a step that also notes a failure.                          *)
LEMMA FailSteps ==
  ASSUME ThreadsOK, NEW t \in Threads, NEW l \in Locations, Fail(t, l),
         Fits(l, th[t].kind, th[t].m, th[t].mode, th[t].was)
  PROVE  Steps(t)
<1> DEFINE r == [th[t] EXCEPT !.pc = l, !.ok = FALSE]
<1>1. th[t] \in Local
  BY DEF ThreadsOK
<1>2. r \in Local
  BY <1>1 DEF Local
<1>3. Shape(r)
  BY <1>1 DEF ThreadsOK, Shape, Local
<1>4. th' = [th EXCEPT ![t] = r]
  BY DEF Fail
<1> QED
  BY <1>2, <1>3, <1>4 DEF Steps

(* A resting thread fits.                                                  *)
LEMMA RestingFits == Resting \in Local /\ Shape(Resting)
  BY DEF Asked, Resting, Local, Shape, Fits, Locations, SwitchPcs, GpuPcs, IdlePcs,
         SwapPcs, StopPcs

(* Going to rest is such a step.                                           *)
LEMMA RestSteps ==
  ASSUME NEW t \in Threads, Rest(t)
  PROVE  Steps(t)
  BY RestingFits DEF Rest, Steps

-----------------------------------------------------------------------------
(* The helpers of the actions keep the types.                              *)

(* Killing servers keeps the type of proc.                                 *)
LEMMA KillType ==
  ASSUME proc \in [Models -> {Down, Loading, Up}], NEW dead, Kill(dead)
  PROVE  proc' \in [Models -> {Down, Loading, Up}]
  BY DEF Kill

(* So does stopping models, and the tracked group stays one.               *)
LEMMA StopType ==
  ASSUME SharedOK, NEW S, StopProcesses(S)
  PROVE  /\ proc' \in [Models -> {Down, Loading, Up}]
         /\ pid' \in Models \cup {None, Dead}
<1>1. proc' \in [Models -> {Down, Loading, Up}]
  BY KillType DEF StopProcesses, SharedOK
<1>2. pid' \in Models \cup {None, Dead}
  BY DEF StopProcesses, SharedOK
<1> QED
  BY <1>1, <1>2

(* acquire() and release() keep the lock's types: depth never goes below 0.*)
LEMMA LockTypes ==
  ASSUME SharedOK, NEW p \in Procs, Acquire(p) \/ Release(p)
  PROVE  depth' \in [Procs -> Nat] /\ locker' \subseteq Procs
<1>1. CASE Acquire(p)
  BY <1>1 DEF Acquire, SharedOK
<1>2. CASE Release(p)
  <2>1. depth[p] \in Nat
    BY DEF SharedOK
  <2>2. (IF depth[p] > 0 THEN depth[p] - 1 ELSE 0) \in Nat
    BY <2>1
  <2>3. depth' \in [Procs -> Nat]
    BY <1>2, <2>2 DEF Release, SharedOK
  <2> QED
    BY <1>2, <2>3 DEF Release, SharedOK
<1> QED
  BY <1>1, <1>2

(* A scan stays within the bound of missed probes.                         *)
LEMMA ScanType ==
  ASSUME SharedOK, NEW seen \in SUBSET Models, Scan(seen)
  PROVE  misses' \in 0 .. MaxMisses
<1>1. Serving \ seen \subseteq Models
  BY DEF Serving
<1>2. Cardinality(Serving \ seen) \in Nat
  BY <1>1, RoleAssumption, FS_Subset, FS_CardinalityType
<1> QED
  BY <1>2, BoundAssumption DEF Scan, SharedOK

(* A fault stays within the bound of faults.                               *)
LEMMA FaultType ==
  ASSUME SharedOK, NEW n \in {0, 1}, Fault(n)
  PROVE  faults' \in 0 .. MaxFaults
  BY BoundAssumption DEF Fault, SharedOK

(* Every thread runs in some process.                                      *)
LEMMA ProcOfType == \A t \in Threads : ProcOf[t] \in Procs
  BY ThreadAssumption

-----------------------------------------------------------------------------
(* A switch, up to the lock.                                               *)

(* A request starts a thread that fits the job.                            *)
LEMMA RequestOK ==
  ASSUME SwitchInv, NEW t \in Threads, Request(t)
  PROVE  SharedOK' /\ Steps(t)
<1> USE BoundAssumption
<1>1. SharedOK'
  BY DEF Request, SwitchInv, SharedOK, db, lock, Gpu
<1>2. PICK j \in Jobs :
        th' = [th EXCEPT
                 ![t] = [Resting EXCEPT
                           !.kind = j.kind, !.m = j.m,
                           !.pc = CASE j.kind = "switch" -> "entered"
                                    [] j.kind = "reconcile" -> "scan"
                                    [] OTHER -> j.kind]]
  BY DEF Request
<1> DEFINE r == [Resting EXCEPT
                   !.kind = j.kind, !.m = j.m,
                   !.pc = CASE j.kind = "switch" -> "entered"
                            [] j.kind = "reconcile" -> "scan"
                            [] OTHER -> j.kind]
<1>3. /\ j.kind \in Kinds /\ j.m \in Models \cup {None}
      /\ j.kind \in {"switch", "stop"} => j.m \in Models
  BY JobAssumption
<1>4. r \in Local
  BY <1>3, RestingFits DEF Resting, Local, Kinds, Locations
<1>5. Shape(r)
  BY <1>3 DEF Asked, Resting, Shape, Fits, Kinds, SwitchPcs, GpuPcs, IdlePcs,
              SwapPcs, StopPcs
<1> QED
  BY <1>1, <1>2, <1>4, <1>5 DEF Steps

(* A switch up to the lock: only GPU models get there.                     *)
LEMMA EnterOK ==
  ASSUME SwitchInv, NEW t \in Threads,
         \/ Enter(t) \/ Validate(t) \/ Guard(t) \/ Gate(t)
         \/ Begin(t) \/ Refused(t)
  PROVE  SharedOK' /\ Steps(t)
<1> USE BoundAssumption DEF SwitchInv
<1>0. /\ Shape(th[t]) /\ th[t] \in Local
      /\ ProcOf[t] \in Procs
  BY ProcOfType DEF ThreadsOK
<1>1. CASE Enter(t)
  <2>1. SharedOK'
    BY <1>1 DEF Enter, SharedOK, db, lock, bounds, Gpu
  <2>2. CASE th[t].m \in active /\ th[t].m \in drift
    <3>1. Goto(t, "idle") /\ th[t].m \in Gpu
      BY <1>1, <2>2 DEF Enter, SharedOK
    <3> QED
      BY <1>0, <1>1, <2>1, <3>1, GotoSteps
      DEF Enter, At, Fits, Shape, Locations, SwitchPcs, GpuPcs, IdlePcs, SwapPcs,
          StopPcs
  <2>3. CASE ~(th[t].m \in active /\ th[t].m \in drift)
    <3>1. \E l \in {"respond", "add", "validate"} :
            Goto(t, l) /\ (l = "validate" => RoleOf[th[t].m] # "none")
      BY <1>1, <2>3 DEF Enter
    <3>2. /\ th[t].kind = "switch" /\ th[t].m \in Models
          /\ th[t].mode # "exclusive"
      BY <1>0, <1>1 DEF Enter, At, Shape, Fits, SwitchPcs
    <3> QED
      BY <1>0, <2>1, <3>1, <3>2, GotoSteps
      DEF Fits, Locations, SwitchPcs, GpuPcs, IdlePcs, SwapPcs, StopPcs, Gpu
  <2> QED
    BY <2>2, <2>3
<1>2. CASE Validate(t)
  <2>1. SharedOK'
    BY <1>2 DEF Validate, SharedOK, db, lock, bounds, Gpu
  <2>2. PICK l \in {"respond", "guard", "gate"}, mode \in {"idle", "exclusive", "shared"} :
          th' = [th EXCEPT ![t] = [th[t] EXCEPT !.mode = mode, !.pc = l]]
    BY <1>2 DEF Validate, GpuMode
  <2>3. [th[t] EXCEPT !.mode = mode, !.pc = l] \in Local
    BY <1>0, <2>2 DEF Local, Locations
  <2>4. Shape([th[t] EXCEPT !.mode = mode, !.pc = l])
    BY <1>0, <1>2 DEF Validate, At, Local, Shape, Fits, SwitchPcs, GpuPcs,
                      IdlePcs, SwapPcs, StopPcs
  <2> QED
    BY <2>1, <2>2, <2>3, <2>4 DEF Steps
<1>3. CASE Guard(t)
  <2>1. misses' \in 0 .. MaxMisses
    BY <1>3, ScanType DEF Guard, Running
  <2>2. SharedOK'
    BY <1>3, <2>1 DEF Guard, SharedOK, db, lock, Gpu
  <2>3. \E l \in {"gate", "respond"} : Goto(t, l)
    BY <1>3 DEF Guard
  <2> QED
    BY <1>0, <1>3, <2>2, <2>3, GotoSteps
    DEF Guard, At, Fits, Shape, Locations, SwitchPcs, GpuPcs, IdlePcs, SwapPcs,
        StopPcs
<1>4. CASE Gate(t) \/ Refused(t)
  <2>1. SharedOK'
    BY <1>4 DEF Gate, Refused, SharedOK, db, lock, bounds, Gpu
  <2>2. (\E l \in {"lock", "respond"} : Goto(t, l)) /\ th[t].pc \in {"gate", "lock"}
    BY <1>4 DEF Gate, Refused, At
  <2> QED
    BY <1>0, <2>1, <2>2, GotoSteps
    DEF Fits, Shape, Locations, SwitchPcs, GpuPcs, IdlePcs, SwapPcs, StopPcs
<1>5. CASE Begin(t)
  <2>0. th[t].m \in Models /\ th[t].kind = "switch" /\ th[t].m \in Gpu
    BY <1>0, <1>5 DEF Begin, At, Shape, Fits, SwitchPcs, GpuPcs
  <2>1. depth' \in [Procs -> Nat] /\ locker' \subseteq Procs
    BY <1>0, <1>5, LockTypes DEF Begin
  <2>2. SharedOK'
    BY <1>5, <2>0, <2>1 DEF Begin, SharedOK, bounds, Gpu
  <2>3. \E l \in {"deploy", "retire", "add"} :
          /\ Goto(t, l)
          /\ l = "deploy" => th[t].mode = "idle"
          /\ l = "add" => th[t].mode # "exclusive"
    BY <1>5 DEF Begin
  <2> QED
    BY <1>0, <2>0, <2>2, <2>3, GotoSteps
    DEF Fits, Locations, SwitchPcs, GpuPcs, IdlePcs, SwapPcs, StopPcs
<1> QED
  BY <1>1, <1>2, <1>3, <1>4, <1>5

-----------------------------------------------------------------------------
(* Starting a model, and what a switch does under the lock.                *)

(* Spawning a server for a model.                                          *)
LEMMA SpawnOK ==
  ASSUME SwitchInv, NEW t \in Threads, Spawn(t),
         th[t].kind = "switch", th[t].m \in Models,
         th[t].mode = "exclusive" => th[t].was \subseteq Gpu,
         UNCHANGED <<active, profile, target, drift, lock, bounds>>
  PROVE  SharedOK' /\ Steps(t)
<1> USE DEF SwitchInv
<1>1. proc' \in [Models -> {Down, Loading, Up}]
  BY DEF Spawn, SharedOK
<1>2. pid' \in Models \cup {None, Dead}
  BY DEF Spawn, SharedOK
<1>3. SharedOK'
  BY <1>1, <1>2 DEF SharedOK, lock, bounds, Gpu
<1> DEFINE seen == {s \in active : RoleOf[s] = "none"} \ {th[t].m}
           r == [th[t] EXCEPT !.pc = "starting", !.own = (proc[th[t].m] = Down),
                              !.seen = seen]
<1>4. th[t] \in Local /\ Shape(th[t]) /\ seen \subseteq Models
  BY DEF ThreadsOK, SharedOK
<1>5. r \in Local
  BY <1>4 DEF Local, Locations
<1>6. Shape(r)
  BY <1>4 DEF Local, Shape, Fits, SwitchPcs, GpuPcs, IdlePcs, SwapPcs, StopPcs
<1>7. th' = [th EXCEPT ![t] = r]
  BY DEF Spawn
<1> QED
  BY <1>3, <1>5, <1>6, <1>7 DEF Steps

(* A failed start goes on where its model and mode belong.                 *)
LEMMA FailedSteps ==
  ASSUME SwitchInv, NEW t \in Threads, At(t, "starting"), Failed(t)
  PROVE  /\ Steps(t)
         /\ profile' \in {"idle", "healthy", "switching", "error"}
<1>1. th[t] \in Local /\ Shape(th[t])
  BY DEF SwitchInv, ThreadsOK
<1>2. th[t].kind = "switch" /\ th[t].m \in Models
  BY <1>1 DEF At, Shape, Fits, SwitchPcs
<1>3. /\ AfterFailure(t) \in {"respond", "finish", "failStop"}
      /\ AfterFailure(t) # "respond" => th[t].m \in Gpu
  BY <1>2 DEF AfterFailure, Gpu
<1>4. th[t].mode = "exclusive" => th[t].was \subseteq Gpu
  BY <1>1 DEF At, Shape, Fits, SwapPcs
<1>5. Fail(t, AfterFailure(t))
  BY DEF Failed
<1>6. Fits(AfterFailure(t), th[t].kind, th[t].m, th[t].mode, th[t].was)
  BY <1>2, <1>3, <1>4 DEF Fits, SwitchPcs, GpuPcs, IdlePcs, SwapPcs, StopPcs
<1>7. AfterFailure(t) \in Locations
  BY <1>3 DEF Locations
<1>8. Steps(t)
  BY <1>5, <1>6, <1>7, FailSteps DEF SwitchInv
<1> QED
  BY <1>8 DEF Failed, SwitchInv, SharedOK

(* The three ways a start ends.                                            *)
LEMMA StartingOK ==
  ASSUME SwitchInv, NEW t \in Threads, Starting(t)
  PROVE  SharedOK' /\ Steps(t)
<1> USE DEF SwitchInv
<1>0. th[t] \in Local /\ Shape(th[t])
  BY DEF ThreadsOK
<1>1. th[t].pc = "starting" /\ th[t].kind = "switch" /\ th[t].m \in Models
  BY <1>0 DEF Starting, StartHealthy, StartExits, StartTimesOut, At, Shape,
              Fits, SwitchPcs
<1>2. CASE StartHealthy(t)
  <2>1. SharedOK'
    BY <1>2 DEF StartHealthy, SharedOK, db, lock, bounds, Gpu
  <2>2. \E l \in {"addRead", "deployed"} :
          Goto(t, l) /\ (l = "deployed" => th[t].m \in Gpu)
    BY <1>1, <1>2 DEF StartHealthy, Adding, Gpu
  <2> QED
    BY <1>0, <1>1, <2>1, <2>2, GotoSteps
    DEF Fits, Shape, Locations, SwitchPcs, GpuPcs, IdlePcs, SwapPcs, StopPcs
<1>3. CASE StartExits(t)
  <2>1. At(t, "starting") /\ Failed(t)
    BY <1>3 DEF StartExits
  <2>2. proc' \in [Models -> {Down, Loading, Up}]
    BY <1>3, KillType DEF StartExits, SharedOK
  <2>3. pid' \in Models \cup {None, Dead}
    BY <1>3 DEF StartExits, SharedOK
  <2>4. faults' \in 0 .. MaxFaults
    BY <1>3, FaultType DEF StartExits, SharedOK
  <2>5. Steps(t) /\ profile' \in {"idle", "healthy", "switching", "error"}
    BY <2>1, FailedSteps
  <2>6. UNCHANGED <<active, target, drift, lock, requests, misses, deaths>>
    BY <2>1 DEF Failed
  <2> QED
    BY <2>2, <2>3, <2>4, <2>5, <2>6 DEF SharedOK, lock, Gpu
<1>4. CASE StartTimesOut(t)
  <2>1. At(t, "starting") /\ Failed(t) /\ Fault(1)
    BY <1>4 DEF StartTimesOut
  <2>2. \/ StopProcesses({th[t].m})
        \/ (\E dead : Kill(dead)) /\ pid' = None
    BY <1>4 DEF StartTimesOut
  <2>3. /\ proc' \in [Models -> {Down, Loading, Up}]
        /\ pid' \in Models \cup {None, Dead}
    BY <2>2, StopType, KillType DEF SharedOK
  <2>4. faults' \in 0 .. MaxFaults
    BY <2>1, FaultType
  <2>5. Steps(t) /\ profile' \in {"idle", "healthy", "switching", "error"}
    BY <2>1, FailedSteps
  <2>6. UNCHANGED <<active, target, drift, lock, requests, misses, deaths>>
    BY <2>1 DEF Failed
  <2> QED
    BY <2>3, <2>4, <2>5, <2>6 DEF SharedOK, lock, Gpu
<1> QED
  BY <1>2, <1>3, <1>4 DEF Starting

(* Deploying, and cleaning up a failed deploy.                             *)
LEMMA DeployOK ==
  ASSUME SwitchInv, NEW t \in Threads,
         \/ Deploy(t) \/ DeployRefused(t) \/ DeployFailStop(t)
         \/ DeployFailWrite(t) \/ Deployed(t)
  PROVE  SharedOK' /\ Steps(t)
<1> USE DEF SwitchInv
<1>0. th[t] \in Local /\ Shape(th[t])
  BY DEF ThreadsOK
<1>1. /\ th[t].pc \in {"deploy", "failStop", "failWrite", "deployed"}
      /\ th[t].kind = "switch" /\ th[t].m \in Models /\ th[t].m \in Gpu
      /\ th[t].mode = "exclusive" => th[t].was \subseteq Gpu
  <2>1. th[t].pc \in {"deploy", "failStop", "failWrite", "deployed"}
    BY DEF Deploy, DeployRefused, DeployFailStop, DeployFailWrite, Deployed, At
  <2> QED
    BY <1>0, <2>1 DEF Shape, Fits, SwitchPcs, GpuPcs, SwapPcs
<1>2. CASE Deploy(t)
  BY <1>1, <1>2, SpawnOK DEF Deploy
<1>3. CASE DeployRefused(t)
  <2>1. faults' \in 0 .. MaxFaults
    BY <1>3, FaultType DEF DeployRefused
  <2>2. SharedOK'
    BY <1>3, <2>1 DEF DeployRefused, SharedOK, db, lock, Gpu
  <2>3. \E l \in {"rollback", "finish"} :
          Fail(t, l) /\ (l = "rollback" => th[t].mode = "exclusive")
    BY <1>3 DEF DeployRefused
  <2> QED
    BY <1>1, <2>2, <2>3, FailSteps
    DEF Fits, Locations, SwitchPcs, GpuPcs, IdlePcs, SwapPcs, StopPcs
<1>4. CASE DeployFailStop(t)
  <2>1. SharedOK'
    BY <1>4, StopType DEF DeployFailStop, SharedOK, lock, bounds, Gpu
  <2>2. Goto(t, "failWrite")
    BY <1>4 DEF DeployFailStop
  <2> QED
    BY <1>1, <2>1, <2>2, GotoSteps
    DEF Fits, Locations, SwitchPcs, GpuPcs, IdlePcs, SwapPcs, StopPcs
<1>5. CASE DeployFailWrite(t)
  <2>1. SharedOK'
    BY <1>5 DEF DeployFailWrite, SharedOK, lock, bounds, Gpu
  <2>2. \E l \in {"rollback", "finish"} :
          Goto(t, l) /\ (l = "rollback" => th[t].mode = "exclusive")
    BY <1>5 DEF DeployFailWrite
  <2> QED
    BY <1>1, <2>1, <2>2, GotoSteps
    DEF Fits, Locations, SwitchPcs, GpuPcs, IdlePcs, SwapPcs, StopPcs
<1>6. CASE Deployed(t)
  <2>0. th[t].seen \subseteq Models
    BY <1>0 DEF Local
  <2>1. SharedOK'
    BY <1>1, <1>6, <2>0 DEF Deployed, SharedOK, lock, bounds, Gpu
  <2> DEFINE r == [th[t] EXCEPT !.pc = "finish", !.ok = TRUE]
  <2>2. r \in Local
    BY <1>0 DEF Local, Locations
  <2>3. Shape(r)
    BY <1>0, <1>1 DEF Local, Shape, Fits, SwitchPcs, GpuPcs, IdlePcs, SwapPcs,
                      StopPcs
  <2>4. th' = [th EXCEPT ![t] = r]
    BY <1>6 DEF Deployed
  <2> QED
    BY <2>1, <2>2, <2>3, <2>4 DEF Steps
<1> QED
  BY <1>2, <1>3, <1>4, <1>5, <1>6

(* Retiring the models of a swap and rolling back to them.                 *)
LEMMA SwapOK ==
  ASSUME SwitchInv, NEW t \in Threads,
         RetireStop(t) \/ RetireWrite(t) \/ Rollback(t)
  PROVE  SharedOK' /\ Steps(t)
<1> USE DEF SwitchInv
<1>0. th[t] \in Local /\ Shape(th[t])
  BY DEF ThreadsOK
<1>1. /\ th[t].pc \in {"retire", "retireWrite", "rollback"}
      /\ th[t].kind = "switch" /\ th[t].m \in Models /\ th[t].m \in Gpu
      /\ th[t].seen \subseteq Models /\ th[t].was \subseteq Models
      /\ th[t].pc = "rollback" /\ th[t].mode = "exclusive" => th[t].was \subseteq Gpu
  <2>1. th[t].pc \in {"retire", "retireWrite", "rollback"}
    BY DEF RetireStop, RetireWrite, Rollback, At
  <2> QED
    BY <1>0, <2>1 DEF Local, Shape, Fits, SwitchPcs, GpuPcs, SwapPcs
<1>2. CASE RetireStop(t)
  <2>1. SharedOK'
    BY <1>2, StopType DEF RetireStop, SharedOK, lock, bounds, Gpu
  <2> DEFINE r == [th[t] EXCEPT !.pc = "retireWrite", !.seen = active]
  <2>2. r \in Local
    BY <1>0 DEF Local, Locations, SharedOK
  <2>3. Shape(r)
    BY <1>0, <1>1 DEF Local, Shape, Fits, SwitchPcs, GpuPcs, IdlePcs, SwapPcs,
                      StopPcs
  <2>4. th' = [th EXCEPT ![t] = r]
    BY <1>2 DEF RetireStop
  <2> QED
    BY <2>1, <2>2, <2>3, <2>4 DEF Steps
<1>3. CASE RetireWrite(t)
  <2>1. SharedOK'
    BY <1>1, <1>3 DEF RetireWrite, SharedOK, lock, bounds, Gpu
  <2> DEFINE r == [th[t] EXCEPT !.pc = "deploy", !.was = th[t].seen \cap Gpu]
  <2>2. r \in Local
    BY <1>0, <1>1 DEF Local, Locations
  <2>3. Shape(r)
    BY <1>0, <1>1 DEF Local, Shape, Fits, SwitchPcs, GpuPcs, IdlePcs, SwapPcs,
                      StopPcs
  <2>4. th' = [th EXCEPT ![t] = r]
    BY <1>3 DEF RetireWrite
  <2> QED
    BY <2>1, <2>2, <2>3, <2>4 DEF Steps
<1>4. CASE Rollback(t)
  <2>1. SharedOK'
    BY <1>4 DEF Rollback, SharedOK, lock, bounds, Gpu
  <2>2. CASE Goto(t, "finish")
    BY <1>1, <2>1, <2>2, GotoSteps
    DEF Fits, Locations, SwitchPcs, GpuPcs, IdlePcs, SwapPcs, StopPcs
  <2>3. ASSUME NEW m \in th[t].was,
               th' = [th EXCEPT ![t].pc = "deploy", ![t].m = m, ![t].was = @ \ {m}]
        PROVE  Steps(t)
    <3> DEFINE r == [th[t] EXCEPT !.pc = "deploy", !.m = m, !.was = th[t].was \ {m}]
    <3>1. r \in Local
      BY <1>0, <1>1 DEF Local, Locations
    <3>2. Shape(r)
      BY <1>0, <1>1, <1>4
      DEF Rollback, At, Local, Shape, Fits, SwitchPcs, GpuPcs, IdlePcs, SwapPcs,
          StopPcs
    <3>3. th' = [th EXCEPT ![t] = r]
      BY <2>3
    <3> QED
      BY <3>1, <3>2, <3>3 DEF Steps
  <2> QED
    BY <1>4, <2>1, <2>2, <2>3 DEF Rollback
<1> QED
  BY <1>2, <1>3, <1>4

(* Adding a shared or an independent service.                              *)
LEMMA AddOK ==
  ASSUME SwitchInv, NEW t \in Threads,
         Add(t) \/ AddRefused(t) \/ AddRead(t) \/ AddWrite(t)
  PROVE  SharedOK' /\ Steps(t)
<1> USE DEF SwitchInv
<1>0. th[t] \in Local /\ Shape(th[t])
  BY DEF ThreadsOK
<1>1. /\ th[t].pc \in {"add", "addRead", "addWrite"}
      /\ th[t].kind = "switch" /\ th[t].m \in Models /\ th[t].seen \subseteq Models
  <2>1. th[t].pc \in {"add", "addRead", "addWrite"}
    BY DEF Add, AddRefused, AddRead, AddWrite, At
  <2> QED
    BY <1>0, <2>1 DEF Local, Shape, Fits, SwitchPcs
<1>2. CASE Add(t)
  <2>1. Spawn(t) /\ UNCHANGED <<active, profile, target, drift, lock, bounds>>
    BY <1>2 DEF Add
  <2>2. th[t].mode = "exclusive" => th[t].was \subseteq Gpu
    BY <1>0, <1>2 DEF Add, At, Shape, Fits
  <2> QED
    BY <1>1, <2>1, <2>2, SpawnOK
<1>3. CASE AddRefused(t)
  <2>1. faults' \in 0 .. MaxFaults
    BY <1>3, FaultType DEF AddRefused, SharedOK
  <2>2. SharedOK'
    BY <1>3, <2>1 DEF AddRefused, SharedOK, db, lock, Gpu
  <2>3. th[t].m \in Gpu /\ (Goto(t, "finish") \/ Fail(t, "finish"))
    BY <1>1, <1>3 DEF AddRefused, Gpu
  <2>4. Fits("finish", th[t].kind, th[t].m, th[t].mode, th[t].was)
    BY <1>1, <2>3 DEF Fits, IdlePcs, SwapPcs, StopPcs
  <2> QED
    BY <2>2, <2>3, <2>4, GotoSteps, FailSteps DEF Locations
<1>4. CASE AddRead(t)
  <2>1. SharedOK'
    BY <1>4 DEF AddRead, SharedOK, db, lock, bounds, Gpu
  <2> DEFINE r == [th[t] EXCEPT !.pc = "addWrite", !.seen = active]
  <2>2. r \in Local
    BY <1>0 DEF Local, Locations, SharedOK
  <2>3. Shape(r)
    BY <1>0, <1>1 DEF Local, Shape, Fits, SwitchPcs, GpuPcs, IdlePcs, SwapPcs,
                      StopPcs
  <2>4. th' = [th EXCEPT ![t] = r]
    BY <1>4 DEF AddRead
  <2> QED
    BY <2>1, <2>2, <2>3, <2>4 DEF Steps
<1>5. CASE AddWrite(t)
  <2>1. SharedOK'
    BY <1>1, <1>5 DEF AddWrite, SharedOK, lock, bounds, Gpu
  <2>2. \E l \in {"respond", "finish"} :
          Goto(t, l) /\ (l = "finish" => th[t].m \in Gpu)
    BY <1>1, <1>5 DEF AddWrite, Gpu
  <2> QED
    BY <1>1, <2>1, <2>2, GotoSteps
    DEF Fits, Locations, SwitchPcs, GpuPcs, IdlePcs, SwapPcs, StopPcs
<1> QED
  BY <1>2, <1>3, <1>4, <1>5

(* The end of a switch.                                                    *)
LEMMA EndOK ==
  ASSUME SwitchInv, NEW t \in Threads, Finish(t) \/ Respond(t)
  PROVE  SharedOK' /\ Steps(t)
<1> USE DEF SwitchInv
<1>0. th[t] \in Local /\ Shape(th[t]) /\ ProcOf[t] \in Procs
  BY ProcOfType DEF ThreadsOK
<1>1. CASE Finish(t)
  <2>1. SharedOK'
    BY <1>0, <1>1, LockTypes DEF Finish, SharedOK, bounds, Gpu
  <2>2. Goto(t, "respond")
    BY <1>1 DEF Finish
  <2> QED
    BY <1>0, <2>1, <2>2, GotoSteps
    DEF Shape, Fits, Locations, SwitchPcs, GpuPcs, IdlePcs, SwapPcs, StopPcs
<1>2. CASE Respond(t)
  <2>1. SharedOK'
    BY <1>2 DEF Respond, SharedOK, lock, bounds, Gpu
  <2> QED
    BY <1>2, <2>1, RestSteps DEF Respond
<1> QED
  BY <1>1, <1>2

-----------------------------------------------------------------------------
(* The reconciler, and the switch to idle.                                 *)

(* The reconciler and the monitor.                                         *)
LEMMA ReconcileOK ==
  ASSUME SwitchInv, NEW t \in Threads, Reconciling(t) \/ MonitorTick(t)
  PROVE  SharedOK' /\ Steps(t)
<1> USE DEF SwitchInv
<1>0. th[t] \in Local /\ Shape(th[t])
  BY DEF ThreadsOK
<1>1. CASE ReconcileScan(t)
  <2>1. PICK seen \in SUBSET Running :
          /\ Scan(seen)
          /\ th' = [th EXCEPT ![t] = [th[t] EXCEPT !.pc = "apply", !.seen = seen,
                                                   !.was = active]]
    BY <1>1 DEF ReconcileScan
  <2>2. seen \subseteq Models
    BY DEF Running
  <2>3. misses' \in 0 .. MaxMisses
    BY <2>1, <2>2, ScanType
  <2>4. SharedOK'
    BY <1>1, <2>3 DEF ReconcileScan, SharedOK, db, lock, Gpu
  <2> DEFINE r == [th[t] EXCEPT !.pc = "apply", !.seen = seen, !.was = active]
  <2>5. r \in Local
    BY <1>0, <2>2 DEF Local, Locations, SharedOK
  <2>6. Shape(r)
    BY <1>0, <1>1 DEF ReconcileScan, At, Local, Shape, Fits, SwitchPcs, GpuPcs,
                      IdlePcs, SwapPcs, StopPcs
  <2> QED
    BY <2>1, <2>4, <2>5, <2>6 DEF Steps
<1>2. CASE ReconcileApply(t)
  <2>0. th[t].seen \subseteq Models
    BY <1>0 DEF Local
  <2>1. active' \subseteq Models
    BY <1>2, <2>0 DEF ReconcileApply, SharedOK
  <2>2. profile' \in {"idle", "healthy", "switching", "error"}
    BY <1>2 DEF ReconcileApply, SharedOK
  <2>3. pid' \in Models \cup {None, Dead}
    <3>1. PICK owners \in PortOwners : pid' \in PidsFor(th[t].seen, owners)
      BY <1>2 DEF ReconcileApply
    <3> QED
      BY <2>0, <3>1 DEF PidsFor, SharedOK
  <2>4. SharedOK'
    BY <1>2, <2>1, <2>2, <2>3 DEF ReconcileApply, SharedOK, lock, bounds, Gpu
  <2>5. Rest(t) \/ Goto(t, "idleLock")
    BY <1>2 DEF ReconcileApply
  <2>6. Fits("idleLock", th[t].kind, th[t].m, th[t].mode, th[t].was)
    BY <1>0, <1>2 DEF ReconcileApply, At, Shape, Fits, SwitchPcs, GpuPcs, IdlePcs,
                      SwapPcs, StopPcs
  <2> QED
    BY <2>4, <2>5, <2>6, RestSteps, GotoSteps DEF Locations
<1>3. CASE MonitorTick(t)
  <2>1. SharedOK'
    BY <1>3 DEF MonitorTick, SharedOK, db, lock, bounds, Gpu
  <2> DEFINE r == [th[t] EXCEPT !.pc = "scan", !.kind = "reconcile"]
  <2>2. r \in Local
    BY <1>0 DEF Local, Locations, Kinds
  <2>3. Shape(r)
    BY <1>0 DEF Asked, Local, Shape, Fits, SwitchPcs, GpuPcs, IdlePcs, SwapPcs, StopPcs
  <2>4. th' = [th EXCEPT ![t] = r]
    BY <1>3 DEF MonitorTick
  <2> QED
    BY <2>1, <2>2, <2>3, <2>4 DEF Steps
<1> QED
  BY <1>1, <1>2, <1>3 DEF Reconciling

(* Leaving the way to idle.                                                *)
LEMMA ReturnSteps ==
  ASSUME SwitchInv, NEW t \in Threads, Return(t), th[t].pc \in IdlePcs
  PROVE  Steps(t)
<1>0. th[t] \in Local /\ Shape(th[t])
  BY DEF SwitchInv, ThreadsOK
<1>1. CASE AfterIdle(t) = "rest"
  BY <1>1, RestSteps DEF Return
<1>2. CASE AfterIdle(t) # "rest"
  <2>1. \E l \in {"validate", "respond"} :
          Goto(t, l) /\ (l = "validate" => th[t].kind = "switch")
    BY <1>2 DEF Return, AfterIdle
  <2> QED
    BY <1>0, <2>1, GotoSteps
    DEF SwitchInv, Shape, Fits, Locations, SwitchPcs, GpuPcs, IdlePcs, SwapPcs,
        StopPcs
<1> QED
  BY <1>1, <1>2

(* Going on along the way to idle.                                         *)
LEMMA IdleGoto ==
  ASSUME SwitchInv, NEW t \in Threads, NEW l \in IdlePcs, Goto(t, l),
         th[t].pc \in IdlePcs
  PROVE  Steps(t)
<1>1. Shape(th[t]) /\ l \in Locations
  BY DEF SwitchInv, ThreadsOK, IdlePcs, Locations
<1>2. Fits(l, th[t].kind, th[t].m, th[t].mode, th[t].was)
  BY <1>1 DEF Shape, Fits, SwitchPcs, GpuPcs, IdlePcs, SwapPcs, StopPcs
<1> QED
  BY <1>1, <1>2, GotoSteps DEF SwitchInv

(* The way to idle.                                                        *)
LEMMA IdlingOK ==
  ASSUME SwitchInv, NEW t \in Threads, Idling(t)
  PROVE  SharedOK' /\ Steps(t)
<1>0. /\ th[t] \in Local /\ Shape(th[t]) /\ ProcOf[t] \in Procs
      /\ SharedOK /\ th[t].seen \subseteq Models
  BY ProcOfType DEF SwitchInv, ThreadsOK, Local
<1>1. th[t].pc \in IdlePcs
  BY DEF Idling, IdleCheck, IdleLock, IdleStop, IdleFreed, IdleForced, IdleStuck,
         IdleWrite, At, IdlePcs
<1>2. CASE IdleCheck(t)
  <2>1. SharedOK'
    BY <1>0, <1>2 DEF IdleCheck, SharedOK, db, lock, bounds, Gpu
  <2>2. Return(t) \/ Goto(t, "scan")
    BY <1>2 DEF IdleCheck
  <2> QED
    BY <1>1, <2>1, <2>2, ReturnSteps, IdleGoto DEF IdlePcs
<1>3. CASE IdleLock(t)
  <2>1. Acquire(ProcOf[t]) \/ UNCHANGED lock
    BY <1>3 DEF IdleLock
  <2>2. depth' \in [Procs -> Nat] /\ locker' \subseteq Procs
    BY <1>0, <2>1, LockTypes DEF SharedOK, lock
  <2>3. SharedOK'
    BY <1>0, <1>3, <2>2 DEF IdleLock, SharedOK, db, bounds, Gpu
  <2>4. Return(t) \/ Goto(t, "idleStop")
    BY <1>3 DEF IdleLock
  <2> QED
    BY <1>1, <2>3, <2>4, ReturnSteps, IdleGoto DEF IdlePcs
<1>4. CASE IdleStop(t)
  <2>1. proc' \in [Models -> {Down, Loading, Up}]
    BY <1>0, <1>4, KillType DEF IdleStop, SharedOK
  <2>2. SharedOK'
    BY <1>0, <1>4, <2>1 DEF IdleStop, SharedOK, lock, bounds, Gpu
  <2> DEFINE r == [th[t] EXCEPT !.pc = "idleWait", !.seen = active]
  <2>3. r \in Local
    BY <1>0 DEF Local, Locations, SharedOK
  <2>4. Shape(r)
    BY <1>0, <1>1 DEF Local, Shape, Fits, SwitchPcs, GpuPcs, IdlePcs, SwapPcs,
                      StopPcs
  <2>5. th' = [th EXCEPT ![t] = r]
    BY <1>4 DEF IdleStop
  <2> QED
    BY <2>2, <2>3, <2>4, <2>5 DEF Steps
<1>5. CASE IdleFreed(t)
  <2>1. SharedOK'
    BY <1>0, <1>5 DEF IdleFreed, SharedOK, db, lock, bounds, Gpu
  <2> QED
    BY <1>1, <1>5, <2>1, IdleGoto DEF IdleFreed, IdlePcs
<1>6. CASE IdleForced(t)
  <2>1. proc' \in [Models -> {Down, Loading, Up}] /\ pid' = None
    BY <1>0, <1>6, KillType DEF IdleForced, ForceKill, SharedOK
  <2>2. faults' \in 0 .. MaxFaults
    BY <1>0, <1>6, FaultType DEF IdleForced
  <2>3. SharedOK'
    BY <1>0, <1>6, <2>1, <2>2 DEF IdleForced, SharedOK, lock, Gpu
  <2> QED
    BY <1>1, <1>6, <2>3, IdleGoto DEF IdleForced, IdlePcs
<1>7. CASE IdleStuck(t)
  <2>1. proc' \in [Models -> {Down, Loading, Up}] /\ pid' = None
    BY <1>0, <1>7, KillType DEF IdleStuck, ForceKill, SharedOK
  <2>2. faults' \in 0 .. MaxFaults
    BY <1>0, <1>7, FaultType DEF IdleStuck
  <2>3. depth' \in [Procs -> Nat] /\ locker' \subseteq Procs
    BY <1>0, <1>7, LockTypes DEF IdleStuck
  <2>4. SharedOK'
    BY <1>0, <1>7, <2>1, <2>2, <2>3 DEF IdleStuck, SharedOK, Gpu
  <2> QED
    BY <1>1, <1>7, <2>4, ReturnSteps DEF IdleStuck
<1>8. CASE IdleWrite(t)
  <2>1. depth' \in [Procs -> Nat] /\ locker' \subseteq Procs
    BY <1>0, <1>8, LockTypes DEF IdleWrite
  <2>2. SharedOK'
    BY <1>0, <1>8, <2>1 DEF IdleWrite, SharedOK, bounds, Gpu
  <2> QED
    BY <1>1, <1>8, <2>2, ReturnSteps DEF IdleWrite
<1> QED
  BY <1>2, <1>3, <1>4, <1>5, <1>6, <1>7, <1>8 DEF Idling

-----------------------------------------------------------------------------
(* Stops, resets, deaths, and the servers themselves.                      *)

(* Stopping one service.                                                   *)
LEMMA StoppingOK ==
  ASSUME SwitchInv, NEW t \in Threads, Stopping(t)
  PROVE  SharedOK' /\ Steps(t)
<1>0. /\ th[t] \in Local /\ Shape(th[t]) /\ SharedOK
      /\ th[t].seen \subseteq Models
  BY DEF SwitchInv, ThreadsOK, Local
<1>1. th[t].pc \in StopPcs /\ th[t].kind = "stop" /\ th[t].m \in Models
  <2>1. th[t].pc \in StopPcs
    BY DEF Stopping, StopCheck, StopKill, StopRead, StopWrite, At, StopPcs
  <2> QED
    BY <1>0, <2>1 DEF Shape, Fits
<1> USE DEF SwitchInv
<1>2. CASE StopCheck(t)
  <2>1. SharedOK'
    BY <1>0, <1>2 DEF StopCheck, SharedOK, db, lock, bounds, Gpu
  <2>2. Rest(t) \/ \E l \in {"idle", "stopKill"} : Goto(t, l)
    BY <1>2 DEF StopCheck
  <2> QED
    BY <1>0, <1>1, <2>1, <2>2, RestSteps, GotoSteps
    DEF Fits, Locations, SwitchPcs, GpuPcs, IdlePcs, SwapPcs, StopPcs
<1>3. CASE StopKill(t)
  <2>1. SharedOK'
    BY <1>0, <1>3, StopType DEF StopKill, SharedOK, lock, bounds, Gpu
  <2>2. Goto(t, "stopRead")
    BY <1>3 DEF StopKill
  <2> QED
    BY <1>0, <1>1, <2>1, <2>2, GotoSteps
    DEF Fits, Locations, SwitchPcs, GpuPcs, IdlePcs, SwapPcs, StopPcs
<1>4. CASE StopRead(t)
  <2>1. SharedOK'
    BY <1>0, <1>4 DEF StopRead, SharedOK, db, lock, bounds, Gpu
  <2> DEFINE r == [th[t] EXCEPT !.pc = "stopWrite", !.seen = active \ {th[t].m}]
  <2>2. r \in Local
    BY <1>0 DEF Local, Locations, SharedOK
  <2>3. Shape(r)
    BY <1>0, <1>1 DEF Local, Shape, Fits, SwitchPcs, GpuPcs, IdlePcs, SwapPcs,
                      StopPcs
  <2>4. th' = [th EXCEPT ![t] = r]
    BY <1>4 DEF StopRead
  <2> QED
    BY <2>1, <2>2, <2>3, <2>4 DEF Steps
<1>5. CASE StopWrite(t)
  <2>1. SharedOK'
    BY <1>0, <1>5 DEF StopWrite, SharedOK, lock, bounds, Gpu
  <2> QED
    BY <1>5, <2>1, RestSteps DEF StopWrite
<1> QED
  BY <1>2, <1>3, <1>4, <1>5 DEF Stopping

(* force_reset.                                                            *)
LEMMA ResettingOK ==
  ASSUME SwitchInv, NEW t \in Threads, Resetting(t)
  PROVE  SharedOK' /\ Steps(t)
<1>0. th[t] \in Local /\ Shape(th[t]) /\ SharedOK /\ ProcOf[t] \in Procs
  BY ProcOfType DEF SwitchInv, ThreadsOK
<1> USE DEF SwitchInv
<1>1. CASE ResetStop(t)
  <2>1. SharedOK'
    BY <1>0, <1>1, StopType DEF ResetStop, SharedOK, lock, bounds, Gpu
  <2>2. Goto(t, "resetKill") /\ th[t].pc = "reset"
    BY <1>1 DEF ResetStop, At
  <2> QED
    BY <1>0, <2>1, <2>2, GotoSteps
    DEF Shape, Fits, Locations, SwitchPcs, GpuPcs, IdlePcs, SwapPcs, StopPcs
<1>2. CASE ResetKill(t)
  <2>1. SharedOK'
    BY <1>0, <1>2, KillType DEF ResetKill, ForceKill, SharedOK, lock, bounds, Gpu
  <2>2. Goto(t, "resetWrite") /\ th[t].pc = "resetKill"
    BY <1>2 DEF ResetKill, At
  <2> QED
    BY <1>0, <2>1, <2>2, GotoSteps
    DEF Shape, Fits, Locations, SwitchPcs, GpuPcs, IdlePcs, SwapPcs, StopPcs
<1>3. CASE ResetWrite(t)
  <2>1. depth[ProcOf[t]] \in Nat
    BY <1>0 DEF SharedOK
  <2>2. (IF depth[ProcOf[t]] > 0 THEN depth[ProcOf[t]] - 1 ELSE 0) \in Nat
    BY <2>1
  <2>3. depth' \in [Procs -> Nat]
    BY <1>0, <1>3, <2>2 DEF ResetWrite, SharedOK
  <2>4. SharedOK'
    BY <1>0, <1>3, <2>3 DEF ResetWrite, SharedOK, bounds, Gpu
  <2> QED
    BY <1>3, <2>4, RestSteps DEF ResetWrite
<1> QED
  BY <1>1, <1>2, <1>3 DEF Resetting

(* Whatever a thread does keeps the types and fits.                        *)
LEMMA WorksOK ==
  ASSUME SwitchInv, NEW t \in Threads, Works(t)
  PROVE  SharedOK' /\ Steps(t)
  BY EnterOK, StartingOK, DeployOK, SwapOK, AddOK, EndOK, ReconcileOK, IdlingOK,
     StoppingOK, ResettingOK
  DEF Works, Switching

(* So does what servers and operators do.                                  *)
LEMMA ServersOK ==
  ASSUME SwitchInv, NEW m \in Models, Loaded(m) \/ ServerDies(m) \/ EditConfig(m)
  PROVE  SwitchInv'
<1>0. SharedOK /\ ThreadsOK
  BY DEF SwitchInv
<1>1. th' = th
  BY DEF Loaded, ServerDies, EditConfig
<1>2. ThreadsOK'
  BY <1>0, <1>1 DEF ThreadsOK, Shape, Fits, Gpu
<1>3. CASE Loaded(m)
  BY <1>0, <1>2, <1>3 DEF Loaded, SwitchInv, SharedOK, db, lock, bounds, Gpu
<1>4. CASE ServerDies(m)
  <2>1. proc' \in [Models -> {Down, Loading, Up}]
    BY <1>0, <1>4, KillType DEF ServerDies, SharedOK
  <2>2. faults' \in 0 .. MaxFaults
    BY <1>0, <1>4, FaultType DEF ServerDies
  <2> QED
    BY <1>0, <1>2, <1>4, <2>1, <2>2 DEF ServerDies, SwitchInv, SharedOK, lock, Gpu
<1>5. CASE EditConfig(m)
  BY <1>0, <1>2, <1>5, BoundAssumption
  DEF EditConfig, SwitchInv, SharedOK, lock, Gpu
<1> QED
  BY <1>3, <1>4, <1>5

(* So does the death of a process.                                         *)
LEMMA DiesOK ==
  ASSUME SwitchInv, NEW p \in Procs, Dies(p)
  PROVE  SwitchInv'
<1>0. SharedOK /\ ThreadsOK
  BY DEF SwitchInv
<1>1. SharedOK'
  BY <1>0, BoundAssumption DEF Dies, SharedOK, db, Gpu
<1>2. th' = [t \in Threads |-> IF ProcOf[t] = p THEN Resting ELSE th[t]]
  BY DEF Dies
<1>3. \A t \in Threads : th'[t] \in Local /\ Shape(th'[t])
  BY <1>0, <1>2, RestingFits DEF ThreadsOK
<1>4. th' \in [Threads -> Local]
  BY <1>2, <1>3
<1> QED
  BY <1>1, <1>3, <1>4 DEF SwitchInv, ThreadsOK, Shape, Fits, Gpu

(***************************************************************************)
(* The invariant that the step lemmas above preserve.                      *)
(***************************************************************************)
LEMMA SwitchInvariant == Spec => []SwitchInv
<1>1. Init => SwitchInv
  <2> SUFFICES ASSUME Init PROVE SwitchInv
    OBVIOUS
  <2>1. SharedOK
    BY BoundAssumption DEF Init, SharedOK
  <2>2. ThreadsOK
    BY RestingFits DEF Init, ThreadsOK
  <2> QED
    BY <2>1, <2>2 DEF SwitchInv
<1>2. SwitchInv /\ [Next]_vars => SwitchInv'
  <2> SUFFICES ASSUME SwitchInv, [Next]_vars PROVE SwitchInv'
    OBVIOUS
  <2>1. ASSUME NEW t \in Threads, Works(t) \/ Request(t) \/ MonitorTick(t)
        PROVE  SwitchInv'
    <3>1. SharedOK' /\ Steps(t)
      BY <2>1, WorksOK, RequestOK, ReconcileOK
    <3> QED
      BY <3>1, StepsOK DEF SwitchInv
  <2>2. ASSUME NEW m \in Models, Loaded(m) \/ ServerDies(m) \/ EditConfig(m)
        PROVE  SwitchInv'
    BY <2>2, ServersOK
  <2>3. ASSUME NEW p \in Procs, Dies(p) PROVE SwitchInv'
    BY <2>3, DiesOK
  <2>4. CASE UNCHANGED vars
    BY <2>4 DEF vars, db, lock, bounds, SwitchInv, SharedOK, ThreadsOK, Shape,
                Fits, Gpu
  <2> QED
    BY <2>1, <2>2, <2>3, <2>4 DEF Next
<1> QED
  BY <1>1, <1>2, PTL DEF Spec

(***************************************************************************)
(* Whatever models, threads and processes there are, and however their     *)
(* steps, faults and deaths interleave, the state stays of its type and    *)
(* every thread works on a model that fits where it is.                    *)
(***************************************************************************)
THEOREM TypeCorrect == Spec => []TypeOK
  BY SwitchInvariant, InvTypes, PTL

-----------------------------------------------------------------------------
(* The lock, when nobody asks for a reset.                                 *)

NoResets == \A j \in Jobs : j.kind # "reset"

Inside(p) == {t \in Threads : ProcOf[t] = p /\ InSection(t)}

(* Besides the balance: a process has the flock when it has made acquires  *)
(* it has not released, and it alone.                                      *)
LockInv ==
    /\ \A p \in Procs : depth[p] = Cardinality(Inside(p))
    /\ \A p \in Procs : p \in locker <=> depth[p] > 0
    /\ \A p, q \in locker : p = q

(***************************************************************************)
(* The sections that are counted are finite.                               *)
(***************************************************************************)
LEMMA InsideFinite ==
  \A p : IsFiniteSet(Inside(p)) /\ Cardinality(Inside(p)) \in Nat
<1>1. ASSUME NEW p PROVE Inside(p) \in SUBSET Threads
  BY DEF Inside
<1> QED
  BY <1>1, ThreadAssumption, FS_Subset, FS_CardinalityType

(* A thread inside its section runs in the process that has the lock.      *)
LEMMA InsideHolds ==
  ASSUME SwitchInv, LockInv, NEW t \in Threads, InSection(t)
  PROVE  depth[ProcOf[t]] > 0 /\ ProcOf[t] \in locker
<1>1. t \in Inside(ProcOf[t]) /\ ProcOf[t] \in Procs
  BY ProcOfType DEF Inside
<1>2. Cardinality(Inside(ProcOf[t])) # 0
  BY <1>1, InsideFinite, FS_EmptySet
<1> QED
  BY <1>1, <1>2, InsideFinite DEF LockInv

(* The invariant of the lock implies both properties.                      *)
LEMMA LockInvBalanced ==
  ASSUME SwitchInv, LockInv
  PROVE  LockBalanced /\ OneProcessSwitches
<1>1. LockBalanced
  BY DEF LockInv, LockBalanced, Inside
<1>2. OneProcessSwitches
  BY InsideHolds DEF OneProcessSwitches, LockInv
<1> QED
  BY <1>1, <1>2

(***************************************************************************)
(* The three kinds of steps: one that neither enters nor leaves, one that  *)
(* enters with acquire(), and one that leaves with release().              *)
(***************************************************************************)
Stays(t) == (InSection(t)' <=> InSection(t)) /\ UNCHANGED lock
Enters(t) == ~InSection(t) /\ InSection(t)' /\ Acquire(ProcOf[t])
Leaves(t) == InSection(t) /\ ~InSection(t)' /\ Release(ProcOf[t])

(* A step of one thread does not move another in or out.                   *)
LEMMA OthersStay ==
  ASSUME ThreadsOK, NEW t \in Threads, Steps(t), NEW u \in Threads, u # t
  PROVE  InSection(u)' <=> InSection(u)
<1>1. th'[u] = th[u]
  BY DEF Steps, ThreadsOK
<1> QED
  BY <1>1 DEF InSection, At, Gpu

(* A step that neither enters nor leaves keeps the invariant.              *)
LEMMA StaysOK ==
  ASSUME ThreadsOK, LockInv, NEW t \in Threads, Steps(t), Stays(t)
  PROVE  LockInv'
<1>1. \A u \in Threads : InSection(u)' <=> InSection(u)
  BY OthersStay DEF Stays
<1>2. \A p : Inside(p)' = Inside(p)
  BY <1>1 DEF Inside
<1> QED
  BY <1>2 DEF LockInv, Stays, lock

(* So does entering with acquire() ...                                     *)
LEMMA EntersOK ==
  ASSUME SwitchInv, LockInv, NEW t \in Threads, Steps(t), Enters(t)
  PROVE  LockInv'
<1> DEFINE p == ProcOf[t]
<1>0. p \in Procs /\ ThreadsOK /\ depth \in [Procs -> Nat]
  BY ProcOfType DEF SwitchInv, SharedOK
<1>1. \A u \in Threads : u # t => (InSection(u)' <=> InSection(u))
  BY <1>0, OthersStay
<1>2. t \notin Inside(p) /\ Inside(p)' = Inside(p) \cup {t}
  BY <1>1 DEF Inside, Enters
<1>3. Cardinality(Inside(p))' = Cardinality(Inside(p)) + 1
  BY <1>2, InsideFinite, FS_AddElement
<1>4. \A q \in Procs : q # p => Inside(q)' = Inside(q)
  BY <1>1 DEF Inside
<1>5. /\ depth' = [depth EXCEPT ![p] = @ + 1]
      /\ locker' = IF depth[p] = 0 THEN {p} ELSE locker
      /\ depth[p] > 0 \/ locker = {}
  BY DEF Enters, Acquire, CanAcquire
<1> HIDE DEF p
<1>6. ASSUME NEW q \in Procs PROVE depth'[q] = Cardinality(Inside(q))'
  BY <1>0, <1>3, <1>4, <1>5, <1>6 DEF LockInv
<1>7. ASSUME NEW q \in Procs PROVE q \in locker' <=> depth'[q] > 0
  BY <1>0, <1>5, <1>7 DEF LockInv
<1>8. \A q, r \in locker' : q = r
  BY <1>0, <1>5 DEF LockInv
<1> QED
  BY <1>6, <1>7, <1>8 DEF LockInv

(* ... and leaving with release().                                         *)
LEMMA LeavesOK ==
  ASSUME SwitchInv, LockInv, NEW t \in Threads, Steps(t), Leaves(t)
  PROVE  LockInv'
<1> DEFINE p == ProcOf[t]
<1>0. p \in Procs /\ ThreadsOK /\ depth \in [Procs -> Nat]
  BY ProcOfType DEF SwitchInv, SharedOK
<1>1. \A u \in Threads : u # t => (InSection(u)' <=> InSection(u))
  BY <1>0, OthersStay
<1>2. t \in Inside(p) /\ Inside(p)' = Inside(p) \ {t}
  BY <1>1 DEF Inside, Leaves
<1>3. Cardinality(Inside(p))' = Cardinality(Inside(p)) - 1
  BY <1>2, InsideFinite, FS_RemoveElement
<1>4. \A q \in Procs : q # p => Inside(q)' = Inside(q)
  BY <1>1 DEF Inside
<1>5. /\ depth' = [depth EXCEPT ![p] = IF @ > 0 THEN @ - 1 ELSE 0]
      /\ locker' = IF depth[p] <= 1 THEN locker \ {p} ELSE locker
      /\ depth[p] > 0
  BY InsideHolds DEF Leaves, Release
<1> HIDE DEF p
<1>6. ASSUME NEW q \in Procs PROVE depth'[q] = Cardinality(Inside(q))'
  BY <1>0, <1>3, <1>4, <1>5, <1>6 DEF LockInv
<1>7. ASSUME NEW q \in Procs PROVE q \in locker' <=> depth'[q] > 0
  BY <1>0, <1>5, <1>7 DEF LockInv
<1>8. \A q, r \in locker' : q = r
  BY <1>0, <1>5 DEF LockInv
<1> QED
  BY <1>6, <1>7, <1>8 DEF LockInv

(***************************************************************************)
(* What a thread's new place means for the lock.                           *)
(***************************************************************************)
LEMMA GotoSection ==
  ASSUME ThreadsOK, NEW t \in Threads, NEW l, Goto(t, l) \/ Fail(t, l)
  PROVE  th'[t].pc = l /\ th'[t].m = th[t].m
<1>1. th[t] \in Local
  BY DEF ThreadsOK
<1> QED
  BY <1>1 DEF Goto, Fail, ThreadsOK, Local

(* A thread that rests is outside.                                         *)
LEMMA RestSection ==
  ASSUME ThreadsOK, NEW t \in Threads, Rest(t)
  PROVE  ~InSection(t)'
<1>1. th'[t].pc = "rest"
  BY DEF Rest, Resting, ThreadsOK
<1> QED
  BY <1>1 DEF InSection, At

(* So is one that leaves the way to idle.                                  *)
LEMMA ReturnSection ==
  ASSUME ThreadsOK, NEW t \in Threads, Return(t)
  PROVE  ~InSection(t)'
<1>1. CASE AfterIdle(t) = "rest"
  BY <1>1, RestSection DEF Return
<1>2. CASE AfterIdle(t) # "rest"
  <2>1. AfterIdle(t) \in {"validate", "respond"} /\ Goto(t, AfterIdle(t))
    BY <1>2 DEF Return, AfterIdle
  <2>2. th'[t].pc \in {"validate", "respond"}
    BY <2>1, GotoSection
  <2> QED
    BY <2>2 DEF InSection, At
<1> QED
  BY <1>1, <1>2

(* What comes before the lock, and after it, is outside.                   *)
LEMMA EnterSection ==
  ASSUME SwitchInv, NEW t \in Threads,
         \/ Request(t) \/ Enter(t) \/ Validate(t) \/ Guard(t) \/ Gate(t)
         \/ Refused(t) \/ MonitorTick(t) \/ Stopping(t) \/ Reconciling(t)
         \/ Respond(t)
  PROVE  Stays(t)
<1>0. ThreadsOK /\ th[t] \in Local /\ Shape(th[t])
  BY DEF SwitchInv, ThreadsOK
<1>1. UNCHANGED lock
  BY DEF Request, Enter, Validate, Guard, Gate, Refused, MonitorTick, Stopping,
         StopCheck, StopKill, StopRead, StopWrite, Reconciling, ReconcileScan,
         ReconcileApply, Respond, lock
<1>2. ~InSection(t)
  BY <1>0 DEF Request, Enter, Validate, Guard, Gate, Refused, MonitorTick,
         Stopping, StopCheck, StopKill, StopRead, StopWrite, Reconciling,
         ReconcileScan, ReconcileApply, Respond, At, InSection
<1>3. ~InSection(t)'
  <2>1. CASE Request(t)
    <3>1. PICK j \in Jobs :
            th' = [th EXCEPT
                     ![t] = [Resting EXCEPT
                               !.kind = j.kind, !.m = j.m,
                               !.pc = CASE j.kind = "switch" -> "entered"
                                        [] j.kind = "reconcile" -> "scan"
                                        [] OTHER -> j.kind]]
      BY <2>1 DEF Request
    <3>2. j.kind \in Kinds
      BY JobAssumption
    <3>3. th'[t].pc \in {"entered", "scan", "idle", "stop", "reset"}
      BY <1>0, <3>1, <3>2 DEF ThreadsOK, Resting, Kinds
    <3> QED
      BY <3>3 DEF InSection, At
  <2>2. CASE Enter(t)
    <3>1. \/ Goto(t, "idle") \/ Goto(t, "respond") \/ Goto(t, "validate")
          \/ Goto(t, "add") /\ th[t].m \notin Gpu
      BY <2>2 DEF Enter, Gpu
    <3>2. \/ th'[t].pc \in {"idle", "respond", "validate"}
          \/ th'[t].pc = "add" /\ th'[t].m \notin Gpu
      BY <1>0, <3>1, GotoSection
    <3> QED
      BY <3>2 DEF InSection, At, Gpu
  <2>3. CASE Validate(t)
    <3>1. th'[t].pc \in {"respond", "guard", "gate"}
      BY <1>0, <2>3 DEF Validate, ThreadsOK, Local
    <3> QED
      BY <3>1 DEF InSection, At
  <2>4. CASE Guard(t) \/ Gate(t) \/ Refused(t)
    <3>1. \E l \in {"gate", "lock", "respond"} : Goto(t, l)
      BY <2>4 DEF Guard, Gate, Refused
    <3>2. th'[t].pc \in {"gate", "lock", "respond"}
      BY <1>0, <3>1, GotoSection
    <3> QED
      BY <3>2 DEF InSection, At
  <2>5. CASE MonitorTick(t) \/ ReconcileScan(t)
    <3>1. th'[t].pc \in {"scan", "apply"}
      BY <1>0, <2>5 DEF MonitorTick, ReconcileScan, ThreadsOK, Local
    <3> QED
      BY <3>1 DEF InSection, At
  <2>6. CASE ReconcileApply(t)
    <3>1. Rest(t) \/ Goto(t, "idleLock")
      BY <2>6 DEF ReconcileApply
    <3>2. CASE Goto(t, "idleLock")
      BY <1>0, <3>2, GotoSection DEF InSection, At
    <3> QED
      BY <1>0, <3>1, <3>2, RestSection
  <2>7. CASE Stopping(t)
    <3>1. Rest(t) \/ th'[t].pc \in {"idle", "stopKill", "stopRead", "stopWrite"}
      BY <1>0, <2>7, GotoSection
      DEF Stopping, StopCheck, StopKill, StopRead, StopWrite, ThreadsOK, Local
    <3>2. CASE th'[t].pc \in {"idle", "stopKill", "stopRead", "stopWrite"}
      BY <3>2 DEF InSection, At
    <3> QED
      BY <1>0, <3>1, <3>2, RestSection
  <2>8. CASE Respond(t)
    BY <1>0, <2>8, RestSection DEF Respond
  <2> QED
    BY <2>1, <2>2, <2>3, <2>4, <2>5, <2>6, <2>7, <2>8 DEF Reconciling
<1> QED
  BY <1>1, <1>2, <1>3 DEF Stays

(* A switch enters with its acquire() ...                                  *)
LEMMA BeginSection ==
  ASSUME SwitchInv, NEW t \in Threads, Begin(t)
  PROVE  Enters(t)
<1>0. ThreadsOK /\ th[t].pc = "lock" /\ th[t].m \in Gpu
  BY DEF SwitchInv, ThreadsOK, Begin, At, Shape, Fits, GpuPcs
<1>1. ~InSection(t)
  BY <1>0 DEF InSection, At
<1>2. \E l \in {"deploy", "retire", "add"} : Goto(t, l)
  BY DEF Begin
<1>3. th'[t].pc \in {"deploy", "retire", "add"} /\ th'[t].m \in Gpu
  BY <1>0, <1>2, GotoSection
<1>4. InSection(t)'
  BY <1>3 DEF InSection, At, Gpu
<1> QED
  BY <1>1, <1>4 DEF Enters, Begin

(* ... and leaves with its release().                                      *)
LEMMA FinishSection ==
  ASSUME SwitchInv, NEW t \in Threads, Finish(t)
  PROVE  Leaves(t)
<1>0. ThreadsOK /\ th[t].pc = "finish" /\ th[t].m \in Gpu
  BY DEF SwitchInv, ThreadsOK, Finish, At, Shape, Fits, GpuPcs
<1>1. InSection(t)
  BY <1>0 DEF InSection, At
<1>2. th'[t].pc = "respond"
  BY <1>0, GotoSection DEF Finish
<1> QED
  BY <1>1, <1>2 DEF Leaves, Finish, InSection, At

(***************************************************************************)
(* Under the lock a switch goes from one locked place to another; a start  *)
(* for a role-none model is never under the lock.                          *)
(***************************************************************************)
LockedPcs == {"deploy", "starting", "failStop", "failWrite", "deployed", "retire",
              "retireWrite", "rollback", "add", "addRead", "addWrite", "finish"}

(* A step inside the section that keeps lock and group stays paired.         *)
LEMMA LockedStays ==
  ASSUME ThreadsOK, NEW t \in Threads, UNCHANGED lock, th[t].pc \in LockedPcs,
         \/ th[t].m \in Gpu /\ th'[t].m \in Gpu /\ th'[t].pc \in LockedPcs
         \/ th[t].m \notin Gpu /\ th'[t].m \notin Gpu
            /\ th'[t].pc \in LockedPcs \cup {"respond"}
  PROVE  Stays(t)
<1>1. InSection(t) <=> th[t].m \in Gpu
  BY DEF LockedPcs, InSection, At
<1>2. InSection(t)' <=> th'[t].m \in Gpu
  BY DEF LockedPcs, InSection, At, Gpu
<1> QED
  BY <1>1, <1>2 DEF Stays

(* Between them no step leaves, whichever way starts and adds end.         *)
LEMMA SwitchSection ==
  ASSUME SwitchInv, NEW t \in Threads,
         \/ Starting(t)
         \/ Deploy(t) \/ DeployRefused(t) \/ DeployFailStop(t)
         \/ DeployFailWrite(t) \/ Deployed(t)
         \/ RetireStop(t) \/ RetireWrite(t) \/ Rollback(t)
         \/ Add(t) \/ AddRefused(t) \/ AddRead(t) \/ AddWrite(t)
  PROVE  Stays(t)
<1>0. ThreadsOK /\ th[t] \in Local /\ Shape(th[t])
  BY DEF SwitchInv, ThreadsOK
<1>1. UNCHANGED lock
  BY DEF Starting, StartHealthy, StartExits, StartTimesOut, Failed, Deploy,
         DeployRefused, DeployFailStop, DeployFailWrite, Deployed, RetireStop,
         RetireWrite, Rollback, Add, AddRefused, AddRead, AddWrite, lock
<1>2. CASE Starting(t)
  <2>1. th[t].pc = "starting" /\ th[t].m \in Models
    BY <1>0, <1>2 DEF Starting, StartHealthy, StartExits, StartTimesOut, At,
                      Shape, Fits, SwitchPcs
  <2>2. \/ \E l \in {"addRead", "deployed"} :
              Goto(t, l) /\ (l = "deployed" => th[t].m \in Gpu)
        \/ Fail(t, AfterFailure(t))
    BY <1>2, <2>1 DEF Starting, StartHealthy, StartExits, StartTimesOut, Failed,
                      Adding, Gpu
  <2>3. /\ AfterFailure(t) \in {"respond", "finish", "failStop"}
        /\ AfterFailure(t) = "respond" <=> th[t].m \notin Gpu
    BY <2>1 DEF AfterFailure, Gpu
  <2>4. /\ th'[t].m = th[t].m
        /\ th'[t].pc \in {"addRead", "deployed", AfterFailure(t)}
    BY <1>0, <2>2, GotoSection
  <2> QED
    BY <1>0, <1>1, <2>1, <2>3, <2>4, LockedStays DEF LockedPcs
<1>3. CASE \/ Deploy(t) \/ DeployRefused(t) \/ DeployFailStop(t)
           \/ DeployFailWrite(t) \/ Deployed(t) \/ RetireStop(t) \/ RetireWrite(t)
  <2>1. th[t].pc \in {"deploy", "failStop", "failWrite", "deployed", "retire",
                      "retireWrite"}
    BY <1>3 DEF Deploy, DeployRefused, DeployFailStop, DeployFailWrite, Deployed,
                RetireStop, RetireWrite, At
  <2>2. th[t].m \in Gpu
    BY <1>0, <2>1 DEF Shape, Fits, GpuPcs
  <2>3. th'[t].m = th[t].m /\ th'[t].pc \in LockedPcs
    <3>1. CASE DeployRefused(t) \/ DeployFailStop(t) \/ DeployFailWrite(t)
      <4>1. \E l \in {"rollback", "finish", "failWrite"} : Goto(t, l) \/ Fail(t, l)
        BY <3>1 DEF DeployRefused, DeployFailStop, DeployFailWrite
      <4> QED
        BY <1>0, <4>1, GotoSection DEF LockedPcs
    <3>2. CASE Deploy(t)
      BY <1>0, <3>2 DEF Deploy, Spawn, ThreadsOK, Local, LockedPcs
    <3>3. CASE Deployed(t) \/ RetireStop(t) \/ RetireWrite(t)
      BY <1>0, <3>3 DEF Deployed, RetireStop, RetireWrite, ThreadsOK, Local,
                        LockedPcs
    <3> QED
      BY <1>3, <3>1, <3>2, <3>3
  <2> QED
    BY <1>0, <1>1, <2>1, <2>2, <2>3, LockedStays DEF LockedPcs
<1>4. CASE Rollback(t)
  <2>1. th[t].pc = "rollback" /\ th[t].m \in Gpu /\ th[t].was \subseteq Gpu
    BY <1>0, <1>4 DEF Rollback, At, Shape, Fits, GpuPcs, SwapPcs
  <2>2. \/ Goto(t, "finish")
        \/ \E m \in th[t].was : th'[t].m = m /\ th'[t].pc = "deploy"
    BY <1>0, <1>4 DEF Rollback, ThreadsOK, Local
  <2>3. th'[t].m \in Gpu /\ th'[t].pc \in LockedPcs
    BY <1>0, <2>1, <2>2, GotoSection DEF LockedPcs
  <2> QED
    BY <1>0, <1>1, <2>1, <2>3, LockedStays DEF LockedPcs
<1>5. CASE Add(t) \/ AddRefused(t) \/ AddRead(t) \/ AddWrite(t)
  <2>1. th[t].pc \in {"add", "addRead", "addWrite"} /\ th[t].m \in Models
    BY <1>0, <1>5 DEF Add, AddRefused, AddRead, AddWrite, At, Shape, Fits, SwitchPcs
  <2>2. /\ th'[t].m = th[t].m
        /\ th'[t].pc \in LockedPcs \cup {"respond"}
        /\ th[t].m \in Gpu => th'[t].pc # "respond"
    <3>1. CASE Add(t)
      BY <1>0, <3>1 DEF Add, Spawn, ThreadsOK, Local, LockedPcs
    <3>2. CASE AddRefused(t)
      <4>1. Goto(t, "finish") \/ Fail(t, "finish")
        BY <3>2 DEF AddRefused
      <4> QED
        BY <1>0, <4>1, GotoSection DEF LockedPcs
    <3>3. CASE AddRead(t)
      BY <1>0, <3>3 DEF AddRead, ThreadsOK, Local, LockedPcs
    <3>4. CASE AddWrite(t)
      <4>1. \E l \in {"respond", "finish"} :
              Goto(t, l) /\ (l = "respond" => th[t].m \notin Gpu)
        BY <3>4 DEF AddWrite, Gpu
      <4> QED
        BY <1>0, <4>1, GotoSection DEF LockedPcs
    <3> QED
      BY <1>5, <3>1, <3>2, <3>3, <3>4
  <2> QED
    BY <1>0, <1>1, <2>1, <2>2, LockedStays DEF LockedPcs
<1> QED
  BY <1>2, <1>3, <1>4, <1>5

(* The way to idle enters once and leaves once.                            *)
LEMMA IdlingSection ==
  ASSUME SwitchInv, NEW t \in Threads, Idling(t)
  PROVE  Stays(t) \/ Enters(t) \/ Leaves(t)
<1>0. ThreadsOK /\ th[t] \in Local
  BY DEF SwitchInv, ThreadsOK
<1>1. CASE IdleCheck(t) \/ (IdleLock(t) /\ ~CanAcquire(ProcOf[t]))
  <2>1. ~InSection(t) /\ UNCHANGED lock
    BY <1>1 DEF IdleCheck, IdleLock, At, InSection, lock
  <2>2. Return(t) \/ Goto(t, "scan")
    BY <1>1 DEF IdleCheck, IdleLock
  <2>3. CASE Goto(t, "scan")
    <3>1. ~InSection(t)'
      BY <1>0, <2>3, GotoSection DEF InSection, At
    <3> QED
      BY <2>1, <3>1 DEF Stays
  <2> QED
    BY <1>0, <2>1, <2>2, <2>3, ReturnSection DEF Stays
<1>2. CASE IdleLock(t) /\ CanAcquire(ProcOf[t])
  <2>1. ~InSection(t) /\ Acquire(ProcOf[t]) /\ Goto(t, "idleStop")
    BY <1>2 DEF IdleLock, At, InSection
  <2>2. InSection(t)'
    BY <1>0, <2>1, GotoSection DEF InSection, At
  <2> QED
    BY <2>1, <2>2 DEF Enters
<1>3. CASE IdleStop(t) \/ IdleFreed(t) \/ IdleForced(t)
  <2>1. InSection(t) /\ UNCHANGED lock
    BY <1>3 DEF IdleStop, IdleFreed, IdleForced, At, InSection, lock
  <2>2. th'[t].pc \in {"idleWait", "idleWrite"}
    BY <1>0, <1>3, GotoSection DEF IdleStop, IdleFreed, IdleForced, ThreadsOK, Local
  <2>3. InSection(t)'
    BY <2>2 DEF InSection, At
  <2> QED
    BY <2>1, <2>3 DEF Stays
<1>4. CASE IdleStuck(t) \/ IdleWrite(t)
  <2>1. InSection(t) /\ Release(ProcOf[t]) /\ Return(t)
    BY <1>4 DEF IdleStuck, IdleWrite, At, InSection
  <2> QED
    BY <1>0, <2>1, ReturnSection DEF Leaves
<1> QED
  BY <1>1, <1>2, <1>3, <1>4 DEF Idling

(***************************************************************************)
(* A process that dies loses its lock with everything that was in it.      *)
(***************************************************************************)
LEMMA DiesLock ==
  ASSUME SwitchInv, LockInv, NEW p \in Procs, Dies(p)
  PROVE  LockInv'
<1>0. ThreadsOK /\ depth \in [Procs -> Nat]
  BY DEF SwitchInv, SharedOK
<1>1. \A t \in Threads : th'[t] = IF ProcOf[t] = p THEN Resting ELSE th[t]
  BY DEF Dies
<1>2. ASSUME NEW t \in Threads
      PROVE  InSection(t)' <=> InSection(t) /\ ProcOf[t] # p
  <2>1. CASE ProcOf[t] = p
    <3>1. th'[t].pc = "rest"
      BY <1>1, <2>1 DEF Resting
    <3> QED
      BY <2>1, <3>1 DEF InSection, At
  <2>2. CASE ProcOf[t] # p
    <3>1. th'[t] = th[t]
      BY <1>1, <2>2
    <3> QED
      BY <2>2, <3>1 DEF InSection, At, Gpu
  <2> QED
    BY <2>1, <2>2
<1>3. Inside(p)' = {} /\ \A q \in Procs : q # p => Inside(q)' = Inside(q)
  BY <1>2 DEF Inside
<1>4. Cardinality(Inside(p))' = 0
  BY <1>3, FS_EmptySet
<1>5. depth' = [depth EXCEPT ![p] = 0] /\ locker' = locker \ {p}
  BY DEF Dies
<1>6. ASSUME NEW q \in Procs PROVE depth'[q] = Cardinality(Inside(q))'
  BY <1>0, <1>3, <1>4, <1>5, <1>6 DEF LockInv
<1>7. ASSUME NEW q \in Procs PROVE q \in locker' <=> depth'[q] > 0
  BY <1>0, <1>5, <1>7 DEF LockInv
<1>8. \A q, r \in locker' : q = r
  BY <1>5 DEF LockInv
<1> QED
  BY <1>6, <1>7, <1>8 DEF LockInv

(* A step that touches neither threads nor lock keeps the invariant.       *)
LEMMA QuietLock ==
  ASSUME LockInv, UNCHANGED <<th, lock>>
  PROVE  LockInv'
<1>1. \A p : Inside(p)' = Inside(p)
  BY DEF Inside, InSection, At, Gpu
<1> QED
  BY <1>1 DEF LockInv, lock

(* Without resets the invariant of the lock holds.                         *)
LEMMA LockInvariant ==
  ASSUME NoResets
  PROVE  Spec => []LockInv
<1>1. Init => LockInv
  <2> SUFFICES ASSUME Init PROVE LockInv
    OBVIOUS
  <2>1. \A t \in Threads : ~InSection(t)
    BY DEF Init, InSection, At, Resting
  <2>2. \A p : Inside(p) = {}
    BY <2>1 DEF Inside
  <2>3. \A p : Cardinality(Inside(p)) = 0
    BY <2>2, FS_EmptySet
  <2> QED
    BY <2>3 DEF Init, LockInv
<1>2. SwitchInv /\ LockInv /\ [Next]_vars => LockInv'
  <2> SUFFICES ASSUME SwitchInv, LockInv, [Next]_vars PROVE LockInv'
    OBVIOUS
  <2>0. ThreadsOK
    BY DEF SwitchInv
  <2>1. ASSUME NEW t \in Threads, Works(t) \/ Request(t) \/ MonitorTick(t)
        PROVE  LockInv'
    <3>1. Steps(t)
      BY <2>1, WorksOK, RequestOK, ReconcileOK
    <3>2. ~Resetting(t)
      <4>1. th[t].kind # "reset"
        BY <2>0 DEF ThreadsOK, Shape, Asked, NoResets
      <4>2. th[t].pc \notin {"reset", "resetKill", "resetWrite"}
        BY <2>0, <4>1 DEF ThreadsOK, Shape, Fits
      <4> QED
        BY <4>2 DEF Resetting, ResetStop, ResetKill, ResetWrite, At
    <3>3. Stays(t) \/ Enters(t) \/ Leaves(t)
      BY <2>1, <3>2, EnterSection, BeginSection, FinishSection, SwitchSection,
         IdlingSection
      DEF Works, Switching
    <3> QED
      BY <2>0, <3>1, <3>3, StaysOK, EntersOK, LeavesOK
  <2>2. ASSUME NEW m \in Models, Loaded(m) \/ ServerDies(m) \/ EditConfig(m)
        PROVE  LockInv'
    BY <2>2, QuietLock DEF Loaded, ServerDies, EditConfig
  <2>3. ASSUME NEW p \in Procs, Dies(p) PROVE LockInv'
    BY <2>3, DiesLock
  <2>4. CASE UNCHANGED vars
    BY <2>4, QuietLock DEF vars
  <2> QED
    BY <2>1, <2>2, <2>3, <2>4 DEF Next
<1> QED
  BY <1>1, <1>2, SwitchInvariant, PTL DEF Spec

(***************************************************************************)
(* Every acquire() of a switch or of the way to idle is matched by one     *)
(* release(), on every path through refusals, failures, rollbacks and      *)
(* deaths, unless somebody asks for a reset (which releases unasked).      *)
(***************************************************************************)
THEOREM LockBalancedHolds ==
  ASSUME NoResets
  PROVE  Spec => []LockBalanced
  BY SwitchInvariant, LockInvariant, LockInvBalanced, PTL

(***************************************************************************)
(* The locked parts of switches never run in two processes at a time,      *)
(* whatever the processes do and whenever they die, without a reset (which *)
(* unlinks the lock file).                                                 *)
(***************************************************************************)
THEOREM OneProcessSwitchesHolds ==
  ASSUME NoResets
  PROVE  Spec => []OneProcessSwitches
  BY SwitchInvariant, LockInvariant, LockInvBalanced, PTL

-----------------------------------------------------------------------------
(***************************************************************************)
(* Requests that do not overlap.                                           *)
(*                                                                         *)
(* Without the lock around it, the occupancy guard protects the GPU only   *)
(* while one thread at a time works; then r, what that thread knows, and   *)
(* the database determine what may run on the GPU.                         *)
(***************************************************************************)
OnGpu == Running \cap Gpu
Exclusive(m) == RoleOf[m] = "exclusive"

\* An exclusive GPU model of one set is alone in the other.
Fit(S, T) ==
    \A a \in S \cap Gpu, b \in T \cap Gpu : Exclusive(a) \/ Exclusive(b) => a = b

(* A loading GPU server is the one that is being waited for, and tracked.  *)
LoadFit(r) ==
    \A k \in Gpu : proc[k] = Loading =>
        r.pc = "starting" /\ r.m = k /\ r.own /\ pid = k

(* The path taken belongs to the mode that was read.                       *)
ModeFit(r) ==
    /\ r.pc \in {"deploy", "failStop", "failWrite", "deployed", "retire",
                 "retireWrite"} => r.mode # "shared"
    /\ r.pc \in {"retire", "retireWrite", "rollback"} => r.mode = "exclusive"
    /\ r.pc = "guard" => r.mode = "idle"
    /\ r.pc \in {"add", "addRead", "addWrite"} /\ r.m \in Gpu => r.mode = "shared"

(* A deployment on an idle GPU finds nothing served, and nothing running.  *)
IdleFit(r) ==
    r.mode = "idle" /\ r.m \in Gpu =>
        /\ r.pc \in {"guard", "gate", "lock", "deploy", "starting", "failStop",
                     "failWrite", "deployed"} => active \cap Gpu = {}
        /\ r.pc \in {"gate", "lock", "deploy", "starting", "failStop", "deployed"}
              => OnGpu \subseteq {r.m}

(* A swap has removed what was there before it deploys.                    *)
SwapFit(r) ==
    r.mode = "exclusive" =>
        /\ r.pc \in {"gate", "lock", "retire"}
              => \E k \in active : Exclusive(k)
        /\ r.pc \in {"deploy", "starting", "failStop", "failWrite", "deployed",
                     "rollback"}
              => active \cap Gpu = {} /\ OnGpu \subseteq {r.m}
        /\ r.pc \in {"deploy", "rollback", "retireWrite"} => OnGpu = {}

(* A shared model joins shared models only.                                *)
SharedFit(r) ==
    /\ r.mode = "shared" /\ r.m \in Gpu
    /\ r.pc \in {"gate", "lock", "add", "starting", "addRead", "addWrite"}
    => /\ RoleOf[r.m] = "shared"
       /\ \A k \in active \cup OnGpu : ~Exclusive(k)

(* What was read is still so.                                              *)
ReadFit(r) ==
    /\ r.pc = "failWrite" => OnGpu = {}
    /\ r.pc \in {"addWrite", "retireWrite", "idleWait", "idleWrite"}
          => r.seen = active
    /\ r.pc = "stopWrite" => r.seen = active \ {r.m}
    /\ r.pc = "apply" => r.was = active /\ Fit(r.seen, OnGpu)
    /\ r.pc \in {"starting", "deployed"} /\ r.m \in Gpu /\ r.mode # "shared"
          => r.seen \cap Gpu = {} /\ active \ Gpu \subseteq r.seen

(* While no probe was missed: what runs and is not listed is on its way in,*)
(* and what was read does not lose it.                                     *)
Comes == {"starting", "deployed", "failStop", "addRead", "addWrite"}
Known(r) ==
    /\ OnGpu \subseteq active \cup IF r.pc \in Comes THEN {r.m} ELSE {}
    /\ r.pc \in {"apply", "stopWrite"} => OnGpu \subseteq r.seen
    /\ r.pc = "stopRead" => OnGpu \subseteq active \ {r.m}
    /\ r.pc \in {"idleWait", "idleWrite", "resetWrite"} => OnGpu = {}
    /\ r.pc = "starting" /\ r.m \in Gpu /\ r.mode = "shared" => r.own

(* The gate is closed, and the profile SWITCHING, for a switch under way.  *)
Begun(r) ==
    r.m \in Gpu /\ r.pc \in {"deploy", "starting", "failStop", "failWrite", "deployed",
        "retire", "retireWrite", "rollback", "add", "addRead", "addWrite", "finish"}
GateFit(r) ==
    /\ target # None => Begun(r)
    /\ profile = "switching" /\ drift = {} => Begun(r)
    /\ r.pc \in {"failStop", "failWrite"} => ~r.ok
    /\ r.pc = "finish" /\ r.ok /\ profile = "switching" => drift # {}
    /\ r.pc \in IdlePcs /\ r.kind = "switch" => r.m \in drift
    /\ r.pc \in {"validate", "guard", "gate", "lock", "add"} /\ r.m \in active \cap Gpu
          => r.m \in drift

Turn(r) ==
    /\ LoadFit(r) /\ Fit(OnGpu, OnGpu) /\ Fit(active, OnGpu)
    /\ ModeFit(r) /\ IdleFit(r) /\ SwapFit(r) /\ SharedFit(r) /\ ReadFit(r)
    /\ misses = 0 => Known(r)
    /\ GateFit(r)

(* What the thread that works knows, if one does.                          *)
Current ==
    IF \E t \in Threads : ~At(t, "rest")
    THEN th[CHOOSE t \in Threads : ~At(t, "rest")] ELSE Resting

OneAtATime ==
    \A t, u \in Threads : ~At(t, "rest") /\ ~At(u, "rest") => t = u

\* A process that dies has no thread at work.
DiesIdle ==
    \A p \in Procs : Dies(p) =>
        \A t \in Threads : ProcOf[t] = p => At(t, "rest")

(* Requests, commands and ticks take turns, and no process dies at work.   *)
(* The code needs both: the guards read rows and probes outside the lock,  *)
(* which is reentrant in the gateway, and a death at work leaves a server  *)
(* loading that no row lists and no probe sees until it is up.             *)
InTurn == []OneAtATime /\ [][DiesIdle]_vars

(* Nothing is started or stopped while proc stays as it is.                *)
LEMMA QuietGpu ==
  ASSUME UNCHANGED proc
  PROVE  OnGpu' = OnGpu /\ Serving' = Serving /\ Running' = Running
  BY DEF OnGpu, Running, Serving, Gpu

(* What is killed is off the GPU, and nothing begins to load.              *)
LEMMA KillGpu ==
  ASSUME SwitchInv, NEW dead, Kill(dead)
  PROVE  /\ OnGpu' = OnGpu \ dead /\ Serving' = Serving \ dead
         /\ Running' = Running \ dead
         /\ \A k \in Models : proc'[k] = Loading => proc[k] = Loading /\ k \notin dead
  BY DEF SwitchInv, SharedOK, Kill, OnGpu, Running, Serving, Gpu, Down, Loading, Up

(* Unless somebody waits for a start, GPU servers are up or down.          *)
LEMMA NoneLoading ==
  ASSUME SwitchInv, NEW t \in Threads, Turn(th[t]), th[t].pc # "starting"
  PROVE  /\ \A k \in Gpu : proc[k] # Loading
         /\ OnGpu = Serving \cap Gpu
<1>1. \A k \in Gpu : proc[k] # Loading
  BY DEF Turn, LoadFit
<1>2. proc \in [Models -> {Down, Loading, Up}] /\ Gpu \subseteq Models
  BY DEF SwitchInv, SharedOK, Gpu
<1> QED
  BY <1>1, <1>2 DEF OnGpu, Running, Serving, Down, Up

(* Then stopping models clears them.                                       *)
LEMMA StopGpu ==
  ASSUME SwitchInv, NEW S, NEW k \in Victims(S), Kill(k),
         \A g \in Gpu : proc[g] # Loading
  PROVE  /\ OnGpu' \subseteq OnGpu \ S
         /\ \A g \in Gpu : proc'[g] # Loading
<1>1. Serving \cap S \subseteq k
  BY DEF Victims
<1>2. Gpu \subseteq Models /\ OnGpu \subseteq Serving
  BY DEF SwitchInv, SharedOK, Gpu, OnGpu, Running, Serving, Down, Up
<1> QED
  BY <1>1, <1>2, KillGpu

(* The new place and the old knowledge of a thread.                        *)
LEMMA GotoKeeps ==
  ASSUME SwitchInv, NEW t \in Threads, NEW l, Goto(t, l)
  PROVE  /\ th'[t].pc = l
         /\ th'[t].kind = th[t].kind /\ th'[t].m = th[t].m
         /\ th'[t].mode = th[t].mode /\ th'[t].seen = th[t].seen
         /\ th'[t].was = th[t].was /\ th'[t].own = th[t].own
         /\ th'[t].ok = th[t].ok
<1>1. th[t] \in Local
  BY DEF SwitchInv, ThreadsOK
<1> QED
  BY <1>1 DEF Goto, SwitchInv, ThreadsOK, Local

(* The same for a step that notes a failure.                               *)
LEMMA FailKeeps ==
  ASSUME SwitchInv, NEW t \in Threads, NEW l, Fail(t, l)
  PROVE  /\ th'[t].pc = l /\ ~th'[t].ok
         /\ th'[t].kind = th[t].kind /\ th'[t].m = th[t].m
         /\ th'[t].mode = th[t].mode /\ th'[t].seen = th[t].seen
         /\ th'[t].was = th[t].was /\ th'[t].own = th[t].own
<1>1. th[t] \in Local
  BY DEF SwitchInv, ThreadsOK
<1> QED
  BY <1>1 DEF Fail, SwitchInv, ThreadsOK, Local

(* A thread that goes to rest.                                             *)
LEMMA RestKeeps ==
  ASSUME SwitchInv, NEW t \in Threads, Rest(t)
  PROVE  th'[t].pc = "rest"
  BY DEF Rest, SwitchInv, ThreadsOK, Resting

(* One that leaves the way to idle.                                        *)
LEMMA ReturnKeeps ==
  ASSUME SwitchInv, NEW t \in Threads, Return(t)
  PROVE  \/ th'[t].pc = "rest"
         \/ th'[t].pc = "respond"
         \/ /\ th'[t].pc = "validate" /\ th[t].kind = "switch"
            /\ th'[t].m = th[t].m
<1>1. CASE AfterIdle(t) = "rest"
  BY <1>1, RestKeeps DEF Return
<1>2. CASE AfterIdle(t) # "rest"
  <2>1. PICK l \in {"validate", "respond"} :
          /\ Goto(t, l)
          /\ l = "validate" => th[t].kind = "switch"
    BY <1>2 DEF Return, AfterIdle
  <2>2. th'[t].pc = l /\ th'[t].m = th[t].m
    BY <2>1, GotoKeeps
  <2> QED
    BY <2>1, <2>2
<1> QED
  BY <1>1, <1>2

(* What the state of a thread says of its work.                            *)
LEMMA ThreadFits ==
  ASSUME SwitchInv, NEW t \in Threads
  PROVE  /\ th[t] \in Local
         /\ Fits(th[t].pc, th[t].kind, th[t].m, th[t].mode, th[t].was)
         /\ th[t].seen \subseteq Models /\ active \subseteq Models
         /\ Gpu \subseteq Models /\ OnGpu \subseteq Gpu
         /\ misses \in Nat
  BY BoundAssumption DEF SwitchInv, ThreadsOK, SharedOK, Shape, Local, Gpu, OnGpu

-----------------------------------------------------------------------------
(* A switch, up to the lock.                                               *)

(* A request or a tick gives a thread work.                                *)
LEMMA RequestMoves ==
  ASSUME SwitchInv, NEW t \in Threads, Request(t) \/ MonitorTick(t)
  PROVE  th'[t].pc # "rest"
<1>1. CASE Request(t)
  <2>1. PICK j \in Jobs :
          th' = [th EXCEPT
                   ![t] = [Resting EXCEPT
                             !.kind = j.kind, !.m = j.m,
                             !.pc = CASE j.kind = "switch" -> "entered"
                                      [] j.kind = "reconcile" -> "scan"
                                      [] OTHER -> j.kind]]
    BY <1>1 DEF Request
  <2>2. j.kind \in Kinds
    BY JobAssumption
  <2> QED
    BY <2>1, <2>2 DEF SwitchInv, ThreadsOK, Resting, Kinds
<1>2. CASE MonitorTick(t)
  BY <1>2, ThreadFits DEF MonitorTick, SwitchInv, ThreadsOK, Local
<1> QED
  BY <1>1, <1>2

(* A request or a tick starts from what rest means.                        *)
LEMMA RequestTurn ==
  ASSUME SwitchInv, NEW t \in Threads, Turn(th[t]), th[t].pc = "rest",
         Request(t) \/ MonitorTick(t)
  PROVE  Turn(th[t])'
<1>1. CASE Request(t)
  <2>1. PICK j \in Jobs :
          th' = [th EXCEPT
                   ![t] = [Resting EXCEPT
                             !.kind = j.kind, !.m = j.m,
                             !.pc = CASE j.kind = "switch" -> "entered"
                                      [] j.kind = "reconcile" -> "scan"
                                      [] OTHER -> j.kind]]
    BY <1>1 DEF Request
  <2>2. j.kind \in Kinds
    BY JobAssumption
  <2>3. /\ th'[t].kind = j.kind /\ th'[t].mode = "idle"
        /\ th'[t].pc \in {"entered", "scan", "idle", "stop", "reset"}
        /\ th'[t].pc \in {"scan", "idle"} => j.kind # "switch"
    BY <2>1, <2>2 DEF SwitchInv, ThreadsOK, Resting, Kinds
  <2>4. /\ OnGpu' = OnGpu
        /\ UNCHANGED <<proc, active, profile, target, drift, pid, misses>>
    BY <1>1, QuietGpu DEF Request, db
  <2> QED
    BY <2>3, <2>4
    DEF Turn, LoadFit, Fit, ModeFit, IdleFit, SwapFit, SharedFit, ReadFit,
        Known, Comes, GateFit, Begun, IdlePcs, Exclusive, Gpu
<1>2. CASE MonitorTick(t)
  <2>1. th'[t].pc = "scan" /\ th'[t].kind = "reconcile" /\ th'[t].mode = th[t].mode
    BY <1>2, ThreadFits DEF MonitorTick, SwitchInv, ThreadsOK, Local
  <2>2. /\ OnGpu' = OnGpu
        /\ UNCHANGED <<proc, active, profile, target, drift, pid, misses>>
    BY <1>2, QuietGpu DEF MonitorTick, db, bounds
  <2> QED
    BY <2>1, <2>2
    DEF Turn, LoadFit, Fit, ModeFit, IdleFit, SwapFit, SharedFit, ReadFit,
        Known, Comes, GateFit, Begun, IdlePcs, Exclusive, Gpu
<1> QED
  BY <1>1, <1>2

(* Dispatch: a served model goes on only when its configuration drifted.   *)
LEMMA EnterTurn ==
  ASSUME SwitchInv, NEW t \in Threads, Turn(th[t]), Enter(t)
  PROVE  Turn(th[t])'
<1>0. th[t].pc = "entered" /\ th[t].kind = "switch" /\ th[t].m \in Models
  BY ThreadFits DEF Enter, At, Fits, SwitchPcs
<1>1. PICK l \in {"idle", "respond", "add", "validate"} :
        /\ Goto(t, l)
        /\ l = "idle" => th[t].m \in drift
        /\ l = "validate" => th[t].m \notin active
        /\ l = "add" => th[t].m \notin Gpu
  BY DEF Enter, Gpu
<1>2. /\ th'[t].pc = l /\ th'[t].m = th[t].m /\ th'[t].mode = th[t].mode
      /\ th'[t].kind = th[t].kind
  BY <1>1, GotoKeeps
<1>3. /\ OnGpu' = OnGpu
      /\ UNCHANGED <<proc, active, profile, target, drift, pid, misses>>
  BY QuietGpu DEF Enter, db, bounds
<1> QED
  BY <1>0, <1>1, <1>2, <1>3
  DEF Turn, LoadFit, Fit, ModeFit, IdleFit, SwapFit, SharedFit, ReadFit,
      Known, Comes, GateFit, Begun, IdlePcs, Exclusive, Gpu

(* The transition table lets a shared model join shared ones only.         *)
LEMMA ValidateTurn ==
  ASSUME SwitchInv, NEW t \in Threads, Turn(th[t]), Validate(t)
  PROVE  Turn(th[t])'
<1>0. th[t].pc = "validate" /\ th[t].m \in Gpu
  BY ThreadFits DEF Validate, At, Fits, GpuPcs
<1> DEFINE mode == GpuMode(active)
<1>1. PICK l \in {"respond", "guard", "gate"} :
        /\ th' = [th EXCEPT ![t].mode = mode, ![t].pc = l]
        /\ l = "guard" => mode = "idle"
        /\ l = "gate" => mode # "idle" /\ RoleOf[th[t].m] = mode
  BY DEF Validate, Allowed
<1>2. /\ mode \in {"idle", "exclusive", "shared"}
      /\ mode = "idle" => active \cap Gpu = {}
      /\ mode = "exclusive" => \E k \in active : Exclusive(k)
      /\ mode = "shared" => active \cap Gpu # {} /\ \A k \in active : ~Exclusive(k)
  BY ThreadFits DEF GpuMode, Exclusive, Gpu
<1> HIDE DEF mode
<1>3. th'[t].pc = l /\ th'[t].mode = mode /\ th'[t].m = th[t].m
  BY <1>1, ThreadFits DEF SwitchInv, ThreadsOK, Local
<1>4. /\ OnGpu' = OnGpu /\ OnGpu \subseteq Gpu
      /\ UNCHANGED <<proc, active, profile, target, drift, pid, misses>>
  BY QuietGpu DEF Validate, db, bounds, OnGpu
<1> QED
  BY <1>0, <1>1, <1>2, <1>3, <1>4
  DEF Turn, LoadFit, Fit, ModeFit, IdleFit, SwapFit, SharedFit, ReadFit,
      Known, Comes, GateFit, Begun, IdlePcs, Exclusive, Gpu

(* The guard lets through only who finds nobody else on the GPU.           *)
LEMMA GuardTurn ==
  ASSUME SwitchInv, NEW t \in Threads, Turn(th[t]), Guard(t)
  PROVE  Turn(th[t])'
<1>0. th[t].pc = "guard" /\ th[t].m \in Gpu /\ misses \in Nat
  BY ThreadFits DEF Guard, At, Fits, GpuPcs
<1>1. PICK seen \in SUBSET Running, owners \in PortOwners, l \in {"gate", "respond"} :
        /\ Scan(seen) /\ Goto(t, l)
        /\ l = "gate" => owners \subseteq {th[t].m}
  BY DEF Guard
<1>2. OnGpu \subseteq owners
  BY <1>0, NoneLoading DEF PortOwners
<1>3. misses' = 0 => misses = 0
  <2>1. Cardinality(Serving \ seen) \in Nat
    <3>1. Serving \ seen \subseteq Models
      BY DEF Serving
    <3> QED
      BY <3>1, RoleAssumption, FS_Subset, FS_CardinalityType
  <2> QED
    BY <1>0, <1>1, <2>1 DEF Scan
<1>4. th'[t].pc = l /\ th'[t].m = th[t].m /\ th'[t].mode = th[t].mode
  BY <1>1, GotoKeeps
<1>5. /\ OnGpu' = OnGpu
      /\ UNCHANGED <<proc, active, profile, target, drift, pid>>
  BY QuietGpu DEF Guard, db
<1> QED
  BY <1>0, <1>1, <1>2, <1>3, <1>4, <1>5
  DEF Turn, LoadFit, Fit, ModeFit, IdleFit, SwapFit, SharedFit, ReadFit,
      Known, Comes, GateFit, Begun, IdlePcs, Exclusive, Gpu

(* The gate, and a refused acquire().                                      *)
LEMMA GateTurn ==
  ASSUME SwitchInv, NEW t \in Threads, Turn(th[t]), Gate(t) \/ Refused(t)
  PROVE  Turn(th[t])'
<1>0. th[t].pc \in {"gate", "lock"} /\ th[t].m \in Gpu
  BY ThreadFits DEF Gate, Refused, At, Fits, GpuPcs
<1>1. PICK l \in {"lock", "respond"} : Goto(t, l)
  BY DEF Gate, Refused
<1>2. th'[t].pc = l /\ th'[t].m = th[t].m /\ th'[t].mode = th[t].mode
  BY <1>1, GotoKeeps
<1>3. /\ OnGpu' = OnGpu
      /\ UNCHANGED <<proc, active, profile, target, drift, pid, misses>>
  BY QuietGpu DEF Gate, Refused, db, bounds
<1> QED
  BY <1>0, <1>2, <1>3
  DEF Turn, LoadFit, Fit, ModeFit, IdleFit, SwapFit, SharedFit, ReadFit,
      Known, Comes, GateFit, Begun, IdlePcs, Exclusive, Gpu

(* The switch begins, on the path of the mode it read.                     *)
LEMMA BeginTurn ==
  ASSUME SwitchInv, NEW t \in Threads, Turn(th[t]), Begin(t)
  PROVE  Turn(th[t])'
<1>0. th[t].pc = "lock" /\ th[t].m \in Gpu /\ th[t] \in Local
  BY ThreadFits DEF Begin, At, Fits, GpuPcs
<1>1. PICK l \in {"deploy", "retire", "add"} :
        /\ Goto(t, l)
        /\ l = "deploy" => th[t].mode = "idle"
        /\ l = "retire" => th[t].mode = "exclusive"
        /\ l = "add" => th[t].mode = "shared"
  BY <1>0 DEF Begin, Local
<1>2. th'[t].pc = l /\ th'[t].m = th[t].m /\ th'[t].mode = th[t].mode
  BY <1>1, GotoKeeps
<1>3. /\ OnGpu' = OnGpu
      /\ UNCHANGED <<proc, active, drift, pid, misses>>
  BY QuietGpu DEF Begin, bounds
<1>4. target' = th[t].m /\ profile' = "switching"
  BY DEF Begin
<1> QED
  BY <1>0, <1>1, <1>2, <1>3, <1>4
  DEF Turn, LoadFit, Fit, ModeFit, IdleFit, SwapFit, SharedFit, ReadFit,
      Known, Comes, GateFit, Begun, IdlePcs, Exclusive, Gpu

-----------------------------------------------------------------------------
(* Starting a model.                                                       *)

(* A spawned server is the one that is waited for.                         *)
LEMMA SpawnKeeps ==
  ASSUME SwitchInv, NEW t \in Threads, Spawn(t), th[t].m \in Models,
         \A k \in Gpu : proc[k] # Loading
  PROVE  /\ OnGpu' = OnGpu \cup ({th[t].m} \cap Gpu)
         /\ \A k \in Gpu : proc'[k] = Loading =>
               th[t].m = k /\ th'[t].own /\ pid' = k
         /\ th'[t].own <=> th[t].m \notin Running
         /\ th'[t].pc = "starting" /\ th'[t].m = th[t].m
         /\ th'[t].mode = th[t].mode /\ th'[t].kind = th[t].kind
         /\ th'[t].seen = (active \ Gpu) \ {th[t].m}
<1> DEFINE m == th[t].m
           seen == {s \in active : RoleOf[s] = "none"} \ {m}
           r == [th[t] EXCEPT !.pc = "starting", !.own = (proc[m] = Down), !.seen = seen]
<1>0. /\ th[t] \in Local /\ th \in [Threads -> Local]
      /\ proc \in [Models -> {Down, Loading, Up}]
      /\ active \subseteq Models /\ Gpu \subseteq Models
  BY ThreadFits DEF SwitchInv, ThreadsOK, SharedOK
<1>1. th' = [th EXCEPT ![t] = r]
  BY DEF Spawn
<1>2. seen = (active \ Gpu) \ {m}
  BY <1>0 DEF Gpu
<1>3. /\ th'[t].own <=> proc[m] = Down
      /\ th'[t].pc = "starting" /\ th'[t].m = m
      /\ th'[t].mode = th[t].mode /\ th'[t].kind = th[t].kind
      /\ th'[t].seen = seen
  BY <1>0, <1>1 DEF Local
<1>4. /\ proc' = [proc EXCEPT ![m] = IF proc[m] = Down THEN Loading ELSE proc[m]]
      /\ pid' = IF RoleOf[m] = "none" THEN pid ELSE IF proc[m] = Down THEN m ELSE Dead
  BY DEF Spawn
<1>5. OnGpu' = OnGpu \cup ({m} \cap Gpu)
  BY <1>0, <1>4 DEF OnGpu, Running, Gpu, Down, Loading, Up
<1>6. \A k \in Gpu : proc'[k] = Loading => m = k /\ th'[t].own /\ pid' = k
  BY <1>0, <1>3, <1>4 DEF Gpu, Down, Loading
<1> QED
  BY <1>2, <1>3, <1>5, <1>6 DEF Running

(* A deployment spawns on a GPU where nothing runs.                        *)
LEMMA DeployTurn ==
  ASSUME SwitchInv, NEW t \in Threads, Turn(th[t]), Deploy(t)
  PROVE  Turn(th[t])'
<1>0. /\ th[t].pc = "deploy" /\ th[t].m \in Gpu /\ th[t].m \in Models
      /\ th[t].kind = "switch"
  BY ThreadFits DEF Deploy, At, Fits, GpuPcs, SwitchPcs
<1>1. \A k \in Gpu : proc[k] # Loading
  BY <1>0, NoneLoading
<1>2. /\ OnGpu' = OnGpu \cup {th[t].m}
      /\ \A k \in Gpu : proc'[k] = Loading => th[t].m = k /\ th'[t].own /\ pid' = k
      /\ th'[t].pc = "starting" /\ th'[t].m = th[t].m
      /\ th'[t].mode = th[t].mode /\ th'[t].kind = th[t].kind
      /\ th'[t].seen = (active \ Gpu) \ {th[t].m}
  BY <1>0, <1>1, SpawnKeeps DEF Deploy
<1>3. UNCHANGED <<active, profile, target, drift, misses>>
  BY DEF Deploy, bounds
<1>4. /\ active \cap Gpu = {} /\ OnGpu \subseteq {th[t].m}
      /\ th[t].mode # "shared"
  BY <1>0, ThreadFits DEF Turn, ModeFit, IdleFit, SwapFit, Local
<1> QED
  BY <1>0, <1>2, <1>3, <1>4
  DEF Turn, LoadFit, Fit, ModeFit, IdleFit, SwapFit, SharedFit, ReadFit,
      Known, Comes, GateFit, Begun, IdlePcs, Exclusive, Gpu

(* An addition spawns next to shared models, or off the GPU.               *)
LEMMA AddTurn ==
  ASSUME SwitchInv, NEW t \in Threads, Turn(th[t]), Add(t)
  PROVE  Turn(th[t])'
<1>0. /\ th[t].pc = "add" /\ th[t].m \in Models /\ th[t].kind = "switch"
      /\ th[t].mode # "exclusive"
  BY ThreadFits DEF Add, At, Fits, SwitchPcs
<1>1. \A k \in Gpu : proc[k] # Loading
  BY <1>0, NoneLoading
<1>2. /\ OnGpu' = OnGpu \cup ({th[t].m} \cap Gpu)
      /\ \A k \in Gpu : proc'[k] = Loading => th[t].m = k /\ th'[t].own /\ pid' = k
      /\ th'[t].own <=> th[t].m \notin Running
      /\ th'[t].pc = "starting" /\ th'[t].m = th[t].m
      /\ th'[t].mode = th[t].mode /\ th'[t].kind = th[t].kind
  BY <1>0, <1>1, SpawnKeeps DEF Add
<1>3. UNCHANGED <<active, profile, target, drift, misses>>
  BY DEF Add, bounds
<1>4. CASE th[t].m \notin Gpu
  BY <1>0, <1>2, <1>3, <1>4
  DEF Turn, LoadFit, Fit, ModeFit, IdleFit, SwapFit, SharedFit, ReadFit,
      Known, Comes, GateFit, Begun, IdlePcs, Exclusive, Gpu
<1>5. CASE th[t].m \in Gpu
  <2>1. /\ th[t].mode = "shared" /\ RoleOf[th[t].m] = "shared"
        /\ \A k \in active \cup OnGpu : ~Exclusive(k)
    BY <1>0, <1>5 DEF Turn, ModeFit, SharedFit
  <2>2. th[t].m \notin active
    BY <2>1 DEF Add
  <2>3. misses = 0 => th'[t].own
    BY <1>0, <1>2, <1>5, <2>2 DEF Turn, Known, Comes, OnGpu
  <2> QED
    BY <1>0, <1>2, <1>3, <1>5, <2>1, <2>3
    DEF Turn, LoadFit, Fit, ModeFit, IdleFit, SwapFit, SharedFit, ReadFit,
        Known, Comes, GateFit, Begun, IdlePcs, Exclusive, Gpu
<1> QED
  BY <1>4, <1>5

(* A start that is healthy.                                                *)
LEMMA HealthyTurn ==
  ASSUME SwitchInv, NEW t \in Threads, Turn(th[t]), StartHealthy(t)
  PROVE  Turn(th[t])'
<1>0. /\ th[t].pc = "starting" /\ th[t].m \in Models /\ th[t] \in Local
      /\ th[t].kind = "switch"
  BY ThreadFits DEF StartHealthy, At, Fits, SwitchPcs
<1>1. PICK l \in {"addRead", "deployed"} :
        /\ Goto(t, l)
        /\ l = "deployed" => th[t].m \in Gpu /\ th[t].mode # "shared"
        /\ l = "addRead" => th[t].m \notin Gpu \/ th[t].mode = "shared"
  BY <1>0 DEF StartHealthy, Adding, Gpu
<1>2. /\ th'[t].pc = l /\ th'[t].m = th[t].m /\ th'[t].mode = th[t].mode
      /\ th'[t].seen = th[t].seen /\ th'[t].kind = th[t].kind
  BY <1>1, GotoKeeps
<1>3. /\ OnGpu' = OnGpu
      /\ UNCHANGED <<proc, active, profile, target, drift, pid, misses>>
  BY QuietGpu DEF StartHealthy, db, bounds
<1>4. \A k \in Gpu : proc[k] # Loading
  BY <1>0 DEF StartHealthy, Serving, Turn, LoadFit, Up, Loading
<1> QED
  BY <1>0, <1>1, <1>2, <1>3, <1>4
  DEF Turn, LoadFit, Fit, ModeFit, IdleFit, SwapFit, SharedFit, ReadFit,
      Known, Comes, GateFit, Begun, IdlePcs, Exclusive, Gpu

(* A start that fails, whichever way, leaves nothing of it on the GPU that *)
(* the clean-up that follows would not find.                               *)
LEMMA FailedTurn ==
  ASSUME SwitchInv, NEW t \in Threads, Turn(th[t]), th[t].pc = "starting", Failed(t),
         OnGpu' \subseteq OnGpu, \A k \in Gpu : proc'[k] # Loading,
         misses = 0 /\ Adding(t) => th[t].m \notin OnGpu'
  PROVE  Turn(th[t])'
<1>0. th[t].m \in Models /\ th[t] \in Local /\ th[t].kind = "switch"
  BY ThreadFits DEF Fits, SwitchPcs
<1>1. PICK l \in {"respond", "finish", "failStop"} :
        /\ Fail(t, l)
        /\ l = "respond" <=> th[t].m \notin Gpu
        /\ l # "failStop" => Adding(t)
        /\ l = "failStop" => th[t].mode # "shared"
  BY <1>0 DEF Failed, AfterFailure, Adding, Gpu
<1>2. /\ th'[t].pc = l /\ th'[t].m = th[t].m /\ th'[t].mode = th[t].mode
      /\ ~th'[t].ok /\ th'[t].kind = th[t].kind
  BY <1>1, FailKeeps
<1>3. /\ UNCHANGED <<active, target, drift, misses>>
      /\ profile' = IF th[t].m \in Gpu THEN "error" ELSE profile
  BY <1>0 DEF Failed, Gpu
<1>4. misses = 0 =>
        OnGpu' \subseteq active \cup IF l = "failStop" THEN {th[t].m} ELSE {}
  BY <1>1 DEF Turn, Known, Comes
<1> QED
  BY <1>0, <1>1, <1>2, <1>3, <1>4
  DEF Turn, LoadFit, Fit, ModeFit, IdleFit, SwapFit, SharedFit, ReadFit,
      Known, Comes, GateFit, Begun, IdlePcs, Exclusive, Gpu

(* The launched process exits.                                             *)
LEMMA ExitsTurn ==
  ASSUME SwitchInv, NEW t \in Threads, Turn(th[t]), StartExits(t)
  PROVE  Turn(th[t])'
<1>0. th[t].pc = "starting" /\ th[t].m \in Models /\ Failed(t)
  BY ThreadFits DEF StartExits, At, Fits, SwitchPcs
<1>1. CASE th[t].own /\ proc[th[t].m] = Loading /\ Kill({th[t].m})
  <2>1. /\ OnGpu' \subseteq OnGpu \ {th[t].m}
        /\ \A k \in Gpu : proc'[k] # Loading
    BY <1>0, <1>1, KillGpu DEF Turn, LoadFit, Gpu
  <2> QED
    BY <1>0, <2>1, FailedTurn
<1>2. CASE (~th[t].own \/ proc[th[t].m] = Down) /\ UNCHANGED proc
  <2>1. OnGpu' = OnGpu
    BY <1>2, QuietGpu
  <2>2. \A k \in Gpu : proc'[k] # Loading
    BY <1>0, <1>2 DEF Turn, LoadFit, Down, Loading
  <2>3. misses = 0 /\ Adding(t) => th[t].m \notin OnGpu
    BY <1>0, <1>2 DEF Turn, Known, Adding, OnGpu, Running, Gpu
  <2> QED
    BY <1>0, <2>1, <2>2, <2>3, FailedTurn
<1> QED
  BY <1>1, <1>2 DEF StartExits

(* It loads for too long.                                                  *)
LEMMA TimesOutTurn ==
  ASSUME SwitchInv, NEW t \in Threads, Turn(th[t]), StartTimesOut(t)
  PROVE  Turn(th[t])'
<1>0. /\ th[t].pc = "starting" /\ th[t].m \in Models /\ Failed(t)
      /\ proc[th[t].m] = Loading
  BY ThreadFits DEF StartTimesOut, At, Fits, SwitchPcs
<1>1. CASE th[t].m \in Gpu
  <2>1. pid = th[t].m
    BY <1>0, <1>1 DEF Turn, LoadFit
  <2>2. Kill({th[t].m})
    BY <1>0, <1>1, <2>1 DEF StartTimesOut, Gpu
  <2>3. /\ OnGpu' \subseteq OnGpu \ {th[t].m}
        /\ \A k \in Gpu : proc'[k] # Loading
    BY <1>0, <2>2, KillGpu DEF Turn, LoadFit, Gpu
  <2> QED
    BY <1>0, <2>3, FailedTurn
<1>2. CASE th[t].m \notin Gpu
  <2>1. PICK k \in Victims({th[t].m}) : Kill(k)
    BY <1>0, <1>2 DEF StartTimesOut, StopProcesses, Gpu
  <2>2. \A g \in Gpu : proc[g] # Loading
    BY <1>0, <1>2 DEF Turn, LoadFit
  <2>3. OnGpu' \subseteq OnGpu /\ \A g \in Gpu : proc'[g] # Loading
    BY <2>1, <2>2, StopGpu
  <2>4. th[t].m \notin OnGpu
    BY <1>2 DEF OnGpu
  <2> QED
    BY <1>0, <2>3, <2>4, FailedTurn
<1> QED
  BY <1>1, <1>2

-----------------------------------------------------------------------------
(* Deploying, retiring, adding, and the end of a switch.                   *)

(* A refused deployment has changed nothing.                               *)
LEMMA DeployRefusedTurn ==
  ASSUME SwitchInv, NEW t \in Threads, Turn(th[t]), DeployRefused(t)
  PROVE  Turn(th[t])'
<1>0. th[t].pc = "deploy" /\ th[t].m \in Gpu /\ th[t].kind = "switch"
  BY ThreadFits DEF DeployRefused, At, Fits, GpuPcs, SwitchPcs
<1>1. PICK l \in {"rollback", "finish"} :
        Fail(t, l) /\ (l = "rollback" <=> th[t].mode = "exclusive")
  BY DEF DeployRefused
<1>2. /\ th'[t].pc = l /\ th'[t].m = th[t].m /\ th'[t].mode = th[t].mode
      /\ ~th'[t].ok /\ th'[t].kind = th[t].kind
  BY <1>1, FailKeeps
<1>3. /\ OnGpu' = OnGpu
      /\ UNCHANGED <<proc, active, profile, target, drift, pid, misses>>
  BY QuietGpu DEF DeployRefused, db
<1> QED
  BY <1>0, <1>1, <1>2, <1>3
  DEF Turn, LoadFit, Fit, ModeFit, IdleFit, SwapFit, SharedFit, ReadFit,
      Known, Comes, GateFit, Begun, IdlePcs, Exclusive, Gpu

(* The clean-up of a failed deployment clears the GPU.                     *)
LEMMA FailStopTurn ==
  ASSUME SwitchInv, NEW t \in Threads, Turn(th[t]), DeployFailStop(t)
  PROVE  Turn(th[t])'
<1>0. /\ th[t].pc = "failStop" /\ th[t].m \in Gpu /\ th[t].kind = "switch"
      /\ th[t] \in Local
  BY ThreadFits DEF DeployFailStop, At, Fits, GpuPcs, SwitchPcs
<1>1. /\ th'[t].pc = "failWrite" /\ th'[t].m = th[t].m /\ th'[t].mode = th[t].mode
      /\ th'[t].ok = th[t].ok /\ th'[t].kind = th[t].kind
  BY GotoKeeps DEF DeployFailStop
<1>2. PICK k \in Victims({th[t].m}) : Kill(k)
  BY DEF DeployFailStop, StopProcesses
<1>3. OnGpu \subseteq {th[t].m} /\ active \cap Gpu = {}
  BY <1>0 DEF Turn, ModeFit, IdleFit, SwapFit, Local
<1>4. OnGpu' = {} /\ \A g \in Gpu : proc'[g] # Loading
  BY <1>0, <1>2, <1>3, NoneLoading, StopGpu
<1>5. UNCHANGED <<active, profile, target, drift, misses>>
  BY DEF DeployFailStop, bounds
<1> QED
  BY <1>0, <1>1, <1>3, <1>4, <1>5
  DEF Turn, LoadFit, Fit, ModeFit, IdleFit, SwapFit, SharedFit, ReadFit,
      Known, Comes, GateFit, Begun, IdlePcs, Exclusive, Gpu

(* Then nothing is served.                                                 *)
LEMMA FailWriteTurn ==
  ASSUME SwitchInv, NEW t \in Threads, Turn(th[t]), DeployFailWrite(t)
  PROVE  Turn(th[t])'
<1>0. th[t].pc = "failWrite" /\ th[t].m \in Gpu /\ th[t].kind = "switch"
  BY ThreadFits DEF DeployFailWrite, At, Fits, GpuPcs, SwitchPcs
<1>1. PICK l \in {"rollback", "finish"} :
        Goto(t, l) /\ (l = "rollback" <=> th[t].mode = "exclusive")
  BY DEF DeployFailWrite
<1>2. /\ th'[t].pc = l /\ th'[t].m = th[t].m /\ th'[t].mode = th[t].mode
      /\ th'[t].ok = th[t].ok /\ th'[t].kind = th[t].kind
  BY <1>1, GotoKeeps
<1>3. /\ OnGpu' = OnGpu /\ active' = {}
      /\ UNCHANGED <<proc, profile, target, drift, misses>>
  BY QuietGpu DEF DeployFailWrite, bounds
<1> QED
  BY <1>0, <1>1, <1>2, <1>3
  DEF Turn, LoadFit, Fit, ModeFit, IdleFit, SwapFit, SharedFit, ReadFit,
      Known, Comes, GateFit, Begun, IdlePcs, Exclusive, Gpu

(* A deployed model is alone on the GPU with what was kept off it.         *)
LEMMA DeployedTurn ==
  ASSUME SwitchInv, NEW t \in Threads, Turn(th[t]), Deployed(t)
  PROVE  Turn(th[t])'
<1>0. /\ th[t].pc = "deployed" /\ th[t].m \in Gpu /\ th[t].kind = "switch"
      /\ th[t] \in Local
  BY ThreadFits DEF Deployed, At, Fits, GpuPcs, SwitchPcs
<1>1. /\ th'[t].pc = "finish" /\ th'[t].m = th[t].m /\ th'[t].mode = th[t].mode
      /\ th'[t].kind = th[t].kind
  BY <1>0 DEF Deployed, SwitchInv, ThreadsOK, Local
<1>2. /\ OnGpu' = OnGpu /\ active' = {th[t].m} \cup th[t].seen
      /\ profile' = "healthy"
      /\ UNCHANGED <<proc, target, pid, misses>>
  BY QuietGpu DEF Deployed, bounds
<1>3. OnGpu \subseteq {th[t].m} /\ th[t].seen \cap Gpu = {}
  BY <1>0 DEF Turn, ModeFit, IdleFit, SwapFit, ReadFit, Local
<1> QED
  BY <1>0, <1>1, <1>2, <1>3
  DEF Turn, LoadFit, Fit, ModeFit, IdleFit, SwapFit, SharedFit, ReadFit,
      Known, Comes, GateFit, Begun, IdlePcs, Exclusive, Gpu

(* Retiring stops the exclusive model, and with it all that runs.          *)
LEMMA RetireStopTurn ==
  ASSUME SwitchInv, NEW t \in Threads, Turn(th[t]), RetireStop(t)
  PROVE  Turn(th[t])'
<1>0. /\ th[t].pc = "retire" /\ th[t].m \in Gpu /\ th[t].kind = "switch"
      /\ th[t] \in Local /\ OnGpu \subseteq Gpu /\ active \subseteq Models
  BY ThreadFits DEF RetireStop, At, Fits, GpuPcs, SwitchPcs
<1>1. /\ th'[t].pc = "retireWrite" /\ th'[t].m = th[t].m
      /\ th'[t].mode = th[t].mode /\ th'[t].kind = th[t].kind
      /\ th'[t].seen = active
  BY <1>0 DEF RetireStop, SwitchInv, ThreadsOK, Local
<1>2. PICK k \in Victims(active \cap Gpu) : Kill(k)
  BY DEF RetireStop, StopProcesses
<1>3. PICK x \in active : Exclusive(x)
  BY <1>0 DEF Turn, ModeFit, SwapFit
<1>4. OnGpu \subseteq active \cap Gpu
  BY <1>0, <1>3 DEF Turn, Fit, Exclusive, Gpu
<1>5. OnGpu' = {} /\ \A g \in Gpu : proc'[g] # Loading
  BY <1>0, <1>2, <1>4, NoneLoading, StopGpu
<1>6. UNCHANGED <<active, profile, target, drift, misses>>
  BY DEF RetireStop, bounds
<1> QED
  BY <1>0, <1>1, <1>5, <1>6
  DEF Turn, LoadFit, Fit, ModeFit, IdleFit, SwapFit, SharedFit, ReadFit,
      Known, Comes, GateFit, Begun, IdlePcs, Exclusive, Gpu

(* What was retired is taken off the list.                                 *)
LEMMA RetireWriteTurn ==
  ASSUME SwitchInv, NEW t \in Threads, Turn(th[t]), RetireWrite(t)
  PROVE  Turn(th[t])'
<1>0. /\ th[t].pc = "retireWrite" /\ th[t].m \in Gpu /\ th[t].kind = "switch"
      /\ th[t] \in Local
  BY ThreadFits DEF RetireWrite, At, Fits, GpuPcs, SwitchPcs
<1>1. /\ th'[t].pc = "deploy" /\ th'[t].m = th[t].m
      /\ th'[t].mode = th[t].mode /\ th'[t].kind = th[t].kind
  BY <1>0 DEF RetireWrite, SwitchInv, ThreadsOK, Local
<1>2. /\ OnGpu' = OnGpu /\ active' = th[t].seen \ Gpu
      /\ UNCHANGED <<proc, profile, target, drift, pid, misses>>
  BY QuietGpu DEF RetireWrite, bounds
<1>3. OnGpu = {} /\ th[t].mode = "exclusive"
  BY <1>0 DEF Turn, ModeFit, SwapFit
<1> QED
  BY <1>0, <1>1, <1>2, <1>3
  DEF Turn, LoadFit, Fit, ModeFit, IdleFit, SwapFit, SharedFit, ReadFit,
      Known, Comes, GateFit, Begun, IdlePcs, Exclusive, Gpu

(* A failed swap goes back to a model it retired, or ends.                 *)
LEMMA RollbackTurn ==
  ASSUME SwitchInv, NEW t \in Threads, Turn(th[t]), Rollback(t)
  PROVE  Turn(th[t])'
<1>0. /\ th[t].pc = "rollback" /\ th[t].m \in Gpu /\ th[t].kind = "switch"
      /\ th[t] \in Local /\ th[t].mode = "exclusive" /\ th[t].was \subseteq Gpu
  BY ThreadFits DEF Rollback, At, Fits, GpuPcs, SwitchPcs, SwapPcs
<1>1. /\ OnGpu' = OnGpu
      /\ UNCHANGED <<proc, active, target, drift, pid, misses>>
  BY QuietGpu DEF Rollback, bounds
<1>2. OnGpu = {} /\ active \cap Gpu = {}
  BY <1>0 DEF Turn, SwapFit
<1>3. CASE Goto(t, "finish") /\ profile' = "error"
  <2>1. /\ th'[t].pc = "finish" /\ th'[t].m = th[t].m
        /\ th'[t].mode = th[t].mode /\ th'[t].kind = th[t].kind
    BY <1>3, GotoKeeps
  <2> QED
    BY <1>0, <1>1, <1>2, <1>3, <2>1
    DEF Turn, LoadFit, Fit, ModeFit, IdleFit, SwapFit, SharedFit, ReadFit,
        Known, Comes, GateFit, Begun, IdlePcs, Exclusive, Gpu
<1>4. ASSUME NEW m \in th[t].was, UNCHANGED profile,
             th' = [th EXCEPT ![t].pc = "deploy", ![t].m = m, ![t].was = @ \ {m}]
      PROVE  Turn(th[t])'
  <2> DEFINE r == [th[t] EXCEPT !.pc = "deploy", !.m = m, !.was = th[t].was \ {m}]
  <2>1. th' = [th EXCEPT ![t] = r]
    BY <1>4
  <2>2. /\ th'[t].pc = "deploy" /\ th'[t].m \in Gpu
        /\ th'[t].mode = th[t].mode /\ th'[t].kind = th[t].kind
    BY <1>0, <2>1 DEF SwitchInv, ThreadsOK, Local
  <2> QED
    BY <1>0, <1>1, <1>2, <1>4, <2>2
    DEF Turn, LoadFit, Fit, ModeFit, IdleFit, SwapFit, SharedFit, ReadFit,
        Known, Comes, GateFit, Begun, IdlePcs, Exclusive, Gpu
<1> QED
  BY <1>3, <1>4 DEF Rollback

(* A refused addition has changed nothing.                                 *)
LEMMA AddRefusedTurn ==
  ASSUME SwitchInv, NEW t \in Threads, Turn(th[t]), AddRefused(t)
  PROVE  Turn(th[t])'
<1>0. /\ th[t].pc = "add" /\ th[t].m \in Models /\ th[t].kind = "switch"
      /\ th[t].m \in Gpu
  BY ThreadFits DEF AddRefused, At, Fits, SwitchPcs, Gpu
<1>1. (Goto(t, "finish") /\ th[t].m \in active) \/ Fail(t, "finish")
  BY DEF AddRefused
<1>2. /\ th'[t].pc = "finish" /\ th'[t].m = th[t].m /\ th'[t].mode = th[t].mode
      /\ ~th'[t].ok \/ th[t].m \in active
      /\ th'[t].kind = th[t].kind
  BY <1>1, FailKeeps, GotoKeeps
<1>3. /\ OnGpu' = OnGpu
      /\ UNCHANGED <<proc, active, profile, target, drift, pid, misses>>
  BY QuietGpu DEF AddRefused, db
<1> QED
  BY <1>0, <1>2, <1>3
  DEF Turn, LoadFit, Fit, ModeFit, IdleFit, SwapFit, SharedFit, ReadFit,
      Known, Comes, GateFit, Begun, IdlePcs, Exclusive, Gpu

(* A started service is appended to what is served.                        *)
LEMMA AddedTurn ==
  ASSUME SwitchInv, NEW t \in Threads, Turn(th[t]), AddRead(t) \/ AddWrite(t)
  PROVE  Turn(th[t])'
<1>0. /\ th[t].pc \in {"addRead", "addWrite"} /\ th[t].m \in Models
      /\ th[t].kind = "switch" /\ th[t] \in Local /\ Gpu \subseteq Models
  BY ThreadFits DEF AddRead, AddWrite, At, Fits, SwitchPcs
<1>1. th[t].m \in Gpu =>
        /\ th[t].mode = "shared" /\ RoleOf[th[t].m] = "shared"
        /\ \A k \in active \cup OnGpu : ~Exclusive(k)
  BY <1>0 DEF Turn, ModeFit, SharedFit
<1>2. CASE AddRead(t)
  <2>1. /\ th'[t].pc = "addWrite" /\ th'[t].m = th[t].m
        /\ th'[t].mode = th[t].mode /\ th'[t].kind = th[t].kind
        /\ th'[t].seen = active
    BY <1>0, <1>2 DEF AddRead, SwitchInv, ThreadsOK, Local
  <2>2. /\ OnGpu' = OnGpu
        /\ UNCHANGED <<proc, active, profile, target, drift, pid, misses>>
    BY <1>2, QuietGpu DEF AddRead, db, bounds
  <2> QED
    BY <1>0, <1>1, <2>1, <2>2
    DEF Turn, LoadFit, Fit, ModeFit, IdleFit, SwapFit, SharedFit, ReadFit,
        Known, Comes, GateFit, Begun, IdlePcs, Exclusive, Gpu
<1>3. CASE AddWrite(t)
  <2>1. PICK l \in {"respond", "finish"} :
          Goto(t, l) /\ (l = "finish" <=> th[t].m \in Gpu)
    BY <1>0, <1>3 DEF AddWrite, Gpu
  <2>2. /\ th'[t].pc = l /\ th'[t].m = th[t].m /\ th'[t].mode = th[t].mode
        /\ th'[t].kind = th[t].kind
    BY <2>1, GotoKeeps
  <2>3. /\ OnGpu' = OnGpu /\ active' = th[t].seen \cup {th[t].m}
        /\ profile' = "healthy"
        /\ UNCHANGED <<proc, target, pid, misses>>
    BY <1>3, QuietGpu DEF AddWrite, bounds
  <2>4. th[t].seen = active /\ th[t].pc = "addWrite"
    BY <1>3 DEF AddWrite, At, Turn, ReadFit
  <2> QED
    BY <1>0, <1>1, <2>1, <2>2, <2>3, <2>4
    DEF Turn, LoadFit, Fit, ModeFit, IdleFit, SwapFit, SharedFit, ReadFit,
        Known, Comes, GateFit, Begun, IdlePcs, Exclusive, Gpu
<1> QED
  BY <1>2, <1>3

(* The end opens the gate and does not leave SWITCHING behind.             *)
LEMMA EndTurn ==
  ASSUME SwitchInv, NEW t \in Threads, Turn(th[t]), Finish(t) \/ Respond(t)
  PROVE  Turn(th[t])'
<1>1. CASE Finish(t)
  <2>0. th[t].pc = "finish" /\ th[t].m \in Gpu /\ th[t].kind = "switch"
    BY <1>1, ThreadFits DEF Finish, At, Fits, GpuPcs, SwitchPcs
  <2>1. th'[t].pc = "respond" /\ th'[t].m = th[t].m
    BY <1>1, GotoKeeps DEF Finish
  <2>2. /\ OnGpu' = OnGpu /\ UNCHANGED <<proc, active, drift, pid, misses>>
        /\ target' = None /\ profile' = IF th[t].ok THEN profile ELSE "error"
    BY <1>1, QuietGpu DEF Finish, bounds
  <2> QED
    BY <2>0, <2>1, <2>2
    DEF Turn, LoadFit, Fit, ModeFit, IdleFit, SwapFit, SharedFit, ReadFit,
        Known, Comes, GateFit, Begun, IdlePcs, Exclusive, Gpu
<1>2. CASE Respond(t)
  <2>0. th[t].pc = "respond"
    BY <1>2 DEF Respond, At
  <2>1. th'[t].pc = "rest"
    BY <1>2, RestKeeps DEF Respond
  <2>2. /\ OnGpu' = OnGpu /\ UNCHANGED <<proc, active, profile, drift, pid, misses>>
        /\ target' \in {None, target}
    BY <1>2, QuietGpu DEF Respond, bounds
  <2> QED
    BY <2>0, <2>1, <2>2
    DEF Turn, LoadFit, Fit, ModeFit, IdleFit, SwapFit, SharedFit, ReadFit,
        Known, Comes, GateFit, Begun, IdlePcs, Exclusive, Gpu
<1> QED
  BY <1>1, <1>2

-----------------------------------------------------------------------------
(* The reconciler, idle, stops and resets.                                 *)

(* A scan that misses nothing sees all that runs on the GPU.               *)
LEMMA ScanTurn ==
  ASSUME SwitchInv, NEW t \in Threads, Turn(th[t]), ReconcileScan(t)
  PROVE  Turn(th[t])'
<1>0. th[t].pc = "scan" /\ th[t] \in Local /\ misses \in Nat
  BY ThreadFits DEF ReconcileScan, At
<1>1. PICK seen \in SUBSET Running :
        /\ Scan(seen)
        /\ th' = [th EXCEPT ![t].pc = "apply", ![t].seen = seen, ![t].was = active]
  BY DEF ReconcileScan
<1>2. /\ th'[t].pc = "apply" /\ th'[t].m = th[t].m /\ th'[t].mode = th[t].mode
      /\ th'[t].kind = th[t].kind /\ th'[t].seen = seen /\ th'[t].was = active
  BY <1>0, <1>1 DEF SwitchInv, ThreadsOK, Local
<1>3. misses' = 0 => misses = 0 /\ Serving \subseteq seen
  <2>1. IsFiniteSet(Serving \ seen)
    <3>1. Serving \ seen \subseteq Models
      BY DEF Serving
    <3> QED
      BY <3>1, RoleAssumption, FS_Subset
  <2>2. Cardinality(Serving \ seen) \in Nat
    BY <2>1, FS_CardinalityType
  <2>3. Cardinality(Serving \ seen) = 0 => Serving \ seen = {}
    BY <2>1, FS_EmptySet
  <2> QED
    BY <1>0, <1>1, <2>2, <2>3 DEF Scan
<1>4. /\ OnGpu' = OnGpu
      /\ UNCHANGED <<proc, active, profile, target, drift, pid>>
  BY QuietGpu DEF ReconcileScan, db
<1>5. seen \cap Gpu \subseteq OnGpu /\ OnGpu \subseteq Serving
  BY <1>0, NoneLoading DEF OnGpu
<1> QED
  BY <1>0, <1>2, <1>3, <1>4, <1>5
  DEF Turn, LoadFit, Fit, ModeFit, IdleFit, SwapFit, SharedFit, ReadFit,
      Known, Comes, GateFit, Begun, IdlePcs, Exclusive, Gpu

(* What it saw becomes what is served.                                     *)
LEMMA ApplyTurn ==
  ASSUME SwitchInv, NEW t \in Threads, Turn(th[t]), ReconcileApply(t)
  PROVE  Turn(th[t])'
<1>0. th[t].pc = "apply" /\ th[t] \in Local
  BY ThreadFits DEF ReconcileApply, At
<1>1. active' = th[t].seen
  BY <1>0 DEF ReconcileApply, Turn, ReadFit
<1>2. /\ th'[t].pc = "rest"
      \/ /\ th'[t].pc = "idleLock" /\ th'[t].m = th[t].m
         /\ th'[t].mode = th[t].mode /\ th'[t].kind = th[t].kind
  BY RestKeeps, GotoKeeps DEF ReconcileApply
<1>3. /\ OnGpu' = OnGpu /\ UNCHANGED <<proc, drift, misses>>
      /\ target' = None
      /\ profile' = "switching" => profile = "switching"
  BY QuietGpu DEF ReconcileApply, bounds
<1>4. \A k \in Gpu : proc[k] # Loading
  BY <1>0, NoneLoading
<1>5. CASE th'[t].pc = "rest"
  BY <1>0, <1>1, <1>3, <1>4, <1>5
  DEF Turn, LoadFit, Fit, ModeFit, IdleFit, SwapFit, SharedFit, ReadFit,
      Known, Comes, GateFit, Begun, IdlePcs, Exclusive, Gpu
<1>6. CASE /\ th'[t].pc = "idleLock" /\ th'[t].m = th[t].m
           /\ th'[t].mode = th[t].mode /\ th'[t].kind = th[t].kind
  BY <1>0, <1>1, <1>3, <1>4, <1>6
  DEF Turn, LoadFit, Fit, ModeFit, IdleFit, SwapFit, SharedFit, ReadFit,
      Known, Comes, GateFit, Begun, IdlePcs, Exclusive, Gpu
<1> QED
  BY <1>2, <1>5, <1>6

(* The way to idle, up to its stop.                                        *)
LEMMA IdleCheckTurn ==
  ASSUME SwitchInv, NEW t \in Threads, Turn(th[t]), IdleCheck(t) \/ IdleLock(t)
  PROVE  Turn(th[t])'
<1>0. th[t].pc \in {"idle", "idleLock"} /\ th[t] \in Local
  BY ThreadFits DEF IdleCheck, IdleLock, At
<1>1. Return(t) \/ \E l \in {"scan", "idleStop"} : Goto(t, l)
  BY DEF IdleCheck, IdleLock
<1>2. /\ OnGpu' = OnGpu
      /\ UNCHANGED <<proc, active, profile, target, drift, pid, misses>>
  BY QuietGpu DEF IdleCheck, IdleLock, db, bounds
<1>3. ASSUME NEW l \in {"scan", "idleStop"}, Goto(t, l)
      PROVE  Turn(th[t])'
  <2>1. /\ th'[t].pc = l /\ th'[t].m = th[t].m
        /\ th'[t].mode = th[t].mode /\ th'[t].kind = th[t].kind
    BY <1>3, GotoKeeps
  <2> QED
    BY <1>0, <1>2, <2>1
    DEF Turn, LoadFit, Fit, ModeFit, IdleFit, SwapFit, SharedFit, ReadFit,
        Known, Comes, GateFit, Begun, IdlePcs, Exclusive, Gpu
<1>4. CASE Return(t)
  <2>1. \/ th'[t].pc \in {"rest", "respond"}
        \/ /\ th'[t].pc = "validate" /\ th[t].kind = "switch"
           /\ th'[t].m = th[t].m
    BY <1>4, ReturnKeeps
  <2> QED
    BY <1>0, <1>2, <2>1
    DEF Turn, LoadFit, Fit, ModeFit, IdleFit, SwapFit, SharedFit, ReadFit,
        Known, Comes, GateFit, Begun, IdlePcs, Exclusive, Gpu
<1> QED
  BY <1>1, <1>3, <1>4

(* Stopping what is served, when all that runs is, clears the GPU.         *)
LEMMA IdleStopTurn ==
  ASSUME SwitchInv, NEW t \in Threads, Turn(th[t]), IdleStop(t)
  PROVE  Turn(th[t])'
<1>0. /\ th[t].pc = "idleStop" /\ th[t] \in Local /\ OnGpu \subseteq Gpu
  BY ThreadFits DEF IdleStop, At
<1>1. /\ th'[t].pc = "idleWait" /\ th'[t].m = th[t].m
      /\ th'[t].mode = th[t].mode /\ th'[t].kind = th[t].kind
      /\ th'[t].seen = active
  BY <1>0 DEF IdleStop, SwitchInv, ThreadsOK, Local
<1>2. PICK k \in Victims(active \cap Gpu) : Kill(k)
  BY DEF IdleStop
<1>3. /\ OnGpu' \subseteq OnGpu \ (active \cap Gpu)
      /\ \A g \in Gpu : proc'[g] # Loading
  BY <1>0, <1>2, NoneLoading, StopGpu
<1>4. misses = 0 => OnGpu' = {}
  BY <1>0, <1>3 DEF Turn, Known, Comes
<1>5. UNCHANGED <<active, profile, target, drift, misses>>
  BY DEF IdleStop, bounds
<1> QED
  BY <1>0, <1>1, <1>3, <1>4, <1>5
  DEF Turn, LoadFit, Fit, ModeFit, IdleFit, SwapFit, SharedFit, ReadFit,
      Known, Comes, GateFit, Begun, IdlePcs, Exclusive, Gpu

(* force_kill_all clears the GPU.                                          *)
LEMMA ForceGpu ==
  ASSUME SwitchInv, ForceKill
  PROVE  OnGpu' = {} /\ \A g \in Gpu : proc'[g] # Loading
<1>1. Kill(Gpu) /\ Gpu \subseteq Models /\ OnGpu \subseteq Gpu
  BY DEF ForceKill, OnGpu, Gpu
<1> QED
  BY <1>1, KillGpu

(* The rest of the way.                                                    *)
LEMMA IdleWaitTurn ==
  ASSUME SwitchInv, NEW t \in Threads, Turn(th[t]), IdleFreed(t) \/ IdleForced(t)
  PROVE  Turn(th[t])'
<1>0. /\ th[t].pc = "idleWait" /\ th[t] \in Local
  BY ThreadFits DEF IdleFreed, IdleForced, At
<1>1. /\ th'[t].pc = "idleWrite" /\ th'[t].m = th[t].m
      /\ th'[t].mode = th[t].mode /\ th'[t].kind = th[t].kind
      /\ th'[t].seen = th[t].seen
  BY GotoKeeps DEF IdleFreed, IdleForced
<1>2. OnGpu' = {} /\ \A g \in Gpu : proc'[g] # Loading
  <2>1. CASE IdleFreed(t)
    BY <1>0, <2>1, QuietGpu, NoneLoading DEF IdleFreed, Gpu
  <2>2. CASE IdleForced(t)
    BY <2>2, ForceGpu DEF IdleForced
  <2> QED
    BY <2>1, <2>2
<1>3. UNCHANGED <<active, profile, target, drift, misses>>
  BY DEF IdleFreed, IdleForced, bounds, db
<1> QED
  BY <1>0, <1>1, <1>2, <1>3
  DEF Turn, LoadFit, Fit, ModeFit, IdleFit, SwapFit, SharedFit, ReadFit,
      Known, Comes, GateFit, Begun, IdlePcs, Exclusive, Gpu

(* The end of the way: the GPU is clear, or was never known to be.         *)
LEMMA IdleEndTurn ==
  ASSUME SwitchInv, NEW t \in Threads, Turn(th[t]), IdleStuck(t) \/ IdleWrite(t)
  PROVE  Turn(th[t])'
<1>0. th[t].pc \in {"idleWait", "idleWrite"} /\ th[t] \in Local
  BY ThreadFits DEF IdleStuck, IdleWrite, At
<1>1. \/ th'[t].pc \in {"rest", "respond"}
      \/ /\ th'[t].pc = "validate" /\ th[t].kind = "switch"
         /\ th'[t].m = th[t].m
  BY ReturnKeeps DEF IdleStuck, IdleWrite
<1>2. CASE IdleStuck(t)
  <2>1. OnGpu' = {} /\ \A g \in Gpu : proc'[g] # Loading
    BY <1>2, ForceGpu DEF IdleStuck
  <2>2. UNCHANGED <<active, target, drift, misses>> /\ profile' = "error"
    BY <1>2 DEF IdleStuck
  <2> QED
    BY <1>0, <1>1, <2>1, <2>2
    DEF Turn, LoadFit, Fit, ModeFit, IdleFit, SwapFit, SharedFit, ReadFit,
        Known, Comes, GateFit, Begun, IdlePcs, Exclusive, Gpu
<1>3. CASE IdleWrite(t)
  <2>1. /\ OnGpu' = OnGpu /\ active' = th[t].seen \ Gpu /\ profile' = "idle"
        /\ UNCHANGED <<proc, target, drift, misses>>
    BY <1>3, QuietGpu DEF IdleWrite, bounds
  <2>2. \A g \in Gpu : proc[g] # Loading
    BY <1>0, NoneLoading
  <2>3. th[t].pc = "idleWrite"
    BY <1>3 DEF IdleWrite, At
  <2> QED
    BY <1>0, <1>1, <2>1, <2>2, <2>3
    DEF Turn, LoadFit, Fit, ModeFit, IdleFit, SwapFit, SharedFit, ReadFit,
        Known, Comes, GateFit, Begun, IdlePcs, Exclusive, Gpu
<1> QED
  BY <1>2, <1>3

(* The stop of one service.                                                *)
LEMMA StopTurn ==
  ASSUME SwitchInv, NEW t \in Threads, Turn(th[t]), Stopping(t)
  PROVE  Turn(th[t])'
<1>0. /\ th[t].pc \in StopPcs /\ th[t] \in Local /\ th[t].m \in Models
      /\ th[t].kind = "stop" /\ OnGpu \subseteq Gpu
  <2>1. th[t].pc \in StopPcs
    BY DEF Stopping, StopCheck, StopKill, StopRead, StopWrite, At, StopPcs
  <2> QED
    BY <2>1, ThreadFits DEF Fits
<1>1. CASE StopCheck(t)
  <2>1. \/ th'[t].pc = "rest"
        \/ /\ th'[t].pc \in {"idle", "stopKill"} /\ th'[t].kind = th[t].kind
           /\ th'[t].m = th[t].m /\ th'[t].mode = th[t].mode
    <3>1. Rest(t) \/ \E l \in {"idle", "stopKill"} : Goto(t, l)
      BY <1>1 DEF StopCheck
    <3> QED
      BY <3>1, RestKeeps, GotoKeeps
  <2>2. /\ OnGpu' = OnGpu
        /\ UNCHANGED <<proc, active, profile, target, drift, pid, misses>>
    BY <1>1, QuietGpu DEF StopCheck, db, bounds
  <2>3. th[t].pc = "stop"
    BY <1>1 DEF StopCheck, At
  <2> QED
    BY <1>0, <2>1, <2>2, <2>3
    DEF Turn, LoadFit, Fit, ModeFit, IdleFit, SwapFit, SharedFit, ReadFit,
        Known, Comes, GateFit, Begun, IdlePcs, Exclusive, Gpu
<1>2. CASE StopKill(t)
  <2>1. /\ th'[t].pc = "stopRead" /\ th'[t].kind = th[t].kind
        /\ th'[t].m = th[t].m /\ th'[t].mode = th[t].mode
    BY <1>2, GotoKeeps DEF StopKill
  <2>2. PICK k \in Victims({th[t].m}) : Kill(k)
    BY <1>2 DEF StopKill, StopProcesses
  <2>3. th[t].pc = "stopKill"
    BY <1>2 DEF StopKill, At
  <2>4. /\ OnGpu' \subseteq OnGpu \ {th[t].m}
        /\ \A g \in Gpu : proc'[g] # Loading
    BY <2>2, <2>3, NoneLoading, StopGpu
  <2>5. UNCHANGED <<active, profile, target, drift, misses>>
    BY <1>2 DEF StopKill, bounds
  <2> QED
    BY <1>0, <2>1, <2>3, <2>4, <2>5
    DEF Turn, LoadFit, Fit, ModeFit, IdleFit, SwapFit, SharedFit, ReadFit,
        Known, Comes, GateFit, Begun, IdlePcs, Exclusive, Gpu
<1>3. CASE StopRead(t)
  <2>1. /\ th'[t].pc = "stopWrite" /\ th'[t].kind = th[t].kind
        /\ th'[t].m = th[t].m /\ th'[t].mode = th[t].mode
        /\ th'[t].seen = active \ {th[t].m}
    BY <1>0, <1>3 DEF StopRead, SwitchInv, ThreadsOK, Local
  <2>2. /\ OnGpu' = OnGpu
        /\ UNCHANGED <<proc, active, profile, target, drift, pid, misses>>
    BY <1>3, QuietGpu DEF StopRead, db, bounds
  <2>3. th[t].pc = "stopRead"
    BY <1>3 DEF StopRead, At
  <2> QED
    BY <1>0, <2>1, <2>2, <2>3
    DEF Turn, LoadFit, Fit, ModeFit, IdleFit, SwapFit, SharedFit, ReadFit,
        Known, Comes, GateFit, Begun, IdlePcs, Exclusive, Gpu
<1>4. CASE StopWrite(t)
  <2>1. th'[t].pc = "rest"
    BY <1>4, RestKeeps DEF StopWrite
  <2>2. /\ OnGpu' = OnGpu /\ active' = th[t].seen /\ profile' \in {"idle", profile}
        /\ UNCHANGED <<proc, target, drift, pid, misses>>
    BY <1>4, QuietGpu DEF StopWrite, bounds
  <2>3. th[t].pc = "stopWrite"
    BY <1>4 DEF StopWrite, At
  <2> QED
    BY <1>0, <2>1, <2>2, <2>3
    DEF Turn, LoadFit, Fit, ModeFit, IdleFit, SwapFit, SharedFit, ReadFit,
        Known, Comes, GateFit, Begun, IdlePcs, Exclusive, Gpu
<1> QED
  BY <1>1, <1>2, <1>3, <1>4 DEF Stopping

(* A reset clears everything.                                              *)
LEMMA ResetTurn ==
  ASSUME SwitchInv, NEW t \in Threads, Turn(th[t]), Resetting(t)
  PROVE  Turn(th[t])'
<1>0. th[t] \in Local /\ OnGpu \subseteq Gpu
  BY ThreadFits
<1>1. CASE ResetStop(t)
  <2>1. th[t].pc = "reset" /\ th'[t].pc = "resetKill"
    BY <1>1, GotoKeeps DEF ResetStop, At
  <2>2. PICK k \in Victims(active) : Kill(k)
    BY <1>1 DEF ResetStop, StopProcesses
  <2>3. OnGpu' \subseteq OnGpu \ active /\ \A g \in Gpu : proc'[g] # Loading
    BY <2>1, <2>2, NoneLoading, StopGpu
  <2>4. UNCHANGED <<active, profile, target, drift, misses>>
    BY <1>1 DEF ResetStop, bounds
  <2> QED
    BY <1>0, <2>1, <2>3, <2>4
    DEF Turn, LoadFit, Fit, ModeFit, IdleFit, SwapFit, SharedFit, ReadFit,
        Known, Comes, GateFit, Begun, IdlePcs, Exclusive, Gpu
<1>2. CASE ResetKill(t)
  <2>1. th[t].pc = "resetKill" /\ th'[t].pc = "resetWrite"
    BY <1>2, GotoKeeps DEF ResetKill, At
  <2>2. OnGpu' = {} /\ \A g \in Gpu : proc'[g] # Loading
    BY <1>2, ForceGpu DEF ResetKill
  <2>3. UNCHANGED <<active, profile, target, drift, misses>>
    BY <1>2 DEF ResetKill, bounds
  <2> QED
    BY <1>0, <2>1, <2>2, <2>3
    DEF Turn, LoadFit, Fit, ModeFit, IdleFit, SwapFit, SharedFit, ReadFit,
        Known, Comes, GateFit, Begun, IdlePcs, Exclusive, Gpu
<1>3. CASE ResetWrite(t)
  <2>1. th[t].pc = "resetWrite" /\ th'[t].pc = "rest"
    BY <1>3, RestKeeps DEF ResetWrite, At
  <2>2. /\ OnGpu' = OnGpu /\ active' = {} /\ profile' = "idle" /\ target' = None
        /\ UNCHANGED <<proc, drift, misses>>
    BY <1>3, QuietGpu DEF ResetWrite, bounds
  <2> QED
    BY <1>0, <2>1, <2>2
    DEF Turn, LoadFit, Fit, ModeFit, IdleFit, SwapFit, SharedFit, ReadFit,
        Known, Comes, GateFit, Begun, IdlePcs, Exclusive, Gpu
<1> QED
  BY <1>1, <1>2, <1>3 DEF Resetting

-----------------------------------------------------------------------------
(* Servers and operators, threads that take turns, and the theorems.       *)

(* Whatever the thread that works does.                                    *)
LEMMA WorksTurn ==
  ASSUME SwitchInv, NEW t \in Threads, Turn(th[t]), Works(t)
  PROVE  Turn(th[t])'
<1>1. CASE Switching(t)
  BY <1>1, EnterTurn, ValidateTurn, GuardTurn, GateTurn, BeginTurn, DeployTurn,
     DeployRefusedTurn, FailStopTurn, FailWriteTurn, DeployedTurn, RetireStopTurn,
     RetireWriteTurn, RollbackTurn, AddTurn, AddRefusedTurn, AddedTurn, EndTurn
  DEF Switching
<1>2. CASE Starting(t)
  BY <1>2, HealthyTurn, ExitsTurn, TimesOutTurn DEF Starting
<1>3. CASE Reconciling(t)
  BY <1>3, ScanTurn, ApplyTurn DEF Reconciling
<1>4. CASE Idling(t)
  BY <1>4, IdleCheckTurn, IdleStopTurn, IdleWaitTurn, IdleEndTurn DEF Idling
<1> QED
  BY <1>1, <1>2, <1>3, <1>4, StopTurn, ResetTurn DEF Works

(* A thread at work is not at rest.                                        *)
LEMMA WorksBusy ==
  ASSUME NEW t \in Threads, Works(t)
  PROVE  ~At(t, "rest")
  BY DEF Works, Switching, Enter, Validate, Guard, Gate, Begin, Refused, Deploy,
     DeployRefused, DeployFailStop, DeployFailWrite, Deployed, RetireStop,
     RetireWrite, Rollback, Add, AddRefused, AddRead, AddWrite, Finish, Respond,
     Starting, StartHealthy, StartExits, StartTimesOut, Reconciling, ReconcileScan,
     ReconcileApply, Idling, IdleCheck, IdleLock, IdleStop, IdleFreed, IdleForced,
     IdleStuck, IdleWrite, Stopping, StopCheck, StopKill, StopRead, StopWrite,
     Resetting, ResetStop, ResetKill, ResetWrite, At

(* What is true of a thread at rest is true when all rest, and so on.      *)
LEMMA RestTurn ==
  ASSUME NEW t \in Threads, At(t, "rest")
  PROVE  Turn(th[t]) <=> Turn(Resting)
<1>1. th[t].pc = "rest" /\ Resting.pc = "rest"
  BY DEF At, Resting
<1> QED
  BY <1>1
  DEF Turn, LoadFit, Fit, ModeFit, IdleFit, SwapFit, SharedFit, ReadFit,
      Known, Comes, GateFit, Begun, IdlePcs, Exclusive, Gpu

(* A server comes up or dies, or its configuration is edited.              *)
LEMMA ServerTurn ==
  ASSUME SwitchInv, Turn(Current), NEW m \in Models,
         Loaded(m) \/ ServerDies(m) \/ EditConfig(m)
  PROVE  Turn(Current)'
<1> DEFINE r == Current
<1>0. /\ proc \in [Models -> {Down, Loading, Up}] /\ Gpu \subseteq Models
      /\ OnGpu \subseteq Gpu
  BY DEF SwitchInv, SharedOK, Gpu, OnGpu
<1>1. r' = r
  BY DEF Current, At, Loaded, ServerDies, EditConfig
<1> HIDE DEF r
<1>2. Turn(r)
  BY DEF r
<1>3. CASE Loaded(m)
  <2>1. /\ OnGpu' = OnGpu
        /\ \A k \in Gpu : proc'[k] = Loading => proc[k] = Loading
        /\ UNCHANGED <<active, profile, target, drift, pid, misses>>
    BY <1>0, <1>3 DEF Loaded, OnGpu, Running, Gpu, Down, Loading, Up, db, bounds
  <2>2. Turn(r)'
    BY <1>1, <1>2, <2>1
    DEF Turn, LoadFit, Fit, ModeFit, IdleFit, SwapFit, SharedFit, ReadFit,
        Known, Comes, GateFit, Begun, IdlePcs, Exclusive, Gpu
  <2> QED
    BY <2>2 DEF r
<1>4. CASE ServerDies(m)
  <2>1. /\ OnGpu' \subseteq OnGpu
        /\ \A k \in Gpu : proc'[k] = Loading => proc[k] = Loading /\ k # m
        /\ UNCHANGED <<active, profile, target, drift, misses>>
        /\ pid # m => pid' = pid
    BY <1>0, <1>4, KillGpu DEF ServerDies
  <2>2. Turn(r)'
    BY <1>0, <1>1, <1>2, <2>1
    DEF Turn, LoadFit, Fit, ModeFit, IdleFit, SwapFit, SharedFit, ReadFit,
        Known, Comes, GateFit, Begun, IdlePcs, Exclusive, Gpu
  <2> QED
    BY <2>2 DEF r
<1>5. CASE EditConfig(m)
  <2>1. /\ OnGpu' = OnGpu
        /\ UNCHANGED <<proc, active, profile, target, pid, misses>>
        /\ drift \subseteq drift'
    BY <1>5, QuietGpu DEF EditConfig
  <2>2. Turn(r)'
    BY <1>0, <1>1, <1>2, <2>1
    DEF Turn, LoadFit, Fit, ModeFit, IdleFit, SwapFit, SharedFit, ReadFit,
        Known, Comes, GateFit, Begun, IdlePcs, Exclusive, Gpu
  <2> QED
    BY <2>2 DEF r
<1> QED
  BY <1>3, <1>4, <1>5

(* A step of one thread keeps the invariant when threads take turns.       *)
LEMMA ThreadTurn ==
  ASSUME SwitchInv, Turn(Current), OneAtATime, OneAtATime', NEW t \in Threads,
         Works(t) \/ Request(t) \/ MonitorTick(t)
  PROVE  Turn(Current)'
<1>0. Steps(t) /\ th \in [Threads -> Local]
  BY WorksOK, RequestOK, ReconcileOK DEF SwitchInv, ThreadsOK
<1>1. \A u \in Threads : u # t => th'[u] = th[u]
  BY <1>0 DEF Steps
<1>2. /\ Turn(th[t])'
      /\ \A u \in Threads : u # t => th[u].pc = "rest"
  <2>1. CASE ~At(t, "rest")
    <3>1. (CHOOSE u \in Threads : ~At(u, "rest")) = t
      BY <2>1 DEF OneAtATime
    <3>2. Current = th[t]
      BY <2>1, <3>1 DEF Current
    <3>3. Turn(th[t])
      BY <3>2
    <3>4. Works(t)
      BY <2>1 DEF Request, MonitorTick
    <3> QED
      BY <2>1, <3>3, <3>4, WorksTurn DEF OneAtATime, At
  <2>2. CASE At(t, "rest")
    <3>1. Request(t) \/ MonitorTick(t)
      BY <2>2, WorksBusy
    <3>2. Turn(th[t]) => Turn(th[t])'
      BY <2>2, <3>1, RequestTurn DEF At
    <3>3. th'[t].pc # "rest"
      BY <1>0, <2>2, <3>1, RequestMoves
    <3>4. \A u \in Threads : u # t => th[u].pc = "rest"
      BY <1>1, <3>3 DEF OneAtATime, At
    <3>5. Current = Resting
      BY <2>2, <3>4 DEF Current, At
    <3>6. Turn(th[t])
      BY <2>2, <3>5, RestTurn
    <3> QED
      BY <3>2, <3>4, <3>6
  <2> QED
    BY <2>1, <2>2
<1>3. \A u \in Threads : u # t => th'[u].pc = "rest"
  BY <1>1, <1>2
<1>4. CASE th'[t].pc # "rest"
  <2>1. (CHOOSE u \in Threads : ~At(u, "rest"))' = t
    BY <1>3, <1>4 DEF At
  <2>2. Current' = th'[t]
    BY <1>4, <2>1 DEF Current, At
  <2> QED
    BY <1>2, <2>2
<1>5. CASE th'[t].pc = "rest"
  <2>1. Current' = Resting
    BY <1>3, <1>5 DEF Current, At
  <2>2. Turn(Resting)'
    BY <1>2, <1>5
    DEF Turn, LoadFit, Fit, ModeFit, IdleFit, SwapFit, SharedFit, ReadFit,
        Known, Comes, GateFit, Begun, IdlePcs, Exclusive, Gpu, Resting
  <2> QED
    BY <2>1, <2>2
<1> QED
  BY <1>4, <1>5

(* A process that dies with no thread at work changes nothing of it.       *)
LEMMA DiesTurn ==
  ASSUME SwitchInv, Turn(Current), OneAtATime, NEW p \in Procs, Dies(p),
         \A t \in Threads : ProcOf[t] = p => At(t, "rest")
  PROVE  Turn(Current)'
<1>1. \A t \in Threads : th'[t] = IF ProcOf[t] = p THEN Resting ELSE th[t]
  BY DEF Dies
<1>2. \A t \in Threads : At(t, "rest")' <=> At(t, "rest")
  BY <1>1 DEF At, Resting
<1>3. Current' = Current
  <2>1. CASE \A t \in Threads : At(t, "rest")
    BY <1>2, <2>1 DEF Current, Resting
  <2>2. ASSUME NEW t \in Threads, ~At(t, "rest") PROVE Current' = Current
    <3>1. th'[t] = th[t]
      BY <1>1, <2>2
    <3>2. (CHOOSE u \in Threads : ~At(u, "rest")) = t
      BY <2>2 DEF OneAtATime
    <3>3. (CHOOSE u \in Threads : ~At(u, "rest"))' = t
      BY <1>2, <2>2 DEF OneAtATime
    <3> QED
      BY <1>2, <2>2, <3>1, <3>2, <3>3 DEF Current
  <2> QED
    BY <2>1, <2>2
<1>4. /\ OnGpu' = OnGpu
      /\ UNCHANGED <<proc, active, profile, target, drift, pid, misses>>
  BY QuietGpu DEF Dies, db
<1> DEFINE r == Current
<1> HIDE DEF r
<1>5. Turn(r) /\ r' = r
  BY <1>3 DEF r
<1>6. Turn(r)'
  BY <1>4, <1>5
  DEF Turn, LoadFit, Fit, ModeFit, IdleFit, SwapFit, SharedFit, ReadFit,
      Known, Comes, GateFit, Begun, IdlePcs, Exclusive, Gpu
<1> QED
  BY <1>6 DEF r

(* Nothing happens.                                                        *)
LEMMA QuietTurn ==
  ASSUME Turn(Current), UNCHANGED vars
  PROVE  Turn(Current)'
<1> DEFINE r == Current
<1>1. r' = r
  BY DEF vars, Current, At
<1>2. /\ OnGpu' = OnGpu
      /\ UNCHANGED <<proc, active, profile, target, drift, pid, misses>>
  BY QuietGpu DEF vars, db, bounds
<1> HIDE DEF r
<1>3. Turn(r)
  BY DEF r
<1>4. Turn(r)'
  BY <1>1, <1>2, <1>3
  DEF Turn, LoadFit, Fit, ModeFit, IdleFit, SwapFit, SharedFit, ReadFit,
      Known, Comes, GateFit, Begun, IdlePcs, Exclusive, Gpu
<1> QED
  BY <1>4 DEF r

(* What the thread that works knows stays true.                            *)
LEMMA TurnInvariant == Spec /\ InTurn => []Turn(Current)
<1>1. Init => Turn(Current)
  <2> SUFFICES ASSUME Init PROVE Turn(Current)
    OBVIOUS
  <2>1. Current = Resting
    BY DEF Current, Init, At, Resting
  <2>2. OnGpu = {} /\ \A k \in Gpu : proc[k] # Loading
    BY DEF Init, OnGpu, Running, Gpu, Down, Loading
  <2>3. Turn(Resting)
    BY <2>2
    DEF Init, Resting, Turn, LoadFit, Fit, ModeFit, IdleFit, SwapFit, SharedFit, ReadFit,
        Known, Comes, GateFit, Begun, IdlePcs, Exclusive, Gpu
  <2> QED
    BY <2>1, <2>3
<1>2. SwitchInv /\ Turn(Current) /\ OneAtATime /\ OneAtATime' /\ [Next]_vars
        /\ [DiesIdle]_vars => Turn(Current)'
  <2> SUFFICES ASSUME SwitchInv, Turn(Current), OneAtATime, OneAtATime',
                      [Next]_vars, [DiesIdle]_vars
               PROVE  Turn(Current)'
    OBVIOUS
  <2>1. ASSUME NEW p \in Procs, Dies(p), DiesIdle PROVE Turn(Current)'
    BY <2>1, DiesTurn DEF DiesIdle
  <2>2. CASE UNCHANGED vars
    BY <2>2, QuietTurn
  <2> QED
    BY <2>1, <2>2, ThreadTurn, ServerTurn DEF Next
<1> QED
  BY <1>1, <1>2, SwitchInvariant, PTL DEF Spec, InTurn

(***************************************************************************)
(* When requests, commands and ticks do not overlap, no GPU server ever    *)
(* runs beside an exclusive model's: the transition table, the occupancy   *)
(* guard and the clean-ups together keep it out on every path through      *)
(* failures, rollbacks, stops, resets and missed probes.                   *)
(***************************************************************************)
THEOREM OneTenantHolds == Spec /\ InTurn => []OneTenant
<1>1. SwitchInv /\ Turn(Current) => OneTenant
  BY DEF Turn, Fit, OneTenant, OnGpu, Exclusive, Gpu
<1> QED
  BY <1>1, TurnInvariant, SwitchInvariant, PTL

(* Between requests no GPU server runs unlisted, if no probe was missed.   *)
THEOREM GpuAccountedHolds == Spec /\ InTurn => []GpuAccounted
<1>1. Turn(Current) => GpuAccounted
  <2> SUFFICES ASSUME Turn(Current), AtRest, misses = 0
               PROVE  Running \cap Gpu \subseteq active
    BY DEF GpuAccounted
  <2>1. Current = Resting
    BY DEF AtRest, Current
  <2> QED
    BY <2>1 DEF Turn, Known, Comes, Resting, OnGpu
<1> QED
  BY <1>1, TurnInvariant, PTL

(* After a request the gate is open and the profile not SWITCHING, but for *)
(* a restart for changed configuration whose stop failed.                  *)
THEOREM GateReopensHolds == Spec /\ InTurn => []GateReopens
<1>1. Turn(Current) => GateReopens
  <2> SUFFICES ASSUME Turn(Current), AtRest
               PROVE  target = None /\ (profile = "switching" => drift # {})
    BY DEF GateReopens
  <2>1. Current = Resting
    BY DEF AtRest, Current
  <2>2. GateFit(Resting)
    BY <2>1 DEF Turn
  <2>3. ~Begun(Resting)
    BY DEF Begun, Resting
  <2> QED
    BY <2>2, <2>3 DEF GateFit
<1> QED
  BY <1>1, TurnInvariant, PTL

(* What a step of the working thread takes off the list is accounted for.  *)
LEMMA WorksPreserve ==
  ASSUME SwitchInv, NEW t \in Threads, Turn(th[t]), Works(t),
         NEW m \in active \ Gpu
  PROVE  \/ m \in active'
         \/ At(t, "apply") /\ m \notin th[t].seen
         \/ At(t, "failWrite")
         \/ th[t].kind = "reset"
         \/ th[t].kind = "stop" /\ th[t].m = m
<1>0. /\ th[t] \in Local
      /\ Fits(th[t].pc, th[t].kind, th[t].m, th[t].mode, th[t].was)
  BY ThreadFits
<1>1. CASE Switching(t)
  <2>1. CASE Deployed(t)
    <3>1. th[t].pc = "deployed" /\ th[t].m \in Gpu
      BY <1>0, <2>1 DEF Deployed, At, Fits, GpuPcs
    <3>2. active \ Gpu \subseteq th[t].seen
      BY <3>1 DEF Turn, ModeFit, ReadFit
    <3> QED
      BY <2>1, <3>2 DEF Deployed
  <2>2. CASE RetireWrite(t) \/ AddWrite(t)
    BY <2>2 DEF RetireWrite, AddWrite, At, Turn, ReadFit
  <2>3. CASE DeployFailWrite(t)
    BY <2>3 DEF DeployFailWrite
  <2>4. CASE ~Deployed(t) /\ ~RetireWrite(t) /\ ~AddWrite(t) /\ ~DeployFailWrite(t)
    <3>1. UNCHANGED active
      BY <1>1, <2>4 DEF Switching, Enter, Validate, Guard, Gate, Begin, Refused,
         Deploy, DeployRefused, DeployFailStop, RetireStop, Rollback, Add,
         AddRefused, AddRead, Finish, Respond, db
    <3> QED
      BY <3>1
  <2> QED
    BY <2>1, <2>2, <2>3, <2>4
<1>2. CASE Starting(t)
  BY <1>2 DEF Starting, StartHealthy, StartExits, StartTimesOut, Failed, db
<1>3. CASE Reconciling(t)
  BY <1>3 DEF Reconciling, ReconcileScan, ReconcileApply, db
<1>4. CASE Idling(t)
  <2>1. CASE IdleWrite(t)
    BY <2>1 DEF IdleWrite, At, Turn, ReadFit
  <2>2. CASE ~IdleWrite(t)
    BY <1>4, <2>2 DEF Idling, IdleCheck, IdleLock, IdleStop, IdleFreed,
       IdleForced, IdleStuck, db
  <2> QED
    BY <2>1, <2>2
<1>5. CASE Stopping(t)
  <2>1. CASE StopWrite(t)
    BY <1>0, <2>1 DEF StopWrite, At, Turn, ReadFit, Fits, StopPcs
  <2>2. CASE ~StopWrite(t)
    BY <1>5, <2>2 DEF Stopping, StopCheck, StopKill, StopRead, db
  <2> QED
    BY <2>1, <2>2
<1>6. CASE Resetting(t)
  BY <1>0, <1>6 DEF Resetting, ResetStop, ResetKill, ResetWrite, At, Fits
<1> QED
  BY <1>1, <1>2, <1>3, <1>4, <1>5, <1>6 DEF Works

(***************************************************************************)
(* When requests do not overlap, a role-none service that is up stays      *)
(* listed through every switch, swap, rollback and idle, since every write *)
(* of the list starts from what it still says; only its own stop, a reset, *)
(* a scan that missed it and the clean-up of a failed deploy take it off.  *)
(***************************************************************************)
THEOREM NonePreservedHolds == Spec /\ InTurn => NonePreserved
<1> DEFINE Kept ==
      \A m \in (active \cap Serving) \ Gpu :
          \/ m \in active'
          \/ \E t \in Threads :
                \/ At(t, "apply") /\ m \notin th[t].seen
                \/ At(t, "failWrite")
                \/ th[t].kind = "reset"
                \/ th[t].kind = "stop" /\ th[t].m = m
<1>1. SwitchInv /\ Turn(Current) /\ OneAtATime /\ [Next]_vars => [Kept]_vars
  <2> SUFFICES ASSUME SwitchInv, Turn(Current), OneAtATime, Next PROVE Kept
    OBVIOUS
  <2>1. ASSUME NEW t \in Threads, Works(t) PROVE Kept
    <3>1. ~At(t, "rest")
      BY <2>1, WorksBusy
    <3>2. (CHOOSE u \in Threads : ~At(u, "rest")) = t
      BY <3>1 DEF OneAtATime
    <3>3. Current = th[t]
      BY <3>1, <3>2 DEF Current
    <3>4. Turn(th[t])
      BY <3>3
    <3> QED
      BY <2>1, <3>4, WorksPreserve
  <2>2. ASSUME NEW t \in Threads, Request(t) \/ MonitorTick(t) PROVE Kept
    BY <2>2 DEF Request, MonitorTick, db
  <2>3. ASSUME NEW m \in Models, Loaded(m) \/ ServerDies(m) \/ EditConfig(m)
        PROVE  Kept
    BY <2>3 DEF Loaded, ServerDies, EditConfig, db
  <2>4. ASSUME NEW p \in Procs, Dies(p) PROVE Kept
    BY <2>4 DEF Dies, db
  <2> QED
    BY <2>1, <2>2, <2>3, <2>4 DEF Next
<1> QED
  BY <1>1, TurnInvariant, SwitchInvariant, PTL DEF Spec, InTurn, NonePreserved

-----------------------------------------------------------------------------
(* Role-none servers, whatever overlaps.                                   *)

(* The tracked process group is a GPU model's, and only workers stop       *)
(* services or reset.                                                      *)
NoneInv ==
    /\ pid \in Gpu \cup {None, Dead}
    /\ \A t \in Threads : th[t].kind \in {"stop", "reset"} => t \in Workers

(* A thread keeps what it was asked until it rests.                        *)
LEMMA KindKeeps ==
  ASSUME SwitchInv, NEW t \in Threads, Works(t)
  PROVE  th'[t].kind \in {th[t].kind, "none"}
<1>0. th[t] \in Local /\ th \in [Threads -> Local]
  BY DEF SwitchInv, ThreadsOK
<1>1. ASSUME Rest(t) \/ \E l : Goto(t, l) \/ Fail(t, l)
      PROVE  th'[t].kind \in {th[t].kind, "none"}
  <2>1. CASE Rest(t)
    BY <1>0, <2>1 DEF Rest, Resting
  <2>2. ASSUME NEW l, Goto(t, l) \/ Fail(t, l) PROVE th'[t].kind = th[t].kind
    BY <2>2, GotoKeeps, FailKeeps
  <2> QED
    BY <1>1, <2>1, <2>2
<1>2. CASE \/ Validate(t) \/ Deploy(t) \/ Deployed(t) \/ RetireStop(t)
           \/ RetireWrite(t) \/ Add(t) \/ AddRead(t)
           \/ ReconcileScan(t) \/ IdleStop(t) \/ StopRead(t)
  <2>1. CASE Validate(t) \/ Deploy(t) \/ Deployed(t) \/ RetireStop(t) \/ RetireWrite(t)
    BY <1>0, <2>1 DEF Validate, Deploy, Spawn, Deployed, RetireStop, RetireWrite,
       Local
  <2>2. CASE Add(t)
    BY <1>0, <2>2 DEF Add, Spawn, Local
  <2>3. CASE ReconcileScan(t)
    <3>1. PICK seen \in SUBSET Running :
            th' = [th EXCEPT ![t].pc = "apply", ![t].seen = seen, ![t].was = active]
      BY <2>3 DEF ReconcileScan
    <3> QED
      BY <1>0, <3>1 DEF Local
  <2>4. CASE AddRead(t) \/ IdleStop(t) \/ StopRead(t)
    BY <1>0, <2>4 DEF AddRead, IdleStop, StopRead, Local
  <2> QED
    BY <1>2, <2>1, <2>2, <2>3, <2>4
<1>3. CASE Rollback(t)
  <2>1. CASE Goto(t, "finish")
    BY <1>1, <2>1
  <2>2. ASSUME NEW m \in th[t].was,
               th' = [th EXCEPT ![t].pc = "deploy", ![t].m = m, ![t].was = @ \ {m}]
        PROVE  th'[t].kind = th[t].kind
    BY <1>0, <2>2 DEF Local
  <2> QED
    BY <1>3, <2>1, <2>2 DEF Rollback
<1>4. CASE \/ Enter(t) \/ Guard(t) \/ Gate(t) \/ Begin(t) \/ Refused(t)
           \/ DeployRefused(t) \/ DeployFailStop(t) \/ DeployFailWrite(t)
           \/ AddRefused(t) \/ AddWrite(t) \/ Finish(t) \/ Respond(t)
  BY <1>1, <1>4 DEF Enter, Guard, Gate, Begin, Refused, DeployRefused,
     DeployFailStop, DeployFailWrite, AddRefused, AddWrite, Finish, Respond
<1>5. CASE Starting(t) \/ ReconcileApply(t)
  BY <1>1, <1>5 DEF Starting, StartHealthy, StartExits, StartTimesOut, Failed,
     ReconcileApply
<1>6. CASE \/ IdleCheck(t) \/ IdleLock(t) \/ IdleFreed(t) \/ IdleForced(t)
           \/ IdleStuck(t) \/ IdleWrite(t)
  BY <1>1, <1>6 DEF IdleCheck, IdleLock, IdleFreed, IdleForced, IdleStuck,
     IdleWrite, Return
<1>7. CASE StopCheck(t) \/ StopKill(t) \/ StopWrite(t) \/ Resetting(t)
  BY <1>1, <1>7 DEF StopCheck, StopKill, StopWrite, Resetting, ResetStop,
     ResetKill, ResetWrite
<1> QED
  BY <1>2, <1>3, <1>4, <1>5, <1>6, <1>7
  DEF Works, Switching, Reconciling, Idling, Stopping

(* The tracked group stays a GPU model's.                                  *)
LEMMA PidKeeps ==
  ASSUME SwitchInv, NEW t \in Threads, Works(t), pid \in Gpu \cup {None, Dead}
  PROVE  pid' \in Gpu \cup {None, Dead}
<1>1. CASE Deploy(t) \/ Add(t)
  <2>1. th[t].m \in Models
    BY <1>1, ThreadFits DEF Deploy, Add, At, Fits, SwitchPcs, GpuPcs
  <2> QED
    BY <1>1, <2>1 DEF Deploy, Add, Spawn, Gpu
<1>2. CASE Starting(t)
  BY <1>2 DEF Starting, StartHealthy, StartExits, StartTimesOut, StopProcesses, db
<1>3. CASE ReconcileApply(t)
  <2>1. PICK owners \in PortOwners : pid' \in PidsFor(th[t].seen, owners)
    BY <1>3 DEF ReconcileApply
  <2>2. owners \subseteq Gpu
    BY DEF PortOwners
  <2> QED
    BY <2>1, <2>2 DEF PidsFor
<1>4. CASE ~Deploy(t) /\ ~Add(t) /\ ~Starting(t) /\ ~ReconcileApply(t)
  <2>1. pid' \in {pid, None}
    BY <1>4 DEF Works, Switching, Enter, Validate, Guard, Gate, Begin, Refused,
       DeployRefused, DeployFailStop, DeployFailWrite, Deployed, RetireStop,
       RetireWrite, Rollback, AddRefused, AddRead, AddWrite, Finish, Respond,
       Reconciling, ReconcileScan, Idling, IdleCheck, IdleLock, IdleStop, IdleFreed,
       IdleForced, IdleStuck, IdleWrite, Stopping, StopCheck, StopKill, StopRead,
       StopWrite, Resetting, ResetStop, ResetKill, ResetWrite, StopProcesses,
       ForceKill, db
  <2> QED
    BY <2>1
<1> QED
  BY <1>1, <1>2, <1>3, <1>4

(* Both stay so.                                                           *)
LEMMA NoneInvariant == Spec => []NoneInv
<1>1. Init => NoneInv
  BY DEF Init, NoneInv, Resting
<1>2. SwitchInv /\ NoneInv /\ [Next]_vars => NoneInv'
  <2> SUFFICES ASSUME SwitchInv, NoneInv, [Next]_vars PROVE NoneInv'
    OBVIOUS
  <2>0. Gpu' = Gpu
    BY DEF Gpu
  <2>1. ASSUME NEW t \in Threads, Works(t) PROVE NoneInv'
    <3>1. \A u \in Threads : u # t => th'[u] = th[u]
      BY <2>1, WorksOK DEF Steps, SwitchInv, ThreadsOK
    <3>2. th'[t].kind \in {th[t].kind, "none"}
      BY <2>1, KindKeeps
    <3>3. pid' \in Gpu \cup {None, Dead}
      BY <2>1, PidKeeps DEF NoneInv
    <3> QED
      BY <2>0, <3>1, <3>2, <3>3 DEF NoneInv
  <2>2. ASSUME NEW t \in Threads, Request(t) \/ MonitorTick(t) PROVE NoneInv'
    <3>1. \A u \in Threads : u # t => th'[u] = th[u]
      BY <2>2, RequestOK, ReconcileOK DEF Steps, SwitchInv, ThreadsOK
    <3>2. t \in Workers \/ th'[t].kind = "reconcile"
      BY <2>2, ThreadFits DEF Request, MonitorTick, SwitchInv, ThreadsOK, Local
    <3>3. UNCHANGED pid
      BY <2>2 DEF Request, MonitorTick, db
    <3> QED
      BY <2>0, <3>1, <3>2, <3>3 DEF NoneInv
  <2>3. ASSUME NEW m \in Models, Loaded(m) \/ ServerDies(m) \/ EditConfig(m)
        PROVE  NoneInv'
    BY <2>0, <2>3 DEF NoneInv, Loaded, ServerDies, EditConfig, db
  <2>4. ASSUME NEW p \in Procs, Dies(p) PROVE NoneInv'
    BY <2>0, <2>4 DEF NoneInv, Dies, Resting, db
  <2>5. CASE UNCHANGED vars
    BY <2>0, <2>5 DEF NoneInv, vars, db
  <2> QED
    BY <2>1, <2>2, <2>3, <2>4, <2>5 DEF Next
<1> QED
  BY <1>1, <1>2, SwitchInvariant, PTL DEF Spec

(* Whom the stop of some models can hit.                                   *)
LEMMA VictimsAre ==
  ASSUME NEW S, NEW k \in Victims(S)
  PROVE  k \subseteq S \cup {pid}
  BY DEF Victims

(* Which steps of threads stop a role-none server.                         *)
LEMMA WorksDisturb ==
  ASSUME SwitchInv, NoneInv, NEW t \in Threads, Works(t),
         NEW m \in Models \ Gpu, m \in Running, m \notin Running'
  PROVE  \/ faults' > faults
         \/ th[t].kind = "reset"
         \/ th[t].kind = "stop" /\ th[t].m = m
<1>0. /\ Fits(th[t].pc, th[t].kind, th[t].m, th[t].mode, th[t].was)
      /\ faults \in Nat /\ proc[m] # Down /\ m # pid
  BY ThreadFits, NoneAssumption, BoundAssumption
  DEF SwitchInv, SharedOK, NoneInv, Running
<1>1. ASSUME NEW S, m \notin S, \E k \in Victims(S) : Kill(k) PROVE FALSE
  <2>1. PICK k \in Victims(S) : Kill(k)
    BY <1>1
  <2>2. m \notin k
    BY <1>0, <1>1, <2>1, VictimsAre
  <2> QED
    BY <2>1, <2>2, KillGpu
<1>2. ASSUME ForceKill PROVE FALSE
  BY <1>2, KillGpu DEF ForceKill
<1>3. ASSUME UNCHANGED proc PROVE FALSE
  BY <1>3, QuietGpu
<1>4. CASE Switching(t)
  <2>1. CASE Deploy(t) \/ Add(t)
    BY <1>0, <2>1 DEF Deploy, Add, Spawn, SwitchInv, SharedOK, Running, Down, Loading
  <2>2. CASE DeployFailStop(t)
    <3>1. th[t].m \in Gpu
      BY <1>0, <2>2 DEF DeployFailStop, At, Fits, GpuPcs
    <3>2. \E k \in Victims({th[t].m}) : Kill(k)
      BY <2>2 DEF DeployFailStop, StopProcesses
    <3> QED
      BY <1>1, <3>1, <3>2
  <2>3. CASE RetireStop(t)
    <3>1. \E k \in Victims(active \cap Gpu) : Kill(k)
      BY <2>3 DEF RetireStop, StopProcesses
    <3> QED
      BY <1>1, <3>1
  <2>4. CASE ~Deploy(t) /\ ~Add(t) /\ ~DeployFailStop(t) /\ ~RetireStop(t)
    <3>1. UNCHANGED proc
      BY <1>4, <2>4 DEF Switching, Enter, Validate, Guard, Gate, Begin, Refused,
         DeployRefused, DeployFailWrite, Deployed, RetireWrite, Rollback,
         AddRefused, AddRead, AddWrite, Finish, Respond
    <3> QED
      BY <1>3, <3>1
  <2> QED
    BY <2>1, <2>2, <2>3, <2>4
<1>5. CASE Starting(t)
  <2>1. UNCHANGED proc \/ Fault(1)
    BY <1>5 DEF Starting, StartHealthy, StartExits, StartTimesOut
  <2> QED
    BY <1>0, <1>3, <2>1 DEF Fault
<1>6. CASE Reconciling(t)
  BY <1>3, <1>6 DEF Reconciling, ReconcileScan, ReconcileApply
<1>7. CASE Idling(t)
  <2>1. \/ UNCHANGED proc \/ ForceKill
        \/ \E k \in Victims(active \cap Gpu) : Kill(k)
    BY <1>7 DEF Idling, IdleCheck, IdleLock, IdleStop, IdleFreed, IdleForced,
       IdleStuck, IdleWrite
  <2> QED
    BY <1>1, <1>2, <1>3, <2>1
<1>8. CASE Stopping(t)
  <2>1. CASE StopKill(t)
    <3>1. th[t].kind = "stop"
      BY <1>0, <2>1 DEF StopKill, At, Fits, StopPcs
    <3>2. \E k \in Victims({th[t].m}) : Kill(k)
      BY <2>1 DEF StopKill, StopProcesses
    <3> QED
      BY <1>1, <3>1, <3>2
  <2>2. CASE ~StopKill(t)
    BY <1>3, <1>8, <2>2 DEF Stopping, StopCheck, StopRead, StopWrite
  <2> QED
    BY <2>1, <2>2
<1>9. CASE Resetting(t)
  BY <1>0, <1>9 DEF Resetting, ResetStop, ResetKill, ResetWrite, At, Fits
<1> QED
  BY <1>4, <1>5, <1>6, <1>7, <1>8, <1>9 DEF Works

(***************************************************************************)
(* However requests, commands, ticks and deaths overlap, no GPU operation  *)
(* stops a role-none server: what a stop kills besides its own models is   *)
(* the tracked process group, and that is never a role-none server's.      *)
(***************************************************************************)
THEOREM NoneUndisturbedHolds == Spec => NoneUndisturbed
<1> DEFINE Undisturbed ==
      \A m \in Models \ Gpu :
          m \in Running /\ m \notin Running' =>
              \/ faults' > faults
              \/ \E t \in Workers :
                    \/ th[t].kind = "reset"
                    \/ th[t].kind = "stop" /\ th[t].m = m
<1>1. SwitchInv /\ NoneInv /\ [Next]_vars => [Undisturbed]_vars
  <2> SUFFICES ASSUME SwitchInv, NoneInv, Next PROVE Undisturbed
    OBVIOUS
  <2>0. faults \in Nat
    BY BoundAssumption DEF SwitchInv, SharedOK
  <2>1. ASSUME NEW t \in Threads, Works(t) PROVE Undisturbed
    BY <2>1, WorksDisturb DEF NoneInv
  <2>2. ASSUME NEW t \in Threads, Request(t) \/ MonitorTick(t) PROVE Undisturbed
    <3>1. Running' = Running
      BY <2>2, QuietGpu DEF Request, MonitorTick
    <3> QED
      BY <3>1
  <2>3. ASSUME NEW m \in Models, Loaded(m) \/ ServerDies(m) \/ EditConfig(m)
        PROVE  Undisturbed
    <3>1. CASE Loaded(m)
      BY <3>1 DEF Loaded, SwitchInv, SharedOK, Running, Down, Up
    <3>2. CASE ServerDies(m)
      BY <2>0, <3>2 DEF ServerDies, Fault
    <3>3. CASE EditConfig(m)
      BY <3>3, QuietGpu DEF EditConfig
    <3> QED
      BY <2>3, <3>1, <3>2, <3>3
  <2>4. ASSUME NEW p \in Procs, Dies(p) PROVE Undisturbed
    BY <2>4, QuietGpu DEF Dies
  <2> QED
    BY <2>1, <2>2, <2>3, <2>4 DEF Next
<1> QED
  BY <1>1, SwitchInvariant, NoneInvariant, PTL DEF Spec, NoneUndisturbed

(* One thread alone takes turns with itself: with one worker, no monitor   *)
(* and no death the four theorems hold of every behaviour.                 *)
LEMMA AloneInTurn ==
  ASSUME NEW w, Threads = {w}, MaxDeaths = 0
  PROVE  Spec => InTurn
<1>1. OneAtATime
  BY DEF OneAtATime
<1>2. SwitchInv => DiesIdle
  BY BoundAssumption DEF SwitchInv, SharedOK, DiesIdle, Dies
<1> QED
  BY <1>1, <1>2, SwitchInvariant, PTL DEF InTurn

(* So a gateway that handles one request after the other never runs a GPU  *)
(* server beside an exclusive model's, and what it lists agrees with what  *)
(* runs whenever it rests.                                                 *)
THEOREM AloneHolds ==
  ASSUME NEW w, Threads = {w}, MaxDeaths = 0
  PROVE  Spec => /\ []OneTenant /\ []GpuAccounted /\ []GateReopens
                 /\ NonePreserved
<1>1. Spec => InTurn
  BY AloneInTurn
<1> QED
  BY <1>1, OneTenantHolds, GpuAccountedHolds, GateReopensHolds, NonePreservedHolds, PTL

=============================================================================
