------------------------------ MODULE GpuLock -------------------------------
(***************************************************************************)
(* inferfabric/gpu_lock.py: the flock that guards GPU switches.            *)
(*                                                                         *)
(* Every operating-system process (the gateway, each `iff` command) has    *)
(* one GPULock object, shared by all of its threads: an open descriptor    *)
(* _fd and a reentrancy counter.  The object itself takes no mutex, so     *)
(* acquire() and release() are modelled as the separate reads, system      *)
(* calls and writes that the threads of a process interleave (flock(2),    *)
(* open(2) and close(2) drop the interpreter lock).  The kernel keeps one  *)
(* lock per inode, held by one open file description, and a process that   *)
(* dies loses its descriptions.  A description is named by the thread that *)
(* opened it and the inode it is open on.                                  *)
(***************************************************************************)
EXTENDS Naturals, FiniteSets

CONSTANTS
    Procs,          \* operating-system processes
    Threads,        \* threads, of all processes
    ProcOf,         \* the process a thread runs in
    MaxInodes,      \* bound: lock files ever created at the lock path
    MaxCrashes,     \* bound: process deaths
    CanReset        \* does some thread call force_clear()?

ASSUME ProcOfAssumption == ProcOf \in [Threads -> Procs]
ASSUME BoundsAssumption ==
    /\ MaxInodes \in Nat \ {0}
    /\ MaxCrashes \in Nat
    /\ CanReset \in BOOLEAN

VARIABLES
    path,           \* the inode named by the lock path, 0 when unlinked
    created,        \* inodes created so far
    owner,          \* kernel: whose description has the flock of an inode
    fd,             \* GPULock._fd of a process: a description, or NoFd
    count,          \* GPULock._reentrant_count of a process
    tmp,            \* acquire's local fd: the inode it is open on, or 0
    pc,             \* where a thread is in acquire / release / force_clear
    crashes         \* process deaths so far

vars == <<path, created, owner, fd, count, tmp, pc, crashes>>

Inodes == 1 .. MaxInodes
Free == {}              \* owner of an inode nobody has locked
NoFd == [by |-> "none", inode |-> 0]
Fds == {NoFd} \cup [by : Threads, inode : Inodes]

Outside == "outside"            \* not using the lock
Opened == "opened"              \* in acquire, file opened, flock not tried
Locked == "locked"              \* in acquire, flocked, _fd not yet assigned
Inside == "inside"              \* acquire returned True
Unlocked == "unlocked"          \* in release, past LOCK_UN, _fd still set
Closed == "closed"              \* in release, past os.close, _fd still set
Clearing == "clearing"          \* in force_clear, before its release()
ClearUnlocked == "clearUnlocked"
ClearClosed == "clearClosed"
Unlinking == "unlinking"        \* in force_clear, before os.unlink
Locations == {Outside, Opened, Locked, Inside, Unlocked, Closed,
              Clearing, ClearUnlocked, ClearClosed, Unlinking}

Goto(t, from, to) ==
    /\ pc[t] = from
    /\ pc' = [pc EXCEPT ![t] = to]

Init ==
    /\ path = 0
    /\ created = 0
    /\ owner = [i \in Inodes |-> Free]
    /\ fd = [p \in Procs |-> NoFd]
    /\ count = [p \in Procs |-> 0]
    /\ tmp = [t \in Threads |-> 0]
    /\ pc = [t \in Threads |-> Outside]
    /\ crashes = 0

-----------------------------------------------------------------------------
(* acquire(timeout = 0), the only form the gateway calls.                  *)

(* _fd is not None: the counter goes up and the caller is told it holds    *)
(* the lock, whichever thread of the process took it.                      *)
AcquireReentrant(t) ==
    /\ Goto(t, Outside, Inside)
    /\ fd[ProcOf[t]] # NoFd
    /\ count' = [count EXCEPT ![ProcOf[t]] = @ + 1]
    /\ UNCHANGED <<path, created, owner, fd, tmp, crashes>>

(* _fd is None: os.open(..., O_CREAT).                                     *)
AcquireOpen(t) ==
    /\ Goto(t, Outside, Opened)
    /\ fd[ProcOf[t]] = NoFd
    /\ \/ /\ path # 0
          /\ tmp' = [tmp EXCEPT ![t] = path]
          /\ UNCHANGED <<path, created>>
       \/ /\ path = 0
          /\ created < MaxInodes
          /\ created' = created + 1
          /\ path' = created'
          /\ tmp' = [tmp EXCEPT ![t] = created']
    /\ UNCHANGED <<owner, fd, count, crashes>>

(* Mutant: LOCK_SH in place of LOCK_EX.                                    *)
AcquireFlockShared(t) ==
    /\ Goto(t, Opened, Locked)
    /\ owner' = [owner EXCEPT ![tmp[t]] = @ \cup {t}]
    /\ UNCHANGED <<path, created, fd, count, tmp, crashes>>

(* flock(LOCK_EX | LOCK_NB) gets the lock.                                 *)
AcquireFlock(t) ==
    /\ Goto(t, Opened, Locked)
    /\ owner[tmp[t]] = Free
    /\ owner' = [owner EXCEPT ![tmp[t]] = {t}]
    /\ UNCHANGED <<path, created, fd, count, tmp, crashes>>

(* BlockingIOError: another open of the inode holds it; acquire returns    *)
(* False.                                                                  *)
AcquireBusy(t) ==
    /\ Goto(t, Opened, Outside)
    /\ owner[tmp[t]] # Free
    /\ tmp' = [tmp EXCEPT ![t] = 0]
    /\ UNCHANGED <<path, created, owner, fd, count, crashes>>

(* self._fd = fd; return True.                                             *)
AcquirePublish(t) ==
    /\ Goto(t, Locked, Inside)
    /\ fd' = [fd EXCEPT ![ProcOf[t]] = [by |-> t, inode |-> tmp[t]]]
    /\ tmp' = [tmp EXCEPT ![t] = 0]
    /\ UNCHANGED <<path, created, owner, count, crashes>>

-----------------------------------------------------------------------------
(* release(), called by a thread inside the section or by force_clear; the *)
(* thread is at `from` and goes on to `to`.                                *)

(* Mutant: neither LOCK_UN nor close reaches the kernel.                   *)
LoseNothing(d) == owner

(* Unlocking or closing a description drops the lock it has, if any.       *)
LoseLock(d) ==
    [i \in Inodes |-> IF i = d.inode THEN owner[i] \ {d.by} ELSE owner[i]]

(* _fd is None: nothing to do.                                             *)
ReleaseNothing(t, from, to) ==
    /\ Goto(t, from, to)
    /\ fd[ProcOf[t]] = NoFd
    /\ UNCHANGED <<path, created, owner, fd, count, tmp, crashes>>

(* _reentrant_count > 0: still held by an outer acquire.                   *)
ReleaseNested(t, from, to) ==
    /\ Goto(t, from, to)
    /\ fd[ProcOf[t]] # NoFd
    /\ count[ProcOf[t]] > 0
    /\ count' = [count EXCEPT ![ProcOf[t]] = @ - 1]
    /\ UNCHANGED <<path, created, owner, fd, tmp, crashes>>

(* LOCK_UN: the kernel lock is gone while _fd is still set.                *)
ReleaseUnlock(t, from, to) ==
    /\ Goto(t, from, to)
    /\ fd[ProcOf[t]] # NoFd
    /\ count[ProcOf[t]] = 0
    /\ owner' = LoseLock(fd[ProcOf[t]])
    /\ UNCHANGED <<path, created, fd, count, tmp, crashes>>

(* os.close(self._fd), of whatever description _fd denotes by now.         *)
ReleaseClose(t, from, to) ==
    /\ Goto(t, from, to)
    /\ owner' = LoseLock(fd[ProcOf[t]])
    /\ UNCHANGED <<path, created, fd, count, tmp, crashes>>

(* Mutant: the finally clause that clears _fd is missing.                  *)
ReleaseKeepFd(t, from, to) ==
    /\ Goto(t, from, to)
    /\ UNCHANGED <<path, created, owner, fd, count, tmp, crashes>>

(* finally: self._fd = None.                                               *)
ReleaseForget(t, from, to) ==
    /\ Goto(t, from, to)
    /\ fd' = [fd EXCEPT ![ProcOf[t]] = NoFd]
    /\ UNCHANGED <<path, created, owner, count, tmp, crashes>>

Release(t) ==
    \/ ReleaseNothing(t, Inside, Outside)
    \/ ReleaseNested(t, Inside, Outside)
    \/ ReleaseUnlock(t, Inside, Unlocked)
    \/ ReleaseClose(t, Unlocked, Closed)
    \/ ReleaseForget(t, Closed, Outside)

-----------------------------------------------------------------------------
(* force_clear(): a release() the caller may not be entitled to, then the  *)
(* lock file is unlinked whatever process has it locked.                   *)
ForceClearStart(t) ==
    /\ CanReset
    /\ created < MaxInodes
    /\ Goto(t, Outside, Clearing)
    /\ UNCHANGED <<path, created, owner, fd, count, tmp, crashes>>

ForceClearUnlink(t) ==
    /\ Goto(t, Unlinking, Outside)
    /\ path' = 0
    /\ UNCHANGED <<created, owner, fd, count, tmp, crashes>>

ForceClear(t) ==
    \/ ForceClearStart(t)
    \/ ReleaseNothing(t, Clearing, Unlinking)
    \/ ReleaseNested(t, Clearing, Unlinking)
    \/ ReleaseUnlock(t, Clearing, ClearUnlocked)
    \/ ReleaseClose(t, ClearUnlocked, ClearClosed)
    \/ ReleaseForget(t, ClearClosed, Unlinking)
    \/ ForceClearUnlink(t)

-----------------------------------------------------------------------------
(* "flock auto-releases on process death": the process dies (and may be    *)
(* started again with a fresh GPULock).                                    *)
Crash(p) ==
    /\ crashes < MaxCrashes
    /\ crashes' = crashes + 1
    /\ owner' = [i \in Inodes |-> {t \in owner[i] : ProcOf[t] # p}]
    /\ fd' = [fd EXCEPT ![p] = NoFd]
    /\ count' = [count EXCEPT ![p] = 0]
    /\ tmp' = [t \in Threads |-> IF ProcOf[t] = p THEN 0 ELSE tmp[t]]
    /\ pc' = [t \in Threads |-> IF ProcOf[t] = p THEN Outside ELSE pc[t]]
    /\ UNCHANGED <<path, created>>

Acquire(t) ==
    \/ AcquireReentrant(t)
    \/ AcquireOpen(t)
    \/ AcquireFlock(t)
    \/ AcquireBusy(t)
    \/ AcquirePublish(t)

Next ==
    \/ \E t \in Threads : Acquire(t) \/ Release(t) \/ ForceClear(t)
    \/ \E p \in Procs : Crash(p)

Spec == Init /\ [][Next]_vars

(* A thread that has begun acquire() or holds the lock goes on: no step of *)
(* gpu_lock.py waits, and every caller releases in a finally clause.       *)
Busy(t) ==
    \/ AcquireFlock(t) \/ AcquireBusy(t) \/ AcquirePublish(t)
    \/ Release(t)
FairSpec == Spec /\ \A t \in Threads : WF_vars(Busy(t))

-----------------------------------------------------------------------------
TypeOK ==
    /\ path \in 0 .. MaxInodes
    /\ created \in 0 .. MaxInodes
    /\ owner \in [Inodes -> SUBSET Threads]
    /\ fd \in [Procs -> Fds]
    /\ count \in [Procs -> Nat]
    /\ tmp \in [Threads -> 0 .. MaxInodes]
    /\ pc \in [Threads -> Locations]
    /\ crashes \in 0 .. MaxCrashes

\* Every process runs one thread.
SingleThreaded ==
    \A t, u \in Threads : ProcOf[t] = ProcOf[u] => t = u

ThreadsOf(p) == {t \in Threads : ProcOf[t] = p}

(***************************************************************************)
(* "GPU mutual exclusion via flock": threads of two processes are never    *)
(* both told that they hold the lock.                                      *)
(***************************************************************************)
ProcessExclusion ==
    \A t, u \in Threads :
        pc[t] = Inside /\ pc[u] = Inside => ProcOf[t] = ProcOf[u]

(***************************************************************************)
(* "only truly releases when all acquire() calls are matched" and, by the  *)
(* same sentence, then it does: a process none of whose threads uses the   *)
(* lock has no flock, so the lock is there for the next process to take.   *)
(***************************************************************************)
NoLeakedLock ==
    \A p \in Procs :
        (\A t \in ThreadsOf(p) : pc[t] = Outside)
            => \A i \in Inodes : owner[i] \cap ThreadsOf(p) = {}

(***************************************************************************)
(* is_held tells the truth: but for the window inside release(), a process *)
(* whose _fd is set has the kernel lock behind it.  _shared_add_service    *)
(* refuses to run unless is_held.                                          *)
(***************************************************************************)
Releasing == {Unlocked, Closed, ClearUnlocked, ClearClosed}
HeldIsLocked ==
    \A p \in Procs :
        fd[p] # NoFd /\ (\A t \in ThreadsOf(p) : pc[t] \notin Releasing)
            => fd[p].by \in owner[fd[p].inode]

(***************************************************************************)
(* A process that has the flock gives it up again: every acquire() of the  *)
(* gateway is paired with a release() in a finally clause.                 *)
(***************************************************************************)
HasFlock(p) == \E i \in Inodes : owner[i] \cap ThreadsOf(p) # {}
LockReturned == \A p \in Procs : HasFlock(p) ~> ~HasFlock(p)

(***************************************************************************)
(* With one thread a process (every `iff` command; a gateway that serves   *)
(* one request at a time) the lock implements the mutex it promises to be. *)
(***************************************************************************)
Mutex == INSTANCE GpuMutex WITH
    Users <- Threads,
    inside <- {t \in Threads : pc[t] \in {Locked, Inside}}
ImplementsMutex == Mutex!Spec
=============================================================================
