--------------------------- MODULE GpuLockProofs ----------------------------
(***************************************************************************)
(* Proofs about GpuLock, for any number of processes, threads and lock     *)
(* files.                                                                  *)
(***************************************************************************)
EXTENDS GpuLock, TLAPS

-----------------------------------------------------------------------------
(* HeldIsLocked is not inductive: between flock() and the assignment of    *)
(* _fd only the thread knows which inode the process owns, and release()   *)
(* of another thread must not be able to take that lock away.              *)

\* _fd was opened by a thread of its own process.
FdsAreOwn ==
    \A p \in Procs : fd[p] # NoFd => ProcOf[fd[p].by] = p

\* A thread in acquire() has a file open, and it is not the published one.
AcquiringIsPrivate ==
    \A t \in Threads : pc[t] \in {Opened, Locked} =>
        /\ tmp[t] \in Inodes
        /\ fd[ProcOf[t]] # NoFd => fd[ProcOf[t]].by # t

\* Past flock() the thread owns the inode.
LockedIsOwner ==
    \A t \in Threads : pc[t] = Locked => t \in owner[tmp[t]]

HeldInv ==
    /\ TypeOK
    /\ FdsAreOwn
    /\ AcquiringIsPrivate
    /\ LockedIsOwner
    /\ HeldIsLocked

(***************************************************************************)
(* A description that is not None was opened by a thread on an inode.      *)
(***************************************************************************)
LEMMA FdFields ==
  ASSUME NEW d \in Fds, d # NoFd
  PROVE  d.by \in Threads /\ d.inode \in Inodes
  BY DEF Fds

(***************************************************************************)
(* The initial state satisfies the invariant.                              *)
(***************************************************************************)
LEMMA HeldInit == Init => HeldInv
<1> SUFFICES ASSUME Init PROVE HeldInv
  OBVIOUS
<1>1. TypeOK
  BY ProcOfAssumption, BoundsAssumption
  DEF Init, TypeOK, Inodes, Free, Fds, Locations
<1>2. FdsAreOwn /\ HeldIsLocked
  BY DEF Init, FdsAreOwn, HeldIsLocked
<1>3. AcquiringIsPrivate /\ LockedIsOwner
  BY DEF Init, AcquiringIsPrivate, LockedIsOwner, Outside, Opened, Locked
<1> QED
  BY <1>1, <1>2, <1>3 DEF HeldInv

(***************************************************************************)
(* acquire() keeps the invariant.                                          *)
(***************************************************************************)
LEMMA HeldAcquire ==
  ASSUME HeldInv, NEW t \in Threads, Acquire(t)
  PROVE  HeldInv'
<1> USE ProcOfAssumption, BoundsAssumption
    DEF Goto, Outside, Opened, Locked, Inside, Unlocked, Closed,
        Clearing, ClearUnlocked, ClearClosed, Unlinking
<1>0. /\ TypeOK /\ FdsAreOwn /\ AcquiringIsPrivate
      /\ LockedIsOwner /\ HeldIsLocked
  BY DEF HeldInv
<1>1. CASE AcquireReentrant(t)
  <2>1. TypeOK'
    BY <1>0, <1>1 DEF AcquireReentrant, TypeOK, Locations
  <2>2. FdsAreOwn'
    BY <1>0, <1>1 DEF AcquireReentrant, FdsAreOwn
  <2>3. AcquiringIsPrivate'
    BY <1>0, <1>1 DEF AcquireReentrant, AcquiringIsPrivate, TypeOK
  <2>4. LockedIsOwner'
    BY <1>0, <1>1 DEF AcquireReentrant, LockedIsOwner, TypeOK
  <2>5. HeldIsLocked'
    BY <1>0, <1>1 DEF AcquireReentrant, HeldIsLocked, TypeOK, ThreadsOf, Releasing
  <2> QED
    BY <2>1, <2>2, <2>3, <2>4, <2>5 DEF HeldInv
<1>2. CASE AcquireOpen(t)
  <2>1. TypeOK'
    BY <1>0, <1>2 DEF AcquireOpen, TypeOK, Locations
  <2>2. FdsAreOwn'
    BY <1>0, <1>2 DEF AcquireOpen, FdsAreOwn
  <2>3. AcquiringIsPrivate'
    BY <1>0, <1>2 DEF AcquireOpen, AcquiringIsPrivate, TypeOK, Inodes
  <2>4. LockedIsOwner'
    BY <1>0, <1>2 DEF AcquireOpen, LockedIsOwner, TypeOK
  <2>5. HeldIsLocked'
    BY <1>0, <1>2 DEF AcquireOpen, HeldIsLocked, TypeOK, ThreadsOf, Releasing
  <2> QED
    BY <2>1, <2>2, <2>3, <2>4, <2>5 DEF HeldInv
<1>3. CASE AcquireFlock(t)
  <2>1. TypeOK'
    BY <1>0, <1>3 DEF AcquireFlock, TypeOK, Locations
  <2>2. FdsAreOwn'
    BY <1>0, <1>3 DEF AcquireFlock, FdsAreOwn
  <2>3. AcquiringIsPrivate'
    BY <1>0, <1>3 DEF AcquireFlock, AcquiringIsPrivate, TypeOK
  <2>4. LockedIsOwner'
    BY <1>0, <1>3 DEF AcquireFlock, LockedIsOwner, AcquiringIsPrivate, TypeOK, Free
  <2>5. HeldIsLocked'
    BY <1>0, <1>3 DEF AcquireFlock, HeldIsLocked, TypeOK, ThreadsOf, Releasing, Free, Fds
  <2> QED
    BY <2>1, <2>2, <2>3, <2>4, <2>5 DEF HeldInv
<1>4. CASE AcquireBusy(t)
  <2>1. TypeOK'
    BY <1>0, <1>4 DEF AcquireBusy, TypeOK, Locations
  <2>2. FdsAreOwn'
    BY <1>0, <1>4 DEF AcquireBusy, FdsAreOwn
  <2>3. AcquiringIsPrivate'
    BY <1>0, <1>4 DEF AcquireBusy, AcquiringIsPrivate, TypeOK
  <2>4. LockedIsOwner'
    BY <1>0, <1>4 DEF AcquireBusy, LockedIsOwner, TypeOK
  <2>5. HeldIsLocked'
    BY <1>0, <1>4 DEF AcquireBusy, HeldIsLocked, TypeOK, ThreadsOf, Releasing
  <2> QED
    BY <2>1, <2>2, <2>3, <2>4, <2>5 DEF HeldInv
<1>5. CASE AcquirePublish(t)
  <2>0. tmp[t] \in Inodes /\ t \in owner[tmp[t]]
    BY <1>0, <1>5 DEF AcquirePublish, AcquiringIsPrivate, LockedIsOwner
  <2>1. TypeOK'
    BY <1>0, <1>5, <2>0 DEF AcquirePublish, TypeOK, Locations, Fds
  <2>2. FdsAreOwn'
    BY <1>0, <1>5 DEF AcquirePublish, FdsAreOwn, TypeOK
  <2>3. AcquiringIsPrivate'
    BY <1>0, <1>5 DEF AcquirePublish, AcquiringIsPrivate, TypeOK
  <2>4. LockedIsOwner'
    BY <1>0, <1>5 DEF AcquirePublish, LockedIsOwner, TypeOK
  <2>5. HeldIsLocked'
    BY <1>0, <1>5, <2>0 DEF AcquirePublish, HeldIsLocked, TypeOK, ThreadsOf, Releasing
  <2> QED
    BY <2>1, <2>2, <2>3, <2>4, <2>5 DEF HeldInv
<1> QED
  BY <1>1, <1>2, <1>3, <1>4, <1>5 DEF Acquire

(***************************************************************************)
(* What a thread of p does to owner takes nothing from other processes:    *)
(* the description release() unlocks or closes is one of its own process.  *)
(***************************************************************************)
LEMMA LoseLockOwn ==
  ASSUME TypeOK, NEW d, NEW i \in Inodes, NEW u \in owner[i], u # d.by
  PROVE  u \in LoseLock(d)[i]
  BY DEF LoseLock

(***************************************************************************)
(* A step of release() or force_clear() that leaves _fd alone and takes no *)
(* lock away: nothing to do, a nested release, and the bookkeeping around. *)
(***************************************************************************)
LEMMA HeldQuiet ==
  ASSUME HeldInv, NEW t \in Threads, NEW from \in Locations, NEW to \in Locations,
         Goto(t, from, to), from \notin Releasing,
         to \notin {Opened, Locked},
         fd' = fd, owner' = owner, tmp' = tmp, crashes' = crashes,
         path' \in 0 .. MaxInodes, created' \in 0 .. MaxInodes,
         count' \in [Procs -> Nat]
  PROVE  HeldInv'
<1> USE DEF HeldInv
<1>1. TypeOK'
  BY DEF TypeOK, Goto
<1>2. FdsAreOwn'
  BY DEF FdsAreOwn
<1>3. AcquiringIsPrivate'
  BY DEF AcquiringIsPrivate, TypeOK, Goto
<1>4. LockedIsOwner'
  BY DEF LockedIsOwner, TypeOK, Goto
<1>5. HeldIsLocked'
  BY DEF HeldIsLocked, TypeOK, Goto, ThreadsOf
<1> QED
  BY <1>1, <1>2, <1>3, <1>4, <1>5

(***************************************************************************)
(* A step of release() or force_clear() that unlocks or closes _fd: the    *)
(* lock goes, but the thread is now inside the release window.             *)
(***************************************************************************)
LEMMA HeldLoses ==
  ASSUME HeldInv, NEW t \in Threads, NEW from \in Locations, NEW to \in Releasing,
         Goto(t, from, to),
         owner' = LoseLock(fd[ProcOf[t]]),
         UNCHANGED <<path, created, fd, count, tmp, crashes>>
  PROVE  HeldInv'
<1> USE ProcOfAssumption DEF HeldInv
<1> DEFINE p == ProcOf[t]
<1>0. p \in Procs /\ fd[p] \in Fds
  BY DEF TypeOK
<1>1. TypeOK'
  BY DEF TypeOK, Goto, LoseLock, Releasing, Locations
<1>2. FdsAreOwn'
  BY DEF FdsAreOwn
<1>3. AcquiringIsPrivate'
  BY DEF AcquiringIsPrivate, TypeOK, Goto, Releasing, Opened, Locked,
         Unlocked, Closed, ClearUnlocked, ClearClosed
<1>4. LockedIsOwner'
  <2> SUFFICES ASSUME NEW u \in Threads, pc'[u] = Locked
               PROVE  u \in owner'[tmp[u]]
    BY DEF LockedIsOwner
  <2>1. pc[u] = Locked /\ u # t
    BY DEF TypeOK, Goto, Releasing, Locked, Unlocked, Closed,
           ClearUnlocked, ClearClosed
  <2>2. tmp[u] \in Inodes /\ u \in owner[tmp[u]]
    BY <2>1 DEF AcquiringIsPrivate, LockedIsOwner
  <2>3. CASE fd[p] = NoFd
    BY <2>2, <2>3 DEF LoseLock, NoFd, Inodes
  <2>4. CASE fd[p] # NoFd
    <3>1. ProcOf[fd[p].by] = p
      BY <1>0, <2>4 DEF FdsAreOwn
    <3>2. fd[p].by # u
      BY <2>1, <2>4, <3>1 DEF AcquiringIsPrivate
    <3> QED
      BY <2>2, <3>2, LoseLockOwn
  <2> QED
    BY <2>3, <2>4
<1>5. HeldIsLocked'
  <2> SUFFICES ASSUME NEW q \in Procs, fd[q] # NoFd,
                      \A u \in ThreadsOf(q) : pc'[u] \notin Releasing
               PROVE  fd[q].by \in owner'[fd[q].inode]
    BY DEF HeldIsLocked
  <2>1. q # p
    BY DEF ThreadsOf, Goto, TypeOK
  <2>2. \A u \in ThreadsOf(q) : pc[u] \notin Releasing
    BY <2>1 DEF ThreadsOf, Goto, TypeOK
  <2>3. fd[q].by \in owner[fd[q].inode]
    BY <2>2 DEF HeldIsLocked
  <2>4. fd[q].inode \in Inodes /\ ProcOf[fd[q].by] = q
    BY FdFields DEF TypeOK, FdsAreOwn
  <2>5. CASE fd[p] = NoFd
    BY <2>3, <2>4, <2>5 DEF LoseLock, NoFd, Inodes
  <2>6. CASE fd[p] # NoFd
    <3>1. fd[p].by # fd[q].by
      BY <1>0, <2>1, <2>4, <2>6 DEF FdsAreOwn
    <3> QED
      BY <2>3, <2>4, <3>1, LoseLockOwn
  <2> QED
    BY <2>5, <2>6
<1> QED
  BY <1>1, <1>2, <1>3, <1>4, <1>5

(***************************************************************************)
(* The finally clause of release(): _fd is None again.                     *)
(***************************************************************************)
LEMMA HeldForget ==
  ASSUME HeldInv, NEW t \in Threads, NEW from \in Locations, NEW to \in Locations,
         to \notin {Opened, Locked},
         ReleaseForget(t, from, to)
  PROVE  HeldInv'
<1> USE ProcOfAssumption DEF HeldInv, ReleaseForget
<1>1. TypeOK'
  BY DEF TypeOK, Goto, Fds
<1>2. FdsAreOwn'
  BY DEF FdsAreOwn, TypeOK
<1>3. AcquiringIsPrivate'
  BY DEF AcquiringIsPrivate, TypeOK, Goto
<1>4. LockedIsOwner'
  BY DEF LockedIsOwner, TypeOK, Goto
<1>5. HeldIsLocked'
  BY DEF HeldIsLocked, TypeOK, Goto, ThreadsOf
<1> QED
  BY <1>1, <1>2, <1>3, <1>4, <1>5

(***************************************************************************)
(* release() keeps the invariant.                                          *)
(***************************************************************************)
LEMMA HeldRelease ==
  ASSUME HeldInv, NEW t \in Threads, Release(t)
  PROVE  HeldInv'
<1> USE ProcOfAssumption
    DEF Locations, Releasing, Outside, Opened, Locked, Inside, Unlocked,
        Closed, Clearing, ClearUnlocked, ClearClosed, Unlinking
<1>0. TypeOK
  BY DEF HeldInv
<1>1. CASE ReleaseNothing(t, Inside, Outside)
  BY <1>0, <1>1, HeldQuiet DEF ReleaseNothing, TypeOK
<1>2. CASE ReleaseNested(t, Inside, Outside)
  BY <1>0, <1>2, HeldQuiet DEF ReleaseNested, TypeOK
<1>3. CASE ReleaseUnlock(t, Inside, Unlocked)
  BY <1>3, HeldLoses DEF ReleaseUnlock
<1>4. CASE ReleaseClose(t, Unlocked, Closed)
  BY <1>4, HeldLoses DEF ReleaseClose
<1>5. CASE ReleaseForget(t, Closed, Outside)
  BY <1>5, HeldForget
<1> QED
  BY <1>1, <1>2, <1>3, <1>4, <1>5 DEF Release

(***************************************************************************)
(* force_clear() keeps the invariant: it may take the lock away from a     *)
(* thread that uses it, but never leaves _fd set on a lock that is gone.   *)
(***************************************************************************)
LEMMA HeldForceClear ==
  ASSUME HeldInv, NEW t \in Threads, ForceClear(t)
  PROVE  HeldInv'
<1> USE ProcOfAssumption, BoundsAssumption
    DEF Locations, Releasing, Outside, Opened, Locked, Inside, Unlocked,
        Closed, Clearing, ClearUnlocked, ClearClosed, Unlinking
<1>0. TypeOK
  BY DEF HeldInv
<1>1. CASE ForceClearStart(t)
  BY <1>0, <1>1, HeldQuiet DEF ForceClearStart, TypeOK
<1>2. CASE ReleaseNothing(t, Clearing, Unlinking)
  BY <1>0, <1>2, HeldQuiet DEF ReleaseNothing, TypeOK
<1>3. CASE ReleaseNested(t, Clearing, Unlinking)
  BY <1>0, <1>3, HeldQuiet DEF ReleaseNested, TypeOK
<1>4. CASE ReleaseUnlock(t, Clearing, ClearUnlocked)
  BY <1>4, HeldLoses DEF ReleaseUnlock
<1>5. CASE ReleaseClose(t, ClearUnlocked, ClearClosed)
  BY <1>5, HeldLoses DEF ReleaseClose
<1>6. CASE ReleaseForget(t, ClearClosed, Unlinking)
  BY <1>6, HeldForget
<1>7. CASE ForceClearUnlink(t)
  BY <1>0, <1>7, HeldQuiet DEF ForceClearUnlink, TypeOK
<1> QED
  BY <1>1, <1>2, <1>3, <1>4, <1>5, <1>6, <1>7 DEF ForceClear

(***************************************************************************)
(* The death of a process keeps the invariant for the others.              *)
(***************************************************************************)
LEMMA HeldCrash ==
  ASSUME HeldInv, NEW p \in Procs, Crash(p)
  PROVE  HeldInv'
<1> USE ProcOfAssumption, BoundsAssumption DEF HeldInv, Crash
<1>1. TypeOK'
  BY DEF TypeOK, Fds, Locations, Inodes
<1>2. FdsAreOwn'
  BY DEF FdsAreOwn, TypeOK
<1>3. AcquiringIsPrivate'
  BY DEF AcquiringIsPrivate, TypeOK, Outside, Opened, Locked
<1>4. LockedIsOwner'
  BY DEF LockedIsOwner, AcquiringIsPrivate, TypeOK, Outside, Opened, Locked
<1>5. HeldIsLocked'
  <2> SUFFICES ASSUME NEW q \in Procs, fd'[q] # NoFd,
                      \A u \in ThreadsOf(q) : pc'[u] \notin Releasing
               PROVE  fd'[q].by \in owner'[fd'[q].inode]
    BY DEF HeldIsLocked
  <2>1. q # p /\ fd'[q] = fd[q]
    BY DEF TypeOK
  <2>2. \A u \in ThreadsOf(q) : pc[u] \notin Releasing
    BY <2>1 DEF ThreadsOf, TypeOK
  <2>3. fd[q].by \in owner[fd[q].inode]
    BY <2>1, <2>2 DEF HeldIsLocked
  <2>4. fd[q].inode \in Inodes /\ ProcOf[fd[q].by] = q
    BY <2>1, FdFields DEF TypeOK, FdsAreOwn
  <2> QED
    BY <2>1, <2>3, <2>4
<1> QED
  BY <1>1, <1>2, <1>3, <1>4, <1>5

(***************************************************************************)
(* The strengthened invariant holds of the lock.                           *)
(***************************************************************************)
LEMMA HeldInvariant == Spec => []HeldInv
<1>1. HeldInv /\ [Next]_vars => HeldInv'
  <2> SUFFICES ASSUME HeldInv, [Next]_vars PROVE HeldInv'
    OBVIOUS
  <2>1. CASE \E t \in Threads : Acquire(t) \/ Release(t) \/ ForceClear(t)
    BY <2>1, HeldAcquire, HeldRelease, HeldForceClear
  <2>2. CASE \E p \in Procs : Crash(p)
    BY <2>2, HeldCrash
  <2>3. CASE UNCHANGED vars
    BY <2>3 DEF vars, HeldInv, TypeOK, FdsAreOwn, AcquiringIsPrivate,
                LockedIsOwner, HeldIsLocked, ThreadsOf
  <2> QED
    BY <2>1, <2>2, <2>3 DEF Next
<1> QED
  BY HeldInit, <1>1, PTL DEF Spec

(***************************************************************************)
(* Every variable of the lock keeps its type: the counter never goes below *)
(* zero, and _fd is None or a description some thread opened.              *)
(***************************************************************************)
THEOREM TypeCorrect == Spec => []TypeOK
  BY HeldInvariant, PTL DEF HeldInv

(***************************************************************************)
(* is_held never lies outside the window of a release(): for any number of *)
(* threads, whatever force_clear() and process deaths do, a set _fd has    *)
(* the kernel lock behind it.                                              *)
(***************************************************************************)
THEOREM HeldIsLockedHolds == Spec => []HeldIsLocked
  BY HeldInvariant, PTL DEF HeldInv

-----------------------------------------------------------------------------
(* With one thread a process and no force_clear() the lock is a mutex.     *)
(* There is then one inode, no nested acquire(), and whoever is between    *)
(* flock() and LOCK_UN is its only owner.                                  *)

Using == {Inside, Unlocked, Closed}

\* One inode, no nesting, and the owner is the thread past flock().
SingleOwner ==
    /\ created \in {0, 1} /\ path = created
    /\ \A p \in Procs : count[p] = 0
    /\ \A t \in Threads :
        /\ pc[t] \in {Outside, Opened, Locked} \cup Using
        /\ pc[t] \in {Opened, Locked} => tmp[t] = 1
        /\ pc[t] \in {Locked, Inside} => owner[1] = {t}
        /\ pc[t] \in Using => fd[ProcOf[t]] = [by |-> t, inode |-> 1]
    /\ \A i \in Inodes : \A u \in owner[i] :
          i = 1 /\ pc[u] \in {Locked, Inside}

\* _fd is set only while the thread of the process uses the lock.
FdInUse ==
    \A p \in Procs : fd[p] # NoFd => \E u \in ThreadsOf(p) : pc[u] \in Using

SingleInv == HeldInv /\ SingleOwner /\ FdInUse

(***************************************************************************)
(* Whoever is inside, or about to be, is the only one.                     *)
(***************************************************************************)
LEMMA SingleExcludes ==
  ASSUME SingleInv, NEW t \in Threads, NEW u \in Threads,
         pc[t] \in {Locked, Inside}, pc[u] \in {Locked, Inside}
  PROVE  t = u
<1>1. owner[1] = {t} /\ owner[1] = {u}
  BY DEF SingleInv, SingleOwner
<1> QED
  BY <1>1

(***************************************************************************)
(* acquire() keeps it: the nested branch is out of reach of a process      *)
(* whose only thread is outside, and flock() succeeds only on a free inode.*)
(***************************************************************************)
LEMMA SingleAcquire ==
  ASSUME SingleThreaded, SingleInv, NEW t \in Threads, Acquire(t)
  PROVE  SingleOwner' /\ FdInUse'
<1> USE ProcOfAssumption, BoundsAssumption
    DEF SingleInv, SingleOwner, FdInUse, Using, Goto, ThreadsOf,
        Outside, Opened, Locked, Inside, Unlocked, Closed
<1>0. TypeOK /\ 1 \in Inodes
  BY DEF HeldInv, Inodes
<1>1. CASE AcquireReentrant(t)
  <2>1. PICK u \in ThreadsOf(ProcOf[t]) : pc[u] \in Using
    BY <1>1 DEF AcquireReentrant
  <2>2. u = t
    BY DEF SingleThreaded
  <2> QED
    BY <1>1, <2>1, <2>2 DEF AcquireReentrant
<1>2. CASE AcquireOpen(t)
  BY <1>0, <1>2 DEF AcquireOpen, TypeOK
<1>3. CASE AcquireFlock(t)
  <2>0. tmp[t] = 1 /\ owner[1] = {}
    BY <1>3 DEF AcquireFlock, Free
  <2>1. \A i \in Inodes : owner'[i] = IF i = 1 THEN {t} ELSE {}
    BY <1>0, <1>3, <2>0 DEF AcquireFlock, TypeOK
  <2>2. \A u \in Threads : pc[u] \notin {Locked, Inside}
    BY <2>0
  <2> QED
    BY <1>0, <1>3, <2>0, <2>1, <2>2 DEF AcquireFlock, TypeOK
<1>4. CASE AcquireBusy(t)
  BY <1>0, <1>4 DEF AcquireBusy, TypeOK
<1>5. CASE AcquirePublish(t)
  BY <1>0, <1>5 DEF AcquirePublish, TypeOK, SingleThreaded
<1> QED
  BY <1>1, <1>2, <1>3, <1>4, <1>5 DEF Acquire

(***************************************************************************)
(* release() keeps it: it unlocks the thread's own description, so another *)
(* thread that is past flock() stays the owner.                            *)
(***************************************************************************)
LEMMA SingleRelease ==
  ASSUME SingleThreaded, SingleInv, NEW t \in Threads, Release(t)
  PROVE  SingleOwner' /\ FdInUse'
<1> USE ProcOfAssumption, BoundsAssumption
    DEF SingleInv, SingleOwner, FdInUse, Using, Goto, ThreadsOf,
        Outside, Opened, Locked, Inside, Unlocked, Closed
<1>0. TypeOK /\ 1 \in Inodes /\ ProcOf[t] \in Procs
  BY DEF HeldInv, Inodes
<1>1. pc[t] \in Using /\ fd[ProcOf[t]] = [by |-> t, inode |-> 1]
  BY DEF Release, ReleaseNothing, ReleaseNested, ReleaseUnlock,
         ReleaseClose, ReleaseForget
<1>2. \A u \in Threads : u # t /\ owner[1] = {u}
        => LoseLock(fd[ProcOf[t]])[1] = {u}
  BY <1>0, <1>1 DEF LoseLock
<1>3. \A i \in Inodes : \A u \in LoseLock(fd[ProcOf[t]])[i] :
        u # t /\ u \in owner[i] /\ i = 1 /\ pc[u] \in {Locked, Inside}
  <2> SUFFICES ASSUME NEW i \in Inodes, NEW u \in LoseLock(fd[ProcOf[t]])[i]
               PROVE  u # t /\ u \in owner[i] /\ i = 1
                         /\ pc[u] \in {Locked, Inside}
    OBVIOUS
  <2>1. CASE i = 1
    BY <1>1, <2>1 DEF LoseLock
  <2>2. CASE i # 1
    BY <1>1, <2>2 DEF LoseLock
  <2> QED
    BY <2>1, <2>2
<1>4. CASE ReleaseNothing(t, Inside, Outside)
  BY <1>0, <1>1, <1>4 DEF ReleaseNothing, NoFd
<1>5. CASE ReleaseNested(t, Inside, Outside)
  BY <1>0, <1>5 DEF ReleaseNested
<1>6. CASE ReleaseUnlock(t, Inside, Unlocked)
  BY <1>0, <1>1, <1>2, <1>6, <1>3 DEF ReleaseUnlock, TypeOK
<1>7. CASE ReleaseClose(t, Unlocked, Closed)
  BY <1>0, <1>1, <1>2, <1>7, <1>3 DEF ReleaseClose, TypeOK
<1>8. CASE ReleaseForget(t, Closed, Outside)
  BY <1>0, <1>8 DEF ReleaseForget, TypeOK, SingleThreaded
<1> QED
  BY <1>4, <1>5, <1>6, <1>7, <1>8 DEF Release

(***************************************************************************)
(* The death of a process keeps it.                                        *)
(***************************************************************************)
LEMMA SingleCrash ==
  ASSUME SingleThreaded, SingleInv, NEW p \in Procs, Crash(p)
  PROVE  SingleOwner' /\ FdInUse'
<1> USE ProcOfAssumption, BoundsAssumption
    DEF SingleInv, SingleOwner, FdInUse, Using, ThreadsOf, Crash,
        Outside, Opened, Locked, Inside, Unlocked, Closed
<1>0. TypeOK /\ 1 \in Inodes
  BY DEF HeldInv, Inodes
<1>1. SingleOwner'
  BY <1>0 DEF TypeOK
<1>2. FdInUse'
  BY <1>0 DEF TypeOK
<1> QED
  BY <1>1, <1>2

(***************************************************************************)
(* The invariant of the single-threaded lock without force_clear().        *)
(***************************************************************************)
LEMMA SingleInvariant ==
  ASSUME SingleThreaded, CanReset = FALSE
  PROVE  Spec => []SingleInv
<1>1. Init => SingleInv
  <2> SUFFICES ASSUME Init PROVE SingleInv
    OBVIOUS
  <2>1. HeldInv
    BY HeldInit
  <2>2. SingleOwner /\ FdInUse
    BY ProcOfAssumption DEF Init, SingleOwner, FdInUse, Using, Free,
       Outside, Opened, Locked, Inside, Unlocked, Closed
  <2> QED
    BY <2>1, <2>2 DEF SingleInv
<1>2. SingleInv /\ [Next]_vars => SingleInv'
  <2> SUFFICES ASSUME SingleInv, [Next]_vars PROVE SingleInv'
    OBVIOUS
  <2>1. ASSUME NEW t \in Threads, Acquire(t) PROVE SingleInv'
    BY <2>1, SingleAcquire, HeldAcquire DEF SingleInv
  <2>2. ASSUME NEW t \in Threads, Release(t) PROVE SingleInv'
    BY <2>2, SingleRelease, HeldRelease DEF SingleInv
  <2>3. ASSUME NEW t \in Threads, ForceClear(t) PROVE FALSE
    <3>1. pc[t] \notin {Clearing, ClearUnlocked, ClearClosed, Unlinking}
      BY DEF SingleInv, SingleOwner, Using, Outside, Opened, Locked, Inside,
             Unlocked, Closed, Clearing, ClearUnlocked, ClearClosed, Unlinking
    <3> QED
      BY <2>3, <3>1 DEF ForceClear, ForceClearStart, ReleaseNothing,
         ReleaseNested, ReleaseUnlock, ReleaseClose, ReleaseForget,
         ForceClearUnlink, Goto
  <2>4. ASSUME NEW p \in Procs, Crash(p) PROVE SingleInv'
    BY <2>4, SingleCrash, HeldCrash DEF SingleInv
  <2>5. CASE UNCHANGED vars
    BY <2>5 DEF vars, SingleInv, SingleOwner, FdInUse, ThreadsOf, HeldInv,
       TypeOK, FdsAreOwn, AcquiringIsPrivate, LockedIsOwner, HeldIsLocked
  <2> QED
    BY <2>1, <2>2, <2>3, <2>4, <2>5 DEF Next
<1> QED
  BY <1>1, <1>2, PTL DEF Spec

(***************************************************************************)
(* "GPU mutual exclusion via flock": any number of single-threaded         *)
(* processes, dying whenever they like, never hold the lock together.      *)
(***************************************************************************)
THEOREM ProcessExclusionHolds ==
  ASSUME SingleThreaded, CanReset = FALSE
  PROVE  Spec => []ProcessExclusion
<1>1. SingleInv => ProcessExclusion
  BY SingleExcludes DEF ProcessExclusion
<1> QED
  BY <1>1, SingleInvariant, PTL

(***************************************************************************)
(* No process that is done with the lock keeps it from the others.         *)
(***************************************************************************)
THEOREM NoLeakedLockHolds ==
  ASSUME SingleThreaded, CanReset = FALSE
  PROVE  Spec => []NoLeakedLock
<1>1. SingleInv => NoLeakedLock
  BY DEF SingleInv, SingleOwner, NoLeakedLock, ThreadsOf,
         Outside, Locked, Inside
<1> QED
  BY <1>1, SingleInvariant, PTL

(***************************************************************************)
(* The same lock implements the abstract mutex: flock() is Enter, LOCK_UN  *)
(* and the death of the process inside are Leave, the rest stutters.       *)
(***************************************************************************)
THEOREM LockImplementsMutex ==
  ASSUME SingleThreaded, CanReset = FALSE
  PROVE  Spec => ImplementsMutex
<1> DEFINE inside == {t \in Threads : pc[t] \in {Locked, Inside}}
<1>1. Init => Mutex!Init
  BY DEF Init, Mutex!Init, Outside, Locked, Inside
<1>2. SingleInv /\ [Next]_vars => [Mutex!Next]_inside
  <2> SUFFICES ASSUME SingleInv, [Next]_vars
               PROVE  Mutex!Next \/ inside' = inside
    OBVIOUS
  <2> USE ProcOfAssumption
      DEF Goto, Outside, Opened, Locked, Inside, Unlocked, Closed,
          Clearing, ClearUnlocked, ClearClosed, Unlinking
  <2>0. pc \in [Threads -> Locations]
    BY DEF SingleInv, HeldInv, TypeOK
  <2>1. ASSUME NEW t \in Threads, AcquireFlock(t) PROVE Mutex!Enter(t)
    <3>1. tmp[t] = 1 /\ owner[1] = {}
      BY <2>1 DEF AcquireFlock, SingleInv, SingleOwner, Free
    <3>2. inside = {}
      BY <3>1 DEF SingleInv, SingleOwner
    <3>3. inside' = {t}
      BY <2>0, <2>1, <3>2 DEF AcquireFlock
    <3> QED
      BY <3>2, <3>3 DEF Mutex!Enter
  <2>2. ASSUME NEW t \in Threads, ReleaseUnlock(t, Inside, Unlocked)
        PROVE  Mutex!Leave(t)
    <3>1. t \in inside /\ inside' = inside \ {t}
      BY <2>0, <2>2 DEF ReleaseUnlock
    <3> QED
      BY <3>1 DEF Mutex!Leave
  <2>3. ASSUME NEW t \in Threads,
               Acquire(t) /\ ~AcquireFlock(t)
        PROVE  inside' = inside
    <3>1. ~AcquireReentrant(t)
      <4> SUFFICES ASSUME AcquireReentrant(t) PROVE FALSE
        OBVIOUS
      <4>1. PICK u \in ThreadsOf(ProcOf[t]) : pc[u] \in Using
        BY DEF AcquireReentrant, SingleInv, FdInUse
      <4>2. u = t
        BY DEF ThreadsOf, SingleThreaded
      <4> QED
        BY <4>1, <4>2 DEF AcquireReentrant, Using
    <3>2. CASE AcquireOpen(t)
      BY <2>0, <3>2 DEF AcquireOpen
    <3>3. CASE AcquireBusy(t)
      BY <2>0, <3>3 DEF AcquireBusy
    <3>4. CASE AcquirePublish(t)
      BY <2>0, <3>4 DEF AcquirePublish
    <3> QED
      BY <2>3, <3>1, <3>2, <3>3, <3>4 DEF Acquire
  <2>4. ASSUME NEW t \in Threads,
               Release(t) /\ ~ReleaseUnlock(t, Inside, Unlocked)
        PROVE  inside' = inside
    <3>1. pc[t] \in Using /\ fd[ProcOf[t]] = [by |-> t, inode |-> 1]
      BY <2>4 DEF SingleInv, SingleOwner, Using, Release, ReleaseNothing,
         ReleaseNested, ReleaseUnlock, ReleaseClose, ReleaseForget
    <3>2. ProcOf[t] \in Procs /\ count[ProcOf[t]] = 0
      BY DEF SingleInv, SingleOwner
    <3>3. ReleaseClose(t, Unlocked, Closed) \/ ReleaseForget(t, Closed, Outside)
      BY <2>4, <3>1, <3>2
      DEF Release, ReleaseNothing, ReleaseNested, NoFd
    <3> QED
      BY <2>0, <3>3 DEF ReleaseClose, ReleaseForget
  <2>5. ASSUME NEW t \in Threads, ForceClear(t) PROVE FALSE
    <3>1. pc[t] \notin {Clearing, ClearUnlocked, ClearClosed, Unlinking}
      BY DEF SingleInv, SingleOwner, Using
    <3> QED
      BY <2>5, <3>1 DEF ForceClear, ForceClearStart, ReleaseNothing,
         ReleaseNested, ReleaseUnlock, ReleaseClose, ReleaseForget,
         ForceClearUnlink
  <2>6. ASSUME NEW p \in Procs, Crash(p)
        PROVE  Mutex!Next \/ inside' = inside
    <3>1. inside' = {t \in inside : ProcOf[t] # p}
      BY <2>0, <2>6 DEF Crash
    <3>2. CASE \E t \in inside : ProcOf[t] = p
      <4>1. PICK t \in inside : ProcOf[t] = p
        BY <3>2
      <4>2. inside = {t}
        BY <4>1, SingleExcludes
      <4>3. inside' = inside \ {t}
        BY <3>1, <4>1, <4>2
      <4> QED
        BY <4>1, <4>3 DEF Mutex!Next, Mutex!Leave
    <3> QED
      BY <3>1, <3>2
  <2>7. CASE UNCHANGED vars
    BY <2>7 DEF vars
  <2> QED
    BY <2>1, <2>2, <2>3, <2>4, <2>5, <2>6, <2>7 DEF Next, Mutex!Next
<1> QED
  BY <1>1, <1>2, SingleInvariant, PTL
     DEF Spec, ImplementsMutex, Mutex!Spec
=============================================================================
