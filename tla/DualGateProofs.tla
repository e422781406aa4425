--------------------------- MODULE DualGateProofs ---------------------------
(***************************************************************************)
(* Proofs about DualGate, for any number of requests and models, one or    *)
(* two names for each, and any limits: types, the rate bound, the          *)
(* conservation of permits (of the global ones in mode "reject", the only  *)
(* mode in which the code conserves them) and the hard concurrency gate.   *)
(***************************************************************************)
EXTENDS DualGate, FiniteSetTheorems, TLAPS

USE DEF Rest, Server, Bucket, Global, Model, Serving

(***************************************************************************)
(* The settings are what the limiter may be configured with, and no step   *)
(* changes them: the code reads them once.                                 *)
(***************************************************************************)
LEMMA SettingsType ==
  ASSUME TypeOK
  PROVE  Mode \in {"observe", "reject"} /\ GlobalMax \in Nat
  BY SettingsAssumption DEF TypeOK, Mode, GlobalMax

(* No step changes the settings.                                             *)
LEMMA SettingsKept ==
  ASSUME [Next]_vars
  PROVE  settings' = settings /\ Mode' = Mode /\ GlobalMax' = GlobalMax
<1>1. settings' = settings
  BY DEF Next, vars, counts, Acquires, Arrive, Release, RefillServer,
         RefillBucket, ServerToken, ServerEmpty, BucketToken, BucketEmpty,
         GlobalTake, GlobalTimeout, ModelTake, ModelTimeout
<1> QED
  BY <1>1 DEF Mode, GlobalMax

(***************************************************************************)
(* A token that is given back stays within the bucket.                     *)
(***************************************************************************)
LEMMA ReturnTokenType ==
  ASSUME NEW burst \in Nat, NEW tokens \in 0 .. burst
  PROVE  ReturnToken(tokens, burst) \in 0 .. burst
  BY DEF ReturnToken

(* Giving tokens back keeps both buckets within their bursts.                *)
LEMMA ReturnTokensType ==
  ASSUME TypeOK, NEW r \in Requests, ReturnTokens(r)
  PROVE  server' \in 0 .. ServerBurst /\ bucket' \in [Names -> 0 .. ModelBurst]
<1> USE LimitAssumption DEF TypeOK
<1>1. CASE rpmHeld[r]
  <2>1. /\ server' = ReturnToken(server, ServerBurst)
        /\ bucket' = [bucket EXCEPT ![want[r]] =
                          ReturnToken(bucket[want[r]], ModelBurst)]
    BY <1>1 DEF ReturnTokens
  <2>2. want[r] \in Names /\ bucket[want[r]] \in 0 .. ModelBurst
    OBVIOUS
  <2>3. ReturnToken(bucket[want[r]], ModelBurst) \in 0 .. ModelBurst
    BY <2>2, ReturnTokenType
  <2>4. ReturnToken(server, ServerBurst) \in 0 .. ServerBurst
    BY ReturnTokenType
  <2> QED
    BY <2>1, <2>2, <2>3, <2>4
<1>2. CASE ~rpmHeld[r]
  BY <1>2 DEF ReturnTokens, buckets
<1> QED
  BY <1>1, <1>2

(***************************************************************************)
(* Every step keeps the types, for all limits: no bucket overflows or goes *)
(* below zero, however refills, refunds and requests interleave.           *)
(***************************************************************************)
THEOREM TypeCorrect == Spec => []TypeOK
<1> USE LimitAssumption
<1>1. Init => TypeOK
  BY SettingsAssumption DEF Init, TypeOK, Locations, GlobalMax
<1>2. TypeOK /\ [Next]_vars => TypeOK'
  <2> SUFFICES ASSUME TypeOK, [Next]_vars PROVE TypeOK'
    OBVIOUS
  <2> USE SettingsType, SettingsKept
  <2> USE DEF TypeOK, Locations
  <2>1. ASSUME NEW r \in Requests, Acquires(r) PROVE TypeOK'
    <3> USE DEF Goto, Limited, HasToken, TakeToken, buckets, sems, held, counts
    <3>1. CASE ServerToken(r)
      BY <3>1 DEF ServerToken
    <3>2. CASE ServerEmpty(r)
      BY <3>2 DEF ServerEmpty
    <3>3. CASE BucketToken(r)
      BY <3>3 DEF BucketToken
    <3>4. CASE BucketEmpty(r)
      <4>1. server' \in 0 .. ServerBurst
        BY <3>4, ReturnTokenType DEF BucketEmpty
      <4> QED
        BY <3>4, <4>1 DEF BucketEmpty
    <3>5. CASE GlobalTake(r)
      <4>1. CASE GlobalMax = 0
        BY <3>5, <4>1 DEF GlobalTake
      <4>2. CASE GlobalMax # 0
        <5>1. globalSem' \in Nat
          BY <3>5, <4>2 DEF GlobalTake
        <5>2. globalHeld' = [globalHeld EXCEPT ![r] = TRUE]
          BY <3>5, <4>2 DEF GlobalTake
        <5>3. globalHeld' \in [Requests -> BOOLEAN]
          BY <5>2
        <5>4. pc' \in [Requests -> {Rest, Server, Bucket, Global, Model, Serving}]
          BY <3>5 DEF GlobalTake
        <5> QED
          BY <3>5, <5>1, <5>3, <5>4 DEF GlobalTake
      <4> QED
        BY <4>1, <4>2
    <3>6. CASE GlobalTimeout(r)
      <4>1. server' \in 0 .. ServerBurst /\ bucket' \in [Names -> 0 .. ModelBurst]
        BY <3>6, ReturnTokensType DEF GlobalTimeout
      <4>2. pc' \in [Requests -> {Rest, Server, Bucket, Global, Model, Serving}]
        BY <3>6 DEF GlobalTimeout
      <4> QED
        BY <3>6, <4>1, <4>2 DEF GlobalTimeout
    <3>7. CASE ModelTake(r)
      BY <3>7 DEF ModelTake
    <3>8. CASE ModelTimeout(r)
      <4>1. server' \in 0 .. ServerBurst /\ bucket' \in [Names -> 0 .. ModelBurst]
        BY <3>8, ReturnTokensType DEF ModelTimeout
      <4>2. pc' \in [Requests -> {Rest, Server, Bucket, Global, Model, Serving}]
        BY <3>8 DEF ModelTimeout
      <4>3. globalSem' \in Nat
        BY <3>8 DEF ModelTimeout
      <4>4. \/ globalHeld' = globalHeld
            \/ globalHeld' = [globalHeld EXCEPT ![r] = FALSE]
        BY <3>8 DEF ModelTimeout
      <4>5. globalHeld' \in [Requests -> BOOLEAN]
        BY <4>4
      <4> QED
        BY <3>8, <4>1, <4>2, <4>3, <4>5 DEF ModelTimeout
    <3> QED
      BY <2>1, <3>1, <3>2, <3>3, <3>4, <3>5, <3>6, <3>7, <3>8 DEF Acquires
  <2>2. ASSUME NEW r \in Requests, Release(r) PROVE TypeOK'
    BY <2>2 DEF Release, Goto, buckets, sems, held, counts
  <2>3. ASSUME NEW r \in Requests, NEW m \in Names, Arrive(r, m)
        PROVE  TypeOK'
    BY <2>3 DEF Arrive, Goto, buckets, sems, held, counts
  <2>4. CASE RefillServer
    BY <2>4 DEF RefillServer, buckets, sems, held, counts
  <2>5. ASSUME NEW m \in Names, RefillBucket(m) PROVE TypeOK'
    BY <2>5 DEF RefillBucket, buckets, sems, held, counts
  <2>6. CASE UNCHANGED vars
    BY <2>6 DEF vars, buckets, sems, held, counts
  <2> QED
    BY <2>1, <2>2, <2>3, <2>4, <2>5, <2>6 DEF Next
<1> QED
  BY <1>1, <1>2, PTL DEF Spec

-----------------------------------------------------------------------------
(* What a request holds agrees with where it is.                           *)

HeldWhere ==
    \A r \in Requests :
        /\ semHeld[r] => pc[r] = Serving
        /\ globalHeld[r] => pc[r] \in {Model, Serving} /\ GlobalMax > 0
        /\ Mode = "reject" /\ pc[r] = Serving => semHeld[r]

PermitInv == TypeOK /\ HeldWhere /\ PermitsConserved

(***************************************************************************)
(* The sets the invariant counts are finite.                               *)
(***************************************************************************)
LEMMA HoldersFinite ==
  /\ IsFiniteSet(GlobalHolders) /\ Cardinality(GlobalHolders) \in Nat
  /\ \A m : IsFiniteSet(Holders(m)) /\ Cardinality(Holders(m)) \in Nat
<1>1. ASSUME NEW S \in SUBSET Requests
      PROVE  IsFiniteSet(S) /\ Cardinality(S) \in Nat
  BY RequestAssumption, FS_Subset, FS_CardinalityType
<1> QED
  BY <1>1 DEF GlobalHolders, Holders

(***************************************************************************)
(* A step that touches neither semaphores nor holders conserves permits.   *)
(***************************************************************************)
LEMMA PermitsQuiet ==
  ASSUME PermitsConserved, sems' = sems,
         Mode' = Mode, GlobalMax' = GlobalMax,
         GlobalHolders' = GlobalHolders,
         \A m \in Names : Holders(m)' = Holders(m)
  PROVE  PermitsConserved'
  BY DEF PermitsConserved, sems

(***************************************************************************)
(* A request that gives back what it holds, and a semaphore that takes it. *)
(***************************************************************************)
LEMMA GlobalBack ==
  ASSUME PermitInv, Mode = "reject", NEW r \in Requests,
         globalSem' = globalSem + (IF globalHeld[r] THEN 1 ELSE 0),
         GlobalHolders' = GlobalHolders \ {r}
  PROVE  globalSem' + Cardinality(GlobalHolders)' = GlobalMax
<1>1. Cardinality(GlobalHolders \ {r}) =
        IF r \in GlobalHolders THEN Cardinality(GlobalHolders) - 1
                               ELSE Cardinality(GlobalHolders)
  BY HoldersFinite, FS_RemoveElement
<1>2. r \in GlobalHolders <=> globalHeld[r]
  BY DEF GlobalHolders
<1> QED
  BY <1>1, <1>2, HoldersFinite, SettingsType
  DEF PermitInv, TypeOK, PermitsConserved

(* A permit that returns with its holder leaves the sum per model as it was. *)
LEMMA ModelBack ==
  ASSUME PermitInv, NEW r \in Requests,
         modelSem' = [modelSem EXCEPT ![want[r]] =
                          @ + (IF semHeld[r] THEN 1 ELSE 0)],
         \A m \in Names : Holders(m)' = Holders(m) \ {r}
  PROVE  \A m \in Names : modelSem'[m] + Cardinality(Holders(m))' = ModelMax
<1> SUFFICES ASSUME NEW m \in Names
             PROVE  modelSem'[m] + Cardinality(Holders(m))' = ModelMax
  OBVIOUS
<1>1. Cardinality(Holders(m) \ {r}) =
        IF r \in Holders(m) THEN Cardinality(Holders(m)) - 1
                            ELSE Cardinality(Holders(m))
  BY HoldersFinite, FS_RemoveElement
<1>2. r \in Holders(m) <=> semHeld[r] /\ want[r] = m
  BY DEF Holders
<1>3. modelSem'[m] = modelSem[m] + (IF r \in Holders(m) THEN 1 ELSE 0)
  BY <1>2 DEF PermitInv, TypeOK
<1>4. modelSem[m] \in Nat /\ modelSem[m] + Cardinality(Holders(m)) = ModelMax
  BY DEF PermitInv, TypeOK, PermitsConserved
<1>5. Cardinality(Holders(m))' = Cardinality(Holders(m) \ {r})
  OBVIOUS
<1>6. Cardinality(Holders(m)) \in Nat
  BY HoldersFinite
<1>7. CASE r \in Holders(m)
  BY <1>1, <1>3, <1>4, <1>5, <1>6, <1>7
<1>8. CASE r \notin Holders(m)
  BY <1>1, <1>3, <1>4, <1>5, <1>6, <1>8
<1> QED
  BY <1>7, <1>8

(***************************************************************************)
(* acquire() conserves permits: a model's always, and the global ones when *)
(* no GateResult claims a permit that was given back (mode "reject").      *)
(***************************************************************************)
LEMMA PermitsAcquire ==
  ASSUME PermitInv, NEW r \in Requests, Acquires(r)
  PROVE  HeldWhere' /\ PermitsConserved'
<1> USE LimitAssumption DEF Goto, buckets, sems, held, counts
<1>0. TypeOK /\ HeldWhere /\ PermitsConserved
  BY DEF PermitInv
<1>s. /\ Mode' = Mode /\ GlobalMax' = GlobalMax
      /\ Mode \in {"observe", "reject"} /\ GlobalMax \in Nat
  BY <1>0, SettingsKept, SettingsType DEF Next
<1> USE <1>s
<1>1. CASE ServerToken(r) \/ ServerEmpty(r) \/ BucketToken(r) \/ BucketEmpty(r)
  <2>1. /\ UNCHANGED <<sems, want, globalHeld, semHeld>>
        /\ pc[r] \in {Server, Bucket}
        /\ \E to \in {Bucket, Global, Rest} : pc' = [pc EXCEPT ![r] = to]
    BY <1>1 DEF ServerToken, ServerEmpty, BucketToken, BucketEmpty, Limited
  <2>2. HeldWhere'
    BY <1>0, <2>1 DEF TypeOK, HeldWhere
  <2>3. PermitsConserved'
    BY <1>0, <2>1, PermitsQuiet DEF GlobalHolders, Holders
  <2> QED
    BY <2>2, <2>3
<1>2. CASE GlobalTake(r)
  <2>1. HeldWhere'
    BY <1>0, <1>2 DEF GlobalTake, TypeOK, HeldWhere
  <2>2. \A m \in Names : Holders(m)' = Holders(m)
    BY <1>2 DEF GlobalTake, Holders
  <2>3. CASE GlobalMax = 0
    <3>1. UNCHANGED <<globalSem, modelSem, globalHeld>>
      BY <1>2, <2>3 DEF GlobalTake
    <3> QED
      BY <1>0, <2>1, <2>2, <3>1, PermitsQuiet DEF GlobalHolders
  <2>4. CASE GlobalMax # 0
    <3>1. globalSem > 0 /\ globalSem' = globalSem - 1 /\ modelSem' = modelSem
      BY <1>2, <2>4 DEF GlobalTake
    <3>2. r \notin GlobalHolders
      BY <1>0, <1>2 DEF GlobalTake, HeldWhere, GlobalHolders
    <3>3. GlobalHolders' = GlobalHolders \cup {r}
      BY <1>0, <1>2, <2>4 DEF GlobalTake, TypeOK, GlobalHolders
    <3>4. Cardinality(GlobalHolders)' = Cardinality(GlobalHolders) + 1
      BY <3>2, <3>3, HoldersFinite, FS_AddElement
    <3>5. Mode = "reject" =>
            globalSem' + Cardinality(GlobalHolders)' = GlobalMax
      BY <1>0, <3>1, <3>4, HoldersFinite DEF TypeOK, PermitsConserved
    <3> QED
      BY <1>0, <2>1, <2>2, <3>1, <3>5 DEF PermitsConserved
  <2> QED
    BY <2>3, <2>4
<1>3. CASE GlobalTimeout(r)
  <2>1. /\ UNCHANGED <<sems, want, globalHeld, semHeld>>
        /\ pc[r] = Global
        /\ \/ pc' = [pc EXCEPT ![r] = Rest]
           \/ Mode = "observe" /\ pc' = [pc EXCEPT ![r] = Serving]
    BY <1>3 DEF GlobalTimeout
  <2>2. HeldWhere'
    BY <1>0, <2>1 DEF TypeOK, HeldWhere
  <2>3. PermitsConserved'
    BY <1>0, <2>1, PermitsQuiet DEF GlobalHolders, Holders
  <2> QED
    BY <2>2, <2>3
<1>4. CASE ModelTake(r)
  <2>1. HeldWhere'
    BY <1>0, <1>4 DEF ModelTake, TypeOK, HeldWhere
  <2>2. GlobalHolders' = GlobalHolders /\ globalSem' = globalSem
    BY <1>4 DEF ModelTake, GlobalHolders
  <2>3. ASSUME NEW m \in Names
        PROVE  modelSem'[m] + Cardinality(Holders(m))' = ModelMax
    <3>1. r \notin Holders(m)
      BY <1>0, <1>4 DEF ModelTake, HeldWhere, Holders
    <3>2. CASE m = want[r]
      <4>1. Holders(m)' = Holders(m) \cup {r}
        BY <1>0, <1>4, <3>2 DEF ModelTake, TypeOK, Holders
      <4>2. Cardinality(Holders(m))' = Cardinality(Holders(m)) + 1
        BY <3>1, <4>1, HoldersFinite, FS_AddElement
      <4>3. modelSem[m] > 0 /\ modelSem'[m] = modelSem[m] - 1
        BY <1>0, <1>4, <3>2 DEF ModelTake, TypeOK
      <4> QED
        BY <1>0, <4>2, <4>3, HoldersFinite DEF TypeOK, PermitsConserved
    <3>3. CASE m # want[r]
      <4>1. Holders(m)' = Holders(m)
        BY <1>0, <1>4, <3>3 DEF ModelTake, TypeOK, Holders
      <4>2. modelSem'[m] = modelSem[m]
        BY <1>0, <1>4, <3>3 DEF ModelTake, TypeOK
      <4> QED
        BY <1>0, <4>1, <4>2 DEF PermitsConserved
    <3> QED
      BY <3>2, <3>3
  <2> QED
    BY <1>0, <2>1, <2>2, <2>3 DEF PermitsConserved
<1>5. CASE ModelTimeout(r)
  <2>1. /\ UNCHANGED <<modelSem, want, semHeld>>
        /\ globalSem' = globalSem + (IF globalHeld[r] THEN 1 ELSE 0)
        /\ pc[r] = Model
    BY <1>5 DEF ModelTimeout
  <2>2. Mode = "reject" =>
          /\ globalHeld' = [globalHeld EXCEPT ![r] = FALSE]
          /\ pc' = [pc EXCEPT ![r] = Rest]
    BY <1>5 DEF ModelTimeout
  <2>3. Mode = "observe" =>
          globalHeld' = globalHeld /\ pc' = [pc EXCEPT ![r] = Serving]
    BY <1>5 DEF ModelTimeout
  <2>4. CASE Mode = "reject"
    <3>1. HeldWhere'
      BY <1>0, <2>1, <2>2, <2>4 DEF TypeOK, HeldWhere
    <3>2. GlobalHolders' = GlobalHolders \ {r}
      BY <1>0, <2>2, <2>4 DEF TypeOK, GlobalHolders
    <3>3. globalSem' + Cardinality(GlobalHolders)' = GlobalMax
      BY <2>1, <2>4, <3>2, GlobalBack
    <3>4. \A m \in Names : Holders(m)' = Holders(m)
      BY <2>1 DEF Holders
    <3> QED
      BY <1>0, <2>1, <3>1, <3>3, <3>4 DEF PermitsConserved
  <2>5. CASE Mode = "observe"
    <3>1. HeldWhere'
      BY <1>0, <2>1, <2>3, <2>5 DEF TypeOK, HeldWhere
    <3>2. \A m \in Names : Holders(m)' = Holders(m)
      BY <2>1 DEF Holders
    <3> QED
      BY <1>0, <2>1, <2>5, <3>1, <3>2 DEF PermitsConserved
  <2> QED
    BY <2>4, <2>5
<1> QED
  BY <1>1, <1>2, <1>3, <1>4, <1>5 DEF Acquires

(* PermitInv holds in every reachable state.                                 *)
LEMMA PermitInvariant == Spec => []PermitInv
<1> USE LimitAssumption DEF buckets, sems, held, counts
<1>1. Init => HeldWhere /\ PermitsConserved
  <2> SUFFICES ASSUME Init PROVE HeldWhere /\ PermitsConserved
    OBVIOUS
  <2>t. GlobalMax \in Nat
    BY SettingsAssumption DEF Init, GlobalMax
  <2>1. HeldWhere
    BY DEF Init, HeldWhere
  <2>2. GlobalHolders = {} /\ \A m \in Names : Holders(m) = {}
    BY DEF Init, GlobalHolders, Holders
  <2>3. /\ Cardinality(GlobalHolders) = 0
        /\ \A m \in Names : Cardinality(Holders(m)) = 0
    BY <2>2, FS_EmptySet
  <2>4. PermitsConserved
    BY <2>3, <2>t DEF Init, PermitsConserved
  <2> QED
    BY <2>1, <2>4
<1>2. TypeOK /\ HeldWhere /\ PermitsConserved /\ [Next]_vars
        => (HeldWhere /\ PermitsConserved)'
  <2> SUFFICES ASSUME PermitInv, [Next]_vars
               PROVE  HeldWhere' /\ PermitsConserved'
    BY DEF PermitInv
  <2>0. TypeOK /\ HeldWhere /\ PermitsConserved
    BY DEF PermitInv
  <2> USE SettingsType, SettingsKept
  <2>1. ASSUME NEW r \in Requests, Acquires(r)
        PROVE  HeldWhere' /\ PermitsConserved'
    BY <2>1, PermitsAcquire
  <2>2. ASSUME NEW r \in Requests, Release(r)
        PROVE  HeldWhere' /\ PermitsConserved'
    <3>1. HeldWhere'
      BY <2>0, <2>2 DEF Release, Goto, TypeOK, HeldWhere
    <3>2. GlobalHolders' = GlobalHolders \ {r}
      BY <2>0, <2>2 DEF Release, TypeOK, GlobalHolders
    <3>3. \A m \in Names : Holders(m)' = Holders(m) \ {r}
      BY <2>0, <2>2 DEF Release, TypeOK, Holders
    <3>4. Mode = "reject" =>
            globalSem' + Cardinality(GlobalHolders)' = GlobalMax
      BY <2>2, <3>2, GlobalBack DEF Release
    <3>5. \A m \in Names : modelSem'[m] + Cardinality(Holders(m))' = ModelMax
      BY <2>2, <3>3, ModelBack DEF Release
    <3> QED
      BY <3>1, <3>4, <3>5 DEF PermitsConserved
  <2>3. ASSUME NEW r \in Requests, NEW m \in Names, Arrive(r, m)
        PROVE  HeldWhere' /\ PermitsConserved'
    <3>1. HeldWhere'
      BY <2>0, <2>3 DEF Arrive, Goto, TypeOK, HeldWhere
    <3>2. ~semHeld[r]
      BY <2>0, <2>3 DEF Arrive, Goto, HeldWhere
    <3>3. GlobalHolders' = GlobalHolders /\ \A n \in Names : Holders(n)' = Holders(n)
      BY <2>0, <2>3, <3>2 DEF Arrive, TypeOK, GlobalHolders, Holders
    <3> QED
      BY <2>0, <2>3, <3>1, <3>3, PermitsQuiet DEF Arrive
  <2>4. CASE UNCHANGED <<sems, pc, want, held>>
    <3>1. HeldWhere'
      BY <2>0, <2>4 DEF HeldWhere
    <3>2. GlobalHolders' = GlobalHolders /\ \A m \in Names : Holders(m)' = Holders(m)
      BY <2>4 DEF GlobalHolders, Holders
    <3> QED
      BY <2>0, <2>4, <3>1, <3>2, PermitsQuiet
  <2>5. CASE RefillServer
    BY <2>4, <2>5 DEF RefillServer
  <2>6. ASSUME NEW m \in Names, RefillBucket(m)
        PROVE  HeldWhere' /\ PermitsConserved'
    BY <2>4, <2>6 DEF RefillBucket
  <2>7. CASE UNCHANGED vars
    BY <2>4, <2>7 DEF vars
  <2> QED
    BY <2>1, <2>2, <2>3, <2>5, <2>6, <2>7 DEF Next
<1> QED
  BY <1>1, <1>2, TypeCorrect, PTL DEF Spec, PermitInv

(***************************************************************************)
(* acquire() and release() are symmetric: no permit of a name is ever      *)
(* lost or made, and no global permit in mode "reject".                    *)
(***************************************************************************)
THEOREM PermitsConservedHolds == Spec => []PermitsConserved
  BY PermitInvariant, PTL DEF PermitInv

(***************************************************************************)
(* Nobody is let through under a name without a permit of that name.       *)
(***************************************************************************)
LEMMA NameGate ==
  ASSUME PermitInv, Mode = "reject", NEW n \in Names
  PROVE  IsFiniteSet(Served(n)) /\ Cardinality(Served(n)) \in 0 .. ModelMax
<1>1. Served(n) \subseteq Holders(n)
  BY DEF PermitInv, HeldWhere, Served, Holders
<1>2. /\ IsFiniteSet(Served(n))
      /\ Cardinality(Served(n)) <= Cardinality(Holders(n))
      /\ Cardinality(Served(n)) \in Nat
  BY <1>1, HoldersFinite, FS_Subset, FS_CardinalityType
<1>3. modelSem[n] \in Nat /\ modelSem[n] + Cardinality(Holders(n)) = ModelMax
  BY DEF PermitInv, TypeOK, PermitsConserved
<1> QED
  BY <1>2, <1>3, HoldersFinite, LimitAssumption

(***************************************************************************)
(* In mode "reject" an upstream never works on more than max_concurrent    *)
(* requests for each of its one or two names, whatever times out and       *)
(* however requests interleave.                                            *)
(***************************************************************************)
THEOREM HardGateHolds == Spec => []HardGate
<1>1. PermitInv => HardGate
  <2> SUFFICES ASSUME PermitInv, Mode = "reject", NEW m \in Models
               PROVE  Cardinality(Upstream(m)) <= ModelMax * Cardinality(NamesOf(m))
    BY DEF HardGate
  <2>1. \A r \in Upstream(m) : want[r] \in NamesOf(m) /\ r \in Served(want[r])
    BY DEF PermitInv, TypeOK, Upstream, Served, NamesOf
  <2>2. CASE NamesOf(m) = {}
    <3>1. Upstream(m) = {} /\ Cardinality(Upstream(m)) = 0 /\ Cardinality(NamesOf(m)) = 0
      BY <2>1, <2>2, FS_EmptySet
    <3> QED
      BY <3>1, LimitAssumption
  <2>3. ASSUME NEW a \in NamesOf(m), NamesOf(m) = {a}
        PROVE  Cardinality(Upstream(m)) <= ModelMax * Cardinality(NamesOf(m))
    <3>1. a \in Names /\ Cardinality(NamesOf(m)) = 1
      BY <2>3, FS_Singleton DEF NamesOf
    <3>2. Upstream(m) \subseteq Served(a)
      BY <2>1, <2>3
    <3>3. IsFiniteSet(Served(a)) /\ Cardinality(Served(a)) \in 0 .. ModelMax
      BY <3>1, NameGate
    <3>4. /\ Cardinality(Upstream(m)) <= Cardinality(Served(a))
          /\ Cardinality(Upstream(m)) \in Nat
      BY <3>2, <3>3, FS_Subset, FS_CardinalityType
    <3>5. Cardinality(Upstream(m)) <= ModelMax
      BY <3>3, <3>4, LimitAssumption
    <3> QED
      BY <3>1, <3>5, LimitAssumption
  <2>4. ASSUME NEW a \in NamesOf(m), NEW b \in NamesOf(m), a # b
        PROVE  Cardinality(Upstream(m)) <= ModelMax * Cardinality(NamesOf(m))
    <3>1. a \in Names /\ b \in Names /\ NamesOf(m) = {a} \cup {b}
      BY <2>4, NameAssumption DEF NamesOf
    <3>2. Cardinality(NamesOf(m)) = 2
      <4>1. IsFiniteSet({a}) /\ Cardinality({a}) = 1
        BY FS_Singleton
      <4>2. Cardinality({a} \cup {b}) = Cardinality({a}) + 1
        BY <2>4, <4>1, FS_AddElement
      <4> QED
        BY <3>1, <4>1, <4>2
    <3>3. Upstream(m) \subseteq Served(a) \cup Served(b)
      BY <2>1, <3>1
    <3>4. /\ IsFiniteSet(Served(a)) /\ Cardinality(Served(a)) \in 0 .. ModelMax
          /\ IsFiniteSet(Served(b)) /\ Cardinality(Served(b)) \in 0 .. ModelMax
      BY <3>1, NameGate
    <3>5. Served(a) \cap Served(b) = {}
      BY <2>4 DEF Served
    <3>6. /\ IsFiniteSet(Served(a) \cup Served(b))
          /\ Cardinality(Served(a) \cup Served(b)) =
                Cardinality(Served(a)) + Cardinality(Served(b))
                - Cardinality(Served(a) \cap Served(b))
      BY <3>4, FS_Union
    <3>7. Cardinality(Served(a) \cap Served(b)) = 0
      BY <3>5, FS_EmptySet
    <3>8. /\ Cardinality(Upstream(m)) <= Cardinality(Served(a) \cup Served(b))
          /\ Cardinality(Upstream(m)) \in Nat
      BY <3>3, <3>6, FS_Subset, FS_CardinalityType
    <3>9. Cardinality(Upstream(m)) <= ModelMax + ModelMax
      BY <3>4, <3>6, <3>7, <3>8, LimitAssumption
    <3> QED
      BY <3>2, <3>9, LimitAssumption
  <2>5. NamesOf(m) = {} \/ (\E a \in NamesOf(m) : NamesOf(m) = {a})
        \/ (\E a \in NamesOf(m), b \in NamesOf(m) : a # b)
    OBVIOUS
  <2> QED
    BY <2>2, <2>3, <2>4, <2>5
<1> QED
  BY <1>1, PermitInvariant, PTL

-----------------------------------------------------------------------------
(* The rate gate.                                                          *)

(***************************************************************************)
(* A request enters or leaves the model's bucket one at a time.            *)
(***************************************************************************)
LEMMA AtBucketFinite == IsFiniteSet(AtBucket) /\ Cardinality(AtBucket) \in Nat
<1>1. AtBucket \in SUBSET Requests
  BY DEF AtBucket
<1> QED
  BY <1>1, RequestAssumption, FS_Subset, FS_CardinalityType

(* A request that leaves gate 2 leaves one fewer there.                      *)
LEMMA AtBucketLeaves ==
  ASSUME TypeOK, NEW r \in Requests, NEW to,
         pc[r] = Bucket, to # Bucket, pc' = [pc EXCEPT ![r] = to]
  PROVE  Cardinality(AtBucket)' = Cardinality(AtBucket) - 1
<1>1. AtBucket' = AtBucket \ {r} /\ r \in AtBucket
  BY DEF TypeOK, AtBucket
<1> QED
  BY <1>1, AtBucketFinite, FS_RemoveElement

(* A step between other places leaves the number at gate 2 alone.            *)
LEMMA AtBucketSame ==
  ASSUME TypeOK, NEW r \in Requests, NEW to,
         pc[r] # Bucket, to # Bucket, pc' = [pc EXCEPT ![r] = to]
  PROVE  Cardinality(AtBucket)' = Cardinality(AtBucket)
<1>1. AtBucket' = AtBucket
  BY DEF TypeOK, AtBucket
<1> QED
  BY <1>1

(***************************************************************************)
(* Giving a server token back adds one at most, and only a request that    *)
(* passed the rate gate with rpm_held gives both tokens back.  In mode     *)
(* "reject" rpm_held is never set, so gate 2 gives no tokens back.         *)
(***************************************************************************)
NoTokensHeld == Mode = "reject" => \A r \in Requests : ~rpmHeld[r]

(* No step of acquire() breaks the bound on passed requests.                 *)
LEMMA RateAcquire ==
  ASSUME TypeOK, NoTokensHeld, RateBound, NEW r \in Requests, Acquires(r)
  PROVE  RateBound' /\ NoTokensHeld'
<1> USE LimitAssumption DEF buckets, sems, held, counts
<1> USE SettingsType
<1>s. Mode' = Mode
  BY SettingsKept DEF Next
<1> USE <1>s
<1> DEFINE inside == Cardinality(AtBucket)
<1>0. /\ inside \in Nat /\ server \in Nat /\ passed \in Nat /\ refills \in Nat
      /\ ServerBurst > 0 => server + inside + passed <= ServerBurst + refills
  BY AtBucketFinite DEF TypeOK, RateBound
<1>1. CASE ServerToken(r)
  <2>1. r \notin AtBucket /\ AtBucket' = AtBucket \cup {r}
    BY <1>1 DEF ServerToken, Goto, TypeOK, AtBucket
  <2>2. inside' = inside + 1
    BY <2>1, AtBucketFinite, FS_AddElement
  <2>3. UNCHANGED <<passed, refills, rpmHeld>>
    BY <1>1 DEF ServerToken
  <2>4. ServerBurst > 0 => server' = server - 1
    BY <1>1 DEF ServerToken, TakeToken, TypeOK
  <2> HIDE DEF inside
  <2>5. ServerBurst > 0 => server' + inside' + passed' <= ServerBurst + refills'
    BY <1>0, <2>2, <2>3, <2>4
  <2> QED
    BY <2>3, <2>5 DEF inside, RateBound, NoTokensHeld
<1>2. CASE ServerEmpty(r)
  <2>1. /\ UNCHANGED <<server, passed, refills, rpmHeld>>
        /\ pc[r] # Bucket /\ Limited # Bucket
        /\ pc' = [pc EXCEPT ![r] = Limited]
    BY <1>2 DEF ServerEmpty, Goto, Limited
  <2>2. inside' = inside
    BY <2>1, AtBucketSame
  <2> QED
    BY <1>0, <2>1, <2>2 DEF RateBound, NoTokensHeld
<1>3. CASE BucketToken(r)
  <2>1. /\ UNCHANGED <<server, refills>> /\ passed' = passed + 1
        /\ pc[r] = Bucket /\ pc' = [pc EXCEPT ![r] = Global]
    BY <1>3 DEF BucketToken, Goto
  <2>2. inside' = inside - 1
    BY <2>1, AtBucketLeaves
  <2>3. NoTokensHeld'
    BY <1>3 DEF BucketToken, NoTokensHeld, TypeOK
  <2> HIDE DEF inside
  <2>4. ServerBurst > 0 => server' + inside' + passed' <= ServerBurst + refills'
    BY <1>0, <2>1, <2>2
  <2> QED
    BY <2>3, <2>4 DEF inside, RateBound
<1>4. CASE BucketEmpty(r)
  <2>1. /\ UNCHANGED <<passed, refills, rpmHeld>>
        /\ pc[r] = Bucket /\ Limited # Bucket
        /\ pc' = [pc EXCEPT ![r] = Limited]
        /\ server' = ReturnToken(server, ServerBurst)
    BY <1>4 DEF BucketEmpty, Goto, Limited
  <2>2. inside' = inside - 1
    BY <2>1, AtBucketLeaves
  <2>3. server' <= server + 1 /\ server' \in Nat
    BY <1>0, <2>1 DEF ReturnToken
  <2> HIDE DEF inside
  <2>4. ServerBurst > 0 => server' + inside' + passed' <= ServerBurst + refills'
    BY <1>0, <2>1, <2>2, <2>3
  <2> QED
    BY <2>1, <2>4 DEF inside, RateBound, NoTokensHeld
<1>5. CASE GlobalTake(r) \/ GlobalTimeout(r) \/ ModelTake(r) \/ ModelTimeout(r)
  <2>1. UNCHANGED <<server, passed, refills, rpmHeld>>
    BY <1>5 DEF GlobalTake, GlobalTimeout, ModelTake, ModelTimeout,
                ReturnTokens, NoTokensHeld
  <2>2. /\ pc[r] # Bucket
        /\ \E to \in {Rest, Model, Serving} : pc' = [pc EXCEPT ![r] = to]
    BY <1>5 DEF GlobalTake, GlobalTimeout, ModelTake, ModelTimeout, Goto
  <2>3. inside' = inside
    BY <2>2, AtBucketSame
  <2> QED
    BY <1>0, <2>1, <2>3 DEF RateBound, NoTokensHeld
<1> QED
  BY <1>1, <1>2, <1>3, <1>4, <1>5 DEF Acquires

(***************************************************************************)
(* However the requests interleave, whichever bucket refuses them, no more *)
(* pass the rate gate than its burst and its refills allow.                *)
(***************************************************************************)
THEOREM RateBoundHolds == Spec => []RateBound
<1> USE LimitAssumption DEF buckets, sems, held, counts
<1>1. Init => RateBound /\ NoTokensHeld
  <2> SUFFICES ASSUME Init PROVE RateBound /\ NoTokensHeld
    OBVIOUS
  <2>1. AtBucket = {}
    BY DEF Init, AtBucket
  <2>2. Cardinality(AtBucket) = 0
    BY <2>1, FS_EmptySet
  <2> QED
    BY <2>2 DEF Init, RateBound, NoTokensHeld
<1>2. TypeOK /\ RateBound /\ NoTokensHeld /\ [Next]_vars
        => (RateBound /\ NoTokensHeld)'
  <2> SUFFICES ASSUME TypeOK, RateBound, NoTokensHeld, [Next]_vars
               PROVE  RateBound' /\ NoTokensHeld'
    OBVIOUS
  <2> USE SettingsKept
  <2>0. Cardinality(AtBucket) \in Nat /\ server \in Nat /\ passed \in Nat
        /\ refills \in Nat
    BY AtBucketFinite DEF TypeOK
  <2>1. ASSUME NEW r \in Requests, Acquires(r) PROVE RateBound' /\ NoTokensHeld'
    BY <2>1, RateAcquire
  <2>2. ASSUME NEW r \in Requests, Release(r) PROVE RateBound' /\ NoTokensHeld'
    <3>1. /\ UNCHANGED <<server, passed, refills>>
          /\ pc[r] # Bucket /\ pc' = [pc EXCEPT ![r] = Rest]
      BY <2>2 DEF Release, Goto
    <3>2. Cardinality(AtBucket)' = Cardinality(AtBucket)
      BY <3>1, AtBucketSame
    <3>3. NoTokensHeld'
      BY <2>2 DEF Release, NoTokensHeld, TypeOK
    <3> QED
      BY <3>1, <3>2, <3>3 DEF RateBound
  <2>3. ASSUME NEW r \in Requests, NEW m \in Names, Arrive(r, m)
        PROVE  RateBound' /\ NoTokensHeld'
    <3>1. /\ UNCHANGED <<server, passed, refills, rpmHeld>>
          /\ pc[r] # Bucket /\ pc' = [pc EXCEPT ![r] = Server]
      BY <2>3 DEF Arrive, Goto
    <3>2. Cardinality(AtBucket)' = Cardinality(AtBucket)
      BY <3>1, AtBucketSame
    <3> QED
      BY <3>1, <3>2 DEF RateBound, NoTokensHeld
  <2>4. CASE RefillServer
    <3>1. /\ server' = server + 1 /\ refills' = refills + 1
          /\ UNCHANGED <<pc, passed, rpmHeld>>
      BY <2>4 DEF RefillServer
    <3>2. AtBucket' = AtBucket
      BY <3>1 DEF AtBucket
    <3> QED
      BY <2>0, <3>1, <3>2 DEF RateBound, NoTokensHeld
  <2>5. CASE UNCHANGED <<server, pc, passed, refills, rpmHeld>>
    BY <2>5 DEF RateBound, AtBucket, NoTokensHeld
  <2>6. ASSUME NEW m \in Names, RefillBucket(m)
        PROVE  RateBound' /\ NoTokensHeld'
    BY <2>5, <2>6 DEF RefillBucket
  <2>7. CASE UNCHANGED vars
    BY <2>5, <2>7 DEF vars
  <2> QED
    BY <2>1, <2>2, <2>3, <2>4, <2>6, <2>7 DEF Next
<1> QED
  BY <1>1, <1>2, TypeCorrect, PTL DEF Spec
=============================================================================
