------------------------------ MODULE DualGate ------------------------------
(***************************************************************************)
(* inferfabric/ratelimit.py: the gates every forwarded request goes        *)
(* through, on a thread of its own.                                        *)
(*                                                                         *)
(* Gate 1 is two token buckets, one for the server and one for the model,  *)
(* that refill with time.  Gate 2 is an optional global semaphore and one  *)
(* semaphore for the model.  "The model" is the name the client sent: the  *)
(* limiter makes a bucket and a semaphore for every name it meets, while   *)
(* requests are routed by the configured name as well as by the name the   *)
(* engine serves (manager.py:218), so an upstream may have two of each.    *)
(*                                                                         *)
(* In mode "reject" an empty bucket or a semaphore that stays at 0 for the *)
(* timeout refuses the request (429); in mode "observe" an empty bucket is *)
(* only logged, and a request that has waited 300 s for a semaphore is let *)
(* through without it.  A GateResult remembers what was taken, and         *)
(* release() gives that back.                                              *)
(*                                                                         *)
(* A wait may time out only while there is nothing to take, as in          *)
(* threading.Semaphore.acquire.  Tokens arrive one at a time (the code     *)
(* adds fractions of one when it looks).                                   *)
(***************************************************************************)
EXTENDS Naturals, FiniteSets

CONSTANTS
    Requests,       \* request threads of the gateway
    Names,          \* names of models that clients send
    Models,         \* models of the configuration, each with one upstream
    ModelOf,        \* the model a name is routed to
    ServerBurst,    \* capacity of the server's bucket, 0 when disabled
    ModelBurst,     \* capacity of a model's bucket, 0 when disabled
    Settings,       \* records [mode, globalMax]: what rate_limit.mode and
                    \* global_max_concurrent (0: no such gate) may be
    ModelMax,       \* max_concurrent
    MaxArrivals,    \* bound: requests
    MaxRefills      \* bound: tokens that arrive in the server's bucket

ASSUME RequestAssumption == IsFiniteSet(Requests)
ASSUME SettingsAssumption ==
    Settings \subseteq [mode : {"observe", "reject"}, globalMax : Nat]
NamesOf(m) == {n \in Names : ModelOf[n] = m}

\* find_model_by_served_name(): by served_name, then by the model's own name.
ASSUME NameAssumption ==
    /\ ModelOf \in [Names -> Models]
    /\ \A m \in Models : \A a, b, c \in NamesOf(m) : a = b \/ b = c \/ a = c
ASSUME LimitAssumption ==
    /\ ServerBurst \in Nat /\ ModelBurst \in Nat /\ ModelMax \in Nat
    /\ MaxArrivals \in Nat /\ MaxRefills \in Nat

VARIABLES
    settings,       \* the limiter's settings, read once from iff.yaml
    server,         \* tokens in the server's bucket
    bucket,         \* tokens in the bucket of a name
    globalSem,      \* value of the global semaphore
    modelSem,       \* value of the semaphore of a name
    pc,             \* where a request is
    want,           \* the name of the model it asks for
    rpmHeld,        \* its acquire's rpm_held
    globalHeld,     \* its GateResult._global_held, or acquire's global_held
    semHeld,        \* its GateResult._model_sem_held
    arrivals,       \* requests so far
    passed,         \* requests that took a token from both buckets
    refills         \* tokens that arrived in the server's bucket

buckets == <<server, bucket>>
sems == <<globalSem, modelSem>>
held == <<rpmHeld, globalHeld, semHeld>>
counts == <<settings, arrivals, passed, refills>>
vars == <<buckets, sems, pc, want, held, counts>>

Mode == settings.mode
GlobalMax == settings.globalMax

Rest == "rest"
Server == "server"      \* in RateLimiterV2, at the server's bucket
Bucket == "bucket"      \* at the name's bucket, with a server token
Global == "global"      \* waits for the global semaphore
Model == "model"        \* waits for the name's semaphore
Serving == "serving"    \* let through: the upstream works on it
Locations == {Rest, Server, Bucket, Global, Model, Serving}

Goto(r, from, to) == pc[r] = from /\ pc' = [pc EXCEPT ![r] = to]

Init ==
    /\ settings \in Settings
    /\ server = ServerBurst
    /\ bucket = [n \in Names |-> ModelBurst]
    /\ globalSem = GlobalMax
    /\ modelSem = [n \in Names |-> ModelMax]
    /\ pc = [r \in Requests |-> Rest]
    /\ want \in [Requests -> Names]
    /\ rpmHeld = [r \in Requests |-> FALSE]
    /\ globalHeld = [r \in Requests |-> FALSE]
    /\ semHeld = [r \in Requests |-> FALSE]
    /\ arrivals = 0 /\ passed = 0 /\ refills = 0

-----------------------------------------------------------------------------
(* Token buckets.  A disabled bucket always has a token.                   *)

HasToken(tokens, burst) == burst = 0 \/ tokens > 0
TakeToken(tokens, burst) == IF burst = 0 THEN tokens ELSE tokens - 1

ReturnToken(tokens, burst) == IF tokens < burst THEN tokens + 1 ELSE tokens

RefillServer ==
    /\ refills < MaxRefills
    /\ server < ServerBurst
    /\ server' = server + 1
    /\ refills' = refills + 1
    /\ UNCHANGED <<bucket, sems, pc, want, held, settings, arrivals, passed>>

RefillBucket(n) ==
    /\ bucket[n] < ModelBurst
    /\ bucket' = [bucket EXCEPT ![n] = @ + 1]
    /\ UNCHANGED <<server, sems, pc, want, held, counts>>

-----------------------------------------------------------------------------
(* acquire(name): gate 1.                                                  *)

Arrive(r, n) ==
    /\ arrivals < MaxArrivals
    /\ arrivals' = arrivals + 1
    /\ Goto(r, Rest, Server)
    /\ want' = [want EXCEPT ![r] = n]
    /\ UNCHANGED <<buckets, sems, held, settings, passed, refills>>

(* What an empty bucket means: 429, or a line in the log.                  *)
Limited == IF Mode = "observe" THEN Global ELSE Rest

ServerToken(r) ==
    /\ Goto(r, Server, Bucket)
    /\ HasToken(server, ServerBurst)
    /\ server' = TakeToken(server, ServerBurst)
    /\ UNCHANGED <<bucket, sems, want, held, counts>>

(* Mutant: the token that was not to be had is given back.                 *)
ServerEmptyReturns(r) ==
    /\ Goto(r, Server, Limited)
    /\ ~HasToken(server, ServerBurst)
    /\ server' = ReturnToken(server, ServerBurst)
    /\ UNCHANGED <<bucket, sems, want, held, counts>>

ServerEmpty(r) ==
    /\ Goto(r, Server, Limited)
    /\ ~HasToken(server, ServerBurst)
    /\ UNCHANGED <<buckets, sems, want, held, counts>>

(* acquire() notes rpm_held in mode "observe" alone.                       *)
BucketToken(r) ==
    /\ Goto(r, Bucket, Global)
    /\ HasToken(bucket[want[r]], ModelBurst)
    /\ bucket' = [bucket EXCEPT ![want[r]] = TakeToken(@, ModelBurst)]
    /\ rpmHeld' = [rpmHeld EXCEPT ![r] = (Mode = "observe")]
    /\ passed' = passed + 1
    /\ UNCHANGED <<server, sems, want, globalHeld, semHeld,
                   settings, arrivals, refills>>

(* The server's token is given back.                                       *)
BucketEmpty(r) ==
    /\ Goto(r, Bucket, Limited)
    /\ ~HasToken(bucket[want[r]], ModelBurst)
    /\ server' = ReturnToken(server, ServerBurst)
    /\ UNCHANGED <<bucket, sems, want, held, counts>>

-----------------------------------------------------------------------------
(* acquire(name): gate 2.                                                  *)

(* RateLimiterV2.release, when rpm_held.                                   *)
ReturnTokens(r) ==
    IF rpmHeld[r]
    THEN /\ server' = ReturnToken(server, ServerBurst)
         /\ bucket' = [bucket EXCEPT ![want[r]] = ReturnToken(@, ModelBurst)]
    ELSE UNCHANGED buckets

GlobalTake(r) ==
    /\ Goto(r, Global, Model)
    /\ IF GlobalMax = 0
       THEN UNCHANGED <<globalSem, globalHeld>>
       ELSE /\ globalSem > 0
            /\ globalSem' = globalSem - 1
            /\ globalHeld' = [globalHeld EXCEPT ![r] = TRUE]
    /\ UNCHANGED <<buckets, modelSem, want, rpmHeld, semHeld, counts>>

GlobalTimeout(r) ==
    /\ GlobalMax > 0 /\ globalSem = 0
    /\ IF Mode = "observe"
       THEN Goto(r, Global, Serving) /\ UNCHANGED buckets
       ELSE Goto(r, Global, Rest) /\ ReturnTokens(r)
    /\ UNCHANGED <<sems, want, held, counts>>

ModelTake(r) ==
    /\ Goto(r, Model, Serving)
    /\ modelSem[want[r]] > 0
    /\ modelSem' = [modelSem EXCEPT ![want[r]] = @ - 1]
    /\ semHeld' = [semHeld EXCEPT ![r] = TRUE]
    /\ UNCHANGED <<buckets, globalSem, want, rpmHeld, globalHeld, counts>>

(* Mutant: a refused request keeps its global permit.                      *)
ModelTimeoutKeeps(r) ==
    /\ Goto(r, Model, Rest)
    /\ modelSem[want[r]] = 0
    /\ ReturnTokens(r)
    /\ globalHeld' = [globalHeld EXCEPT ![r] = FALSE]
    /\ UNCHANGED <<sems, want, rpmHeld, semHeld, counts>>

(* Mutant: a request that times out is let through, as in mode "observe".  *)
ModelTimeoutServes(r) ==
    /\ Goto(r, Model, Serving)
    /\ modelSem[want[r]] = 0
    /\ globalSem' = globalSem + (IF globalHeld[r] THEN 1 ELSE 0)
    /\ globalHeld' = [globalHeld EXCEPT ![r] = FALSE]
    /\ UNCHANGED <<buckets, modelSem, want, rpmHeld, semHeld, counts>>

(* The global permit is given back.  In mode "reject" the request is       *)
(* refused; in mode "observe" it goes on with a GateResult that still      *)
(* holds the global permit.                                                *)
ModelTimeout(r) ==
    /\ modelSem[want[r]] = 0
    /\ globalSem' = globalSem + (IF globalHeld[r] THEN 1 ELSE 0)
    /\ IF Mode = "observe"
       THEN Goto(r, Model, Serving) /\ UNCHANGED <<buckets, globalHeld>>
       ELSE /\ Goto(r, Model, Rest)
            /\ ReturnTokens(r)
            /\ globalHeld' = [globalHeld EXCEPT ![r] = FALSE]
    /\ UNCHANGED <<modelSem, want, rpmHeld, semHeld, counts>>

(* Mutant: release() gives the permit of the model back only.              *)
ReleaseModel(r) ==
    /\ Goto(r, Serving, Rest)
    /\ modelSem' = [modelSem EXCEPT ![want[r]] =
                        @ + (IF semHeld[r] THEN 1 ELSE 0)]
    /\ rpmHeld' = [rpmHeld EXCEPT ![r] = FALSE]
    /\ globalHeld' = [globalHeld EXCEPT ![r] = FALSE]
    /\ semHeld' = [semHeld EXCEPT ![r] = FALSE]
    /\ UNCHANGED <<buckets, globalSem, want, counts>>

(* Mutant: release() does not ask whether the model's permit is held.      *)
ReleaseUnheld(r) ==
    /\ Goto(r, Serving, Rest)
    /\ modelSem' = [modelSem EXCEPT ![want[r]] = @ + 1]
    /\ globalSem' = globalSem + (IF globalHeld[r] THEN 1 ELSE 0)
    /\ rpmHeld' = [rpmHeld EXCEPT ![r] = FALSE]
    /\ globalHeld' = [globalHeld EXCEPT ![r] = FALSE]
    /\ semHeld' = [semHeld EXCEPT ![r] = FALSE]
    /\ UNCHANGED <<buckets, want, counts>>

(* The response is sent or has failed: the handler's finally clause calls  *)
(* GateResult.release(), which gives no tokens back.                       *)
Release(r) ==
    /\ Goto(r, Serving, Rest)
    /\ modelSem' = [modelSem EXCEPT ![want[r]] =
                        @ + (IF semHeld[r] THEN 1 ELSE 0)]
    /\ globalSem' = globalSem + (IF globalHeld[r] THEN 1 ELSE 0)
    /\ rpmHeld' = [rpmHeld EXCEPT ![r] = FALSE]
    /\ globalHeld' = [globalHeld EXCEPT ![r] = FALSE]
    /\ semHeld' = [semHeld EXCEPT ![r] = FALSE]
    /\ UNCHANGED <<buckets, want, counts>>

Acquires(r) ==
    \/ ServerToken(r) \/ ServerEmpty(r) \/ BucketToken(r) \/ BucketEmpty(r)
    \/ GlobalTake(r) \/ GlobalTimeout(r) \/ ModelTake(r) \/ ModelTimeout(r)

Next ==
    \/ \E r \in Requests :
          Acquires(r) \/ Release(r) \/ \E n \in Names : Arrive(r, n)
    \/ RefillServer
    \/ \E n \in Names : RefillBucket(n)

Spec == Init /\ [][Next]_vars

(* Every wait has a timeout, and so has every upstream call.               *)
FairSpec ==
    Spec /\ \A r \in Requests : WF_vars(Acquires(r)) /\ WF_vars(Release(r))

-----------------------------------------------------------------------------
TypeOK ==
    /\ settings \in Settings
    /\ server \in 0 .. ServerBurst
    /\ bucket \in [Names -> 0 .. ModelBurst]
    /\ globalSem \in Nat
    /\ modelSem \in [Names -> Nat]
    /\ pc \in [Requests -> Locations]
    /\ want \in [Requests -> Names]
    /\ rpmHeld \in [Requests -> BOOLEAN]
    /\ globalHeld \in [Requests -> BOOLEAN]
    /\ semHeld \in [Requests -> BOOLEAN]
    /\ arrivals \in 0 .. MaxArrivals
    /\ passed \in Nat
    /\ refills \in 0 .. MaxRefills

GlobalHolders == {r \in Requests : globalHeld[r]}
Holders(n) == {r \in Requests : semHeld[r] /\ want[r] = n}
Served(n) == {r \in Requests : pc[r] = Serving /\ want[r] = n}
Upstream(m) == {r \in Requests : pc[r] = Serving /\ ModelOf[want[r]] = m}

(***************************************************************************)
(* "acquire/release symmetric" (GateResult): the permits that are free and *)
(* those that requests hold make up the configured number, for each        *)
(* name's semaphore, and for the global one in mode "reject"; in mode     *)
(* "observe" a wait for the model that times out gives the global permit   *)
(* back twice (NoExtraPermit).                                             *)
(***************************************************************************)
PermitsConserved ==
    /\ \A n \in Names : modelSem[n] + Cardinality(Holders(n)) = ModelMax
    /\ Mode = "reject" =>
          globalSem + Cardinality(GlobalHolders) = GlobalMax

(***************************************************************************)
(* The same promise seen from the semaphore, in both modes: no permit is   *)
(* given back twice, so it never has more than it was made with.           *)
(***************************************************************************)
NoExtraPermit == globalSem <= GlobalMax

(***************************************************************************)
(* The concurrency gate is a hard one: the upstream of a model never works *)
(* on more than max_concurrent requests for each of the names it is asked  *)
(* by, whatever is refused, times out and ends around it.  Mode "reject".  *)
(***************************************************************************)
HardGate ==
    Mode = "reject" => \A m \in Models :
        Cardinality(Upstream(m)) <= ModelMax * Cardinality(NamesOf(m))

(***************************************************************************)
(* What one would expect of max_concurrent "per model": no more than that  *)
(* at one upstream.  It does not hold of a model with two names.           *)
(***************************************************************************)
OneGate ==
    Mode = "reject" => \A m \in Models : Cardinality(Upstream(m)) <= ModelMax

(***************************************************************************)
(* No more requests pass the rate gate than the server's burst and what    *)
(* has been refilled since, however many were refused by their model's     *)
(* bucket and gave the server's token back.                                *)
(***************************************************************************)
AtBucket == {r \in Requests : pc[r] = Bucket}
RateBound ==
    ServerBurst > 0 =>
        server + Cardinality(AtBucket) + passed <= ServerBurst + refills

(***************************************************************************)
(* Every request gets an answer, and when no more arrive every permit is   *)
(* back in its semaphore for good (the global one at least: NoExtraPermit).*)
(***************************************************************************)
Drained ==
    /\ \A r \in Requests : pc[r] = Rest
    /\ globalSem >= GlobalMax
    /\ \A n \in Names : modelSem[n] = ModelMax
Drains == <>[]Drained
=============================================================================
