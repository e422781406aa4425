------------------------------- MODULE Forward -------------------------------
(***************************************************************************)
(* What a request thread of the gateway does with one inference request:   *)
(* OpenAI chat completions (handle_chat), the same to an Ollama server     *)
(* (handle_ollama_native), Anthropic messages (_handle_messages,           *)
(* forward_anthropic_local), embeddings and rerank (_pipeline_guard and    *)
(* its callers) and both protocols to a cloud provider (forward_to_cloud). *)
(* Threads share the replica counters, the port attribute of the model     *)
(* object, the permits of the gate and the response cache; each replies to *)
(* its client and writes a row of the request log.                         *)
(*                                                                         *)
(* All requests ask for one model with replicas, but those to Ollama, and  *)
(* those that may be cached have the same body.  Where a request is        *)
(* routed, whether its key is known and whether the model can be had       *)
(* (Supervisor) is any of the outcomes.                                    *)
(***************************************************************************)
EXTENDS Naturals, Sequences, FiniteSets

CONSTANTS
    Requests,
    Replicas,       \* ports of the model's replicas, none if it has none
    Own,            \* the port models.d gives it
    Tries,          \* attempts at an upstream
    MaxPermits,     \* permits of the model in DualGate
    NamesAgree      \* served_model_name is the name of the configuration

Kinds == {"chat", "ollama", "messages", "embed", "cloud"}
Outcomes == {"ok", "busy", "bad"}       \* 200; 5xx, 408 or 429; another status

ASSUME PortAssumption == Own \notin Replicas
ASSUME BoundAssumption ==
    Tries \in Nat \ {0} /\ MaxPermits \in Nat /\ NamesAgree \in BOOLEAN

VARIABLES
    rq,             \* the requests
    inflight,       \* ReplicaSelector._active
    mport,          \* model_obj.port
    permits,        \* free permits
    cache,          \* the reply cached for the body: none, or the protocol's
    rows            \* statuses of the rows logged for each request

vars == <<rq, inflight, mport, permits, cache, rows>>
shared == <<inflight, mport, permits, cache>>

\* lines: status lines the client was sent; first: the status of the first,
\* form: the protocol of its body; hit: it came from the cache.
Idle == [pc |-> "idle", kind |-> "none", stream |-> FALSE, tries |-> 0, port |-> Own,
         orig |-> Own, lines |-> 0, first |-> "none", form |-> "none", hit |-> FALSE]

Init ==
    /\ rq = [r \in Requests |-> Idle]
    /\ inflight = [p \in Replicas |-> 0]
    /\ mport = Own
    /\ permits = MaxPermits
    /\ cache = "none"
    /\ rows = [r \in Requests |-> <<>>]

At(r, kind, pc) == rq[r].kind = kind /\ rq[r].pc = pc
Goto(r, pc) == rq' = [rq EXCEPT ![r].pc = pc]

\* A status line and the rest of a reply, and where the thread goes then.
Sent(r, status, form, pc) ==
    [rq[r] EXCEPT !.lines = @ + 1,
                  !.first = IF rq[r].lines = 0 THEN status ELSE @,
                  !.form = IF rq[r].lines = 0 THEN form ELSE @,
                  !.pc = pc]
Reply(r, status, pc) == rq' = [rq EXCEPT ![r] = Sent(r, status, rq[r].kind, pc)]
Log(r, status) == rows' = [rows EXCEPT ![r] = Append(@, status)]

\* Another attempt, or none left: exponential_backoff() in between.
Again(r, pc) ==
    rq' = [rq EXCEPT ![r].tries = @ + 1,
                     ![r].pc = IF rq[r].tries + 1 < Tries THEN pc ELSE "exhausted"]
LastTry(r) == rq[r].tries + 1 = Tries

\* should_retry_on_status(), with an attempt left.
Retries(r, status) == status = "busy" /\ ~LastTry(r)

\* ReplicaSelector.select(): the first of the least busy.
LeastBusy == {p \in Replicas : \A q \in Replicas : inflight[p] <= inflight[q]}
Select(p) == inflight' = [inflight EXCEPT ![p] = @ + 1]

\* ReplicaSelector.release(): not below zero, and not of a port that is none.
Release(p) == inflight' = [q \in Replicas |-> IF q = p /\ inflight[q] > 0
                                              THEN inflight[q] - 1 ELSE inflight[q]]

-----------------------------------------------------------------------------
(* The way in.                                                             *)

Arrive(r) ==
    /\ rq[r].pc = "idle"
    /\ \E k \in Kinds, s \in BOOLEAN :
          /\ k = "embed" => ~s
          /\ rq' = [rq EXCEPT ![r].kind = k, ![r].stream = s, ![r].pc = "in"]
    /\ UNCHANGED <<shared, rows>>

\* A body that is no JSON or names no model: 400, and no row.
BadBody(r) ==
    /\ rq[r].pc = "in"
    /\ Reply(r, "error", "done")
    /\ UNCHANGED <<shared, rows>>

\* The early returns, each with its row and its reply.
Refused(r) ==
    /\ Log(r, "error")
    /\ Reply(r, "error", "done")
    /\ UNCHANGED shared

\* 401: the key is unknown, or not for this model.
KeyRefused(r) == rq[r].pc = "in" /\ Refused(r)

\* A chat whose model cannot be had: 409 while it is switched to, 503 when it
\* was stopped or may not run, 404 without a port and a provider.
ChatRefused(r) == rq[r].pc = "in" /\ rq[r].kind \in {"chat", "ollama", "cloud"} /\ Refused(r)

\* A message while another model is switched to, or when its own cannot be ...
MessagesRefused(r) == At(r, "messages", "in") /\ Refused(r)

\* ... or for a name that is neither a local model's nor a provider's.
UnknownModel(r) == rq[r].pc = "in" /\ rq[r].kind \in {"messages", "cloud"} /\ Refused(r)

\* Embeddings, in _pipeline_guard's order: unknown, switching, of another type,
\* without a port, not active.
EmbedRefused(r) == At(r, "embed", "in") /\ Refused(r)

\* A cached reply is sent as it is, with no row: nothing was inferred.
CacheHit(r) ==
    /\ rq[r].pc = "in" /\ rq[r].kind \in {"chat", "messages"} /\ ~rq[r].stream
    /\ cache \in Kinds
    /\ rq' = [rq EXCEPT ![r] = [Sent(r, "ok", cache, "done") EXCEPT !.hit = TRUE]]
    /\ UNCHANGED <<shared, rows>>

\* No hit, or not to be cached: the model's port, a provider, or the guard.
ChatRouted(r) ==
    /\ rq[r].pc = "in" /\ rq[r].kind \in {"chat", "ollama"}
    /\ Goto(r, IF rq[r].kind = "chat" THEN "select" ELSE "try")
    /\ UNCHANGED <<shared, rows>>

MessagesRouted(r) ==
    /\ At(r, "messages", "in") \/ At(r, "embed", "in")
    /\ Goto(r, "gate")
    /\ UNCHANGED <<shared, rows>>

CloudRouted(r) ==
    /\ At(r, "cloud", "in")
    /\ Goto(r, "try")
    /\ UNCHANGED <<shared, rows>>

\* /api/cache/toggle makes a new cache or none; an entry may be evicted.
ToggleCache ==
    /\ cache' = IF cache = "off" THEN "none" ELSE "off"
    /\ UNCHANGED <<rq, rows, inflight, mport, permits>>
Evict ==
    /\ cache \in Kinds /\ cache' = "none"
    /\ UNCHANGED <<rq, rows, inflight, mport, permits>>

Store(r, status) ==
    cache' = IF cache # "off" /\ ~rq[r].stream /\ status = "ok" THEN rq[r].kind ELSE cache

-----------------------------------------------------------------------------
(* Chat completions.                                                       *)

\* The replica is taken before the gate is asked.
ChatSelect(r) ==
    /\ At(r, "chat", "select")
    /\ \/ /\ Replicas = {}
          /\ Goto(r, "gate") /\ UNCHANGED inflight
       \/ \E p \in LeastBusy :
             /\ Select(p)
             /\ rq' = [rq EXCEPT ![r].port = p, ![r].pc = "gate"]
    /\ UNCHANGED <<mport, permits, cache, rows>>

\* 429 when the gate's timeout passes.  The replica stays counted.
ChatGate(r) ==
    /\ At(r, "chat", "gate")
    /\ \/ /\ permits > 0 /\ permits' = permits - 1
          /\ Goto(r, "try") /\ UNCHANGED rows
       \/ /\ permits = 0 /\ UNCHANGED permits
          /\ Log(r, "error") /\ Reply(r, "error", "done")
    /\ UNCHANGED <<inflight, mport, cache>>

\* Every attempt ends with release_port under the name the client used.
ReleaseByName(r) == IF NamesAgree THEN Release(rq[r].port) ELSE UNCHANGED inflight

\* _forward_request returns True: some status has been sent, whole or not.
ChatSends(r) ==
    /\ At(r, "chat", "try")
    /\ \E s \in Outcomes : Reply(r, s, "sent") /\ Store(r, s)
    /\ ReleaseByName(r)
    /\ UNCHANGED <<mport, permits, rows>>

\* Mutant: a stream that breaks after its headers is retried as well.
ChatFailsAny(r) ==
    /\ At(r, "chat", "try")
    /\ \/ Again(r, "try")
       \/ /\ rq[r].stream
          /\ rq' = [rq EXCEPT ![r] = [Sent(r, "ok", "chat", IF LastTry(r) THEN "exhausted" ELSE "try")
                                      EXCEPT !.tries = @ + 1]]
    /\ ReleaseByName(r)
    /\ UNCHANGED <<mport, permits, cache, rows>>

\* ... or False: no header has been sent.
ChatFails(r) ==
    /\ At(r, "chat", "try")
    /\ Again(r, "try")
    /\ ReleaseByName(r)
    /\ UNCHANGED <<mport, permits, cache, rows>>

\* Mutant: only a request that is not a stream is logged.
ChatLogsBodies(r) ==
    /\ At(r, "chat", "sent")
    /\ IF rq[r].stream THEN UNCHANGED rows ELSE Log(r, "ok")
    /\ permits' = permits + 1
    /\ Goto(r, "done")
    /\ UNCHANGED <<inflight, mport, cache>>

\* The row says 200 whatever the upstream said.
ChatLogs(r) ==
    /\ At(r, "chat", "sent")
    /\ Log(r, "ok")
    /\ permits' = permits + 1
    /\ Goto(r, "done")
    /\ UNCHANGED <<inflight, mport, cache>>

\* Mutant: the permit is given back on success only.
ChatExhaustedKeeps(r) ==
    /\ At(r, "chat", "exhausted")
    /\ Log(r, "error") /\ Reply(r, "error", "done")
    /\ UNCHANGED shared

ChatExhausted(r) ==
    /\ At(r, "chat", "exhausted")
    /\ Log(r, "error") /\ Reply(r, "error", "done")
    /\ permits' = permits + 1
    /\ UNCHANGED <<inflight, mport, cache>>

-----------------------------------------------------------------------------
(* Chat completions of an Ollama server: one attempt, no gate and no row.  *)

\* 502 when it cannot be reached; 500 when a body that is no stream breaks off.
OllamaFails(r) ==
    /\ At(r, "ollama", "try")
    /\ Reply(r, "error", "done")
    /\ UNCHANGED <<shared, rows>>

\* Its status, and a whole body or a stream of its lines, translated.
OllamaSends(r) ==
    /\ At(r, "ollama", "try")
    /\ \E s \in Outcomes : Reply(r, s, IF rq[r].stream /\ s = "ok" THEN "streaming" ELSE "done")
    /\ UNCHANGED <<shared, rows>>

\* A stream ends with [DONE], or breaks off and is closed without it.
OllamaStreamed(r) ==
    /\ At(r, "ollama", "streaming")
    /\ Goto(r, "done")
    /\ UNCHANGED <<shared, rows>>

-----------------------------------------------------------------------------
(* Anthropic messages to the local model.                                  *)

\* _forward_local: here a 429 is not logged, and a model with replicas has
\* its port swapped for the replica's.
MessagesGate(r) ==
    /\ At(r, "messages", "gate")
    /\ \/ /\ permits > 0 /\ permits' = permits - 1 /\ Goto(r, "swap")
       \/ /\ permits = 0 /\ UNCHANGED permits /\ Reply(r, "error", "done")
    /\ UNCHANGED <<inflight, mport, cache, rows>>

MessagesSwap(r) ==
    /\ At(r, "messages", "swap")
    /\ \/ /\ Replicas = {} /\ Goto(r, "try")
          /\ UNCHANGED <<inflight, mport>>
       \/ \E p \in LeastBusy :
             /\ Select(p) /\ mport' = p
             /\ rq' = [rq EXCEPT ![r].port = p, ![r].orig = mport, ![r].pc = "try"]
    /\ UNCHANGED <<permits, cache, rows>>

\* The end of _forward_local.
GiveBack(r) ==
    /\ permits' = permits + 1
    /\ IF Replicas = {} THEN UNCHANGED <<inflight, mport>>
                        ELSE Release(rq[r].port) /\ mport' = rq[r].orig

\* A whole reply, and its row; a status that is not 200 becomes 502.
MessagesLogs(r) ==
    /\ At(r, "messages", "sent")
    /\ Log(r, IF rq[r].first = "ok" THEN "ok" ELSE "error")
    /\ GiveBack(r)
    /\ Goto(r, "done")
    /\ UNCHANGED cache

\* All attempts failed: 503, and no row.
MessagesExhausted(r) ==
    /\ At(r, "messages", "exhausted")
    /\ Reply(r, "error", "done")
    /\ GiveBack(r)
    /\ UNCHANGED <<cache, rows>>

-----------------------------------------------------------------------------
(* The retry chains of messages and of the cloud.                          *)

Chains == {"messages", "cloud"}

\* The upstream answers with a status that is sent on.  A body is read first.
ChainSends(r) ==
    /\ rq[r].pc = "try" /\ rq[r].kind \in Chains
    /\ \E s \in Outcomes :
          /\ ~Retries(r, s)
          /\ Reply(r, s, IF rq[r].stream /\ (s = "ok" \/ rq[r].kind = "messages") THEN "streaming" ELSE "sent")
          /\ IF rq[r].kind = "messages" THEN Store(r, s) ELSE UNCHANGED cache
    /\ UNCHANGED <<inflight, mport, permits, rows>>

\* A status to retry, or no answer: the next attempt reads model_obj.port anew.
ChainFails(r) ==
    /\ rq[r].pc = "try" /\ rq[r].kind \in Chains
    /\ Again(r, "try")
    /\ UNCHANGED <<shared, rows>>

StreamEnds(r) ==
    /\ rq[r].pc = "streaming" /\ rq[r].kind \in Chains
    /\ Goto(r, "sent")
    /\ UNCHANGED <<shared, rows>>

\* The upstream breaks off: the exception leaves pipe_stream_response and is
\* taken for a failed attempt, or ends the attempts.
StreamBreaks(r) ==
    /\ rq[r].pc = "streaming" /\ rq[r].kind \in Chains
    /\ \/ Again(r, "try")
       \/ /\ rq[r].kind = "messages" /\ Goto(r, "exhausted")
    /\ UNCHANGED <<shared, rows>>

CloudLogs(r) ==
    /\ At(r, "cloud", "sent")
    /\ Log(r, IF rq[r].first = "ok" THEN "ok" ELSE "error")
    /\ Goto(r, "done")
    /\ UNCHANGED shared

CloudExhausted(r) ==
    /\ At(r, "cloud", "exhausted")
    /\ Reply(r, "error", "done")
    /\ Log(r, "error")
    /\ UNCHANGED shared

-----------------------------------------------------------------------------
(* Embeddings and rerank: one attempt, at the model's own port.            *)

EmbedGate(r) ==
    /\ At(r, "embed", "gate")
    /\ \/ /\ permits > 0 /\ permits' = permits - 1
          /\ Goto(r, "try") /\ UNCHANGED rows
       \/ /\ permits = 0 /\ UNCHANGED permits
          /\ Log(r, "error") /\ Reply(r, "error", "done")
    /\ UNCHANGED <<inflight, mport, cache>>

\* A model that is not active is started, one that does not answer is
\* restarted; 503 if that fails.
EmbedUnstarted(r) ==
    /\ At(r, "embed", "try")
    /\ Reply(r, "busy", "sent")
    /\ UNCHANGED <<shared, rows>>

\* The upstream's status is sent on, 503 when it cannot be reached.
EmbedSends(r) ==
    /\ At(r, "embed", "try")
    /\ \E s \in Outcomes : Reply(r, s, "sent")
    /\ UNCHANGED <<shared, rows>>

EmbedLogs(r) ==
    /\ At(r, "embed", "sent")
    /\ Log(r, rq[r].first)
    /\ permits' = permits + 1
    /\ Goto(r, "done")
    /\ UNCHANGED <<inflight, mport, cache>>

-----------------------------------------------------------------------------
Step(r) ==
    \/ BadBody(r) \/ KeyRefused(r) \/ ChatRefused(r) \/ MessagesRefused(r) \/ UnknownModel(r)
    \/ EmbedRefused(r) \/ CacheHit(r) \/ ChatRouted(r) \/ MessagesRouted(r) \/ CloudRouted(r)
    \/ OllamaFails(r) \/ OllamaSends(r) \/ OllamaStreamed(r)
    \/ ChatSelect(r) \/ ChatGate(r) \/ ChatSends(r) \/ ChatFails(r) \/ ChatLogs(r)
    \/ ChatExhausted(r)
    \/ MessagesGate(r) \/ MessagesSwap(r) \/ MessagesLogs(r) \/ MessagesExhausted(r)
    \/ ChainSends(r) \/ ChainFails(r) \/ StreamEnds(r) \/ StreamBreaks(r)
    \/ CloudLogs(r) \/ CloudExhausted(r)
    \/ EmbedGate(r) \/ EmbedUnstarted(r) \/ EmbedSends(r) \/ EmbedLogs(r)

Next ==
    \/ \E r \in Requests : Arrive(r) \/ Step(r)
    \/ ToggleCache \/ Evict

Spec == Init /\ [][Next]_vars

\* Connections, reads and the gate have timeouts, so each step ends.
FairSpec == Spec /\ \A r \in Requests : WF_vars(Step(r))

-----------------------------------------------------------------------------
(* Properties.                                                             *)

Done(r) == rq[r].pc = "done"

\* The type of every variable.
TypeOK ==
    /\ rq \in [Requests ->
          [pc : {"idle", "in", "select", "gate", "swap", "try", "streaming", "sent",
                 "exhausted", "done"},
           kind : Kinds \cup {"none"}, stream : BOOLEAN, tries : 0 .. Tries,
           port : Replicas \cup {Own}, orig : Replicas \cup {Own},
           lines : 0 .. Tries + 1, first : Outcomes \cup {"error", "none"},
           form : Kinds \cup {"none"}, hit : BOOLEAN]]
    /\ inflight \in [Replicas -> Nat]
    /\ mport \in Replicas \cup {Own}
    /\ permits \in 0 .. MaxPermits
    /\ cache \in {"off", "none", "chat", "messages"}
    /\ rows \in [Requests -> Seq(Outcomes \cup {"error"})]

\* Retries do not show: a chat, embeddings or rerank request, and every one
\* that is no stream, is sent one status line however many attempts it took.
RetriesHidden ==
    \A r \in Requests :
        /\ rq[r].kind \in {"chat", "ollama", "embed"} \/ ~rq[r].stream => rq[r].lines <= 1
        /\ Done(r) => rq[r].lines >= 1

\* The statistics miss no inference and count none twice: a client that got
\* one reply, a 200, has one row, and it says 200, unless it is a replay or
\* Ollama's, which has none.
ServedIsLogged ==
    \A r \in Requests :
        Done(r) /\ rq[r].lines = 1 /\ rq[r].first = "ok"
            => rows[r] = IF rq[r].hit \/ rq[r].kind = "ollama" THEN <<>> ELSE <<"ok">>

\* Every request ends, and its permit is back with it: nothing waits for an
\* upstream for ever, and the gate is whole when nothing is under way.
Answered ==
    \A r \in Requests :
        rq[r].pc = "in" ~> Done(r) /\ (permits = MaxPermits \/ \E q \in Requests : ~Done(q))

\* A client gets one reply: retries are over before a stream is piped to it.
OneReply == \A r \in Requests : rq[r].lines <= 1

\* The model object gets its port back: it is its own when nothing is under way.
PortRestored == (\A r \in Requests : rq[r].pc \in {"idle", "done"}) => mport = Own

\* A replica's counter is the number of requests that have it selected.
Selected(r) ==
    \/ rq[r].kind = "chat" /\ rq[r].pc \in {"gate", "try"}
    \/ rq[r].kind = "messages" /\ rq[r].pc \in {"try", "streaming", "sent", "exhausted"}
ReplicaCounts ==
    \A p \in Replicas :
        inflight[p] = Cardinality({r \in Requests : Selected(r) /\ rq[r].port = p})

\* A reply is in the protocol of the request.
ReplyInProtocol == \A r \in Requests : rq[r].form \in {"none", rq[r].kind}
=============================================================================
