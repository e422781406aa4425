----------------------------- MODULE EdgeStream -----------------------------
(***************************************************************************)
(* inferfabric/proxy/async_server.py: one forwarded request on the aiohttp *)
(* edge.                                                                   *)
(*                                                                         *)
(* A worker thread runs the synchronous route and writes the upstream's    *)
(* answer to a sink.  The sink decodes the chunked frames and hands each   *)
(* chunk, and an end marker for the last frame, to the event loop as a     *)
(* callback.  The callback puts it into a bounded queue, or marks the      *)
(* client as gone when the queue is full.  The request's coroutine, the    *)
(* pump, takes the queue's items and writes them to the client, who may    *)
(* read slowly, stop reading, or go away.                                  *)
(*                                                                         *)
(* Chunks are numbered in the order the worker writes them, and each       *)
(* belongs to the answer of one attempt: a stream that breaks off in the   *)
(* middle is retried on two of the three routes, and the next answer goes  *)
(* into the same sink.  The loop's ready list is served first in, first    *)
(* out; the pump may run between any two callbacks.  A frame is three      *)
(* writes: only the last one hands something over, so it is one step here. *)
(***************************************************************************)
EXTENDS Naturals, Sequences

CONSTANTS
    Capacity,       \* maxsize of the queue, 1024 in the code
    MaxChunks,      \* bound: chunks of the streamed answers
    MaxAttempts     \* attempts to reach the upstream, 3 in the code

ASSUME StreamAssumption ==
    /\ Capacity \in Nat \ {0}
    /\ MaxChunks \in Nat \ {0}
    /\ MaxAttempts \in Nat \ {0}

VARIABLES
    route,          \* the code that forwards the request
    streaming,      \* does the request ask for a streamed answer?
    worker,         \* where the worker thread is
    attempt,        \* attempts that failed
    chunks,         \* chunks the worker has written
    origin,         \* the attempt whose answer each of them belongs to
    locked,         \* h._headers_locked: the worker has sent the headers
    framed,         \* sink._unframe: the headers said "chunked"
    ready,          \* callbacks the loop has still to run
    headersSet,     \* h._headers_evt
    finished,       \* the loop knows that the worker has ended
    queue,          \* the bounded queue
    gone,           \* sink._gone
    pump,           \* where the request's coroutine is
    item,           \* the chunk it writes
    connected,      \* is the client there?
    received        \* chunks the client has got

requestVars == <<route, streaming>>
sinkVars == <<chunks, origin, ready>>
headerVars == <<locked, framed>>
workerVars ==
    <<route, streaming, worker, attempt, chunks, origin, locked, framed>>
loopVars == <<ready, headersSet, finished>>
pumpVars == <<pump, item>>
clientVars == <<connected, received>>
vars == <<workerVars, loopVars, queue, gone, pumpVars, clientVars>>

End == 0                    \* _SENTINEL
Items == Nat

\* _forward_request(), forward_anthropic_local(), forward_to_cloud().
Routes == {"chat", "messages", "cloud"}

Headers == [do |-> "headers", item |-> End]
Put(i) == [do |-> "put", item |-> i]
Done == [do |-> "done", item |-> End]
Callbacks == [do : {"headers", "put", "done"}, item : Items]

Ended == pump \in {"closed", "failed", "cancelled"}

Init ==
    /\ route \in Routes /\ streaming \in BOOLEAN
    /\ worker = "connect"
    /\ attempt = 0
    /\ chunks = 0 /\ origin = <<>>
    /\ locked = FALSE /\ framed = FALSE
    /\ ready = <<>>
    /\ headersSet = FALSE
    /\ finished = FALSE
    /\ queue = <<>>
    /\ gone = FALSE
    /\ pump = "wait"
    /\ item = End
    /\ connected = TRUE
    /\ received = <<>>

-----------------------------------------------------------------------------
(* The worker thread: the route and the forwarder.                         *)

\* write() of the sink: raises once the client is gone, and _safe_write()
\* and send_json() swallow that.
Write(i) == ready' = IF gone THEN ready ELSE Append(ready, Put(i))

WriteNext ==
    /\ chunks' = chunks + 1
    /\ origin' = Append(origin, attempt)
    /\ Write(chunks + 1)

\* An attempt failed: back off and try again, or answer with an error.
Fail ==
    /\ attempt' = attempt + 1
    /\ worker' = IF attempt + 1 = MaxAttempts THEN "refuse" ELSE "connect"

\* No answer from the upstream, or one with a status that is retried.
AttemptFails ==
    /\ worker = "connect"
    /\ Fail
    /\ UNCHANGED <<requestVars, sinkVars, headerVars>>

\* An error that is not retried: a 4xx of the provider, an exception that is
\* none of the connection's.
GivesUp ==
    /\ worker = "connect" /\ route # "chat"
    /\ worker' = "refuse"
    /\ UNCHANGED <<requestVars, attempt, sinkVars, headerVars>>

\* The route raises before it has answered anything.
RouteRaises ==
    /\ worker = "connect" /\ attempt = 0
    /\ worker' = "return"
    /\ UNCHANGED <<requestVars, attempt, sinkVars, headerVars>>

\* Headers of a streamed answer, of a whole one, or of an error.  Once there
\* are headers, further ones are ignored.
SendHeaders ==
    /\ worker \in {"connect", "refuse"}
    /\ worker' = IF worker = "refuse" THEN "error"
                 ELSE IF streaming THEN "stream" ELSE "body"
    /\ locked' = TRUE
    /\ framed' = IF locked THEN framed ELSE worker = "connect" /\ streaming
    /\ ready' = IF locked THEN ready ELSE Append(ready, Headers)
    /\ UNCHANGED <<requestVars, attempt, chunks, origin>>

\* A whole answer is one write, without an end frame.  The cloud's route
\* reads the usage after that, and an exception there is one more failure.
WriteBody ==
    /\ worker = "body"
    /\ WriteNext
    /\ \/ worker' = "return" /\ UNCHANGED attempt
       \/ route = "cloud" /\ Fail
    /\ UNCHANGED <<requestVars, headerVars>>

\* The error's JSON.  In a sink that expects frames it is an unfinished size
\* line, which is never handed over.
WriteError ==
    /\ worker = "error"
    /\ worker' = "return"
    /\ IF framed THEN UNCHANGED sinkVars ELSE WriteNext
    /\ UNCHANGED <<requestVars, attempt, headerVars>>

WriteChunk ==
    /\ worker = "stream"
    /\ gone => route = "chat"
    /\ chunks < MaxChunks
    /\ WriteNext
    /\ UNCHANGED <<requestVars, worker, attempt, headerVars>>

\* pipe_stream_response() meets the BrokenPipeError of a client that has gone.
Abandon ==
    /\ worker = "stream"
    /\ gone /\ route # "chat"
    /\ worker' = "return"
    /\ UNCHANGED <<requestVars, attempt, sinkVars, headerVars>>

WriteEndFrame ==
    /\ worker = "stream"
    /\ worker' = "return"
    /\ Write(End)
    /\ UNCHANGED <<requestVars, attempt, chunks, origin, headerVars>>

(* Mutant: headers_sent is not set, and the chat route tries again.          *)
UpstreamBreaksAgain ==
    /\ worker = "stream"
    /\ Fail
    /\ UNCHANGED <<requestVars, sinkVars, headerVars>>

\* The upstream breaks off or is silent for 300 s.  The chat route leaves it
\* at that; the others try again, but for an exception that is none of the
\* connection's on the messages' route.
UpstreamBreaks ==
    /\ worker = "stream"
    /\ \/ route = "chat" /\ worker' = "return" /\ UNCHANGED attempt
       \/ route # "chat" /\ Fail
       \/ route = "messages" /\ worker' = "refuse" /\ UNCHANGED attempt
    /\ UNCHANGED <<requestVars, sinkVars, headerVars>>

(* Mutant: the worker waits until the pump has taken all it wrote.           *)
ReturnFlushed ==
    /\ worker = "return"
    /\ gone \/ (ready = <<>> /\ queue = <<>>)
    /\ worker' = "ended"
    /\ ready' = Append(ready, Done)
    /\ UNCHANGED <<requestVars, attempt, chunks, origin, headerVars>>

Return ==
    /\ worker = "return"
    /\ worker' = "ended"
    /\ ready' = Append(ready, Done)
    /\ UNCHANGED <<requestVars, attempt, chunks, origin, headerVars>>

Worker ==
    /\ \/ AttemptFails \/ GivesUp \/ RouteRaises \/ SendHeaders
       \/ WriteBody \/ WriteError \/ WriteChunk \/ Abandon
       \/ WriteEndFrame \/ UpstreamBreaks \/ Return
    /\ UNCHANGED <<headersSet, finished, queue, gone, pumpVars, clientVars>>

-----------------------------------------------------------------------------
(* The event loop's callbacks.                                             *)

RunHeaders ==
    /\ ready # <<>> /\ Head(ready).do = "headers"
    /\ ready' = Tail(ready)
    /\ headersSet' = TRUE
    /\ UNCHANGED <<finished, queue, gone>>

(* Mutant: a chunk that finds the queue full is tried again later.           *)
RunPutLater ==
    /\ ready # <<>> /\ Head(ready).do = "put"
    /\ IF Len(queue) < Capacity
       THEN queue' = Append(queue, Head(ready).item) /\ ready' = Tail(ready)
       ELSE ready' = Append(Tail(ready), Head(ready)) /\ UNCHANGED queue
    /\ UNCHANGED <<headersSet, finished, gone>>

(* Mutant: QueueFull is ignored.                                             *)
RunPutSilent ==
    /\ ready # <<>> /\ Head(ready).do = "put"
    /\ ready' = Tail(ready)
    /\ queue' = IF Len(queue) < Capacity THEN Append(queue, Head(ready).item)
                                        ELSE queue
    /\ UNCHANGED <<headersSet, finished, gone>>

RunPut ==
    /\ ready # <<>> /\ Head(ready).do = "put"
    /\ ready' = Tail(ready)
    /\ IF Len(queue) < Capacity
       THEN queue' = Append(queue, Head(ready).item) /\ UNCHANGED gone
       ELSE gone' = TRUE /\ UNCHANGED queue
    /\ UNCHANGED <<headersSet, finished>>

(* Mutant: no end marker when the worker ends.                               *)
RunDoneSilent ==
    /\ ready # <<>> /\ Head(ready).do = "done"
    /\ ready' = Tail(ready)
    /\ finished' = TRUE
    /\ UNCHANGED <<headersSet, queue, gone>>

\* The worker's future ends; its callback enqueues an end marker.
RunDone ==
    /\ ready # <<>> /\ Head(ready).do = "done"
    /\ ready' = Append(Tail(ready), Put(End))
    /\ finished' = TRUE
    /\ UNCHANGED <<headersSet, queue, gone>>

Loop ==
    /\ RunHeaders \/ RunPut \/ RunDone
    /\ UNCHANGED <<workerVars, pumpVars, clientVars>>

-----------------------------------------------------------------------------
(* The pump.                                                               *)

WakeOnHeaders ==
    /\ pump = "wait" /\ headersSet
    /\ pump' = "prepare"
    /\ UNCHANGED <<item, queue, gone, received>>

(* Mutant: a worker that ends first is taken for one that failed.            *)
WakeOnWorkerFails ==
    /\ pump = "wait" /\ finished
    /\ pump' = "failed"
    /\ UNCHANGED <<item, queue, gone, received>>

\* The worker ended first: 500, unless it has sent headers after all.
WakeOnWorker ==
    /\ pump = "wait" /\ finished
    /\ pump' = IF locked THEN "prepare" ELSE "failed"
    /\ UNCHANGED <<item, queue, gone, received>>

Prepare ==
    /\ pump = "prepare" /\ connected
    /\ pump' = "get"
    /\ UNCHANGED <<item, queue, gone, received>>

(* Mutant: the pump stops as soon as the worker has ended.                   *)
GetUnlessFinished ==
    /\ pump = "get" /\ queue # <<>>
    /\ item' = Head(queue)
    /\ queue' = Tail(queue)
    /\ pump' = IF Head(queue) = End \/ finished THEN "eof" ELSE "write"
    /\ UNCHANGED <<gone, received>>

Get ==
    /\ pump = "get" /\ queue # <<>>
    /\ item' = Head(queue)
    /\ queue' = Tail(queue)
    /\ pump' = IF Head(queue) = End THEN "eof" ELSE "write"
    /\ UNCHANGED <<gone, received>>

\* resp.write() returns: the client, or the socket's buffer, has taken it.
Deliver ==
    /\ pump = "write" /\ connected
    /\ received' = Append(received, item)
    /\ pump' = "get"
    /\ UNCHANGED <<item, queue, gone>>

\* resp.write() raises; so does write_eof(), and nobody waits for the worker.
WriteRaises ==
    /\ pump = "write" /\ ~connected
    /\ gone' = TRUE
    /\ pump' = "closed"
    /\ UNCHANGED <<item, queue, received>>

WriteEof ==
    /\ pump = "eof"
    /\ pump' = "join"
    /\ UNCHANGED <<item, queue, gone, received>>

JoinWorker ==
    /\ pump = "join" /\ finished
    /\ pump' = "closed"
    /\ UNCHANGED <<item, queue, gone, received>>

\* handler_cancellation: the connection is lost and the task is cancelled.
\* Only inside the pumping loop is the sink told.
Cancelled ==
    /\ ~connected /\ ~Ended
    /\ pump' = "cancelled"
    /\ gone' = (gone \/ pump \in {"get", "write"})
    /\ UNCHANGED <<item, queue, received>>

Pump ==
    /\ \/ WakeOnHeaders \/ WakeOnWorker \/ Prepare \/ Get \/ Deliver
       \/ WriteRaises \/ WriteEof \/ JoinWorker \/ Cancelled
    /\ UNCHANGED <<workerVars, loopVars, connected>>

Disconnect ==
    /\ connected /\ ~Ended
    /\ connected' = FALSE
    /\ UNCHANGED <<workerVars, loopVars, queue, gone, pumpVars, received>>

Next == Worker \/ Loop \/ Pump \/ Disconnect

Spec == Init /\ [][Next]_vars

-----------------------------------------------------------------------------
(* Fairness.  Reads of the upstream have timeouts, so the worker goes on;  *)
(* the loop runs its callbacks and the tasks that can run.  The client     *)
(* owes nothing: Deliver is not among the fair steps.                      *)
PumpRuns == Pump /\ ~Deliver
Reads == Pump /\ Deliver

FairSpec ==
    /\ Spec
    /\ WF_vars(Worker) /\ WF_vars(Loop)
    /\ WF_vars(PumpRuns)

-----------------------------------------------------------------------------
(* Properties.                                                             *)

(* Types; the queue never exceeds its capacity.                            *)
TypeOK ==
    /\ route \in Routes /\ streaming \in BOOLEAN
    /\ locked \in BOOLEAN /\ framed \in BOOLEAN /\ headersSet \in BOOLEAN
    /\ finished \in BOOLEAN /\ gone \in BOOLEAN /\ connected \in BOOLEAN
    /\ worker \in {"connect", "refuse", "stream", "body", "error", "return",
                   "ended"}
    /\ attempt \in 0 .. MaxAttempts
    /\ chunks \in Nat
    /\ origin \in Seq(0 .. MaxAttempts) /\ Len(origin) = chunks
    /\ ready \in Seq(Callbacks)
    /\ queue \in Seq(Items) /\ Len(queue) <= Capacity
    /\ pump \in {"wait", "prepare", "get", "write", "eof", "join",
                 "closed", "failed", "cancelled"}
    /\ item \in Items
    /\ received \in Seq(Nat \ {0})

(* Whatever is dropped on the way from the worker through the loop's       *)
(* callbacks and the queue to the client, what arrives is in the order the *)
(* worker wrote it and nothing arrives twice: the answers of a route that  *)
(* retries in mid-stream come one after the other and never mixed.         *)
InOrder ==
    \A i, j \in DOMAIN received : i < j =>
        /\ received[i] < received[j]
        /\ origin[received[i]] <= origin[received[j]]

(* As long as the sink has not been told that the client is gone, nothing  *)
(* is missing: the client has a prefix of what the worker wrote, which may *)
(* be a part of one answer and then another one.                           *)
NoGap == ~gone => \A i \in DOMAIN received : received[i] = i

(* A response that ends by the end marker is all that the worker wrote:    *)
(* the marker never overtakes a chunk, whether it comes from the last      *)
(* frame, from the worker's end, or from both, and it never comes between  *)
(* a broken answer and the next one.  (A JSON error after a broken stream  *)
(* is not among the chunks: the sink keeps it.)                            *)
EndMeansAll ==
    pump \in {"eof", "join", "closed"} /\ ~gone => Len(received) = chunks

(* What the chat route promises, "False if the caller should retry         *)
(* (headers not yet sent)": its client never gets chunks of two answers.   *)
ChatOneAnswer ==
    route = "chat" =>
        \A i, j \in DOMAIN received : origin[received[i]] = origin[received[j]]

(* The same of every route.  The plan of the cloud's retries says so, too: *)
(* a failure in mid-stream is not to be retried, "the response head has    *)
(* been sent to the client and cannot be withdrawn"                        *)
(* (specs/v53-gateway-hardening/plan.md:589).  The code does not keep it.  *)
OneAnswer ==
    \A i, j \in DOMAIN received : origin[received[i]] = origin[received[j]]

(* The client is told "internal error" only if the worker never answered,  *)
(* even when the worker's end is seen before the headers it sent.          *)
ErrorMeansSilence == pump = "failed" => ~locked

(* A client that does not read cannot hold a worker thread: writes to the  *)
(* sink never wait for the queue.                                          *)
WorkerEnds == <>(worker = "ended")

(* If the client keeps reading, or goes away, the request ends; the one    *)
(* exception is a queue that was full.                                     *)
Ends == WF_vars(Reads) => <>[](Ended \/ (gone /\ connected))

(* "The worker's end is the end of the stream" (async_server.py:337): for  *)
(* a client that keeps reading every request ends.  It does not if the     *)
(* queue was full when the end markers came: the pump waits for ever.      *)
StreamEnds == WF_vars(Reads) => <>Ended

=============================================================================
