-------------------------- MODULE EdgeStreamProofs --------------------------
(***************************************************************************)
(* Theorems about EdgeStream, for any capacity of the queue and any number *)
(* of attempts and chunks.                                                 *)
(*                                                                         *)
(* The chunks that are under way stand in one line: those the client has,  *)
(* the one the pump writes, the queue, the loop's callbacks.  Order says   *)
(* that the line ascends, whatever has been dropped from it.  Whole says   *)
(* that it is 1, 2, .. up to the last chunk written and then end markers,  *)
(* as long as nothing has been dropped.  Origins says which attempts the   *)
(* numbers stand for.                                                      *)
(***************************************************************************)
EXTENDS EdgeStream, Integers, TLAPS

-----------------------------------------------------------------------------
(* Sequences, by index.                                                    *)

(* The elements of a sequence with one more.                               *)
LEMMA AppendIs ==
  ASSUME NEW S, NEW s \in Seq(S), NEW x \in S
  PROVE  /\ Append(s, x) \in Seq(S)
         /\ Len(s) \in Nat /\ Len(Append(s, x)) = Len(s) + 1
         /\ DOMAIN s = 1 .. Len(s) /\ DOMAIN Append(s, x) = 1 .. (Len(s) + 1)
         /\ \A i \in 1 .. Len(s) : s[i] \in S /\ Append(s, x)[i] = s[i]
         /\ Append(s, x)[Len(s) + 1] = x
  OBVIOUS

(* The elements of a sequence without the first.                           *)
LEMMA TailIs ==
  ASSUME NEW S, NEW s \in Seq(S), s # <<>>
  PROVE  /\ Head(s) = s[1] /\ Head(s) \in S
         /\ Tail(s) \in Seq(S)
         /\ Len(s) \in Nat \ {0} /\ Len(Tail(s)) = Len(s) - 1
         /\ DOMAIN s = 1 .. Len(s) /\ DOMAIN Tail(s) = 1 .. (Len(s) - 1)
         /\ \A i \in 1 .. Len(s) : s[i] \in S
         /\ \A i \in 1 .. (Len(s) - 1) : Tail(s)[i] = s[i + 1]
  OBVIOUS

(* An element of the longer sequence is an old one or the new one.         *)
LEMMA AppendWhich ==
  ASSUME NEW S, NEW s \in Seq(S), NEW x \in S
  PROVE  \A k \in DOMAIN Append(s, x) :
            \/ k \in DOMAIN s /\ Append(s, x)[k] = s[k]
            \/ k = Len(s) + 1 /\ Append(s, x)[k] = x
<1> SUFFICES ASSUME NEW k \in DOMAIN Append(s, x)
             PROVE  \/ k \in DOMAIN s /\ Append(s, x)[k] = s[k]
                    \/ k = Len(s) + 1 /\ Append(s, x)[k] = x
  OBVIOUS
<1>1. k \in 1 .. (Len(s) + 1) /\ Len(s) \in Nat /\ DOMAIN s = 1 .. Len(s)
  BY AppendIs
<1>2. CASE k = Len(s) + 1
  BY <1>2, AppendIs
<1>3. CASE k # Len(s) + 1
  BY <1>1, <1>3, AppendIs
<1> QED
  BY <1>2, <1>3

(* An element of the shorter sequence was the next one.                    *)
LEMMA TailWhich ==
  ASSUME NEW S, NEW s \in Seq(S), s # <<>>
  PROVE  /\ 1 \in DOMAIN s
         /\ \A k \in DOMAIN Tail(s) :
               k \in Nat \ {0} /\ k + 1 \in DOMAIN s /\ Tail(s)[k] = s[k + 1]
  BY TailIs

(* Callbacks are callbacks.                                                *)
LEMMA CallbackType ==
  /\ Headers \in Callbacks /\ Done \in Callbacks
  /\ \A i \in Items : Put(i) \in Callbacks
  /\ \A c \in Callbacks : c.item \in Items /\ c.do \in {"headers", "put", "done"}
  BY StreamAssumption DEF Headers, Done, Put, Callbacks, Items, End

-----------------------------------------------------------------------------
(* Types.                                                                  *)

(* What the pump writes is a chunk; an attempt that fails is not the last  *)
(* of more than there are.                                                 *)
Sane ==
    /\ pump = "write" => item # End
    /\ worker \in {"connect", "stream", "body"} => attempt < MaxAttempts

(* The initial state has its types.                                        *)
LEMMA TypeInit == Init => TypeOK /\ Sane
<1> USE StreamAssumption
<1> SUFFICES ASSUME Init PROVE TypeOK /\ Sane
  OBVIOUS
<1>1. <<>> \in Seq(Callbacks) /\ <<>> \in Seq(Items) /\ <<>> \in Seq(Nat \ {0})
      /\ <<>> \in Seq(0 .. MaxAttempts) /\ Len(<<>>) = 0 /\ 0 <= Capacity
  OBVIOUS
<1>2. End \in Items /\ 0 \in 0 .. MaxAttempts /\ 0 \in Nat
  BY DEF End, Items
<1>3. TypeOK
  BY <1>1, <1>2 DEF Init, TypeOK
<1>4. Sane
  BY DEF Init, Sane
<1> QED
  BY <1>3, <1>4

(* No step leaves the types.                                               *)
LEMMA TypeStep ==
  ASSUME TypeOK, Sane, [Next]_vars
  PROVE  TypeOK' /\ Sane'
<1> USE StreamAssumption, CallbackType DEF TypeOK, Sane
<1>w. ASSUME NEW i \in Items, Write(i)
      PROVE  ready' \in Seq(Callbacks)
  <2>1. Put(i) \in Callbacks /\ ready \in Seq(Callbacks)
    OBVIOUS
  <2>2. Append(ready, Put(i)) \in Seq(Callbacks)
    BY <2>1, AppendIs
  <2> QED
    BY <1>w, <2>1, <2>2 DEF Write
<1>n. ASSUME WriteNext
      PROVE  /\ ready' \in Seq(Callbacks) /\ chunks' \in Nat
             /\ origin' \in Seq(0 .. MaxAttempts) /\ Len(origin') = chunks'
  <2>1. chunks + 1 \in Items /\ chunks' = chunks + 1 /\ Write(chunks + 1)
    BY <1>n DEF WriteNext, Items
  <2>2. /\ Append(origin, attempt) \in Seq(0 .. MaxAttempts)
        /\ Len(Append(origin, attempt)) = Len(origin) + 1
    BY AppendIs
  <2> QED
    BY <1>n, <2>1, <2>2, <1>w DEF WriteNext
<1>f. ASSUME Fail, worker \in {"connect", "stream", "body"}
      PROVE  /\ attempt' \in 0 .. MaxAttempts /\ worker' \in {"connect", "refuse"}
             /\ worker' = "connect" => attempt' < MaxAttempts
  BY <1>f DEF Fail
<1>1. CASE Worker
  <2> USE <1>1 DEF Worker, pumpVars, clientVars, requestVars, sinkVars, headerVars
  <2>1. CASE AttemptFails
    BY <2>1, <1>f DEF AttemptFails
  <2>2. CASE GivesUp \/ RouteRaises \/ Abandon
    BY <2>2 DEF GivesUp, RouteRaises, Abandon
  <2>3. CASE SendHeaders
    BY <2>3, AppendIs DEF SendHeaders
  <2>4. CASE WriteBody
    BY <2>4, <1>n, <1>f DEF WriteBody
  <2>5. CASE WriteError
    BY <2>5, <1>n DEF WriteError
  <2>6. CASE WriteChunk
    BY <2>6, <1>n DEF WriteChunk
  <2>7. CASE WriteEndFrame
    <3>1. End \in Items
      BY DEF Items, End
    <3> QED
      BY <2>7, <3>1, <1>w DEF WriteEndFrame
  <2>8. CASE UpstreamBreaks
    BY <2>8, <1>f DEF UpstreamBreaks
  <2>9. CASE Return
    BY <2>9, AppendIs DEF Return
  <2> QED
    BY <2>1, <2>2, <2>3, <2>4, <2>5, <2>6, <2>7, <2>8, <2>9
<1>2. CASE Loop
  <2> USE <1>2 DEF Loop, workerVars, pumpVars, clientVars
  <2>1. CASE RunHeaders
    BY <2>1, TailIs DEF RunHeaders
  <2>2. CASE RunPut
    <3>0. ready' \in Seq(Callbacks) /\ Head(ready) \in Callbacks
      BY <2>2, TailIs DEF RunPut
    <3>1. ready' \in Seq(Callbacks) /\ Head(ready).item \in Items
      BY <3>0, CallbackType
    <3> DEFINE q == Append(queue, Head(ready).item)
    <3>3. q \in Seq(Items) /\ Len(q) = Len(queue) + 1 /\ Len(queue) \in Nat
      BY <3>1, AppendIs
    <3>2. queue' \in Seq(Items) /\ Len(queue') <= Capacity /\ gone' \in BOOLEAN
      <4>1. CASE Len(queue) < Capacity
        <5>1. queue' = q /\ gone' = gone
          BY <2>2, <4>1 DEF RunPut
        <5> HIDE DEF q
        <5> QED
          BY <3>3, <4>1, <5>1
      <4>2. CASE ~(Len(queue) < Capacity)
        BY <2>2, <4>2 DEF RunPut
      <4> QED
        BY <4>1, <4>2
    <3> QED
      BY <2>2, <3>1, <3>2 DEF RunPut
  <2>3. CASE RunDone
    <3>1. Put(End) \in Callbacks
      BY DEF Items, End
    <3>2. Tail(ready) \in Seq(Callbacks)
      BY <2>3, TailIs DEF RunDone
    <3> QED
      BY <2>3, <3>1, <3>2, AppendIs DEF RunDone
  <2> QED
    BY <2>1, <2>2, <2>3
<1>3. CASE Pump
  <2> USE <1>3 DEF Pump, workerVars, loopVars
  <2>1. CASE Get
    BY <2>1, TailIs DEF Get
  <2>2. CASE Deliver
    <3>1. item \in Nat \ {0}
      BY <2>2 DEF Deliver, Items, End
    <3> QED
      BY <2>2, <3>1, AppendIs DEF Deliver
  <2>3. CASE WakeOnHeaders \/ WakeOnWorker \/ Prepare
    BY <2>3 DEF WakeOnHeaders, WakeOnWorker, Prepare
  <2>4. CASE WriteRaises \/ WriteEof \/ JoinWorker
    BY <2>4 DEF WriteRaises, WriteEof, JoinWorker
  <2>5. CASE Cancelled
    BY <2>5 DEF Cancelled
  <2> QED
    BY <2>1, <2>2, <2>3, <2>4, <2>5
<1>4. CASE Disconnect
  <2>1. /\ UNCHANGED <<route, streaming, worker, attempt, chunks, origin, locked>>
        /\ UNCHANGED <<framed, ready, headersSet, finished, queue, gone, pump>>
        /\ UNCHANGED <<item, received>> /\ connected' = FALSE
    BY <1>4 DEF Disconnect, workerVars, loopVars, pumpVars
  <2>2. TypeOK'
    BY <2>1
  <2>3. Sane'
    BY <2>1
  <2> QED
    BY <2>2, <2>3
<1>5. CASE UNCHANGED vars
  BY <1>5 DEF vars, workerVars, loopVars, pumpVars, clientVars
<1> QED
  BY ONLY <1>1, <1>2, <1>3, <1>4, <1>5, [Next]_vars DEF Next

(* TypeCorrect: the state of an exchange has its types; in particular the  *)
(* queue never holds more than its capacity.                               *)
THEOREM TypeCorrect == Spec => []TypeOK
<1>1. TypeOK /\ Sane /\ [Next]_vars => (TypeOK /\ Sane)'
  BY TypeStep
<1> QED
  BY TypeInit, <1>1, PTL DEF Spec

-----------------------------------------------------------------------------
(* Where worker, loop and pump can be at the same time.                    *)

(* Until the worker has sent the headers it has written nothing.  The loop *)
(* learns of the headers and of the worker's end after they happened.      *)
Stages ==
    /\ worker \in {"stream", "body", "error"} => locked
    /\ ~locked => chunks = 0
    /\ finished => worker = "ended"
    /\ \A k \in DOMAIN ready : ready[k].do = "done" => worker = "ended"
    /\ headersSet => locked
    /\ \A k \in DOMAIN ready :
          /\ ready[k].do = "headers" => locked
          /\ ready[k].do # "put" => ready[k].item = End
    /\ pump = "failed" => ~locked /\ finished

(* A callback that is added comes last.                                    *)
LEMMA ReadyGains ==
  ASSUME TypeOK, NEW c \in Callbacks, ready' = Append(ready, c)
  PROVE  \A k \in DOMAIN ready' :
            \/ k \in DOMAIN ready /\ ready'[k] = ready[k]
            \/ k = Len(ready) + 1 /\ ready'[k] = c
<1>1. ready \in Seq(Callbacks)
  BY DEF TypeOK
<1>2. \A k \in DOMAIN Append(ready, c) :
         \/ k \in DOMAIN ready /\ Append(ready, c)[k] = ready[k]
         \/ k = Len(ready) + 1 /\ Append(ready, c)[k] = c
  BY <1>1, AppendWhich
<1> QED
  BY <1>2

(* What a write to the sink adds comes last.                               *)
LEMMA WriteGains ==
  ASSUME TypeOK, NEW i \in Items, Write(i)
  PROVE  \A k \in DOMAIN ready' :
            \/ k \in DOMAIN ready /\ ready'[k] = ready[k]
            \/ k = Len(ready) + 1 /\ ready'[k] = Put(i)
<1>1. CASE gone
  BY <1>1 DEF Write
<1>2. CASE ~gone
  BY <1>2, ReadyGains, CallbackType DEF Write
<1> QED
  BY <1>1, <1>2

-----------------------------------------------------------------------------
(* The worker's steps come in four kinds.                                  *)

Busy == {"connect", "refuse", "stream", "body", "error"}

\* Nothing is written.
Moves ==
    /\ UNCHANGED <<chunks, origin, ready, locked>>
    /\ worker \in Busy /\ worker' \in Busy \cup {"return"}
    /\ worker' \in {"stream", "body", "error"} => locked
    /\ worker' \in {"connect", "refuse"} =>
          worker \in {"connect", "refuse"} \/ locked

\* The first headers.
Answers ==
    /\ ~locked /\ locked' = TRUE
    /\ worker \in {"connect", "refuse"} /\ worker' \in {"stream", "body", "error"}
    /\ UNCHANGED <<chunks, origin>> /\ ready' = Append(ready, Headers)

\* The next chunk.
Writes ==
    /\ WriteNext /\ locked /\ locked' = locked
    /\ worker \in {"stream", "body", "error"}
    /\ worker' \in Busy \cup {"return"}

\* The end frame, or the worker's end.
Finishes ==
    /\ UNCHANGED <<chunks, origin, locked>>
    /\ \/ worker = "stream" /\ worker' = "return" /\ Write(End)
       \/ worker = "return" /\ worker' = "ended" /\ ready' = Append(ready, Done)

(* The kinds of the worker's steps; what they leave alone.                 *)
LEMMA WorkerKinds ==
  ASSUME TypeOK, Stages, Worker
  PROVE  /\ UNCHANGED <<headersSet, finished, queue, gone, pump, item>>
         /\ UNCHANGED <<connected, received, route>>
         /\ Moves \/ Answers \/ Writes \/ Finishes
<1> USE DEF requestVars, sinkVars, headerVars, Fail, Busy
<1>1. /\ UNCHANGED <<headersSet, finished, queue, gone, pump, item>>
      /\ UNCHANGED <<connected, received>>
  BY DEF Worker, pumpVars, clientVars
<1>2. CASE AttemptFails \/ GivesUp \/ RouteRaises
  BY <1>1, <1>2 DEF AttemptFails, GivesUp, RouteRaises, Moves, TypeOK, Stages
<1>3. CASE SendHeaders
  <2>1. CASE locked
    BY <1>1, <1>3, <2>1 DEF SendHeaders, Moves
  <2>2. CASE ~locked
    BY <1>1, <1>3, <2>2 DEF SendHeaders, Answers
  <2> QED
    BY <2>1, <2>2
<1>4. CASE WriteBody \/ WriteChunk
  BY <1>1, <1>4 DEF WriteBody, WriteChunk, Writes, Stages
<1>5. CASE WriteError
  <2>1. CASE framed
    BY <1>1, <1>5, <2>1 DEF WriteError, Moves, TypeOK
  <2>2. CASE ~framed
    BY <1>1, <1>5, <2>2 DEF WriteError, Writes, Stages
  <2> QED
    BY <2>1, <2>2
<1>6. CASE Abandon \/ UpstreamBreaks
  BY <1>1, <1>6 DEF Abandon, UpstreamBreaks, Moves, TypeOK, Stages
<1>7. CASE WriteEndFrame \/ Return
  BY <1>1, <1>7 DEF WriteEndFrame, Return, Finishes
<1> QED
  BY <1>2, <1>3, <1>4, <1>5, <1>6, <1>7 DEF Worker

(* The next chunk of the worker comes last.                                *)
LEMMA NextGains ==
  ASSUME TypeOK, WriteNext
  PROVE  /\ chunks' = chunks + 1 /\ chunks + 1 \in Items
         /\ \A k \in DOMAIN ready' :
               \/ k \in DOMAIN ready /\ ready'[k] = ready[k]
               \/ k = Len(ready) + 1 /\ ready'[k] = Put(chunks + 1)
<1>1. chunks + 1 \in Items /\ Write(chunks + 1) /\ chunks' = chunks + 1
  BY DEF WriteNext, TypeOK, Items
<1> QED
  BY <1>1, WriteGains

(* An end marker of the worker comes last.                                 *)
LEMMA FinishGains ==
  ASSUME TypeOK, Finishes
  PROVE  \A k \in DOMAIN ready' :
            \/ k \in DOMAIN ready /\ ready'[k] = ready[k]
            \/ /\ k = Len(ready) + 1 /\ ready'[k].item = End
               /\ \/ ready'[k].do = "put"
                  \/ ready'[k].do = "done" /\ worker' = "ended"
<1>1. CASE Write(End) /\ worker' = "return"
  <2>1. End \in Items
    BY DEF End, Items
  <2> QED
    BY <1>1, <2>1, WriteGains DEF Put
<1>2. CASE ready' = Append(ready, Done) /\ worker' = "ended"
  BY <1>2, ReadyGains, CallbackType DEF Done
<1> QED
  BY <1>1, <1>2 DEF Finishes

(* No step leaves the stages.                                              *)
LEMMA StagesStep ==
  ASSUME TypeOK, Stages, [Next]_vars
  PROVE  Stages'
<1> USE DEF TypeOK, Stages
<1>1. CASE Worker
  <2>u. UNCHANGED <<headersSet, finished, pump>>
    BY <1>1, WorkerKinds
  <2>1. CASE Moves
    BY <2>1, <2>u DEF Moves, Busy
  <2>2. CASE Answers
    BY <2>2, <2>u, ReadyGains, CallbackType DEF Answers, Headers
  <2>3. CASE Writes
    <3>1. \A k \in DOMAIN ready' :
             \/ k \in DOMAIN ready /\ ready'[k] = ready[k]
             \/ ready'[k].do = "put"
      BY <2>3, NextGains DEF Writes, Put
    <3>2. locked /\ locked' /\ UNCHANGED <<headersSet, finished, pump>>
          /\ worker # "ended" /\ worker' # "ended"
      BY <2>3, <2>u DEF Writes, Busy
    <3> QED
      BY <3>1, <3>2
  <2>4. CASE Finishes
    BY <2>4, <2>u, FinishGains DEF Finishes
  <2> QED
    BY <1>1, <2>1, <2>2, <2>3, <2>4, WorkerKinds
<1>2. CASE Loop
  <2> USE <1>2 DEF Loop, workerVars, pumpVars, clientVars
  <2>1. CASE RunHeaders
    BY <2>1, TailIs, TailWhich DEF RunHeaders
  <2>2. CASE RunPut
    BY <2>2, TailWhich DEF RunPut
  <2>3. CASE RunDone
    <3>1. Tail(ready) \in Seq(Callbacks) /\ Put(End) \in Callbacks
          /\ ready[1].do = "done" /\ 1 \in DOMAIN ready
      BY <2>3, TailIs, StreamAssumption, CallbackType DEF RunDone, Items, End
    <3>2. ready' = Append(Tail(ready), Put(End)) /\ ready # <<>>
      BY <2>3 DEF RunDone
    <3>3. \A k \in DOMAIN ready' :
             \/ ready'[k] = Put(End)
             \/ k + 1 \in DOMAIN ready /\ ready'[k] = ready[k + 1]
      BY <3>1, <3>2, AppendWhich, TailWhich
    <3> QED
      BY <2>3, <3>1, <3>2, <3>3 DEF RunDone, Put
  <2> QED
    BY <2>1, <2>2, <2>3
<1>3. CASE Pump
  BY <1>3 DEF Pump, WakeOnHeaders, WakeOnWorker, Prepare, Get, Deliver,
              WriteRaises, WriteEof, JoinWorker, Cancelled, workerVars, loopVars
<1>4. CASE Disconnect
  BY <1>4 DEF Disconnect, workerVars, loopVars, pumpVars
<1>5. CASE UNCHANGED vars
  BY <1>5 DEF vars, workerVars, loopVars, pumpVars, clientVars
<1> QED
  BY <1>1, <1>2, <1>3, <1>4, <1>5 DEF Next

(* ErrorMeansSilence: for any number of attempts and however the loop's    *)
(* callbacks and the worker interleave, "internal error" is answered only  *)
(* for a route that sent no headers.                                       *)
THEOREM ErrorMeansSilenceHolds == Spec => []ErrorMeansSilence
<1>1. Init => TypeOK /\ Sane /\ Stages
  <2>1. Init => Stages
    BY DEF Init, Stages
  <2> QED
    BY <2>1, TypeInit
<1>2. TypeOK /\ Sane /\ Stages /\ [Next]_vars => (TypeOK /\ Sane /\ Stages)'
  BY TypeStep, StagesStep
<1>3. Stages => ErrorMeansSilence
  BY DEF Stages, ErrorMeansSilence
<1> QED
  BY <1>1, <1>2, <1>3, PTL DEF Spec

-----------------------------------------------------------------------------
(* The line ascends.                                                       *)

Ascending ==
    \A i, j \in DOMAIN received : i < j => received[i] < received[j]

(* No chunk stands before a smaller one, none is larger than the last one  *)
(* written.  End is 0, below every chunk.                                  *)
Order ==
    /\ Ascending
    /\ \A i, j \in DOMAIN queue : i < j /\ queue[j] # End => queue[i] < queue[j]
    /\ \A i, j \in DOMAIN ready :
          i < j /\ ready[j].item # End => ready[i].item < ready[j].item
    /\ \A i \in DOMAIN received :
          /\ received[i] <= chunks
          /\ pump = "write" => received[i] < item
          /\ \A j \in DOMAIN queue : queue[j] # End => received[i] < queue[j]
          /\ \A j \in DOMAIN ready :
                ready[j].item # End => received[i] < ready[j].item
    /\ pump = "write" =>
          /\ item <= chunks
          /\ \A j \in DOMAIN queue : queue[j] # End => item < queue[j]
          /\ \A j \in DOMAIN ready : ready[j].item # End => item < ready[j].item
    /\ \A i \in DOMAIN queue :
          /\ queue[i] <= chunks
          /\ \A j \in DOMAIN ready :
                ready[j].item # End => queue[i] < ready[j].item
    /\ \A i \in DOMAIN ready : ready[i].item <= chunks

(* Items are natural numbers.                                              *)
LEMMA LineOfNumbers ==
  ASSUME TypeOK
  PROVE  /\ End = 0 /\ chunks \in Nat /\ item \in Nat
         /\ \A i \in DOMAIN received : received[i] \in Nat /\ i \in Nat
         /\ \A i \in DOMAIN queue : queue[i] \in Nat /\ i \in Nat
         /\ \A i \in DOMAIN ready : ready[i].item \in Nat /\ i \in Nat
<1> USE StreamAssumption DEF TypeOK
<1>1. \A i \in DOMAIN ready : ready[i] \in Callbacks
  OBVIOUS
<1> QED
  BY <1>1, CallbackType DEF Items, End

(* Order speaks of the line only.                                          *)
LEMMA OrderKept ==
  ASSUME Order, UNCHANGED <<received, queue, ready, item, chunks>>,
         pump' = "write" => pump = "write"
  PROVE  Order'
  BY DEF Order, Ascending

(* A callback with an end marker, or none, may join the line anywhere.     *)
LEMMA OrderAppend ==
  ASSUME TypeOK, Order, UNCHANGED <<received, queue, item, pump>>,
         chunks' \in Nat, chunks <= chunks',
         NEW i \in Nat,
         \A k \in DOMAIN ready' :
            \/ k \in DOMAIN ready /\ ready'[k] = ready[k]
            \/ k = Len(ready) + 1 /\ ready'[k].item = i,
         i # End => chunks < i /\ i <= chunks'
  PROVE  Order'
<1> USE LineOfNumbers
<1>1. Len(ready) \in Nat /\ DOMAIN ready = 1 .. Len(ready)
  BY DEF TypeOK
<1>2. \A k \in DOMAIN ready' : ready'[k].item <= chunks'
  BY DEF Order
<1>3. ASSUME NEW j \in DOMAIN ready', ready'[j].item # End
      PROVE  /\ \A k \in DOMAIN ready' : k < j => ready'[k].item < ready'[j].item
             /\ \A k \in DOMAIN received : received[k] < ready'[j].item
             /\ \A k \in DOMAIN queue : queue[k] < ready'[j].item
             /\ pump = "write" => item < ready'[j].item
  <2>1. CASE j \in DOMAIN ready /\ ready'[j] = ready[j]
    BY <2>1, <1>3, <1>1 DEF Order
  <2>2. CASE j = Len(ready) + 1 /\ ready'[j].item = i
    BY <2>2, <1>3, <1>1 DEF Order
  <2> QED
    BY <2>1, <2>2
<1> QED
  BY <1>2, <1>3 DEF Order, Ascending

(* No step disturbs the order of the line.                                 *)
LEMMA OrderStep ==
  ASSUME TypeOK, Sane, Stages, Order, [Next]_vars
  PROVE  Order'
<1> USE LineOfNumbers
<1>e. 0 \in Items /\ 1 \in Items /\ 0 \in Nat /\ 1 \in Nat
  BY DEF Items
<1>1. CASE Worker
  <2>u. UNCHANGED <<received, queue, item, pump>>
    BY <1>1, WorkerKinds
  <2>1. CASE Moves
    BY <2>1, <2>u, OrderKept DEF Moves
  <2>2. CASE Answers
    <3>1. \A k \in DOMAIN ready' :
             \/ k \in DOMAIN ready /\ ready'[k] = ready[k]
             \/ k = Len(ready) + 1 /\ ready'[k].item = 0
      BY <2>2, ReadyGains, CallbackType DEF Answers, Headers, End
    <3> QED
      BY <1>e, <2>2, <2>u, <3>1, OrderAppend DEF Answers
  <2>3. CASE Writes
    <3>1. \A k \in DOMAIN ready' :
             \/ k \in DOMAIN ready /\ ready'[k] = ready[k]
             \/ k = Len(ready) + 1 /\ ready'[k].item = chunks + 1
      BY <2>3, NextGains DEF Writes, Put
    <3>2. chunks' = chunks + 1
      BY <2>3, NextGains DEF Writes
    <3> QED
      BY <2>u, <3>1, <3>2, OrderAppend
  <2>4. CASE Finishes
    <3>1. \A k \in DOMAIN ready' :
             \/ k \in DOMAIN ready /\ ready'[k] = ready[k]
             \/ k = Len(ready) + 1 /\ ready'[k].item = 0
      BY <2>4, FinishGains DEF End
    <3> QED
      BY <1>e, <2>4, <2>u, <3>1, OrderAppend DEF Finishes
  <2> QED
    BY <1>1, <2>1, <2>2, <2>3, <2>4, WorkerKinds
<1>2. CASE Loop
  <2> USE <1>2 DEF Loop, workerVars, pumpVars, clientVars
  <2>1. CASE RunHeaders
    <3>1. \A k \in DOMAIN ready' : k + 1 \in DOMAIN ready /\ ready'[k] = ready[k + 1]
      BY <2>1, TailWhich DEF RunHeaders, TypeOK
    <3> QED
      BY <2>1, <3>1 DEF RunHeaders, Order, Ascending
  <2>2. CASE RunPut
    <3>1. /\ 1 \in DOMAIN ready /\ Head(ready) = ready[1]
          /\ \A k \in DOMAIN ready' : k + 1 \in DOMAIN ready /\ ready'[k] = ready[k + 1]
          /\ \A k \in DOMAIN ready' : k \in Nat \ {0}
      BY <2>2, TailIs, TailWhich DEF RunPut, TypeOK
    <3>2. UNCHANGED <<received, item, pump, chunks>>
      BY <2>2 DEF RunPut
    <3>3. CASE Len(queue) < Capacity
      <4>1. queue' = Append(queue, ready[1].item)
        BY <2>2, <3>1, <3>3 DEF RunPut
      <4>2. ready[1].item \in Items
        BY <3>1, CallbackType DEF TypeOK
      <4>3. \A k \in DOMAIN queue' :
               \/ k \in DOMAIN queue /\ queue'[k] = queue[k]
               \/ k = Len(queue) + 1 /\ queue'[k] = ready[1].item
        <5>1. \A k \in DOMAIN Append(queue, ready[1].item) :
                 \/ k \in DOMAIN queue /\ Append(queue, ready[1].item)[k] = queue[k]
                 \/ k = Len(queue) + 1
                    /\ Append(queue, ready[1].item)[k] = ready[1].item
          BY <4>2, AppendWhich DEF TypeOK
        <5> QED
          BY <4>1, <5>1
      <4>4. Len(queue) \in Nat /\ DOMAIN queue = 1 .. Len(queue)
        BY DEF TypeOK
      <4>5. \A i, j \in DOMAIN queue' :
               i < j /\ queue'[j] # End => queue'[i] < queue'[j]
        BY <3>1, <4>3, <4>4 DEF Order
      <4>6. \A i \in DOMAIN received, j \in DOMAIN queue' :
               queue'[j] # End => received[i] < queue'[j]
        BY <3>1, <4>3 DEF Order
      <4>7. \A i \in DOMAIN queue', j \in DOMAIN ready' :
               ready'[j].item # End => queue'[i] < ready'[j].item
        BY <3>1, <4>3 DEF Order
      <4>8. \A i \in DOMAIN queue' :
               /\ queue'[i] <= chunks
               /\ pump = "write" /\ queue'[i] # End => item < queue'[i]
        BY <3>1, <4>3 DEF Order
      <4> QED
        BY <3>1, <3>2, <4>5, <4>6, <4>7, <4>8 DEF Order, Ascending
    <3>4. CASE ~(Len(queue) < Capacity)
      <4>1. queue' = queue
        BY <2>2, <3>4 DEF RunPut
      <4> QED
        BY <3>1, <3>2, <4>1 DEF Order, Ascending
    <3> QED
      BY <3>3, <3>4
  <2>3. CASE RunDone
    <3>1. Tail(ready) \in Seq(Callbacks) /\ Put(End) \in Callbacks /\ ready # <<>>
      BY <2>3, <1>e, TailIs, CallbackType DEF RunDone, TypeOK
    <3>2. ready' = Append(Tail(ready), Put(End))
      BY <2>3 DEF RunDone
    <3>3. \A k \in DOMAIN ready' :
             \/ ready'[k].item = 0
             \/ k + 1 \in DOMAIN ready /\ ready'[k] = ready[k + 1]
      BY <3>1, <3>2, AppendWhich, TailWhich DEF TypeOK, Put
    <3>4. \A k \in DOMAIN ready' : k \in Nat
      BY <3>1, <3>2, AppendIs
    <3>5. UNCHANGED <<received, item, queue, pump, chunks>>
      BY <2>3 DEF RunDone
    <3> QED
      BY <3>3, <3>4, <3>5 DEF Order, Ascending
  <2> QED
    BY <2>1, <2>2, <2>3
<1>3. CASE Pump
  <2> USE <1>3 DEF Pump, workerVars, loopVars
  <2>1. CASE WakeOnHeaders \/ WakeOnWorker \/ Prepare
    BY <2>1, OrderKept DEF WakeOnHeaders, WakeOnWorker, Prepare
  <2>2. CASE WriteRaises \/ WriteEof \/ JoinWorker \/ Cancelled
    BY <2>2, OrderKept DEF WriteRaises, WriteEof, JoinWorker, Cancelled
  <2>3. CASE Get
    <3>1. /\ 1 \in DOMAIN queue /\ Head(queue) = queue[1]
          /\ \A k \in DOMAIN queue' : k + 1 \in DOMAIN queue /\ queue'[k] = queue[k + 1]
          /\ \A k \in DOMAIN queue' : k \in Nat \ {0}
      BY <2>3, TailIs, TailWhich DEF Get, TypeOK
    <3>2. /\ UNCHANGED <<received, ready, chunks>>
          /\ item' = queue[1] /\ (pump' = "write" => queue[1] # End)
      BY <2>3, <3>1 DEF Get
    <3> QED
      BY <3>1, <3>2 DEF Order, Ascending
  <2>4. CASE Deliver
    <3>1. item \in Nat \ {0}
      BY <2>4 DEF Deliver, TypeOK, Sane, Items, End
    <3>2. received' = Append(received, item) /\ pump = "write" /\ pump' = "get"
          /\ UNCHANGED <<queue, ready, chunks>>
      BY <2>4 DEF Deliver
    <3>3. \A k \in DOMAIN received' :
             \/ k \in DOMAIN received /\ received'[k] = received[k]
             \/ k = Len(received) + 1 /\ received'[k] = item
      <4>1. \A k \in DOMAIN Append(received, item) :
               \/ k \in DOMAIN received /\ Append(received, item)[k] = received[k]
               \/ k = Len(received) + 1 /\ Append(received, item)[k] = item
        BY <3>1, AppendWhich DEF TypeOK
      <4> QED
        BY <3>2, <4>1
    <3>4. Len(received) \in Nat /\ DOMAIN received = 1 .. Len(received)
      BY DEF TypeOK
    <3>5. Ascending'
      BY <3>2, <3>3, <3>4 DEF Order, Ascending
    <3> QED
      BY <3>2, <3>3, <3>5 DEF Order, Ascending
  <2> QED
    BY <2>1, <2>2, <2>3, <2>4
<1>4. CASE Disconnect
  BY <1>4, OrderKept DEF Disconnect, workerVars, loopVars, pumpVars
<1>5. CASE UNCHANGED vars
  BY <1>5, OrderKept DEF vars, workerVars, loopVars, pumpVars, clientVars
<1> QED
  BY <1>1, <1>2, <1>3, <1>4, <1>5 DEF Next

-----------------------------------------------------------------------------
(* Which attempts the chunks belong to.                                    *)

(* Answers come one after the other.  On the chat route there is only one, *)
(* since it tries again only before there are headers.                     *)
Origins ==
    /\ \A i, j \in DOMAIN origin : i < j => origin[i] <= origin[j]
    /\ \A i \in DOMAIN origin : origin[i] <= attempt
    /\ route = "chat" =>
          /\ worker \in {"connect", "refuse"} => ~locked
          /\ \A i \in DOMAIN origin : origin[i] = attempt

(* The next chunk belongs to the current attempt.                          *)
LEMMA NextOrigin ==
  ASSUME TypeOK, WriteNext
  PROVE  \A k \in DOMAIN origin' :
            \/ k \in DOMAIN origin /\ origin'[k] = origin[k]
            \/ k = Len(origin) + 1 /\ origin'[k] = attempt
<1>1. origin \in Seq(0 .. MaxAttempts) /\ attempt \in 0 .. MaxAttempts
  BY DEF TypeOK
<1>2. \A k \in DOMAIN Append(origin, attempt) :
         \/ k \in DOMAIN origin /\ Append(origin, attempt)[k] = origin[k]
         \/ k = Len(origin) + 1 /\ Append(origin, attempt)[k] = attempt
  BY <1>1, AppendWhich
<1> QED
  BY <1>2 DEF WriteNext

(* Attempts are counted upwards, and a chunk belongs to one that is over   *)
(* or to the current one.                                                  *)
LEMMA OriginsStep ==
  ASSUME TypeOK, Stages, Origins, [Next]_vars
  PROVE  Origins'
<1>t. /\ DOMAIN origin = 1 .. chunks /\ chunks \in Nat /\ attempt \in Nat
      /\ Len(origin) = chunks /\ \A i \in DOMAIN origin : origin[i] \in Nat
  BY StreamAssumption DEF TypeOK
<1> DEFINE Same == UNCHANGED <<route, worker, attempt, origin, locked>>
<1>s. ASSUME Same PROVE Origins'
  BY <1>s DEF Origins
<1>1. CASE Worker
  <2> USE DEF requestVars, sinkVars, headerVars
  <2>1. CASE AttemptFails
    <3>1. attempt' = attempt + 1 /\ worker' \in {"connect", "refuse"}
          /\ UNCHANGED <<route, origin, locked>> /\ worker = "connect"
      BY <2>1 DEF AttemptFails, Fail
    <3>2. route = "chat" => DOMAIN origin = {}
      BY <3>1, <1>t DEF Origins, Stages
    <3> QED
      BY <3>1, <3>2, <1>t DEF Origins
  <2>2. CASE GivesUp \/ RouteRaises \/ Abandon \/ WriteEndFrame \/ Return
    BY <2>2 DEF GivesUp, RouteRaises, Abandon, WriteEndFrame, Return, Origins
  <2>3. CASE SendHeaders
    BY <2>3 DEF SendHeaders, Origins
  <2>4. CASE UpstreamBreaks
    <3>1. /\ attempt' = attempt \/ (route # "chat" /\ attempt' = attempt + 1)
          /\ UNCHANGED <<route, origin, locked>>
          /\ route = "chat" => worker' = "return"
      BY <2>4 DEF UpstreamBreaks, Fail
    <3> QED
      BY <3>1, <1>t DEF Origins
  <2>5. CASE WriteError /\ framed
    BY <2>5 DEF WriteError, Origins
  <2>6. ASSUME WriteNext, UNCHANGED <<route, locked>>,
               \/ attempt' = attempt /\ worker' \notin {"connect", "refuse"}
               \/ attempt' = attempt + 1 /\ route # "chat"
        PROVE  Origins'
    <3>1. \A k \in DOMAIN origin' :
             \/ k \in DOMAIN origin /\ origin'[k] = origin[k]
             \/ k = Len(origin) + 1 /\ origin'[k] = attempt
      BY <2>6, NextOrigin
    <3> QED
      BY <2>6, <3>1, <1>t DEF Origins
  <2>7. CASE WriteBody
    BY <2>7, <2>6 DEF WriteBody, Fail
  <2>8. CASE WriteError /\ ~framed
    BY <2>8, <2>6 DEF WriteError
  <2>9. CASE WriteChunk
    BY <2>9, <2>6 DEF WriteChunk
  <2> QED
    BY <1>1, <2>1, <2>2, <2>3, <2>4, <2>5, <2>7, <2>8, <2>9 DEF Worker
<1>2. CASE Loop \/ Pump \/ Disconnect \/ UNCHANGED vars
  BY <1>2, <1>s DEF Loop, Pump, Disconnect, vars, workerVars
<1> QED
  BY <1>1, <1>2 DEF Next

-----------------------------------------------------------------------------
(* Types, stages, order and origins in the initial state and in every step.*)
Ordered == TypeOK /\ Sane /\ Stages /\ Order /\ Origins

LEMMA OrderInvariant == Spec => []Ordered
<1>1. Init => Ordered
  <2>1. Init => Stages /\ Order /\ Origins
    BY DEF Init, Stages, Order, Ascending, Origins
  <2> QED
    BY <2>1, TypeInit DEF Ordered
<1>2. Ordered /\ [Next]_vars => Ordered'
  BY TypeStep, StagesStep, OrderStep, OriginsStep DEF Ordered
<1> QED
  BY <1>1, <1>2, PTL DEF Spec

(* What the client has got are chunks the worker wrote.                    *)
LEMMA ReceivedWritten ==
  ASSUME Ordered
  PROVE  \A i \in DOMAIN received : i \in Nat /\ received[i] \in DOMAIN origin
<1>1. /\ DOMAIN origin = 1 .. chunks /\ chunks \in Nat
      /\ \A i \in DOMAIN received : i \in Nat /\ received[i] \in Nat \ {0}
  BY DEF Ordered, TypeOK
<1> QED
  BY <1>1 DEF Ordered, Order

(* InOrder: whatever the capacity of the queue, whatever it drops and      *)
(* however many attempts break off in mid-stream, the client gets chunks   *)
(* in the order they were written, one attempt's answer after another's,   *)
(* and none of them twice.                                                 *)
THEOREM InOrderHolds == Spec => []InOrder
<1>1. Ordered => InOrder
  BY ReceivedWritten DEF Ordered, Order, Ascending, Origins, InOrder
<1> QED
  BY <1>1, OrderInvariant, PTL

(* ChatOneAnswer: on the chat route, whatever fails and breaks off, the    *)
(* client gets chunks of one answer only.                                  *)
THEOREM ChatOneAnswerHolds == Spec => []ChatOneAnswer
<1>1. Ordered => ChatOneAnswer
  BY ReceivedWritten DEF Ordered, Origins, ChatOneAnswer
<1> QED
  BY <1>1, OrderInvariant, PTL

-----------------------------------------------------------------------------
(* The line is whole.                                                      *)

(* Places taken by what has left the queue, by that and the queue, and by  *)
(* everything; the callback for the headers takes none.                    *)
Out == Len(received) + (IF pump = "write" THEN 1 ELSE 0)
Front == IF ready # <<>> /\ ready[1].do = "headers" THEN 1 ELSE 0
Base == Out + Len(queue) - Front
Full == Base + Len(ready)

(* What stands at a place of the line when so many chunks are written.     *)
At(written, place) == IF place <= written THEN place ELSE End

Got == Len(received) <= chunks /\ \A i \in DOMAIN received : received[i] = i

Writing == pump = "write" => item = Out /\ Out <= chunks

Queued == \A j \in DOMAIN queue : queue[j] = At(chunks, Out + j)

Scheduled ==
    \A k \in DOMAIN ready : k > Front =>
        /\ ready[k].do # "headers"
        /\ ready[k].item = At(chunks, Base + k)
        /\ Base + k <= chunks => ready[k].do = "put"

Counted ==
    /\ Full >= chunks
    /\ worker \in Busy => Full = chunks
    /\ worker \in {"connect", "refuse"} /\ ~locked => ready = <<>>

Closing ==
    pump \in {"eof", "join", "closed"} =>
        Len(received) = chunks /\ worker \in {"return", "ended"}

Whole == Got /\ Writing /\ Queued /\ Scheduled /\ Counted /\ Closing

(* The numbers the line is counted with.                                   *)
LEMMA Counts ==
  ASSUME TypeOK
  PROVE  /\ Len(received) \in Nat /\ Len(queue) \in Nat /\ Len(ready) \in Nat
         /\ chunks \in Nat /\ Out \in Nat /\ Front \in {0, 1} /\ Front <= Len(ready)
         /\ Base \in Int /\ Full \in Int
         /\ DOMAIN received = 1 .. Len(received)
         /\ DOMAIN queue = 1 .. Len(queue) /\ DOMAIN ready = 1 .. Len(ready)
<1>1. Len(received) \in Nat /\ Len(queue) \in Nat /\ Len(ready) \in Nat /\ chunks \in Nat
  BY StreamAssumption DEF TypeOK
<1>2. Front \in {0, 1} /\ Front <= Len(ready)
  BY <1>1, TailIs DEF Front, TypeOK
<1>3. Out \in Nat
  BY <1>1 DEF Out
<1>4. Base \in Int /\ Full \in Int
  BY <1>1, <1>2, <1>3 DEF Base, Full
<1> QED
  BY <1>1, <1>2, <1>3, <1>4 DEF TypeOK

(* Steps that leave the line alone leave it whole.                         *)
LEMMA WholeKept ==
  ASSUME Whole, UNCHANGED <<received, queue, ready, item, chunks>>,
         pump' = "write" <=> pump = "write",
         worker' \in Busy => worker \in Busy,
         worker' \in {"connect", "refuse"} /\ ~locked' =>
            worker \in {"connect", "refuse"} /\ ~locked,
         pump' \in {"eof", "join", "closed"} =>
            Len(received) = chunks /\ worker' \in {"return", "ended"}
  PROVE  Whole'
<1>1. Out' = Out /\ Front' = Front
  BY DEF Out, Front
<1>2. Base' = Base /\ Full' = Full
  BY <1>1 DEF Base, Full
<1> QED
  BY <1>1, <1>2
  DEF Whole, Got, Writing, Queued, Scheduled, Counted, Closing

(* A callback joins the end of the line: the next chunk while the worker   *)
(* has written chunks only, an end marker or the worker's end after that.  *)
LEMMA WholeAppend ==
  ASSUME TypeOK, TypeOK', Whole, UNCHANGED <<received, queue, item, pump>>,
         NEW c \in Callbacks, ready' = Append(ready, c), c.do # "headers",
         \/ /\ worker \in Busy /\ locked'
            /\ c = Put(chunks + 1) /\ chunks' = chunks + 1
         \/ /\ c.item = End /\ chunks' = chunks
            /\ worker' \in {"return", "ended"}
  PROVE  Whole'
<1> USE Counts
<1>1. Len(ready') = Len(ready) + 1 /\ DOMAIN ready' = 1 .. (Len(ready) + 1)
      /\ (\A k \in DOMAIN ready : ready'[k] = ready[k]) /\ ready'[Len(ready) + 1] = c
  BY AppendIs DEF TypeOK
<1>2. Out' = Out /\ Front' = Front
  <2>1. ready # <<>> => 1 \in DOMAIN ready
    BY TailWhich DEF TypeOK
  <2>2. ready = <<>> => ready'[1] = c
    BY <1>1
  <2>3. ready' # <<>>
    BY <1>1
  <2> QED
    BY <1>1, <2>1, <2>2, <2>3 DEF Out, Front
<1>3. Base' = Base /\ Full' = Full + 1
  BY <1>1, <1>2 DEF Base, Full
<1>4. Out + Len(queue) <= Full /\ Full = Base + Len(ready)
  BY DEF Full, Base
<1>5. CASE /\ worker \in Busy /\ locked'
           /\ c = Put(chunks + 1) /\ chunks' = chunks + 1
  <2>1. Full = chunks /\ pump \notin {"eof", "join", "closed"}
    BY <1>5 DEF Whole, Counted, Closing, Busy
  <2>2. \A p \in Int : p <= chunks => At(chunks', p) = At(chunks, p)
    BY <1>5 DEF At
  <2>3. c.do = "put" /\ c.item = chunks + 1 /\ Base + Len(ready) = chunks
        /\ At(chunks', chunks + 1) = chunks + 1
    BY <1>4, <1>5, <2>1 DEF Put, At
  <2>4. Got' /\ Writing' /\ Counted' /\ Closing'
    BY <1>1, <1>2, <1>3, <1>5, <2>1 DEF Whole, Got, Writing, Counted, Closing
  <2>5. Queued'
    <3>1. \A j \in DOMAIN queue : Out + j \in Int /\ Out + j <= chunks
      BY <1>4, <2>1
    <3> QED
      BY <1>2, <2>2, <3>1 DEF Whole, Queued
  <2>6. Scheduled'
    <3>1. \A k \in DOMAIN ready : Base + k \in Int /\ Base + k <= chunks
      BY <1>4, <2>1
    <3>2. ASSUME NEW k \in DOMAIN ready, k > Front
          PROVE  /\ ready'[k].do # "headers" /\ ready'[k].do = "put"
                 /\ ready'[k].item = At(chunks', Base + k)
      BY <1>1, <2>2, <3>1, <3>2 DEF Whole, Scheduled
    <3>3. \A k \in DOMAIN ready' : k \in DOMAIN ready \/ k = Len(ready) + 1
      BY <1>1
    <3>4. c.item = At(chunks', Base + (Len(ready) + 1))
      <4>1. Base + (Len(ready) + 1) = chunks + 1
        BY <2>3
      <4> QED
        BY <2>3, <4>1
    <3> QED
      BY <1>1, <1>2, <1>3, <2>3, <3>2, <3>3, <3>4 DEF Scheduled
  <2> QED
    BY <2>4, <2>5, <2>6 DEF Whole
<1>6. CASE /\ c.item = End /\ chunks' = chunks
           /\ worker' \in {"return", "ended"}
  <2>1. ~(Base + (Len(ready) + 1) <= chunks)
    BY <1>4 DEF Whole, Counted
  <2>2. Got' /\ Writing' /\ Queued' /\ Counted' /\ Closing'
    BY <1>1, <1>2, <1>3, <1>6
    DEF Whole, Got, Writing, Queued, Counted, Closing, Busy
  <2>3. Scheduled'
    <3>1. \A k \in DOMAIN ready' : k \in DOMAIN ready \/ k = Len(ready) + 1
      BY <1>1
    <3>2. c.item = At(chunks, Base + (Len(ready) + 1))
      BY <1>6, <2>1 DEF At
    <3> QED
      BY <1>1, <1>2, <1>3, <1>6, <2>1, <3>1, <3>2 DEF Whole, Scheduled
  <2> QED
    BY <2>2, <2>3 DEF Whole
<1> QED
  BY <1>5, <1>6

(* The headers join an empty list of callbacks.                            *)
LEMMA WholeHeaders ==
  ASSUME TypeOK, TypeOK', Stages, Whole, Answers,
         UNCHANGED <<received, queue, item, pump>>
  PROVE  Whole'
<1> USE Counts
<1>1. ready = <<>> /\ chunks = 0 /\ chunks' = 0
      /\ worker' \in {"stream", "body", "error"}
      /\ pump \notin {"eof", "join", "closed"} /\ Full = 0
  BY DEF Answers, Stages, Whole, Counted, Closing, Busy
<1>2. ready' = <<Headers>>
  BY <1>1 DEF Answers
<1>3. Len(ready') = 1 /\ ready'[1].do = "headers" /\ DOMAIN ready' = {1}
  BY <1>2 DEF Headers
<1>4. Front = 0 /\ Front' = 1 /\ Out' = Out
  BY <1>1, <1>2, <1>3 DEF Front, Out
<1>5. Base' = Base - 1
  BY <1>4 DEF Base
<1>6. Full' = Full
  <2>1. Len(ready) = 0
    BY <1>1
  <2>2. Full = Base + 0 /\ Full' = Base' + 1
    BY <1>3, <2>1 DEF Full
  <2> QED
    BY <1>5, <2>2
<1> QED
  BY <1>1, <1>3, <1>4, <1>5, <1>6
  DEF Whole, Got, Writing, Queued, Scheduled, Counted, Closing

(* When the first callback has left, the others stand where they stood.    *)
LEMMA ShiftScheduled ==
  ASSUME TypeOK, Whole, chunks' = chunks, ready # <<>>, ready' = Tail(ready),
         Front' = 0, Base' = Base + 1
  PROVE  Scheduled'
<1> USE Counts
<1>1. ASSUME NEW k \in DOMAIN ready'
      PROVE  /\ k \in Nat \ {0} /\ k + 1 \in DOMAIN ready /\ k + 1 > Front
             /\ ready'[k] = ready[k + 1] /\ Base' + k = Base + (k + 1)
  <2>1. \A i \in DOMAIN Tail(ready) :
           i \in Nat \ {0} /\ i + 1 \in DOMAIN ready /\ Tail(ready)[i] = ready[i + 1]
    BY TailWhich DEF TypeOK
  <2> QED
    BY <1>1, <2>1
<1> QED
  BY <1>1 DEF Whole, Scheduled

(* A callback leaves the line's list, and what it puts stands where it     *)
(* stood.                                                                  *)
LEMMA WholeLoop ==
  ASSUME TypeOK, TypeOK', Whole, ~gone, ~gone', Loop
  PROVE  Whole'
<1> USE Counts
<1>u. UNCHANGED <<received, item, pump, chunks, worker, locked>> /\ Out' = Out
  BY DEF Loop, workerVars, pumpVars, clientVars, Out
<1>r. ready # <<>>
  BY DEF Loop, RunHeaders, RunPut, RunDone
<1>h. /\ Head(ready) = ready[1] /\ 1 \in DOMAIN ready /\ Len(ready) >= 1
      /\ Tail(ready) \in Seq(Callbacks) /\ Len(Tail(ready)) = Len(ready) - 1
      /\ DOMAIN Tail(ready) = 1 .. (Len(ready) - 1)
      /\ \A k \in DOMAIN Tail(ready) :
            k \in Nat \ {0} /\ k + 1 \in DOMAIN ready /\ Tail(ready)[k] = ready[k + 1]
  BY <1>r, TailIs, TailWhich DEF TypeOK
<1>w. ~(worker \in {"connect", "refuse"} /\ ~locked)
  BY <1>r
  DEF Whole, Got, Writing, Queued, Scheduled, Counted, Closing
<1>k. Got' /\ Closing'
  BY <1>u DEF Whole, Got, Closing
<1>m. ASSUME Out' = Out PROVE Writing'
  BY <1>u DEF Whole, Writing
<1>1. CASE RunHeaders
  <2>1. Front = 1 /\ ready' = Tail(ready) /\ queue' = queue
    BY <1>1, <1>h, <1>r DEF RunHeaders, Front
  <2>2. Front' = 0
    <3>1. \A k \in DOMAIN Tail(ready) : Tail(ready)[k].do # "headers"
      BY <1>h, <2>1 DEF Whole, Scheduled
    <3>2. ready' # <<>> => 1 \in DOMAIN ready'
      BY <1>h, <2>1, TailWhich
    <3> QED
      BY <2>1, <3>1, <3>2 DEF Front
  <2>3. Base' = Base + 1 /\ Full' = Full
    BY <1>u, <1>h, <2>1, <2>2 DEF Base, Full
  <2>4. Queued' /\ Counted'
    BY <1>u, <1>w, <2>1, <2>3 DEF Whole, Queued, Counted
  <2>5. Scheduled'
    BY <1>u, <1>h, <2>1, <2>2, <2>3, ShiftScheduled
  <2> QED
    BY <1>k, <1>m, <1>u, <2>4, <2>5 DEF Whole
<1>f. CASE ~RunHeaders
  <2>0. Front = 0
    BY <1>f, <1>h, <1>r DEF Loop, RunHeaders, RunPut, RunDone, Front
  <2>1. CASE RunPut
    <3>1. ready' = Tail(ready) /\ queue' = Append(queue, ready[1].item)
      BY <2>1, <1>h DEF RunPut, TypeOK
    <3>2. Front' = 0
      <4>1. \A k \in DOMAIN Tail(ready) : Tail(ready)[k].do # "headers"
        BY <1>h, <2>0 DEF Whole, Scheduled
      <4>2. ready' # <<>> => 1 \in DOMAIN ready'
        BY <1>h, <3>1, TailWhich
      <4> QED
        BY <3>1, <4>1, <4>2 DEF Front
    <3>3. ready[1].item \in Items /\ ready[1].item = At(chunks, Base + 1)
      <4>1. ready[1] \in Callbacks
        BY <1>h DEF TypeOK
      <4>2. ready[1].item \in Items
        BY <4>1, CallbackType
      <4> QED
        BY <1>h, <2>0, <4>2 DEF Whole, Scheduled
    <3>4. Len(queue') = Len(queue) + 1 /\ DOMAIN queue' = 1 .. (Len(queue) + 1)
          /\ (\A j \in DOMAIN queue : queue'[j] = queue[j])
          /\ queue'[Len(queue) + 1] = ready[1].item
      BY <3>1, <3>3, AppendIs DEF TypeOK
    <3>5. Base = Out + Len(queue) /\ Base' = Base + 1 /\ Full' = Full
      <4>1. Base = Out + Len(queue)
        BY <2>0 DEF Base
      <4>2. Base' = Out + (Len(queue) + 1)
        BY <1>u, <3>2, <3>4 DEF Base
      <4>3. Len(ready') = Len(ready) - 1
        BY <1>h, <3>1
      <4>4. Full' = Base' + Len(ready') /\ Full = Base + Len(ready)
        BY DEF Full
      <4> QED
        BY <4>1, <4>2, <4>3, <4>4
    <3>6. Queued'
      <4>1. \A j \in DOMAIN queue' : j \in DOMAIN queue \/ j = Len(queue) + 1
        BY <3>4
      <4>2. ready[1].item = At(chunks, Out + (Len(queue) + 1))
        <5>1. Out + (Len(queue) + 1) = Base + 1
          BY <3>5
        <5> QED
          BY <3>3, <5>1
      <4> QED
        BY <1>u, <3>4, <4>1, <4>2 DEF Whole, Queued
    <3>7. Scheduled'
      BY <1>u, <1>h, <2>0, <3>1, <3>2, <3>5, ShiftScheduled
    <3>8. Counted'
      BY <1>u, <1>w, <3>5 DEF Whole, Counted
    <3> QED
      BY <1>k, <1>m, <1>u, <3>6, <3>7, <3>8 DEF Whole
  <2>2. CASE RunDone
    <3>1. ready' = Append(Tail(ready), Put(End)) /\ queue' = queue
          /\ ready[1].do = "done" /\ Put(End) \in Callbacks
      BY <2>2, <1>h, StreamAssumption, CallbackType DEF RunDone, Items, End
    <3>2. /\ Len(ready') = Len(ready) /\ DOMAIN ready' = DOMAIN ready
          /\ \A k \in DOMAIN Tail(ready) : ready'[k] = ready[k + 1]
          /\ ready'[Len(ready)] = Put(End)
      BY <1>h, <3>1, AppendIs
    <3>3. ~(Base + 1 <= chunks)
      BY <1>h, <2>0, <3>1 DEF Whole, Scheduled
    <3>4. ASSUME NEW k \in DOMAIN ready'
          PROVE  ready'[k].do # "headers" /\ ready'[k].item = End
      <4>1. CASE k = Len(ready)
        BY <3>2, <4>1 DEF Put
      <4>2. CASE k # Len(ready)
        <5>1. k \in DOMAIN Tail(ready) /\ k + 1 \in DOMAIN ready /\ k + 1 > Front
              /\ ready'[k] = ready[k + 1] /\ ~(Base + (k + 1) <= chunks)
          BY <1>h, <2>0, <3>2, <3>3, <4>2
        <5> QED
          BY <5>1 DEF Whole, Scheduled, At
      <4> QED
        BY <4>1, <4>2
    <3>5. Front' = 0
      <4>1. 1 \in DOMAIN ready'
        BY <1>h, <3>2
      <4> QED
        BY <3>4, <4>1 DEF Front
    <3>6. Base' = Base /\ Full' = Full
      BY <1>u, <2>0, <3>1, <3>2, <3>5 DEF Base, Full
    <3>7. Scheduled'
      <4>1. \A k \in DOMAIN ready : ~(Base + k <= chunks)
        BY <3>3
      <4> QED
        BY <1>u, <3>2, <3>4, <3>5, <3>6, <4>1 DEF Scheduled, At
    <3>8. Queued' /\ Counted'
      BY <1>u, <1>w, <3>1, <3>6 DEF Whole, Queued, Counted
    <3> QED
      BY <1>k, <1>m, <1>u, <3>7, <3>8 DEF Whole
  <2> QED
    BY <1>f, <2>1, <2>2 DEF Loop
<1> QED
  BY <1>1, <1>f

(* The pump moves the line on by one place, or ends at an end marker.      *)
LEMMA WholePump ==
  ASSUME TypeOK, TypeOK', Sane, Whole, ~gone, ~gone', Pump
  PROVE  Whole'
<1> USE Counts
<1>u. UNCHANGED <<ready, chunks, worker, locked>> /\ Front' = Front
  BY DEF Pump, workerVars, loopVars, Front
<1>1. CASE WakeOnHeaders \/ WakeOnWorker \/ Prepare \/ WriteEof \/ JoinWorker
  BY <1>1, <1>u, WholeKept
  DEF WakeOnHeaders, WakeOnWorker, Prepare, WriteEof, JoinWorker, Whole, Closing
<1>2. CASE Cancelled
  BY <1>2, <1>u, WholeKept DEF Cancelled, Whole, Closing
<1>3. CASE WriteRaises
  BY <1>3 DEF WriteRaises
<1>4. CASE Get
  <2>1. /\ Head(queue) = queue[1] /\ 1 \in DOMAIN queue
        /\ Len(queue') = Len(queue) - 1 /\ DOMAIN queue' = 1 .. (Len(queue) - 1)
        /\ \A j \in DOMAIN queue' :
              j \in Nat \ {0} /\ j + 1 \in DOMAIN queue /\ queue'[j] = queue[j + 1]
    BY <1>4, TailIs, TailWhich DEF Get, TypeOK
  <2>2. /\ received' = received /\ item' = queue[1] /\ Out = Len(received)
        /\ pump' = IF queue[1] = End THEN "eof" ELSE "write"
    BY <1>4, <2>1 DEF Get, Out
  <2>4. queue[1] = At(chunks, Out + 1) /\ Out + 1 \in Nat \ {0}
    BY <2>1 DEF Whole, Queued
  <2>5. Full = Base + Len(ready) /\ Base = Out + Len(queue) - Front
    BY DEF Full, Base
  <2>6. Full' = Base' + Len(ready) /\ Base' = Out' + (Len(queue) - 1) - Front
    BY <1>u, <2>1 DEF Full, Base
  <2>7. Got'
    BY <1>u, <2>2 DEF Whole, Got
  <2>8. CASE queue[1] # End
    <3>1. pump' = "write" /\ queue[1] = Out + 1 /\ Out + 1 <= chunks
      BY <2>2, <2>4, <2>8 DEF At
    <3>2. Out' = Out + 1
      BY <2>2, <3>1 DEF Out
    <3>3. Base' = Base /\ Full' = Full
      <4>1. Base' = (Out + 1) + (Len(queue) - 1) - Front
        BY <2>6, <3>2
      <4>2. Base' = Base
        BY <2>5, <4>1
      <4> QED
        BY <2>5, <2>6, <4>2
    <3>4. Writing' /\ Closing'
      BY <1>u, <2>2, <3>1, <3>2 DEF Writing, Closing
    <3>5. Queued'
      <4>1. \A j \in DOMAIN queue' : Out' + j = Out + (j + 1)
        BY <2>1, <3>2
      <4> QED
        BY <1>u, <2>1, <4>1 DEF Whole, Queued
    <3>6. Scheduled' /\ Counted'
      BY <1>u, <3>3 DEF Whole, Scheduled, Counted
    <3> QED
      BY <2>7, <3>4, <3>5, <3>6 DEF Whole
  <2>9. CASE queue[1] = End
    <3>1. pump' = "eof" /\ ~(Out + 1 <= chunks)
      <4>1. Out + 1 # End
        BY DEF End
      <4>2. ~(Out + 1 <= chunks)
        BY <2>4, <2>9, <4>1 DEF At
      <4> QED
        BY <2>2, <2>9, <4>2
    <3>2. Out' = Out /\ Len(received) = chunks
      <4>1. received' = received /\ pump' # "write"
        BY <2>2, <3>1
      <4>2. Out' = Len(received)
        BY <4>1 DEF Out
      <4>3. Len(received) <= chunks /\ Out = Len(received)
        BY <2>2 DEF Whole, Got
      <4> QED
        BY <3>1, <4>2, <4>3
    <3>3. Base' = Base - 1 /\ Full' = Full - 1
      <4>1. Base' = Out + (Len(queue) - 1) - Front
        BY <2>6, <3>2
      <4>2. Base' = Base - 1
        BY <2>5, <4>1
      <4> QED
        BY <2>5, <2>6, <4>2
    <3>4. Len(queue) >= 1
      BY <2>1
    <3>5. Full > chunks
      BY <2>2, <2>5, <3>2, <3>4
    <3>6. worker \in {"return", "ended"}
      BY <3>5 DEF Whole, Counted, TypeOK, Busy
    <3>7. Writing' /\ Closing' /\ Counted'
      BY <1>u, <2>2, <3>1, <3>2, <3>3, <3>5, <3>6
      DEF Writing, Closing, Counted, Busy
    <3>8. Queued'
      <4>1. \A j \in DOMAIN queue' :
               ~(Out + (j + 1) <= chunks) /\ ~(Out' + j <= chunks)
        BY <2>1, <3>1, <3>2
      <4> QED
        BY <1>u, <2>1, <4>1 DEF Whole, Queued, At
    <3>9. Scheduled'
      <4>1. Base >= chunks + 1 - Front
        BY <2>2, <2>5, <3>2, <3>4
      <4>2. \A k \in DOMAIN ready : k > Front =>
               ~(Base + k <= chunks) /\ ~((Base - 1) + k <= chunks)
        BY <4>1
      <4> QED
        BY <1>u, <3>3, <4>2 DEF Whole, Scheduled, At
    <3> QED
      BY <2>7, <3>7, <3>8, <3>9 DEF Whole
  <2> QED
    BY <2>8, <2>9
<1>5. CASE Deliver
  <2>1. received' = Append(received, item) /\ pump = "write" /\ pump' = "get"
        /\ queue' = queue /\ item' = item
    BY <1>5 DEF Deliver
  <2>2. item \in Nat \ {0} /\ item = Len(received) + 1 /\ item <= chunks
    BY <2>1 DEF TypeOK, Sane, Whole, Writing, Out, Items, End
  <2>3. /\ Len(received') = Len(received) + 1
        /\ DOMAIN received' = 1 .. (Len(received) + 1)
        /\ \A i \in DOMAIN received : received'[i] = received[i]
        /\ received'[Len(received) + 1] = item
    BY <2>1, <2>2, AppendIs DEF TypeOK
  <2>4. Out' = Out
    BY <2>1, <2>3 DEF Out
  <2>5. Base' = Base /\ Full' = Full
    BY <1>u, <2>1, <2>4 DEF Base, Full
  <2> QED
    BY <1>u, <2>1, <2>2, <2>3, <2>4, <2>5
  DEF Whole, Got, Writing, Queued, Scheduled, Counted, Closing
<1> QED
  BY <1>1, <1>2, <1>3, <1>4, <1>5 DEF Pump

(* While nothing is dropped the line stays whole.                          *)
LEMMA WholeStep ==
  ASSUME TypeOK, TypeOK', Sane, Stages, Whole, ~gone, ~gone', [Next]_vars
  PROVE  Whole'
<1>1. CASE Worker
  <2>u. UNCHANGED <<received, queue, item, pump>>
    BY <1>1, WorkerKinds
  <2>1. CASE Moves
    BY <2>1, <2>u, WholeKept DEF Moves, Whole, Closing, Busy
  <2>2. CASE Answers
    BY <2>2, <2>u, WholeHeaders
  <2>3. CASE Writes
    <3>1. Put(chunks + 1) \in Callbacks
      BY <2>3, NextGains, CallbackType DEF Writes
    <3>2. /\ ready' = Append(ready, Put(chunks + 1)) /\ chunks' = chunks + 1
          /\ locked' /\ worker \in Busy /\ Put(chunks + 1).do # "headers"
      BY <2>3 DEF Writes, WriteNext, Write, Busy, Put
    <3> QED
      BY <2>u, <3>1, <3>2, WholeAppend
  <2>4. CASE Finishes
    <3>1. Put(End) \in Callbacks /\ Done \in Callbacks
      BY CallbackType DEF Items, End
    <3>2. PICK c \in {Put(End), Done} : ready' = Append(ready, c)
      BY <2>4 DEF Finishes, Write
    <3>3. c.item = End /\ c.do # "headers" /\ c \in Callbacks
      BY <3>1 DEF Put, Done
    <3>4. chunks' = chunks /\ worker' \in {"return", "ended"}
      BY <2>4 DEF Finishes
    <3> QED
      BY <2>u, <3>2, <3>3, <3>4, WholeAppend
  <2> QED
    BY <1>1, <2>1, <2>2, <2>3, <2>4, WorkerKinds
<1>2. CASE Loop
  BY <1>2, WholeLoop
<1>3. CASE Pump
  BY <1>3, WholePump
<1>4. CASE Disconnect
  BY <1>4, WholeKept DEF Disconnect, workerVars, loopVars, pumpVars, Whole, Closing
<1>5. CASE UNCHANGED vars
  BY <1>5, WholeKept
  DEF vars, workerVars, loopVars, pumpVars, clientVars, Whole, Closing
<1> QED
  BY <1>1, <1>2, <1>3, <1>4, <1>5 DEF Next

(* The sink is never told that the client is back.                         *)
LEMMA GoneStays ==
  ASSUME gone, [Next]_vars
  PROVE  gone'
  BY DEF Next, Worker, Loop, RunHeaders, RunPut, RunDone, Pump, WakeOnHeaders,
         WakeOnWorker, Prepare, Get, Deliver, WriteRaises, WriteEof, JoinWorker,
         Cancelled, Disconnect, vars

(* What holds in every state: Ordered, and a whole line until a drop.      *)
Intact == ~gone => Whole

LEMMA IntactInvariant == Spec => [](Ordered /\ Intact)
<1>1. Init => Intact
  <2> SUFFICES ASSUME Init PROVE Whole
    BY DEF Intact
  <2>1. /\ received = <<>> /\ queue = <<>> /\ ready = <<>> /\ chunks = 0
        /\ pump = "wait" /\ worker = "connect"
    BY DEF Init
  <2>2. Out = 0 /\ Front = 0 /\ Len(queue) = 0 /\ Len(ready) = 0
    BY <2>1 DEF Out, Front
  <2>3. Full = 0
    BY <2>2 DEF Full, Base
  <2> QED
    BY <2>1, <2>3
  DEF Whole, Got, Writing, Queued, Scheduled, Counted, Closing
<1>2. ASSUME Ordered, Ordered', Intact, [Next]_vars
      PROVE  Intact'
  <2> SUFFICES ASSUME ~gone' PROVE Whole'
    BY DEF Intact
  <2>1. ~gone
    BY <1>2, GoneStays
  <2> QED
    BY <1>2, <2>1, WholeStep DEF Ordered, Intact
<1>3. Ordered /\ Ordered' /\ Intact /\ [Next]_vars => Intact'
  BY <1>2
<1> QED
  BY <1>1, <1>3, OrderInvariant, PTL DEF Spec

(* NoGap: until the sink is told that the client is gone, the client has   *)
(* the first chunks of the answer, and has them all so far.                *)
THEOREM NoGapHolds == Spec => []NoGap
<1>1. Intact => NoGap
  BY DEF Intact, Whole, Got, NoGap
<1> QED
  BY <1>1, IntactInvariant, PTL

(* EndMeansAll: no end marker, of the last frame or of the worker's end,   *)
(* overtakes a chunk; a response that ends without a drop is complete.     *)
THEOREM EndMeansAllHolds == Spec => []EndMeansAll
<1>1. Intact => EndMeansAll
  BY DEF Intact, Whole, Closing, EndMeansAll
<1> QED
  BY <1>1, IntactInvariant, PTL
=============================================================================
