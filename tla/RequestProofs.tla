---------------------------- MODULE RequestProofs ----------------------------
(***************************************************************************)
(* Theorems about what becomes of a request.                               *)
(*                                                                         *)
(* Forward, for any requests, replicas, attempts and permits: what a       *)
(* client was sent and what was logged of its request follows from where   *)
(* its thread is (Placed), and a thread changes nothing of another         *)
(* request.                                                                *)
(*                                                                         *)
(* Supervisor (S), for any threads, models and jobs: the request that      *)
(* switches to the model it needs, and nobody else, holds _switch_lock     *)
(* (StormInv), so requests make no switch storm.                           *)
(***************************************************************************)
EXTENDS Forward, TLAPS

Spots == {"idle", "in", "select", "gate", "swap", "try", "streaming", "sent", "exhausted",
          "done"}
Marks == Outcomes \cup {"error", "none"}
Forms == Kinds \cup {"none", "off"}
Ports == Replicas \cup {Own}
Request == [pc : Spots, kind : Kinds \cup {"none"}, stream : BOOLEAN, tries : Nat,
            port : Ports, orig : Ports, lines : Nat, first : Marks, form : Forms,
            hit : BOOLEAN]

\* The types of what the proofs speak about.
Typed ==
    /\ rq \in [Requests -> Request] /\ rows \in [Requests -> Seq(Marks)]
    /\ mport \in Ports /\ cache \in Forms

\* Requests whose client sees one status line: all but streams of a retry chain.
Single(r) == rq[r].kind \in {"chat", "ollama", "embed"} \/ ~rq[r].stream

\* What has been sent and logged where the thread is.
Placed(r) ==
    /\ rq[r].pc # "done" => rows[r] = <<>> /\ ~rq[r].hit
    /\ rq[r].pc \in {"idle", "in", "select", "gate", "swap"} => rq[r].lines = 0
    /\ rq[r].pc \in {"try", "exhausted"} /\ Single(r) => rq[r].lines = 0
    /\ rq[r].pc \in {"streaming", "sent", "done"} =>
          rq[r].lines >= 1 /\ (Single(r) => rq[r].lines = 1)
    /\ rq[r].pc = "streaming" => rq[r].stream /\ rq[r].kind # "chat"
    /\ rq[r].pc = "sent" => rq[r].kind # "ollama"
    /\ rq[r].pc = "done" /\ rq[r].lines = 1 /\ rq[r].first = "ok" =>
          rows[r] = IF rq[r].hit \/ rq[r].kind = "ollama" THEN <<>> ELSE <<"ok">>

ForwardInv == Typed /\ \A r \in Requests : Placed(r)

-----------------------------------------------------------------------------
(* Types.                                                                  *)

(* A reply makes a request of a request.                                   *)
LEMMA SentIs ==
  ASSUME Typed, NEW r \in Requests, NEW s \in Marks, NEW f \in Forms, NEW pc \in Spots
  PROVE  /\ Sent(r, s, f, pc) \in Request
         /\ Sent(r, s, f, pc).pc = pc /\ Sent(r, s, f, pc).lines = rq[r].lines + 1
         /\ Sent(r, s, f, pc).first = IF rq[r].lines = 0 THEN s ELSE rq[r].first
         /\ Sent(r, s, f, pc).kind = rq[r].kind /\ Sent(r, s, f, pc).stream = rq[r].stream
         /\ Sent(r, s, f, pc).hit = rq[r].hit
<1> DEFINE b == IF rq[r].lines = 0 THEN s ELSE rq[r].first
           c == IF rq[r].lines = 0 THEN f ELSE rq[r].form
<1>1. rq[r] \in Request
  BY DEF Typed
<1>2. rq[r].lines + 1 \in Nat /\ b \in Marks /\ c \in Forms
  BY <1>1 DEF Request
<1>3. Sent(r, s, f, pc) = [rq[r] EXCEPT !.lines = rq[r].lines + 1, !.first = b, !.form = c, !.pc = pc]
  BY <1>1 DEF Sent, Request
<1> HIDE DEF b, c
<1>4. /\ Sent(r, s, f, pc) \in Request
      /\ Sent(r, s, f, pc).pc = pc /\ Sent(r, s, f, pc).lines = rq[r].lines + 1
      /\ Sent(r, s, f, pc).first = b
      /\ Sent(r, s, f, pc).kind = rq[r].kind /\ Sent(r, s, f, pc).stream = rq[r].stream
      /\ Sent(r, s, f, pc).hit = rq[r].hit
  BY <1>1, <1>2, <1>3 DEF Request
<1> QED
  BY <1>4 DEF b

(* A reply changes what has been sent, and the place, of its request.      *)
LEMMA ReplyIs ==
  ASSUME Typed, NEW r \in Requests, NEW s \in Marks, NEW pc \in Spots, Reply(r, s, pc)
  PROVE  /\ rq' \in [Requests -> Request]
         /\ rq'[r].pc = pc /\ rq'[r].kind = rq[r].kind /\ rq'[r].stream = rq[r].stream
         /\ rq'[r].lines = rq[r].lines + 1 /\ rq'[r].hit = rq[r].hit
         /\ rq'[r].first = IF rq[r].lines = 0 THEN s ELSE rq[r].first
         /\ \A q \in Requests : q # r => rq'[q] = rq[q]
<1>1. rq \in [Requests -> Request] /\ rq[r].kind \in Forms
  BY DEF Typed, Request, Forms
<1>2. rq' = [rq EXCEPT ![r] = Sent(r, s, rq[r].kind, pc)]
  BY DEF Reply
<1>3. /\ Sent(r, s, rq[r].kind, pc) \in Request
      /\ rq'[r] = Sent(r, s, rq[r].kind, pc)
  BY <1>1, <1>2, SentIs
<1> QED
  BY <1>1, <1>2, <1>3, SentIs

(* Another attempt, or none: the place and the number of attempts change.  *)
LEMMA AgainIs ==
  ASSUME Typed, NEW r \in Requests, Again(r, "try")
  PROVE  /\ rq' \in [Requests -> Request]
         /\ rq'[r].pc \in {"try", "exhausted"} /\ rq'[r].kind = rq[r].kind
         /\ rq'[r].stream = rq[r].stream /\ rq'[r].lines = rq[r].lines
         /\ rq'[r].first = rq[r].first /\ rq'[r].hit = rq[r].hit
         /\ \A q \in Requests : q # r => rq'[q] = rq[q]
<1> DEFINE d == IF rq[r].tries + 1 < Tries THEN "try" ELSE "exhausted"
<1>1. rq \in [Requests -> Request] /\ rq[r] \in Request
  BY DEF Typed
<1>2. rq[r].tries + 1 \in Nat /\ d \in Spots /\ d \in {"try", "exhausted"}
  BY <1>1 DEF Request, Spots
<1>3. rq' = [rq EXCEPT ![r] = [rq[r] EXCEPT !.tries = rq[r].tries + 1, !.pc = d]]
  BY <1>1 DEF Again
<1> HIDE DEF d
<1>4. [rq[r] EXCEPT !.tries = rq[r].tries + 1, !.pc = d] \in Request
  BY <1>1, <1>2 DEF Request
<1> QED
  BY <1>1, <1>2, <1>3, <1>4 DEF Request

(* A step to another place changes only the place.                         *)
LEMMA GotoIs ==
  ASSUME Typed, NEW r \in Requests, NEW pc \in Spots, Goto(r, pc)
  PROVE  /\ rq' \in [Requests -> Request]
         /\ rq'[r].pc = pc /\ rq'[r].kind = rq[r].kind /\ rq'[r].stream = rq[r].stream
         /\ rq'[r].lines = rq[r].lines /\ rq'[r].first = rq[r].first
         /\ rq'[r].hit = rq[r].hit
         /\ \A q \in Requests : q # r => rq'[q] = rq[q]
  BY DEF Typed, Request, Goto

(* An entry in a log.                                                      *)
LEMMA LogIs ==
  ASSUME Typed, NEW r \in Requests, NEW s \in Marks, Log(r, s)
  PROVE  /\ rows' \in [Requests -> Seq(Marks)]
         /\ rows[r] = <<>> => rows'[r] = <<s>>
         /\ \A q \in Requests : q # r => rows'[q] = rows[q]
<1>1. rows[r] \in Seq(Marks) /\ rows \in [Requests -> Seq(Marks)]
  BY DEF Typed
<1>2. Append(rows[r], s) \in Seq(Marks)
  BY <1>1
<1>3. rows' = [rows EXCEPT ![r] = Append(rows[r], s)]
  BY <1>1 DEF Log
<1>4. rows[r] = <<>> => Append(rows[r], s) = <<s>>
  OBVIOUS
<1> QED
  BY <1>1, <1>2, <1>3, <1>4

-----------------------------------------------------------------------------
(* Steps.                                                                  *)

\* No other request changes.
Others(r) == \A q \in Requests : q # r => rq'[q] = rq[q] /\ rows'[q] = rows[q]

\* A step of the thread of r leaves types, the place of r, and other requests.
Keeps(r) == Typed' /\ Placed(r)' /\ Others(r)

\* The request goes to pc, after `more' status lines, the first of them s.
Moves(r, pc, more, s) ==
    /\ Typed' /\ Others(r)
    /\ rq'[r].pc = pc /\ rq'[r].lines = rq[r].lines + more /\ rq'[r].first = s
    /\ rq'[r].kind = rq[r].kind /\ rq'[r].stream = rq[r].stream /\ rq'[r].hit = rq[r].hit

\* The log of a request: one entry more, or none.
Logs(r) == UNCHANGED rows \/ \E s \in Marks : Log(r, s)

(* A log of well-formed rows stays one.                                    *)
LEMMA LogsIs ==
  ASSUME Typed, NEW r \in Requests, Logs(r)
  PROVE  rows' \in [Requests -> Seq(Marks)] /\ \A q \in Requests : q # r => rows'[q] = rows[q]
<1>1. CASE UNCHANGED rows
  BY <1>1 DEF Typed
<1>2. CASE \E t \in Marks : Log(r, t)
  BY <1>2, LogIs
<1> QED
  BY <1>1, <1>2 DEF Logs

(* A reply: the first status stays.                                        *)
LEMMA Replies ==
  ASSUME Typed, NEW r \in Requests, NEW s \in Marks, NEW pc \in Spots, Reply(r, s, pc),
         Logs(r), mport' \in Ports, cache' \in Forms
  PROVE  Moves(r, pc, 1, IF rq[r].lines = 0 THEN s ELSE rq[r].first)
  BY LogsIs, ReplyIs DEF Moves, Others, Typed

(* A step to another place.                                                *)
LEMMA Goes ==
  ASSUME Typed, NEW r \in Requests, NEW pc \in Spots, Goto(r, pc), Logs(r),
         mport' \in Ports, cache' \in Forms
  PROVE  Moves(r, pc, 0, rq[r].first)
<1>1. rq[r].lines + 0 = rq[r].lines
  BY DEF Typed, Request
<1> QED
  BY <1>1, LogsIs, GotoIs DEF Moves, Others, Typed

(* A request arrives.                                                      *)
LEMMA ArriveKeeps == ASSUME ForwardInv, NEW r \in Requests, Arrive(r) PROVE Keeps(r)
<1> DEFINE new(k, s) == [rq[r] EXCEPT !.kind = k, !.stream = s, !.pc = "in"]
<1>1. rq \in [Requests -> Request] /\ rq[r] \in Request /\ Placed(r)
  BY DEF ForwardInv, Typed
<1>2. PICK k \in Kinds, s \in BOOLEAN :
        rq' = [rq EXCEPT ![r].kind = k, ![r].stream = s, ![r].pc = "in"]
  BY DEF Arrive
<1>3. rq' = [rq EXCEPT ![r] = new(k, s)]
  BY <1>2, <1>1
<1>4. new(k, s) \in Request
  BY <1>1 DEF Request, Spots
<1>5. /\ rq' \in [Requests -> Request] /\ \A q \in Requests : q # r => rq'[q] = rq[q]
      /\ rq'[r].pc = "in" /\ rq'[r].lines = rq[r].lines /\ rq'[r].hit = rq[r].hit
  BY <1>3, <1>1, <1>4 DEF Request
<1> QED
  BY <1>1, <1>5 DEF Arrive, shared, Keeps, Others, Placed, Single, ForwardInv, Typed

(* A request that is refused on the way in: one reply, one row.             *)
LEMMA RefusedKeeps ==
  ASSUME ForwardInv, NEW r \in Requests, rq[r].pc = "in", Refused(r) PROVE Keeps(r)
<1>a. Typed /\ Placed(r) /\ rq[r] \in Request /\ rq[r].lines \in Nat
  BY DEF ForwardInv, Typed, Request
<1>1. Moves(r, "done", 1, IF rq[r].lines = 0 THEN "error" ELSE rq[r].first)
  BY <1>a, Replies DEF Typed, Refused, shared, Logs, Spots, Marks
<1> QED
  BY <1>a, <1>1, LogIs DEF Refused, Placed, Single, Keeps, Moves, Marks

(* Every step of a thread: where it goes, what it sends and logs.          *)
LEMMA StepKeeps == ASSUME ForwardInv, NEW r \in Requests, Step(r) PROVE Keeps(r)
<1> USE DEF At, shared
<1>a. Typed /\ Placed(r) /\ rq[r] \in Request /\ rq[r].lines \in Nat
  BY DEF ForwardInv, Typed, Request
<1>b. mport \in Ports /\ cache \in Forms
  BY DEF ForwardInv, Typed
<1>1. CASE BadBody(r)
  <2>1. Moves(r, "done", 1, IF rq[r].lines = 0 THEN "error" ELSE rq[r].first)
    BY <1>a, <1>b, <1>1, Replies DEF BadBody, Logs, Spots, Marks, Outcomes
  <2> QED
    BY <1>a, <1>1, <2>1, LogIs DEF BadBody, Placed, Single, Keeps, Moves, Marks, Outcomes
<1>2. CASE KeyRefused(r)
  BY <1>2, RefusedKeeps DEF KeyRefused
<1>3. CASE ChatRefused(r)
  BY <1>3, RefusedKeeps DEF ChatRefused
<1>4. CASE MessagesRefused(r)
  BY <1>4, RefusedKeeps DEF MessagesRefused
<1>5. CASE UnknownModel(r)
  BY <1>5, RefusedKeeps DEF UnknownModel
<1>6. CASE EmbedRefused(r)
  BY <1>6, RefusedKeeps DEF EmbedRefused
<1>7. CASE CacheHit(r)
  <2> DEFINE new == Sent(r, "ok", cache, "done")
  <2>1. /\ new \in Request /\ new.pc = "done" /\ new.lines = rq[r].lines + 1
        /\ new.kind = rq[r].kind /\ new.stream = rq[r].stream
    BY <1>a, <1>b, SentIs DEF Marks, Outcomes, Spots
  <2>2. rq' = [rq EXCEPT ![r] = [new EXCEPT !.hit = TRUE]] /\ UNCHANGED <<shared, rows>>
    BY <1>7 DEF CacheHit
  <2> HIDE DEF new
  <2>3. [new EXCEPT !.hit = TRUE] \in Request
    BY <2>1 DEF Request
  <2>4. /\ rq' \in [Requests -> Request] /\ \A q \in Requests : q # r => rq'[q] = rq[q]
        /\ rq'[r].pc = "done" /\ rq'[r].lines = rq[r].lines + 1 /\ rq'[r].hit = TRUE
        /\ rq'[r].kind = rq[r].kind /\ rq'[r].stream = rq[r].stream
    BY <1>a, <2>1, <2>2, <2>3 DEF Typed, Request
  <2> QED
    BY <1>a, <1>7, <2>2, <2>4 DEF CacheHit, Placed, Single, Keeps, Others, Typed
<1>8. CASE ChatRouted(r)
  <2>1. Moves(r, "select", 0, rq[r].first) \/ Moves(r, "try", 0, rq[r].first)
    BY <1>a, <1>b, <1>8, Goes DEF ChatRouted, Logs, Spots
  <2>2. rq[r].pc = "in" /\ UNCHANGED rows
    BY <1>8 DEF ChatRouted
  <2>3. CASE Moves(r, "select", 0, rq[r].first)
    BY <1>a, <2>2, <2>3 DEF Placed, Single, Keeps, Moves
  <2>4. CASE Moves(r, "try", 0, rq[r].first)
    BY <1>a, <2>2, <2>4 DEF Placed, Single, Keeps, Moves
  <2> QED
    BY <2>1, <2>3, <2>4
<1>9. CASE MessagesRouted(r)
  <2>1. Moves(r, "gate", 0, rq[r].first)
    BY <1>a, <1>b, <1>9, Goes DEF MessagesRouted, Logs, Spots, Marks, Outcomes
  <2> QED
    BY <1>a, <1>9, <2>1, LogIs DEF MessagesRouted, Placed, Single, Keeps, Moves, Marks, Outcomes
<1>10. CASE CloudRouted(r)
  <2>1. Moves(r, "try", 0, rq[r].first)
    BY <1>a, <1>b, <1>10, Goes DEF CloudRouted, Logs, Spots, Marks, Outcomes
  <2> QED
    BY <1>a, <1>10, <2>1, LogIs DEF CloudRouted, Placed, Single, Keeps, Moves, Marks, Outcomes
<1>11. CASE OllamaFails(r)
  <2>1. Moves(r, "done", 1, IF rq[r].lines = 0 THEN "error" ELSE rq[r].first)
    BY <1>a, <1>b, <1>11, Replies DEF OllamaFails, Logs, Spots, Marks, Outcomes
  <2> QED
    BY <1>a, <1>11, <2>1, LogIs DEF OllamaFails, Placed, Single, Keeps, Moves, Marks, Outcomes
<1>12. CASE OllamaSends(r)
  <2>1. PICK s \in Outcomes, pc \in {"streaming", "done"} :
           Reply(r, s, pc) /\ UNCHANGED <<rows, mport>> /\ cache' \in Forms
           /\ (pc = "streaming" <=> rq[r].stream /\ s = "ok")
    BY <1>a, <1>b, <1>12 DEF OllamaSends
  <2>2. Moves(r, pc, 1, IF rq[r].lines = 0 THEN s ELSE rq[r].first)
    BY <1>a, <1>b, <2>1, Replies DEF Logs, Spots, Marks
  <2> QED
    BY <1>a, <1>12, <2>1, <2>2 DEF OllamaSends, Placed, Single, Keeps, Moves
<1>13. CASE OllamaStreamed(r)
  <2>1. Moves(r, "done", 0, rq[r].first)
    BY <1>a, <1>b, <1>13, Goes DEF OllamaStreamed, Logs, Spots, Marks, Outcomes
  <2> QED
    BY <1>a, <1>13, <2>1, LogIs DEF OllamaStreamed, Placed, Single, Keeps, Moves, Marks, Outcomes
<1>14. CASE ChatSelect(r)
  <2>a. At(r, "chat", "select") /\ UNCHANGED <<mport, cache, rows>>
    BY <1>14 DEF ChatSelect
  <2>1. ASSUME Goto(r, "gate") PROVE Moves(r, "gate", 0, rq[r].first)
    BY <1>a, <1>b, <2>a, <2>1, Goes DEF Logs, Spots
  <2>2. ASSUME \E p \in Replicas : rq' = [rq EXCEPT ![r].port = p, ![r].pc = "gate"]
        PROVE  Moves(r, "gate", 0, rq[r].first)
    <3>1. PICK p \in Replicas : rq' = [rq EXCEPT ![r].port = p, ![r].pc = "gate"]
      BY <2>2
    <3> DEFINE new == [rq[r] EXCEPT !.port = p, !.pc = "gate"]
    <3>2. rq' = [rq EXCEPT ![r] = new]
      BY <1>a, <3>1 DEF Typed
    <3>3. new \in Request /\ new.pc = "gate" /\ new.lines = rq[r].lines /\ new.first = rq[r].first
          /\ new.kind = rq[r].kind /\ new.stream = rq[r].stream /\ new.hit = rq[r].hit
      BY <1>a DEF Request, Spots, Ports
    <3>4. rq[r].lines + 0 = rq[r].lines
      BY <1>a
    <3> HIDE DEF new
    <3> QED
      BY <1>a, <1>b, <2>a, <3>2, <3>3, <3>4 DEF Moves, Others, Typed
  <2>3. Moves(r, "gate", 0, rq[r].first)
    BY <1>14, <2>1, <2>2 DEF ChatSelect, LeastBusy
  <2> QED
    BY <1>a, <2>a, <2>3 DEF Placed, Single, Keeps, Moves
<1>15. CASE ChatGate(r)
  <2>1. CASE Goto(r, "try") /\ UNCHANGED rows
    <3>1. Moves(r, "try", 0, rq[r].first)
      BY <1>a, <1>b, <1>15, <2>1, Goes DEF ChatGate, Logs, Spots
    <3> QED
      BY <1>a, <1>15, <2>1, <3>1 DEF ChatGate, Placed, Single, Keeps, Moves
  <2>2. CASE Reply(r, "error", "done") /\ Log(r, "error")
    <3>1. Moves(r, "done", 1, IF rq[r].lines = 0 THEN "error" ELSE rq[r].first)
      BY <1>a, <1>b, <1>15, <2>2, Replies DEF ChatGate, Logs, Spots, Marks
    <3> QED
      BY <1>a, <1>15, <2>2, <3>1, LogIs DEF ChatGate, Placed, Single, Keeps, Moves, Marks
  <2> QED
    BY <1>15, <2>1, <2>2 DEF ChatGate
<1>16. CASE ChatSends(r)
  <2>1. PICK s \in Outcomes, pc \in {"sent"} :
           Reply(r, s, pc) /\ UNCHANGED <<rows, mport>> /\ cache' \in Forms
    BY <1>a, <1>b, <1>16 DEF ChatSends, Store, Forms, Kinds
  <2>2. Moves(r, pc, 1, IF rq[r].lines = 0 THEN s ELSE rq[r].first)
    BY <1>a, <1>b, <2>1, Replies DEF Logs, Spots, Marks
  <2> QED
    BY <1>a, <1>16, <2>1, <2>2 DEF ChatSends, Placed, Single, Keeps, Moves
<1>17. CASE ChatFails(r)
  BY <1>a, <1>b, <1>17, AgainIs DEF ChatFails, Keeps, Others, Placed, Single, Typed
<1>18. CASE ChatLogs(r)
  <2>1. Moves(r, "done", 0, rq[r].first)
    BY <1>a, <1>b, <1>18, Goes DEF ChatLogs, Logs, Spots, Marks, Outcomes
  <2> QED
    BY <1>a, <1>18, <2>1, LogIs DEF ChatLogs, Placed, Single, Keeps, Moves, Marks, Outcomes
<1>19. CASE ChatExhausted(r)
  <2>1. Moves(r, "done", 1, IF rq[r].lines = 0 THEN "error" ELSE rq[r].first)
    BY <1>a, <1>b, <1>19, Replies DEF ChatExhausted, Logs, Spots, Marks, Outcomes
  <2> QED
    BY <1>a, <1>19, <2>1, LogIs DEF ChatExhausted, Placed, Single, Keeps, Moves, Marks, Outcomes
<1>20. CASE MessagesGate(r)
  <2>1. CASE Goto(r, "swap") /\ UNCHANGED rows
    <3>1. Moves(r, "swap", 0, rq[r].first)
      BY <1>a, <1>b, <1>20, <2>1, Goes DEF MessagesGate, Logs, Spots
    <3> QED
      BY <1>a, <1>20, <2>1, <3>1 DEF MessagesGate, Placed, Single, Keeps, Moves
  <2>2. CASE Reply(r, "error", "done") /\ UNCHANGED rows
    <3>1. Moves(r, "done", 1, IF rq[r].lines = 0 THEN "error" ELSE rq[r].first)
      BY <1>a, <1>b, <1>20, <2>2, Replies DEF MessagesGate, Logs, Spots, Marks
    <3> QED
      BY <1>a, <1>20, <2>2, <3>1, LogIs DEF MessagesGate, Placed, Single, Keeps, Moves, Marks
  <2> QED
    BY <1>20, <2>1, <2>2 DEF MessagesGate
<1>21. CASE MessagesSwap(r)
  <2>a. At(r, "messages", "swap") /\ UNCHANGED <<cache, rows>>
    BY <1>21 DEF MessagesSwap
  <2>1. ASSUME Goto(r, "try") /\ UNCHANGED mport PROVE Moves(r, "try", 0, rq[r].first)
    BY <1>a, <1>b, <2>a, <2>1, Goes DEF Logs, Spots
  <2>2. ASSUME \E p \in Replicas :
               /\ rq' = [rq EXCEPT ![r].port = p, ![r].orig = mport, ![r].pc = "try"]
               /\ mport' = p
        PROVE  Moves(r, "try", 0, rq[r].first)
    <3>1. PICK p \in Replicas :
               /\ rq' = [rq EXCEPT ![r].port = p, ![r].orig = mport, ![r].pc = "try"]
               /\ mport' = p
      BY <2>2
    <3> DEFINE new == [rq[r] EXCEPT !.port = p, !.orig = mport, !.pc = "try"]
    <3>2. rq' = [rq EXCEPT ![r] = new]
      BY <1>a, <3>1 DEF Typed
    <3>3. new \in Request /\ new.pc = "try" /\ new.lines = rq[r].lines /\ new.first = rq[r].first
          /\ new.kind = rq[r].kind /\ new.stream = rq[r].stream /\ new.hit = rq[r].hit
      BY <1>a, <1>b DEF Request, Spots, Ports
    <3>4. rq[r].lines + 0 = rq[r].lines
      BY <1>a
    <3> HIDE DEF new
    <3> QED
      BY <1>a, <1>b, <2>a, <3>1, <3>2, <3>3, <3>4 DEF Moves, Others, Typed, Ports
  <2>3. Moves(r, "try", 0, rq[r].first)
    BY <1>21, <2>1, <2>2 DEF MessagesSwap, LeastBusy
  <2> QED
    BY <1>a, <2>a, <2>3 DEF Placed, Single, Keeps, Moves
<1>22. CASE MessagesLogs(r)
  <2>1. Moves(r, "done", 0, rq[r].first)
    BY <1>a, <1>b, <1>22, Goes DEF MessagesLogs, GiveBack, Logs, Spots, Marks, Outcomes, Request
  <2> QED
    BY <1>a, <1>22, <2>1, LogIs DEF MessagesLogs, GiveBack, Placed, Single, Keeps, Moves, Marks, Outcomes
<1>23. CASE MessagesExhausted(r)
  <2>1. Moves(r, "done", 1, IF rq[r].lines = 0 THEN "error" ELSE rq[r].first)
    BY <1>a, <1>b, <1>23, Replies DEF MessagesExhausted, GiveBack, Logs, Spots, Marks, Request
  <2> QED
    BY <1>a, <1>23, <2>1, LogIs DEF MessagesExhausted, GiveBack, Placed, Single, Keeps, Moves, Marks, Outcomes
<1>24. CASE ChainSends(r)
  <2>1. PICK s \in Outcomes, pc \in {"streaming", "sent"} :
           Reply(r, s, pc) /\ UNCHANGED <<rows, mport>> /\ cache' \in Forms
           /\ (pc = "streaming" => rq[r].stream)
    BY <1>a, <1>b, <1>24 DEF ChainSends, Store, Forms, Kinds
  <2>2. Moves(r, pc, 1, IF rq[r].lines = 0 THEN s ELSE rq[r].first)
    BY <1>a, <1>b, <2>1, Replies DEF Logs, Spots, Marks
  <2> QED
    BY <1>a, <1>24, <2>1, <2>2 DEF ChainSends, Chains, Placed, Single, Keeps, Moves
<1>25. CASE ChainFails(r)
  BY <1>a, <1>b, <1>25, AgainIs DEF ChainFails, Keeps, Others, Placed, Single, Typed
<1>26. CASE StreamEnds(r)
  <2>1. Moves(r, "sent", 0, rq[r].first)
    BY <1>a, <1>b, <1>26, Goes DEF StreamEnds, Logs, Spots, Marks, Outcomes
  <2> QED
    BY <1>a, <1>26, <2>1, LogIs DEF StreamEnds, Chains, Placed, Single, Keeps, Moves
<1>27. CASE StreamBreaks(r)
  <2>1. CASE Again(r, "try")
    BY <1>a, <1>b, <1>27, <2>1, AgainIs DEF StreamBreaks, Chains, Keeps, Others, Placed, Single, Typed
  <2>2. CASE Goto(r, "exhausted")
    <3>1. Moves(r, "exhausted", 0, rq[r].first)
      BY <1>a, <1>b, <1>27, <2>2, Goes DEF StreamBreaks, Logs, Spots
    <3> QED
      BY <1>a, <1>27, <3>1 DEF StreamBreaks, Chains, Placed, Single, Keeps, Moves
  <2> QED
    BY <1>27, <2>1, <2>2 DEF StreamBreaks
<1>28. CASE CloudLogs(r)
  <2>1. Moves(r, "done", 0, rq[r].first)
    BY <1>a, <1>b, <1>28, Goes DEF CloudLogs, Logs, Spots, Marks, Outcomes
  <2> QED
    BY <1>a, <1>28, <2>1, LogIs DEF CloudLogs, Placed, Single, Keeps, Moves, Marks, Outcomes
<1>29. CASE CloudExhausted(r)
  <2>1. Moves(r, "done", 1, IF rq[r].lines = 0 THEN "error" ELSE rq[r].first)
    BY <1>a, <1>b, <1>29, Replies DEF CloudExhausted, Logs, Spots, Marks, Outcomes
  <2> QED
    BY <1>a, <1>29, <2>1, LogIs DEF CloudExhausted, Placed, Single, Keeps, Moves, Marks, Outcomes
<1>30. CASE EmbedGate(r)
  <2>1. CASE Goto(r, "try") /\ UNCHANGED rows
    <3>1. Moves(r, "try", 0, rq[r].first)
      BY <1>a, <1>b, <1>30, <2>1, Goes DEF EmbedGate, Logs, Spots
    <3> QED
      BY <1>a, <1>30, <2>1, <3>1 DEF EmbedGate, Placed, Single, Keeps, Moves
  <2>2. CASE Reply(r, "error", "done") /\ Log(r, "error")
    <3>1. Moves(r, "done", 1, IF rq[r].lines = 0 THEN "error" ELSE rq[r].first)
      BY <1>a, <1>b, <1>30, <2>2, Replies DEF EmbedGate, Logs, Spots, Marks
    <3> QED
      BY <1>a, <1>30, <2>2, <3>1, LogIs DEF EmbedGate, Placed, Single, Keeps, Moves, Marks
  <2> QED
    BY <1>30, <2>1, <2>2 DEF EmbedGate
<1>31. CASE EmbedUnstarted(r)
  <2>1. Moves(r, "sent", 1, IF rq[r].lines = 0 THEN "busy" ELSE rq[r].first)
    BY <1>a, <1>b, <1>31, Replies DEF EmbedUnstarted, Logs, Spots, Marks, Outcomes
  <2> QED
    BY <1>a, <1>31, <2>1, LogIs DEF EmbedUnstarted, Placed, Single, Keeps, Moves, Marks, Outcomes
<1>32. CASE EmbedSends(r)
  <2>1. PICK s \in Outcomes, pc \in {"sent"} :
           Reply(r, s, pc) /\ UNCHANGED <<rows, mport>> /\ cache' \in Forms
    BY <1>a, <1>b, <1>32 DEF EmbedSends
  <2>2. Moves(r, pc, 1, IF rq[r].lines = 0 THEN s ELSE rq[r].first)
    BY <1>a, <1>b, <2>1, Replies DEF Logs, Spots, Marks
  <2> QED
    BY <1>a, <1>32, <2>1, <2>2 DEF EmbedSends, Placed, Single, Keeps, Moves
<1>33. CASE EmbedLogs(r)
  <2>1. Moves(r, "done", 0, rq[r].first)
    BY <1>a, <1>b, <1>33, Goes DEF EmbedLogs, Logs, Spots, Request
  <2> QED
    BY <1>a, <1>33, <2>1, LogIs DEF EmbedLogs, Placed, Single, Keeps, Moves, Marks, Outcomes
<1> QED
  BY <1>1, <1>2, <1>3, <1>4, <1>5, <1>6, <1>7, <1>8, <1>9, <1>10, <1>11, <1>12, <1>13, <1>14, <1>15, <1>16, <1>17, <1>18, <1>19, <1>20, <1>21, <1>22, <1>23, <1>24, <1>25, <1>26, <1>27, <1>28, <1>29, <1>30, <1>31, <1>32, <1>33
  DEF Step
-----------------------------------------------------------------------------
(* Results.                                                                *)

(* The invariant holds in every state.                                     *)
THEOREM Invariance == Spec => []ForwardInv
<1>1. Init => ForwardInv
  <2> SUFFICES ASSUME Init PROVE ForwardInv
    OBVIOUS
  <2>1. Idle \in Request
    BY DEF Idle, Request, Spots, Marks, Forms, Ports
  <2>2. \A r \in Requests : rq[r] = Idle /\ rows[r] = <<>>
    BY DEF Init
  <2>3. Typed
    BY <2>1 DEF Init, Typed, Ports, Forms
  <2> QED
    BY <2>2, <2>3 DEF ForwardInv, Placed, Idle
<1>2. ForwardInv /\ [Next]_vars => ForwardInv'
  <2> SUFFICES ASSUME ForwardInv, [Next]_vars PROVE ForwardInv'
    OBVIOUS
  <2>1. ASSUME NEW r \in Requests, Arrive(r) \/ Step(r) PROVE ForwardInv'
    <3>1. Keeps(r)
      BY <2>1, ArriveKeeps, StepKeeps
    <3>2. ASSUME NEW q \in Requests, q # r PROVE Placed(q)'
      <4>1. rq'[q] = rq[q] /\ rows'[q] = rows[q] /\ Placed(q)
        BY <3>1, <3>2 DEF Keeps, Others, ForwardInv
      <4> QED
        BY <4>1 DEF Placed, Single
    <3> QED
      BY <3>1, <3>2 DEF Keeps, ForwardInv
  <2>2. CASE ToggleCache \/ Evict
    BY <2>2 DEF ToggleCache, Evict, ForwardInv, Typed, Placed, Single, Forms
  <2>3. CASE UNCHANGED vars
    BY <2>3 DEF vars, ForwardInv, Typed, Placed, Single
  <2> QED
    BY <2>1, <2>2, <2>3 DEF Next
<1> QED
  BY <1>1, <1>2, PTL DEF Spec

(* Retries do not show: however many attempts a request takes at its       *)
(* upstream, its client is sent one status line, unless it is a stream of  *)
(* a retry chain (_forward_request, forward_to_cloud).                     *)
THEOREM RetriesHiddenHolds == Spec => []RetriesHidden
<1>1. ForwardInv => RetriesHidden
  <2> SUFFICES ASSUME ForwardInv, NEW r \in Requests
               PROVE  /\ Single(r) => rq[r].lines <= 1
                      /\ rq[r].pc = "done" => rq[r].lines >= 1
    BY DEF RetriesHidden, Single, Done
  <2>1. Placed(r) /\ rq[r].pc \in Spots /\ rq[r].lines \in Nat
    BY DEF ForwardInv, Typed, Request
  <2> QED
    BY <2>1 DEF Placed, Spots
<1> QED
  BY <1>1, Invariance, PTL

(* The log misses no inference and counts none twice: the one 200 a client *)
(* got is the one row of its request, save for a replay from the cache and *)
(* for Ollama's (log_request in chat_handlers and messages_handlers).      *)
THEOREM ServedIsLoggedHolds == Spec => []ServedIsLogged
<1>1. ForwardInv => ServedIsLogged
  BY DEF ForwardInv, Placed, ServedIsLogged, Done
<1> QED
  BY <1>1, Invariance, PTL

-----------------------------------------------------------------------------
(* Supervisor: the switches that requests start on their way here.         *)

CONSTANTS Models, Callers, Restarters, None, Roles, Jobs, AlertAt, RestartAt, MaxRestarts,
          Budgets
VARIABLES role, server, pid, active, target, profile, stops, sleeping, th, switchLock,
          cooling, fails, total, backoff, restarting, hot, budget

S == INSTANCE Supervisor

\* Where a request that ensures its model can be.
EnsurePlaces == {"ensure", "lock", "call", "deploy", "ok", "failed", "already", "wait", "watch"}

\* Whether a thread that does such a job can be there.
Fitting(kind, pc) ==
    /\ kind = "ensure" => pc \in EnsurePlaces
    /\ pc \in {"ensure", "lock"} => kind = "ensure"

\* A thread: a record, and where its job may take it.
Thread(x) ==
    /\ x = [pc |-> x.pc, kind |-> x.kind, m |-> x.m, was |-> x.was, old |-> x.old]
    /\ Fitting(x.kind, x.pc)

\* A thread is between its write of switching_target and the end of its switch.
Inside(x) == x.kind = "ensure" /\ x.pc \in {"call", "deploy", "ok", "failed", "already"}

(* The inductive invariant: who is switching for a request has             *)
(* _switch_lock, so there is one, and nobody else has it; and the          *)
(* cool-down runs as long as an auto-switch is said to have ended in it.   *)
StormInv ==
    /\ th = [t \in S!Threads |-> th[t]]
    /\ \A t \in S!Threads : Thread(th[t]) /\ (Inside(th[t]) <=> switchLock = t)
    /\ hot => cooling

\* One thread moves to x ...
Takes(t, x) == th' = [th EXCEPT ![t] = x] /\ Thread(x)

\* ... and neither enters nor leaves a switch, nor touches what guards it.
Quiet(t) ==
    \E x : Takes(t, x) /\ (Inside(x) <=> Inside(th[t])) /\ UNCHANGED S!auto

(* A thread that rests has no task.                                        *)
LEMMA RestIs ==
  ASSUME NEW t \in S!Threads, S!Rest(t)
  PROVE  Takes(t, S!AtRest) /\ ~Inside(S!AtRest)
<1>1. Thread(S!AtRest) /\ ~Inside(S!AtRest)
  BY DEF Thread, Fitting, Inside, S!AtRest
<1> QED
  BY <1>1 DEF S!Rest, Takes

(* A thread that goes on keeps its task.                                   *)
LEMMA GoesOn ==
  ASSUME StormInv, NEW t \in S!Threads, NEW pc, NEW was, NEW old,
         th' = [th EXCEPT ![t].pc = pc, ![t].was = was, ![t].old = old],
         Fitting(th[t].kind, pc)
  PROVE  \E x : Takes(t, x) /\ x.pc = pc /\ x.kind = th[t].kind
<1>1. PICK x : x = th[t]
  OBVIOUS
<1>2. PICK q, k, m, w, o : x = [pc |-> q, kind |-> k, m |-> m, was |-> w, old |-> o]
  BY <1>1 DEF StormInv, Thread
<1>3. PICK y : y = [x EXCEPT !.pc = pc, !.was = was, !.old = old]
  OBVIOUS
<1>4. th' = [th EXCEPT ![t] = y]
  BY <1>1, <1>3 DEF StormInv
<1>5. y = [pc |-> pc, kind |-> k, m |-> m, was |-> was, old |-> old]
  BY ONLY <1>2, <1>3
<1>6. k = th[t].kind
  BY <1>1, <1>2
<1>7. Thread(y) /\ y.pc = pc /\ y.kind = th[t].kind
  BY <1>5, <1>6 DEF Thread
<1> QED
  BY <1>4, <1>7 DEF Takes

(* The same of Goto.                                                       *)
LEMMA GoneOn ==
  ASSUME StormInv, NEW t \in S!Threads, NEW pc, S!Goto(t, pc),
         Fitting(th[t].kind, pc)
  PROVE  \E x : Takes(t, x) /\ x.pc = pc /\ x.kind = th[t].kind
BY GoesOn DEF S!Goto

(* A restart after a wake keeps its task.                                  *)
LEMMA RestartIs ==
  ASSUME StormInv, NEW t \in S!Threads, S!Restart(t)
  PROVE  Quiet(t)
<1>1. UNCHANGED S!auto /\ th[t].pc = "restart" /\ ~Inside(th[t])
  BY DEF S!Restart, S!At, Inside
<1>2. CASE S!Rest(t)
  BY <1>1, <1>2, RestIs DEF Quiet
<1>3. CASE th' = [th EXCEPT ![t].pc = "deploy",
                            ![t].was = IF S!Mode = "idle" THEN "idle" ELSE "shared"]
  <2>1. PICK x : x = th[t]
    OBVIOUS
  <2>2. PICK q, k, m, w, o : x = [pc |-> q, kind |-> k, m |-> m, was |-> w, old |-> o]
    BY <2>1 DEF StormInv, Thread
  <2>3. PICK was : was = IF S!Mode = "idle" THEN "idle" ELSE "shared"
    OBVIOUS
  <2>4. PICK y : y = [x EXCEPT !.pc = "deploy", !.was = was]
    OBVIOUS
  <2>5. th' = [th EXCEPT ![t] = y]
    BY <1>3, <2>1, <2>3, <2>4 DEF StormInv
  <2>6. y = [pc |-> "deploy", kind |-> k, m |-> m, was |-> was, old |-> o]
    BY ONLY <2>2, <2>4
  <2>7. k = th[t].kind /\ k # "ensure"
    BY <1>1, <2>1, <2>2 DEF StormInv, Thread, Fitting, EnsurePlaces
  <2>8. Thread(y) /\ ~Inside(y)
    BY <2>6, <2>7 DEF Thread, Fitting, Inside
  <2> QED
    BY <1>1, <2>5, <2>8 DEF Quiet, Takes
<1> QED
  BY <1>2, <1>3 DEF S!Restart

(* ModelManager.switch moves no request into its switch.                   *)
LEMMA CallIs ==
  ASSUME StormInv, NEW t \in S!Threads, S!Call(t) \/ S!Launched(t)
  PROVE  Quiet(t)
<1>1. UNCHANGED S!auto /\ th[t].pc \in {"call", "deploy"}
  BY DEF S!Call, S!Launched, S!At
<1>2. \E pc \in {"deploy", "already", "ok", "failed"} : \E was, old :
         th' = [th EXCEPT ![t].pc = pc, ![t].was = was, ![t].old = old]
  BY DEF S!Call, S!Enter, S!Launched, S!Goto
<1>3. PICK pc \in {"deploy", "already", "ok", "failed"} : \E was, old :
         th' = [th EXCEPT ![t].pc = pc, ![t].was = was, ![t].old = old]
  BY <1>2
<1>4. PICK was, old : th' = [th EXCEPT ![t].pc = pc, ![t].was = was, ![t].old = old]
  BY <1>3
<1>5. PICK x : Takes(t, x) /\ x.pc = pc /\ x.kind = th[t].kind
  BY <1>1, <1>4, GoesOn DEF EnsurePlaces, Fitting
<1> QED
  BY <1>1, <1>5 DEF Quiet, Inside

\* Where a thread that does something else goes on.
Onward == {"call", "toidle", "clear", "record", "asleep", "restart", "reconcile", "decide",
           "already"}

(* What is done for the user, and by restart threads, is no auto-switch.   *)
LEMMA OthersAre ==
  ASSUME StormInv, NEW t \in S!Threads,
         \/ S!UserSwitch(t) \/ S!UserSwitched(t) \/ S!RecordAll(t) \/ S!UserIdle(t)
         \/ S!UserReset(t)
         \/ S!UserStop(t) \/ S!RecordStop(t) \/ S!Sleep(t) \/ S!FallAsleep(t) \/ S!Wake(t)
         \/ S!Woken(t)
         \/ S!RestarterStep(t)
  PROVE  Quiet(t)
<1>1. UNCHANGED S!auto
  BY DEF S!UserSwitch, S!UserSwitched, S!RecordAll, S!UserIdle, S!UserReset, S!UserStop,
         S!RecordStop, S!Sleep, S!FallAsleep, S!Wake, S!Woken, S!RestarterStep, S!RestartBegins,
         S!RestartReconciles, S!RestartDecides, S!RestartStops, S!Restarted
<1>2. th[t].kind = "ensure" => th[t].pc \in EnsurePlaces
  BY DEF StormInv, Thread, Fitting
<1>3. th[t].kind # "ensure"
  BY <1>2 DEF S!UserSwitch, S!UserSwitched, S!RecordAll, S!UserIdle, S!UserReset, S!UserStop,
              S!RecordStop, S!Sleep, S!FallAsleep, S!Wake, S!Woken, S!RestarterStep,
              S!RestartBegins, S!RestartReconciles, S!RestartDecides, S!RestartStops,
              S!Restarted, S!At, EnsurePlaces
<1>4. S!Rest(t) \/ \E pc \in Onward : S!Goto(t, pc)
  <2>1. CASE S!UserSwitch(t) \/ S!UserSwitched(t) \/ S!UserIdle(t) \/ S!UserReset(t)
             \/ S!RecordStop(t)
    BY <2>1 DEF S!UserSwitch, S!UserSwitched, S!UserIdle, S!UserReset, S!RecordStop, Onward
  <2>2. CASE S!RecordAll(t)
    <3>1. S!Goto(t, "toidle") \/ S!Goto(t, "clear")
      BY <2>2 DEF S!RecordAll
    <3> QED
      BY <3>1 DEF Onward
  <2>3. CASE S!UserStop(t) \/ S!Sleep(t)
    BY <2>3 DEF S!UserStop, S!Sleep, Onward
  <2>4. CASE S!FallAsleep(t) \/ S!Wake(t) \/ S!Woken(t)
    BY <2>4 DEF S!FallAsleep, S!Wake, S!Woken, Onward
  <2>5. CASE S!RestarterStep(t) /\ ~S!RestartDecides(t)
    BY <2>5 DEF S!RestarterStep, S!RestartBegins, S!RestartReconciles, S!RestartStops,
                S!Restarted, Onward
  <2>6. CASE S!RestartDecides(t)
    <3>1. S!Goto(t, "already") \/ S!Goto(t, "call")
      BY <2>6 DEF S!RestartDecides
    <3> QED
      BY <3>1 DEF Onward
  <2> QED
    BY <2>1, <2>2, <2>3, <2>4, <2>5, <2>6
<1>5. CASE S!Rest(t)
  BY <1>1, <1>3, <1>5, RestIs DEF Quiet, Inside
<1>6. CASE \E pc \in Onward : S!Goto(t, pc)
  <2>1. PICK pc \in Onward : S!Goto(t, pc)
    BY <1>6
  <2>2. PICK x : Takes(t, x) /\ x.kind = th[t].kind
    BY <1>3, <2>1, GoneOn DEF Fitting, Onward
  <2> QED
    BY <1>1, <1>3, <2>2 DEF Quiet, Inside
<1> QED
  BY <1>4, <1>5, <1>6

(* A request enters its switch only by taking a free lock outside the      *)
(* cool-down, and leaves it only by giving the lock back.                  *)
LEMMA EnsureIs ==
  ASSUME StormInv, NEW t \in S!Threads,
         S!Look(t) \/ S!TakeLock(t) \/ S!AfterSwitch(t) \/ S!WaitHealthy(t)
  PROVE  \/ Quiet(t)
         \/ \E x : /\ Takes(t, x) /\ Inside(x) /\ switchLock = None /\ ~cooling
                   /\ switchLock' = t /\ UNCHANGED <<cooling, hot>>
         \/ \E x : /\ Takes(t, x) /\ Inside(th[t]) /\ ~Inside(x)
                   /\ cooling' /\ switchLock' = None
<1>0. Fitting(th[t].kind, th[t].pc)
  BY DEF StormInv, Thread
<1>1. CASE S!Look(t)
  <2>0. th[t].pc = "ensure" /\ ~Inside(th[t]) /\ th[t].kind = "ensure"
    BY <1>0, <1>1 DEF S!Look, S!At, Inside, Fitting
  <2>1. CASE S!Rest(t)
    BY <1>1, <2>0, <2>1, RestIs DEF Quiet, S!Look
  <2>2. CASE ~S!Rest(t)
    <3>1. PICK pc \in {"watch", "lock"} : S!Goto(t, pc)
      BY <1>1, <2>2 DEF S!Look
    <3>2. PICK x : Takes(t, x) /\ x.pc = pc
      BY <2>0, <3>1, GoneOn DEF EnsurePlaces, Fitting
    <3> QED
      BY <1>1, <2>0, <3>2 DEF Quiet, Inside, S!Look
  <2> QED
    BY <2>1, <2>2
<1>2. CASE S!TakeLock(t)
  <2>0. ~Inside(th[t]) /\ th[t].kind = "ensure"
    BY <1>0, <1>2 DEF S!TakeLock, S!At, Inside, Fitting
  <2>1. CASE S!Rest(t) /\ UNCHANGED switchLock
    BY <1>2, <2>0, <2>1, RestIs DEF Quiet, S!TakeLock, S!auto
  <2>2. CASE ~(S!Rest(t) /\ UNCHANGED switchLock)
    <3>1. S!Goto(t, "call")
      BY <1>2, <2>2 DEF S!TakeLock
    <3>2. PICK x : Takes(t, x) /\ Inside(x)
      BY <2>0, <3>1, GoneOn DEF EnsurePlaces, Fitting, Inside
    <3> QED
      BY <1>2, <2>2, <3>2 DEF S!TakeLock
  <2> QED
    BY <2>1, <2>2
<1>3. CASE S!AfterSwitch(t)
  <2>1. Inside(th[t])
    <3>1. th[t].kind = "ensure" /\ th[t].pc \in {"ok", "failed", "already"}
      BY <1>3 DEF S!AfterSwitch
    <3> QED
      BY <3>1 DEF Inside
  <2>2. CASE S!Rest(t)
    BY <1>3, <2>1, <2>2, RestIs DEF S!AfterSwitch
  <2>3. CASE ~S!Rest(t)
    <3>1. S!Goto(t, "wait")
      BY <1>3, <2>3 DEF S!AfterSwitch
    <3>2. PICK x : Takes(t, x) /\ x.pc = "wait"
      BY <2>1, <3>1, GoneOn DEF EnsurePlaces, Fitting, Inside
    <3> QED
      BY <1>3, <2>1, <3>2 DEF S!AfterSwitch, Inside
  <2> QED
    BY <2>2, <2>3
<1>4. CASE S!WaitHealthy(t)
  <2>1. ~Inside(th[t])
    BY <1>4 DEF S!WaitHealthy, S!At, Inside
  <2> QED
    BY <1>4, <2>1, RestIs DEF Quiet, S!WaitHealthy
<1> QED
  BY <1>1, <1>2, <1>3, <1>4

(* A request that comes in, and a restart thread that starts, are not      *)
(* switching yet.                                                          *)
LEMMA NewIs ==
  ASSUME StormInv, NEW t \in S!Threads, NEW task, NEW m, task # "lock",
         S!At(t, "rest"),
         th' = [th EXCEPT ![t] = [S!AtRest EXCEPT !.pc = task, !.kind = task, !.m = m]],
         UNCHANGED S!auto
  PROVE  Quiet(t)
<1>1. PICK r : r = S!AtRest
  OBVIOUS
<1>2. PICK x : x = [r EXCEPT !.pc = task, !.kind = task, !.m = m]
  OBVIOUS
<1>3. r = [pc |-> "rest", kind |-> "none", m |-> None, was |-> "idle", old |-> {}]
  BY <1>1 DEF S!AtRest
<1>4. x = [pc |-> task, kind |-> task, m |-> m, was |-> "idle", old |-> {}]
  BY ONLY <1>2, <1>3
<1>5. Thread(x) /\ ~Inside(x)
  BY <1>4 DEF Thread, Fitting, Inside, EnsurePlaces
<1>6. th' = [th EXCEPT ![t] = x]
  BY <1>1, <1>2
<1>7. ~Inside(th[t])
  BY DEF Inside, S!At
<1> QED
  BY <1>5, <1>6, <1>7 DEF Quiet, Takes

\* What a step may do to who switches for a request.
Storm ==
    \/ \E t \in S!Threads : Quiet(t)
    \/ UNCHANGED <<th, switchLock>> /\ (hot' => cooling')
    \/ /\ th' = [t \in S!Threads |-> S!AtRest] /\ switchLock' = None /\ ~hot'
    \/ \E t \in S!Threads : \E x :
          \/ /\ Takes(t, x) /\ Inside(x) /\ switchLock = None /\ ~cooling
             /\ switchLock' = t /\ UNCHANGED <<cooling, hot>>
          \/ /\ Takes(t, x) /\ Inside(th[t]) /\ ~Inside(x)
             /\ cooling' /\ switchLock' = None

(* Every step does one of these.                                           *)
LEMMA StepIs ==
  ASSUME S!JobAssumption, StormInv, [S!Next]_S!vars
  PROVE  Storm
<1>1. ASSUME NEW t \in Callers, S!Arrive(t)
      PROVE  Storm
  <2>1. PICK j \in Jobs :
           th' = [th EXCEPT ![t] = [S!AtRest EXCEPT !.pc = j.kind, !.kind = j.kind, !.m = j.m]]
    BY <1>1 DEF S!Arrive
  <2>2. t \in S!Threads /\ UNCHANGED S!auto /\ S!At(t, "rest") /\ j.kind # "lock"
    BY <1>1 DEF S!Arrive, S!Threads, S!Kinds, S!JobAssumption
  <2>3. Quiet(t)
    BY <2>1, <2>2, NewIs
  <2> QED
    BY <2>2, <2>3 DEF Storm
<1>2. ASSUME NEW t \in S!Threads, S!ThreadStep(t)
      PROVE  Storm
  <2>1. CASE S!Call(t) \/ S!Launched(t)
    BY <2>1, CallIs DEF Storm
  <2>2. CASE S!Look(t) \/ S!TakeLock(t) \/ S!AfterSwitch(t) \/ S!WaitHealthy(t)
    BY <2>2, EnsureIs DEF Storm
  <2>3. CASE S!Restart(t)
    BY <2>3, RestartIs DEF Storm
  <2>4. CASE \/ S!UserSwitch(t) \/ S!UserSwitched(t) \/ S!RecordAll(t) \/ S!UserIdle(t)
             \/ S!UserReset(t)
             \/ S!UserStop(t) \/ S!RecordStop(t) \/ S!Sleep(t) \/ S!FallAsleep(t) \/ S!Wake(t)
             \/ S!Woken(t)
             \/ S!RestarterStep(t)
    BY <2>4, OthersAre DEF Storm
  <2> QED
    BY <1>2, <2>1, <2>2, <2>3, <2>4 DEF S!ThreadStep, S!CallerStep
<1>3. ASSUME NEW m \in Models, S!Check(m)
      PROVE  Storm
  <2>1. UNCHANGED S!auto
    BY <1>3 DEF S!Check, S!CheckHealthy, S!CheckFailed
  <2>2. CASE UNCHANGED th
    BY <2>1, <2>2 DEF Storm, StormInv, S!auto
  <2>3. CASE th' # th
    <3>1. PICK r \in Restarters :
             /\ S!At(r, "rest")
             /\ th' = [th EXCEPT ![r] = [S!AtRest EXCEPT !.pc = "restart", !.kind = "restart",
                                                         !.m = m]]
      BY <1>3, <2>3 DEF S!Check, S!CheckHealthy, S!CheckFailed
    <3>2. Quiet(r)
      BY <2>1, <3>1, NewIs DEF S!Threads
    <3> QED
      BY <3>2 DEF Storm, S!Threads
  <2> QED
    BY <2>2, <2>3
<1>4. CASE S!MonitorTick \/ S!CoolDown \/ UNCHANGED S!vars
           \/ \E m \in Models : S!BackoffEnds(m) \/ S!StopExpires(m) \/ S!ServerBreaks(m)
  BY <1>4 DEF S!MonitorTick, S!CoolDown, S!vars, S!BackoffEnds, S!StopExpires, S!ServerBreaks,
              Storm, StormInv, S!auto
<1>5. CASE S!Crash
  BY <1>5 DEF S!Crash, Storm
<1> QED
  BY <1>1, <1>2, <1>3, <1>4, <1>5 DEF S!Next

(* The gateway starts so.                                                  *)
LEMMA StormStart ==
  ASSUME S!NoneAssumption, S!Init
  PROVE  StormInv
<1>1. Thread(S!AtRest) /\ ~Inside(S!AtRest)
  BY DEF Thread, Fitting, Inside, S!AtRest
<1> QED
  BY <1>1 DEF S!Init, StormInv, S!NoneAssumption

(* One thread that moves leaves the others where they were.                *)
LEMMA TakesIs ==
  ASSUME StormInv, NEW t \in S!Threads, NEW x, Takes(t, x)
  PROVE  /\ th' = [u \in S!Threads |-> th'[u]]
         /\ Thread(x) /\ th'[t] = x /\ \A u \in S!Threads \ {t} : th'[u] = th[u]
BY DEF StormInv, Takes

(* A step keeps the invariant.                                             *)
LEMMA StormKept ==
  ASSUME S!NoneAssumption, S!JobAssumption, StormInv, [S!Next]_S!vars
  PROVE  StormInv'
<1>0. Storm
  BY StepIs
<1>1. CASE \E t \in S!Threads : Quiet(t)
  <2>1. PICK t \in S!Threads : Quiet(t)
    BY <1>1
  <2>2. PICK x : Takes(t, x) /\ (Inside(x) <=> Inside(th[t])) /\ UNCHANGED S!auto
    BY <2>1 DEF Quiet
  <2> QED
    BY <2>2, TakesIs DEF StormInv, S!auto
<1>2. CASE UNCHANGED <<th, switchLock>> /\ (hot' => cooling')
  BY <1>2 DEF StormInv
<1>3. CASE th' = [t \in S!Threads |-> S!AtRest] /\ switchLock' = None /\ ~hot'
  <2>1. Thread(S!AtRest) /\ ~Inside(S!AtRest)
    BY DEF Thread, Fitting, Inside, S!AtRest
  <2> QED
    BY <1>3, <2>1 DEF StormInv, S!NoneAssumption
<1>4. ASSUME NEW t \in S!Threads, NEW x, Takes(t, x), Inside(x), switchLock = None,
             switchLock' = t, UNCHANGED <<cooling, hot>>
      PROVE  StormInv'
  <2>1. \A u \in S!Threads : ~Inside(th[u])
    BY <1>4 DEF StormInv, S!NoneAssumption
  <2> QED
    BY <1>4, <2>1, TakesIs DEF StormInv
<1>5. ASSUME NEW t \in S!Threads, NEW x, Takes(t, x), Inside(th[t]), ~Inside(x), cooling',
             switchLock' = None
      PROVE  StormInv'
  <2>1. \A u \in S!Threads \ {t} : ~Inside(th[u])
    BY <1>5 DEF StormInv
  <2> QED
    BY <1>5, <2>1, TakesIs DEF StormInv, S!NoneAssumption
<1> QED
  BY <1>0, <1>1, <1>2, <1>3, <1>4, <1>5 DEF Storm

(* A request begins to switch only while no other does and none ended      *)
(* within the cool-down.                                                   *)
LEMMA StormStep ==
  ASSUME S!NoneAssumption, S!JobAssumption, StormInv, [S!Next]_S!vars
  PROVE  \A t \in Callers : S!AutoSwitching(t)' /\ ~S!AutoSwitching(t)
            => ~hot /\ \A u \in Callers : ~S!AutoSwitching(u)
<1>0. \A u \in Callers : u \in S!Threads /\ (S!AutoSwitching(u) <=> Inside(th[u]))
                         /\ (S!AutoSwitching(u)' <=> Inside(th'[u]))
  BY DEF S!AutoSwitching, Inside, S!Threads
<1> SUFFICES ASSUME NEW c \in Callers, Inside(th'[c]), ~Inside(th[c])
             PROVE  ~hot /\ \A u \in Callers : ~Inside(th[u])
  BY <1>0
<1>1. Storm /\ c \in S!Threads
  BY <1>0, StepIs
<1>2. ~Inside(S!AtRest)
  BY DEF Inside, S!AtRest
<1>3. \A t \in S!Threads : ~Quiet(t)
  <2> SUFFICES ASSUME NEW t \in S!Threads, NEW x, Takes(t, x), Inside(x) <=> Inside(th[t])
               PROVE  FALSE
    BY DEF Quiet
  <2> QED
    BY <1>1, TakesIs
<1>4. ASSUME NEW t \in S!Threads, NEW x, Takes(t, x), ~Inside(x)
      PROVE  FALSE
  BY <1>1, <1>4, TakesIs
<1>5. switchLock = None /\ ~cooling
  BY <1>1, <1>2, <1>3, <1>4 DEF Storm
<1> QED
  BY <1>0, <1>5 DEF StormInv, S!NoneAssumption

(* So it holds always.                                                     *)
LEMMA StormInvariant ==
  ASSUME S!NoneAssumption, S!JobAssumption
  PROVE  S!Spec => []StormInv
<1>1. StormInv /\ [S!Next]_S!vars => StormInv'
  BY StormKept
<1> QED
  BY StormStart, <1>1, PTL DEF S!Spec

(* _switch_lock is held by the request that switches and by nobody else:   *)
(* no path through refusals, failures and rollbacks keeps it, and none     *)
(* gives back the lock of another.                                         *)
THEOREM SwitchLockHolds ==
  ASSUME S!NoneAssumption, S!JobAssumption
  PROVE  S!Spec => [](\A t \in S!Threads : S!AutoSwitching(t) <=> switchLock = t)
<1>1. StormInv => \A t \in S!Threads : S!AutoSwitching(t) <=> switchLock = t
  BY DEF StormInv, S!AutoSwitching, Inside
<1> QED
  BY <1>1, StormInvariant, PTL

(* Requests for models that are not served make no switch storm: while one *)
(* switches, or within the cool-down after one has ended, none begins to.  *)
THEOREM NoStormHolds ==
  ASSUME S!NoneAssumption, S!JobAssumption
  PROVE  S!Spec => S!NoStorm
<1>1. StormInv /\ [S!Next]_S!vars
        => [\A t \in Callers : S!AutoSwitching(t)' /\ ~S!AutoSwitching(t)
              => ~hot /\ \A u \in Callers : ~S!AutoSwitching(u)]_S!vars
  BY StormStep
<1> QED
  BY <1>1, StormInvariant, PTL DEF S!Spec, S!NoStorm
=============================================================================
