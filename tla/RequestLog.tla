----------------------------- MODULE RequestLog -----------------------------
(***************************************************************************)
(* The request log: RequestLogger's buffer and flush thread (proxy/        *)
(* request_logger.py), the rows of request_log.db (db.py, telemetry.py)    *)
(* and the sliding window of the dashboard (metrics_aggregator.py).        *)
(*                                                                         *)
(* log() appends a record to a buffer under a lock.  The flush thread      *)
(* swaps the buffer out, writes it outside the lock and puts it back in    *)
(* front when the write fails; close() ends that thread and flushes once   *)
(* more in its own thread.  The aggregator replays the database when the   *)
(* process starts and is then fed every record that is logged.             *)
(*                                                                         *)
(* A record is the number it was given; a smaller number is older.  A      *)
(* write that fails keeps no row (a busy or a full database).  The queue   *)
(* before the aggregator is unbounded and its delay is not modelled, nor   *)
(* are the JSONL files and the deletion of rows older than 90 days.        *)
(***************************************************************************)
EXTENDS Integers, SequencesExt, FiniteSetsExt

CONSTANTS
    Workers,        \* request threads
    BatchSize,      \* _batch_size: a buffer this long is flushed at once
    MaxBuffer,      \* the 10000 of _do_flush
    WindowMax,      \* maxlen of the deque and limit of the replay
    Closes,         \* does the process call TelemetryHub.close()?
    MaxRecords,     \* bound: records ever logged
    MaxFaults,      \* bound: writes that fail
    MaxCrashes      \* bound: processes that die

ASSUME SizesAssumption ==
    /\ {BatchSize, MaxBuffer, WindowMax} \subseteq Nat \ {0}
    /\ {MaxRecords, MaxFaults, MaxCrashes} \subseteq Nat
    /\ Closes \in BOOLEAN

VARIABLES
    alive,          \* is there a process?
    enabled,        \* RequestLogger._enabled
    stop, event,    \* _stop_event, _flush_event
    buffer,         \* _buffer
    pc, batch,      \* where a flusher is, and the batch it swapped out
    timedOut,       \* did close() give up waiting for the flush thread?
    failed,         \* did close()'s own write fail?
    item,           \* the record a worker in log() has passed _enabled with
    next,           \* the next record's number
    samples,        \* the aggregator's deque
    rows,           \* committed rows of request_log
    logged,         \* history: records in the order log() appended them
    dropped,        \* history: records given up for the buffer's length
    early,          \* history: records logged before close() began
    faults, crashes \* faults so far

flags == <<enabled, stop, timedOut, failed>>
process == <<flags, event, buffer, pc, batch, item, samples, logged, dropped,
             early>>
bounds == <<faults, crashes>>
vars == <<alive, process, next, rows, bounds>>

Records == 1 .. MaxRecords
NoRecord == 0
Flushers == {"thread", "closer"}

\* query_request_log: newest first, at most n.
Newest(S, n) ==
    LET sorted == SetToSortSeq(S, LAMBDA x, y : x > y)
    IN SubSeq(sorted, 1, Min({n, Len(sorted)}))

\* _replay_from_db: what the aggregator starts with.
Replayed == Newest(rows, WindowMax)

Init ==
    /\ alive = TRUE
    /\ next = 1
    /\ rows = {}
    /\ faults = 0 /\ crashes = 0
    /\ enabled = TRUE /\ stop = FALSE /\ event = FALSE
    /\ buffer = <<>>
    /\ pc = [thread |-> "wait", closer |-> "open"]
    /\ batch = [f \in Flushers |-> <<>>]
    /\ timedOut = FALSE /\ failed = FALSE
    /\ item = [w \in Workers |-> NoRecord]
    /\ samples = <<>>
    /\ logged = <<>> /\ dropped = {} /\ early = {}

\* ------------------------------------------------------------------ log()

\* The test of _enabled; the record gets its number and its time.
Accept(w) ==
    /\ alive /\ item[w] = NoRecord /\ enabled
    /\ next <= MaxRecords
    /\ next' = next + 1
    /\ item' = [item EXCEPT ![w] = next]
    /\ UNCHANGED <<alive, flags, event, buffer, pc, batch, samples, rows,
                   logged, dropped, early, bounds>>

\* MetricsAggregator.record: a full deque loses its left end.
Sampled(e) ==
    LET longer == Append(samples, e)
    IN IF Len(longer) > WindowMax THEN Tail(longer) ELSE longer

AppendRecord(w) ==
    /\ alive /\ item[w] # NoRecord
    /\ buffer' = Append(buffer, item[w])
    /\ event' = (event \/ Len(buffer') >= BatchSize)
    /\ samples' = Sampled(item[w])
    /\ logged' = Append(logged, item[w])
    /\ item' = [item EXCEPT ![w] = NoRecord]
    /\ UNCHANGED <<alive, flags, pc, batch, next, rows, dropped, early, bounds>>

\* ------------------------------------------------------------ _flush_loop

\* Mutant: wait() without a timeout.
WakeOnEvent ==
    /\ alive /\ pc["thread"] = "wait" /\ event
    /\ event' = FALSE
    /\ pc' = [pc EXCEPT !["thread"] = "swap"]
    /\ UNCHANGED <<alive, flags, buffer, batch, item, next, samples, rows,
                   logged, dropped, early, bounds>>

\* wait() returns, on the event or after flush_interval; the event is cleared.
Wake ==
    /\ alive /\ pc["thread"] = "wait"
    /\ event' = FALSE
    /\ pc' = [pc EXCEPT !["thread"] = "swap"]
    /\ UNCHANGED <<alive, flags, buffer, batch, item, next, samples, rows,
                   logged, dropped, early, bounds>>

\* The lost-wakeup guard and the test of the loop.
Guard ==
    /\ alive /\ pc["thread"] = "flushed"
    /\ event' = (event \/ Len(buffer) >= BatchSize)
    /\ pc' = [pc EXCEPT !["thread"] = IF stop THEN "exited" ELSE "wait"]
    /\ UNCHANGED <<alive, flags, buffer, batch, item, next, samples, rows,
                   logged, dropped, early, bounds>>

\* -------------------------------------------------------------- _do_flush

Swap(f) ==
    /\ alive /\ pc[f] = "swap"
    /\ batch' = [batch EXCEPT ![f] = buffer]
    /\ buffer' = <<>>
    /\ pc' = [pc EXCEPT ![f] = IF buffer = <<>> THEN "flushed" ELSE "insert"]
    /\ UNCHANGED <<alive, flags, event, item, next, samples, rows, logged,
                   dropped, early, bounds>>

\* INSERT OR IGNORE of the batch and the commit, under IFFDB._write_lock.
Insert(f) ==
    /\ alive /\ pc[f] = "insert"
    /\ rows' = rows \cup ToSet(batch[f])
    /\ batch' = [batch EXCEPT ![f] = <<>>]
    /\ pc' = [pc EXCEPT ![f] = "flushed"]
    /\ UNCHANGED <<alive, flags, event, buffer, item, next, samples, logged,
                   dropped, early, bounds>>

Overflow(b) == Max({0, Len(buffer) + Len(b) - MaxBuffer})

\* Mutant: the newest records of the batch are discarded.
KeptOldest(b) == SubSeq(b, 1, Len(b) - Overflow(b))

\* What of a failed batch goes back in front of the buffer.
Kept(b) == SubSeq(b, Overflow(b) + 1, Len(b))

\* Mutant: the buffer is set to the failed batch.
InsertFailsOverwrites(f) ==
    /\ alive /\ pc[f] = "insert"
    /\ faults < MaxFaults
    /\ faults' = faults + 1
    /\ buffer' = Kept(batch[f])
    /\ dropped' = dropped \cup (ToSet(batch[f]) \ ToSet(Kept(batch[f])))
    /\ batch' = [batch EXCEPT ![f] = <<>>]
    /\ failed' = (failed \/ f = "closer")
    /\ pc' = [pc EXCEPT ![f] = "flushed"]
    /\ UNCHANGED <<alive, enabled, stop, timedOut, event, item, next, samples,
                   rows, logged, early, crashes>>

InsertFails(f) ==
    /\ alive /\ pc[f] = "insert"
    /\ faults < MaxFaults
    /\ faults' = faults + 1
    /\ buffer' = Kept(batch[f]) \o buffer
    /\ dropped' = dropped \cup (ToSet(batch[f]) \ ToSet(Kept(batch[f])))
    /\ batch' = [batch EXCEPT ![f] = <<>>]
    /\ failed' = (failed \/ f = "closer")
    /\ pc' = [pc EXCEPT ![f] = "flushed"]
    /\ UNCHANGED <<alive, enabled, stop, timedOut, event, item, next, samples,
                   rows, logged, early, crashes>>

\* ---------------------------------------------------------------- close()

CloseStart ==
    /\ alive /\ Closes /\ pc["closer"] = "open"
    /\ stop' = TRUE /\ event' = TRUE
    /\ early' = ToSet(logged)
    /\ pc' = [pc EXCEPT !["closer"] = "join"]
    /\ UNCHANGED <<alive, enabled, timedOut, failed, buffer, batch, item, next,
                   samples, rows, logged, dropped, bounds>>

\* Mutant: close() leaves the buffer to the flush thread.
JoinOnly ==
    /\ alive /\ pc["closer"] = "join"
    /\ pc["thread"] \in {"insert", "exited"}
    /\ timedOut' = (pc["thread"] # "exited")
    /\ enabled' = FALSE
    /\ pc' = [pc EXCEPT !["closer"] = "flushed"]
    /\ UNCHANGED <<alive, stop, failed, event, buffer, batch, item, next,
                   samples, rows, logged, dropped, early, bounds>>

\* join(timeout=10) and _enabled = False.  Only a write takes that long.
Join ==
    /\ alive /\ pc["closer"] = "join"
    /\ pc["thread"] \in {"insert", "exited"}
    /\ timedOut' = (pc["thread"] # "exited")
    /\ enabled' = FALSE
    /\ pc' = [pc EXCEPT !["closer"] = "swap"]
    /\ UNCHANGED <<alive, stop, failed, event, buffer, batch, item, next,
                   samples, rows, logged, dropped, early, bounds>>

\* ------------------------------------------------- the life of a process

\* The servers' `finally` blocks stop the threads they started and return;
\* the interpreter lets request threads finish and drops daemon threads.
Exit ==
    /\ alive
    /\ \A w \in Workers : item[w] = NoRecord
    /\ Closes => pc["closer"] = "flushed"
    /\ alive' = FALSE
    /\ UNCHANGED <<process, next, rows, bounds>>

Crash ==
    /\ alive /\ crashes < MaxCrashes
    /\ crashes' = crashes + 1
    /\ alive' = FALSE
    /\ UNCHANGED <<process, next, rows, faults>>

\* TelemetryHub(): open the database, replay it, start the threads.
Start ==
    /\ ~alive /\ next <= MaxRecords
    /\ alive' = TRUE
    /\ enabled' = TRUE /\ stop' = FALSE /\ event' = FALSE
    /\ buffer' = <<>>
    /\ pc' = [thread |-> "wait", closer |-> "open"]
    /\ batch' = [f \in Flushers |-> <<>>]
    /\ timedOut' = FALSE /\ failed' = FALSE
    /\ item' = [w \in Workers |-> NoRecord]
    /\ samples' = Replayed
    /\ logged' = <<>> /\ dropped' = {} /\ early' = {}
    /\ UNCHANGED <<next, rows, bounds>>

DoFlush(f) == Swap(f) \/ Insert(f) \/ InsertFails(f)
FlushLoop == Wake \/ DoFlush("thread") \/ Guard
Close == CloseStart \/ Join \/ DoFlush("closer")

Next ==
    \/ \E w \in Workers : Accept(w) \/ AppendRecord(w)
    \/ FlushLoop \/ Close
    \/ Exit \/ Crash \/ Start

Spec == Init /\ [][Next]_vars

\* The flush thread keeps running: wait() has a timeout and a write ends.
FairSpec == Spec /\ WF_vars(FlushLoop)

\* -------------------------------------------------------------- properties

TypeOK ==
    /\ {alive, enabled, stop, event, timedOut, failed} \subseteq BOOLEAN
    /\ buffer \in Seq(Records) /\ batch \in [Flushers -> Seq(Records)]
    /\ pc["thread"] \in {"wait", "swap", "insert", "flushed", "exited"}
    /\ pc["closer"] \in {"open", "join", "swap", "insert", "flushed"}
    /\ item \in [Workers -> Records \cup {NoRecord}]
    /\ {samples, logged} \subseteq Seq(Records)
    /\ rows \cup dropped \cup early \subseteq Records

Held == buffer \o batch["thread"] \o batch["closer"]
Position(e) == CHOOSE i \in DOMAIN logged : logged[i] = e

(***************************************************************************)
(* No record vanishes and none is held twice between the swap, the write   *)
(* and the re-insertion: what log() appended is in the database, was       *)
(* dropped for the buffer's length, or is held exactly once.               *)
(***************************************************************************)
NothingVanishes ==
    /\ \A i, j \in DOMAIN Held : i # j => Held[i] # Held[j]
    /\ ToSet(logged) = ToSet(Held) \cup dropped \cup (rows \cap ToSet(logged))

(***************************************************************************)
(* A full buffer costs the oldest records: until close(), a dropped record *)
(* was logged before every record the buffer still holds.                  *)
(***************************************************************************)
OldestDropped ==
    pc["closer"] = "open" =>
        \A d \in dropped, e \in ToSet(buffer) : Position(d) < Position(e)

(***************************************************************************)
(* "Final flush": when close() has joined the flush thread and its own     *)
(* write did not fail, every record logged before it began is in the       *)
(* database (or had been dropped).                                         *)
(***************************************************************************)
CloseKeeps ==
    pc["closer"] = "flushed" /\ ~timedOut /\ ~failed =>
        early \subseteq rows \cup dropped

(***************************************************************************)
(* A logged record reaches the database or is dropped unless the process   *)
(* ends or is closed first: a lone record does not wait for a full buffer, *)
(* nor does one that was put back after a failed write.                    *)
(***************************************************************************)
Persisted ==
    \A e \in Records :
        e \in ToSet(buffer) ~> e \in rows \cup dropped \/ ~alive \/ stop

(***************************************************************************)
(* Every request has a row in request_log: a process that ends by itself   *)
(* leaves no logged record behind in memory.                               *)
(***************************************************************************)
ExitKeeps == [][Exit => ToSet(Held) = {}]_vars

(***************************************************************************)
(* "Sliding window": a full window gives up its oldest sample.             *)
(***************************************************************************)
WindowSlides ==
    [][\A w \in Workers : AppendRecord(w) =>
          \A e \in ToSet(samples) \ ToSet(samples'), k \in ToSet(samples') : e < k]_vars
=============================================================================
