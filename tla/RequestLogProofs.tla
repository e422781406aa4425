-------------------------- MODULE RequestLogProofs --------------------------
(***************************************************************************)
(* Theorems about RequestLog, for any workers, sizes and failures.         *)
(*                                                                         *)
(* A record that log() has appended is in one of three sequences (Apart),  *)
(* the buffer and the two batches, or was dropped or written (Accounted).  *)
(* Records on their way into the buffer are in none of them (Fresh).  What *)
(* close() promises follows from where it is (Closing): once it has taken  *)
(* the buffer, nothing logged before it began gets there again, unless the *)
(* flush thread is still at work or its own write fails.  Until close(),   *)
(* what was dropped, the batch and the buffer were logged in this order    *)
(* (Sequel), so a full buffer costs the oldest.                            *)
(***************************************************************************)
EXTENDS RequestLog, TLAPS

-----------------------------------------------------------------------------
(* Sequences without repetition.                                           *)

Once(s) == \A i, j \in DOMAIN s : i # j => s[i] # s[j]

(* The elements of two sequences, one after the other.                     *)
LEMMA ConcatIs ==
  ASSUME NEW S, NEW s \in Seq(S), NEW t \in Seq(S)
  PROVE  /\ s \o t \in Seq(S)
         /\ ToSet(s \o t) = ToSet(s) \cup ToSet(t)
         /\ Once(s) /\ Once(t) /\ ToSet(s) \cap ToSet(t) = {} => Once(s \o t)
<1> DEFINE st == s \o t
<1>1. /\ st \in Seq(S) /\ Len(s) \in Nat /\ Len(t) \in Nat
      /\ DOMAIN s = 1 .. Len(s) /\ DOMAIN t = 1 .. Len(t)
      /\ DOMAIN st = 1 .. (Len(s) + Len(t))
      /\ \A i \in 1 .. Len(s) : st[i] = s[i]
      /\ \A i \in (Len(s) + 1) .. (Len(s) + Len(t)) : st[i] = t[i - Len(s)]
  OBVIOUS
<1>2. ASSUME NEW i \in DOMAIN st PROVE st[i] \in ToSet(s) \cup ToSet(t)
  <2>1. CASE i \in DOMAIN s
    BY <1>1, <2>1 DEF ToSet
  <2>2. CASE i \notin DOMAIN s
    <3>1. i - Len(s) \in DOMAIN t /\ st[i] = t[i - Len(s)]
      BY <1>1, <2>2
    <3> QED
      BY <3>1 DEF ToSet
  <2> QED
    BY <2>1, <2>2
<1>3. ASSUME NEW i \in DOMAIN s PROVE i \in DOMAIN st /\ st[i] = s[i]
  BY <1>1
<1>4. ASSUME NEW i \in DOMAIN t PROVE i + Len(s) \in DOMAIN st /\ st[i + Len(s)] = t[i]
  BY <1>1
<1>5. ToSet(st) = ToSet(s) \cup ToSet(t)
  <2>1. ToSet(st) \subseteq ToSet(s) \cup ToSet(t)
    BY <1>2 DEF ToSet
  <2>2. ToSet(s) \subseteq ToSet(st)
    BY <1>3 DEF ToSet
  <2>3. ToSet(t) \subseteq ToSet(st)
    BY <1>4 DEF ToSet
  <2> QED
    BY <2>1, <2>2, <2>3
<1>6. ASSUME Once(s), Once(t), ToSet(s) \cap ToSet(t) = {} PROVE Once(st)
  <2> SUFFICES ASSUME NEW i \in DOMAIN st, NEW j \in DOMAIN st, i < j PROVE st[i] # st[j]
    BY <1>1 DEF Once
  <2>1. CASE j \in DOMAIN s
    BY <1>1, <1>6, <2>1 DEF Once
  <2>2. CASE i \notin DOMAIN s
    <3>1. /\ i - Len(s) \in DOMAIN t /\ st[i] = t[i - Len(s)]
          /\ j - Len(s) \in DOMAIN t /\ st[j] = t[j - Len(s)]
          /\ i - Len(s) # j - Len(s)
      BY <1>1, <2>2
    <3> QED
      BY <3>1, <1>6 DEF Once
  <2>3. CASE i \in DOMAIN s /\ j \notin DOMAIN s
    <3>1. st[i] = s[i] /\ j - Len(s) \in DOMAIN t /\ st[j] = t[j - Len(s)]
      BY <1>1, <2>3
    <3>2. s[i] \in ToSet(s) /\ t[j - Len(s)] \in ToSet(t)
      BY <3>1, <2>3 DEF ToSet
    <3> QED
      BY <3>1, <3>2, <1>6
  <2> QED
    BY <1>1, <2>1, <2>2, <2>3
<1> QED
  BY <1>1, <1>5, <1>6

(* The elements of a sequence with one more.                               *)
LEMMA AppendIs ==
  ASSUME NEW S, NEW s \in Seq(S), NEW x \in S
  PROVE  /\ Append(s, x) \in Seq(S)
         /\ ToSet(Append(s, x)) = ToSet(s) \cup {x}
         /\ Once(s) /\ x \notin ToSet(s) => Once(Append(s, x))
<1>1. <<x>> \in Seq(S) /\ Append(s, x) = s \o <<x>>
  OBVIOUS
<1>2. ToSet(<<x>>) = {x} /\ Once(<<x>>)
  <2>1. DOMAIN <<x>> = {1} /\ <<x>>[1] = x
    OBVIOUS
  <2> QED
    BY <2>1 DEF ToSet, Once
<1>3. /\ ToSet(s \o <<x>>) = ToSet(s) \cup ToSet(<<x>>) /\ s \o <<x>> \in Seq(S)
      /\ Once(s) /\ Once(<<x>>) /\ ToSet(s) \cap ToSet(<<x>>) = {} => Once(s \o <<x>>)
  BY <1>1, ConcatIs
<1>4. x \notin ToSet(s) => ToSet(s) \cap ToSet(<<x>>) = {}
  BY <1>2
<1> QED
  BY <1>1, <1>2, <1>3, <1>4, Zenon

(* The end of a sequence.                                                  *)
LEMMA SuffixIs ==
  ASSUME NEW S, NEW s \in Seq(S), NEW n \in Nat
  PROVE  LET e == SubSeq(s, n + 1, Len(s)) IN
         /\ e \in Seq(S)
         /\ ToSet(e) \subseteq ToSet(s)
         /\ Once(s) => Once(e)
<1> DEFINE e == SubSeq(s, n + 1, Len(s))
<1>1. /\ e \in Seq(S) /\ Len(s) \in Nat /\ Len(e) \in Nat
      /\ DOMAIN s = 1 .. Len(s) /\ DOMAIN e = 1 .. Len(e)
      /\ \A i \in DOMAIN e : n + i \in DOMAIN s /\ e[i] = s[n + i]
  OBVIOUS
<1> HIDE DEF e
<1>2. ToSet(e) \subseteq ToSet(s)
  BY <1>1 DEF ToSet
<1>3. ASSUME Once(s) PROVE Once(e)
  <2> SUFFICES ASSUME NEW i \in DOMAIN e, NEW j \in DOMAIN e, i # j PROVE e[i] # e[j]
    BY DEF Once
  <2>1. /\ n + i \in DOMAIN s /\ e[i] = s[n + i]
        /\ n + j \in DOMAIN s /\ e[j] = s[n + j]
        /\ n + i # n + j
    BY <1>1
  <2> QED
    BY <2>1, <1>3 DEF Once
<1> QED
  BY <1>1, <1>2, <1>3 DEF e

(* The empty sequence.                                                     *)
LEMMA EmptyIs ==
  ASSUME NEW S
  PROVE  <<>> \in Seq(S) /\ ToSet(<<>>) = {} /\ Once(<<>>)
<1>1. DOMAIN <<>> = {} /\ <<>> \in Seq(S)
  OBVIOUS
<1> QED
  BY <1>1 DEF ToSet, Once

-----------------------------------------------------------------------------
(* The invariant.                                                          *)

\* The batch of each flusher.
Thread == batch["thread"]
Closer == batch["closer"]

(* The types of what the proofs speak about: not the dashboard's window,   *)
(* nor the flags, which are only written.                                  *)
Typed ==
    /\ buffer \in Seq(Records) /\ batch \in [Flushers -> Seq(Records)]
    /\ pc \in [Flushers -> {"wait", "swap", "insert", "flushed", "exited", "open", "join"}]
    /\ item \in [Workers -> Records \cup {NoRecord}] /\ next \in Nat \ {0}
    /\ logged \in Seq(Records)
    /\ rows \cup dropped \cup early \subseteq Records

(* A record on its way into the buffer is one worker's, and is not logged. *)
Fresh ==
    /\ \A w \in Workers : item[w] < next /\ item[w] \notin ToSet(logged)
    /\ \A w, v \in Workers : w # v /\ item[w] = item[v] => item[w] = NoRecord
    /\ \A e \in ToSet(logged) : e < next

(* No record is held twice.                                                *)
Apart ==
    /\ Once(buffer) /\ Once(Thread) /\ Once(Closer)
    /\ ToSet(buffer) \cap ToSet(Thread) = {}
    /\ ToSet(buffer) \cap ToSet(Closer) = {}
    /\ ToSet(Thread) \cap ToSet(Closer) = {}

(* Every logged record is held, dropped or written.                        *)
Accounted ==
    ToSet(logged) = ToSet(buffer) \cup ToSet(Thread) \cup ToSet(Closer) \cup dropped
                    \cup (rows \cap ToSet(logged))

(* A flusher has a batch while it writes it.                               *)
Places == \A f \in Flushers : pc[f] # "insert" => batch[f] = <<>>

(* After the join the flush thread is gone, unless the join gave up; after *)
(* the last swap nothing early is in the buffer, unless a write failed.    *)
Closing ==
    /\ early \subseteq ToSet(logged)
    /\ pc["closer"] \in {"open", "join", "swap", "insert", "flushed"}
    /\ pc["closer"] \in {"swap", "insert", "flushed"} /\ ~timedOut => pc["thread"] = "exited"
    /\ \/ pc["closer"] = "insert"
       \/ pc["closer"] = "flushed" /\ ~failed
       => timedOut \/ early \cap ToSet(buffer) = {}

LogInv == Typed /\ Fresh /\ Apart /\ Accounted /\ Places /\ Closing

(* A number of records is there; the overflow is a number too.             *)
LEMMA OverflowType ==
  ASSUME Typed, NEW b \in Seq(Records)
  PROVE  Overflow(b) \in Nat
<1> DEFINE n == Len(buffer) + Len(b) - MaxBuffer
<1>1. n \in Int
  BY SizesAssumption DEF Typed
<1>2. \E x \in {0, n} : \A y \in {0, n} : x >= y
  <2>1. CASE n >= 0
    BY <1>1, <2>1
  <2>2. CASE n < 0
    BY <1>1, <2>2
  <2> QED
    BY <1>1, <2>1, <2>2
<1> HIDE DEF n
<1>3. Max({0, n}) \in {0, n} /\ Max({0, n}) >= 0
  BY <1>2 DEF Max
<1> QED
  BY <1>1, <1>3 DEF Overflow, n

(* What is put back is a sequence of records of the batch, each once.      *)
LEMMA KeptIs ==
  ASSUME Typed, NEW b \in Seq(Records)
  PROVE  /\ Kept(b) \in Seq(Records)
         /\ ToSet(Kept(b)) \subseteq ToSet(b)
         /\ Once(b) => Once(Kept(b))
  BY OverflowType, SuffixIs DEF Kept

(* The elements of a sequence of records are records.                      *)
LEMMA ElementIs ==
  ASSUME NEW S, NEW s \in Seq(S)
  PROVE  ToSet(s) \subseteq S
  BY DEF ToSet

(* A process that starts has an empty log.                                 *)
Blank ==
    /\ buffer = <<>> /\ batch = [f \in Flushers |-> <<>>]
    /\ pc = [thread |-> "wait", closer |-> "open"]
    /\ item = [w \in Workers |-> NoRecord]
    /\ next \in Nat \ {0} /\ rows \subseteq Records
    /\ logged = <<>> /\ dropped = {} /\ early = {}

(* An empty log has the invariant.                                         *)
LEMMA EmptyLog == Blank => LogInv
<1> SUFFICES ASSUME Blank PROVE LogInv
  OBVIOUS
<1> USE DEF Blank
<1>1. <<>> \in Seq(Records) /\ ToSet(<<>>) = {} /\ Once(<<>>)
  BY EmptyIs
<1>2. /\ pc \in [Flushers -> {"wait", "open"}]
      /\ pc["thread"] = "wait" /\ pc["closer"] = "open"
  BY DEF Flushers
<1>3. Thread = <<>> /\ Closer = <<>>
  BY DEF Thread, Closer, Flushers
<1>4. Typed
  BY <1>1, <1>2 DEF Typed, Flushers
<1>5. Fresh
  BY <1>1 DEF Fresh, NoRecord
<1>6. Apart
  BY <1>1, <1>3 DEF Apart
<1>7. Accounted
  BY <1>1, <1>3 DEF Accounted
<1>8. Places
  BY DEF Places
<1>9. Closing
  BY <1>1, <1>2 DEF Closing, Flushers
<1> QED
  BY <1>4, <1>5, <1>6, <1>7, <1>8, <1>9 DEF LogInv

(* The first process starts so.                                            *)
LEMMA InvInit == Init => LogInv
<1>1. Init => Blank
  BY DEF Init, Blank
<1> QED
  BY <1>1, EmptyLog

(* An empty log has the invariant after a step, too.                       *)
LEMMA EmptyLogNext == Blank' => LogInv'
  BY EmptyLog, PTL

(* So does every later one.                                                *)
LEMMA InvStart == ASSUME LogInv, Start PROVE LogInv'
<1>1. Blank'
  BY DEF Start, LogInv, Typed, Blank
<1> QED
  BY <1>1, EmptyLogNext

(* A record on its way.                                                    *)
LEMMA InvAccept == ASSUME LogInv, NEW w \in Workers, Accept(w) PROVE LogInv'
<1> USE SizesAssumption DEF LogInv, Accept, flags, Records
<1>1. Typed'
  BY DEF Typed
<1>2. Fresh'
  <2>1. next \notin ToSet(logged)
    BY DEF Fresh, Typed
  <2>2. \A v \in Workers : item[v] # next
    BY DEF Fresh, Typed
  <2>3. next \in Nat /\ next' = next + 1 /\ logged' = logged
    BY DEF Typed
  <2>4. \A v \in Workers : item'[v] = IF v = w THEN next ELSE item[v]
    BY DEF Typed
  <2>5. \A v \in Workers : item[v] \in Nat /\ item[v] < next /\ item[v] \notin ToSet(logged)
    BY DEF Typed, Fresh, NoRecord
  <2>6. \A v \in Workers : item'[v] < next' /\ item'[v] \notin ToSet(logged')
    BY <2>1, <2>3, <2>4, <2>5
  <2>7. \A u, v \in Workers : u # v /\ item'[u] = item'[v] => item'[u] = NoRecord
    BY <2>2, <2>4 DEF Fresh
  <2>8. \A e \in ToSet(logged') : e < next'
    <3> SUFFICES ASSUME NEW e \in ToSet(logged) PROVE e < next + 1
      BY <2>3
    <3>1. e \in Nat
      BY ElementIs DEF Typed
    <3> QED
      BY <2>3, <3>1 DEF Fresh
  <2> QED
    BY <2>6, <2>7, <2>8 DEF Fresh
<1>3. Apart' /\ Accounted' /\ Places' /\ Closing'
  BY DEF Apart, Accounted, Places, Closing, Thread, Closer
<1> QED
  BY <1>1, <1>2, <1>3

(* It joins the buffer: it was in none of the three sequences.             *)
LEMMA InvAppend == ASSUME LogInv, NEW w \in Workers, AppendRecord(w) PROVE LogInv'
<1> USE DEF LogInv, AppendRecord, flags
<1> DEFINE x == item[w]
<1>1. /\ x \in Records /\ x < next /\ x \notin ToSet(logged)
      /\ buffer \in Seq(Records) /\ logged \in Seq(Records)
  BY DEF Typed, Fresh
<1>2. x \notin ToSet(buffer) /\ x \notin ToSet(Thread) /\ x \notin ToSet(Closer)
  BY <1>1 DEF Accounted
<1>3. /\ buffer' \in Seq(Records) /\ ToSet(buffer') = ToSet(buffer) \cup {x}
      /\ Once(buffer) => Once(buffer')
  BY <1>1, <1>2, AppendIs
<1>4. logged' \in Seq(Records) /\ ToSet(logged') = ToSet(logged) \cup {x}
  BY <1>1, AppendIs
<1>5. Typed'
  BY <1>3, <1>4 DEF Typed
<1>6. Fresh'
  <2>1. ASSUME NEW v \in Workers PROVE item'[v] < next' /\ item'[v] \notin ToSet(logged')
    <3>1. CASE v = w
      <4>1. item'[v] = NoRecord
        BY <3>1 DEF Typed
      <4>2. ToSet(logged') \subseteq Records
        BY <1>4, ElementIs
      <4> QED
        BY <4>1, <4>2, SizesAssumption DEF NoRecord, Records, Typed
    <3>2. CASE v # w
      BY <1>1, <1>4, <3>2 DEF Fresh, Typed
    <3> QED
      BY <3>1, <3>2
  <2>2. \A u, v \in Workers : u # v /\ item'[u] = item'[v] => item'[u] = NoRecord
    BY DEF Fresh, Typed
  <2>3. \A e \in ToSet(logged') : e < next'
    BY <1>1, <1>4 DEF Fresh
  <2> QED
    BY <2>1, <2>2, <2>3 DEF Fresh
<1>7. Apart'
  BY <1>2, <1>3 DEF Apart, Thread, Closer
<1>8. Accounted'
  BY <1>3, <1>4 DEF Accounted, Thread, Closer
<1>9. Places'
  BY DEF Places
<1>10. Closing'
  BY <1>1, <1>3, <1>4 DEF Closing
<1> QED
  BY <1>5, <1>6, <1>7, <1>8, <1>9, <1>10

(* The flush thread wakes, looks again or ends.                            *)
LEMMA InvLoop == ASSUME LogInv, Wake \/ Guard PROVE LogInv'
<1> USE DEF LogInv, Wake, Guard, flags
<1>1. Typed'
  BY DEF Typed, Flushers
<1>2. Fresh' /\ Apart' /\ Accounted'
  BY DEF Fresh, Apart, Accounted, Thread, Closer
<1>3. Places'
  BY DEF Places, Typed, Flushers
<1>4. Closing'
  BY DEF Closing, Typed, Flushers
<1> QED
  BY <1>1, <1>2, <1>3, <1>4

(* close() begins and joins.                                               *)
LEMMA InvClose == ASSUME LogInv, CloseStart \/ Join PROVE LogInv'
<1> USE DEF LogInv, CloseStart, Join, flags
<1>1. Typed'
  BY ElementIs DEF Typed, Flushers
<1>2. Fresh' /\ Apart' /\ Accounted'
  BY DEF Fresh, Apart, Accounted, Thread, Closer
<1>3. Places'
  BY DEF Places, Typed, Flushers
<1>4. Closing'
  <2>1. CASE CloseStart
    BY <2>1 DEF Closing, Typed, Flushers
  <2>2. CASE Join
    BY <2>2 DEF Closing, Typed, Flushers
  <2> QED
    BY <2>1, <2>2
<1> QED
  BY <1>1, <1>2, <1>3, <1>4

(* The buffer becomes a flusher's batch.                                   *)
LEMMA InvSwap == ASSUME LogInv, NEW f \in Flushers, Swap(f) PROVE LogInv'
<1> USE DEF LogInv, Swap, flags
<1>1. <<>> \in Seq(Records) /\ ToSet(<<>>) = {} /\ Once(<<>>)
  BY EmptyIs
<1>2. batch[f] = <<>>
  BY DEF Places
<1>3. Typed'
  BY <1>1 DEF Typed
<1>4. Fresh'
  BY DEF Fresh
<1>5. /\ f = "thread" => Thread' = buffer /\ Closer' = Closer /\ Thread = <<>>
      /\ f = "closer" => Closer' = buffer /\ Thread' = Thread /\ Closer = <<>>
      /\ f \in {"thread", "closer"}
  BY <1>2 DEF Thread, Closer, Typed, Flushers
<1>6. Apart'
  BY <1>1, <1>5 DEF Apart
<1>7. Accounted'
  BY <1>1, <1>5 DEF Accounted
<1>8. Places'
  BY DEF Places, Typed
<1>9. Closing'
  BY <1>1 DEF Closing, Typed, Flushers
<1> QED
  BY <1>3, <1>4, <1>6, <1>7, <1>8, <1>9

(* Its rows are written.                                                   *)
LEMMA InvInsert == ASSUME LogInv, NEW f \in Flushers, Insert(f) PROVE LogInv'
<1> USE DEF LogInv, Insert, flags
<1>1. <<>> \in Seq(Records) /\ ToSet(<<>>) = {} /\ Once(<<>>)
  BY EmptyIs
<1>2. Typed'
  BY <1>1, ElementIs DEF Typed
<1>3. Fresh'
  BY DEF Fresh
<1>4. /\ f = "thread" => Thread' = <<>> /\ Closer' = Closer /\ Thread = batch[f]
      /\ f = "closer" => Closer' = <<>> /\ Thread' = Thread /\ Closer = batch[f]
      /\ f \in {"thread", "closer"}
  BY DEF Thread, Closer, Typed, Flushers
<1>5. Apart'
  BY <1>1, <1>4 DEF Apart
<1>6. Accounted'
  BY <1>1, <1>4 DEF Accounted
<1>7. Places'
  BY DEF Places, Typed
<1>8. Closing'
  BY DEF Closing, Typed, Flushers
<1> QED
  BY <1>2, <1>3, <1>5, <1>6, <1>7, <1>8

(* Or put back in front of the buffer, all but the oldest.                 *)
LEMMA InvInsertFails == ASSUME LogInv, NEW f \in Flushers, InsertFails(f) PROVE LogInv'
<1> USE DEF LogInv, InsertFails
<1> DEFINE b == batch[f]
           k == Kept(b)
<1>1. <<>> \in Seq(Records) /\ ToSet(<<>>) = {} /\ Once(<<>>)
  BY EmptyIs
<1>2. /\ f = "thread" => Thread' = <<>> /\ Closer' = Closer /\ Thread = b
      /\ f = "closer" => Closer' = <<>> /\ Thread' = Thread /\ Closer = b
      /\ f \in {"thread", "closer"} /\ b \in Seq(Records) /\ buffer \in Seq(Records)
  BY DEF Thread, Closer, Typed, Flushers
<1>3. k \in Seq(Records) /\ ToSet(k) \subseteq ToSet(b) /\ (Once(b) => Once(k))
  BY <1>2, KeptIs
<1>4. ToSet(k) \cap ToSet(buffer) = {} /\ Once(k) /\ Once(buffer)
  BY <1>2, <1>3 DEF Apart
<1>5. buffer' \in Seq(Records) /\ ToSet(buffer') = ToSet(k) \cup ToSet(buffer) /\ Once(buffer')
  BY <1>2, <1>3, <1>4, ConcatIs
<1>6. dropped' = dropped \cup (ToSet(b) \ ToSet(k)) /\ ToSet(b) \subseteq Records
  BY <1>2, ElementIs
<1> HIDE DEF k, b
<1>7. Typed'
  BY <1>1, <1>5, <1>6 DEF Typed
<1>8. Fresh'
  BY DEF Fresh
<1>9. Apart'
  BY <1>1, <1>2, <1>3, <1>5 DEF Apart
<1>10. Accounted'
  BY <1>1, <1>2, <1>3, <1>5, <1>6 DEF Accounted
<1>11. Places'
  BY DEF Places, Typed
<1>12. Closing'
  BY DEF Closing, Typed, Flushers
<1> QED
  BY <1>7, <1>8, <1>9, <1>10, <1>11, <1>12

(* Every step preserves the invariant.                                     *)
LEMMA InvStep == LogInv /\ [Next]_vars => LogInv'
<1> SUFFICES ASSUME LogInv, [Next]_vars PROVE LogInv'
  OBVIOUS
<1>1. ASSUME NEW w \in Workers, Accept(w) \/ AppendRecord(w) PROVE LogInv'
  BY <1>1, InvAccept, InvAppend
<1>2. ASSUME NEW f \in Flushers, DoFlush(f) PROVE LogInv'
  BY <1>2, InvSwap, InvInsert, InvInsertFails DEF DoFlush
<1>3. CASE Wake \/ Guard
  BY <1>3, InvLoop
<1>4. CASE CloseStart \/ Join
  BY <1>4, InvClose
<1>5. CASE Start
  BY <1>5, InvStart
<1>6. CASE Exit \/ Crash \/ UNCHANGED vars
  BY <1>6 DEF Exit, Crash, vars, process, flags, LogInv, Typed, Fresh, Apart, Accounted, Places,
              Closing, Thread, Closer
<1> QED
  BY <1>1, <1>2, <1>3, <1>4, <1>5, <1>6 DEF Next, FlushLoop, Close, Flushers

(* The invariant holds in every state.                                     *)
THEOREM Invariance == Spec => []LogInv
  BY InvInit, InvStep, PTL DEF Spec

(* No record that log() appended vanishes, and none is held twice.         *)
THEOREM NothingVanishesHolds == Spec => []NothingVanishes
<1>1. LogInv => NothingVanishes
  <2> SUFFICES ASSUME LogInv PROVE NothingVanishes
    OBVIOUS
  <2>1. buffer \in Seq(Records) /\ Thread \in Seq(Records) /\ Closer \in Seq(Records)
    BY DEF LogInv, Typed, Thread, Closer, Flushers
  <2> DEFINE bt == buffer \o Thread
  <2>2. /\ bt \in Seq(Records) /\ ToSet(bt) = ToSet(buffer) \cup ToSet(Thread)
        /\ Once(bt) /\ ToSet(bt) \cap ToSet(Closer) = {}
    BY <2>1, ConcatIs DEF LogInv, Apart
  <2> HIDE DEF bt
  <2>3. ToSet(bt \o Closer) = ToSet(bt) \cup ToSet(Closer) /\ Once(bt \o Closer)
    BY <2>1, <2>2, ConcatIs DEF LogInv, Apart
  <2>4. Held = bt \o Closer
    BY DEF Held, bt, Thread, Closer
  <2>5. ToSet(logged) = ToSet(Held) \cup dropped \cup (rows \cap ToSet(logged))
    BY <2>2, <2>3, <2>4 DEF LogInv, Accounted
  <2> QED
    BY <2>3, <2>4, <2>5 DEF NothingVanishes, Once
<1> QED
  BY <1>1, Invariance, PTL

(* What was logged before close() is in the database when it returns.      *)
THEOREM CloseKeepsHolds == Spec => []CloseKeeps
<1>1. LogInv => CloseKeeps
  <2> SUFFICES ASSUME LogInv, pc["closer"] = "flushed", ~timedOut, ~failed
               PROVE  early \subseteq rows \cup dropped
    BY DEF CloseKeeps
  <2>1. Thread = <<>> /\ Closer = <<>>
    BY DEF LogInv, Closing, Places, Thread, Closer, Flushers
  <2>2. ToSet(Thread) = {} /\ ToSet(Closer) = {}
    BY <2>1, EmptyIs
  <2> QED
    BY <2>2 DEF LogInv, Closing, Accounted
<1> QED
  BY <1>1, Invariance, PTL

-----------------------------------------------------------------------------
(* What a full buffer costs.                                               *)

\* s has d before e.
Precedes(s, d, e) == \E i, j \in DOMAIN s : i < j /\ s[i] = d /\ s[j] = e

AllPrecede(s, A, B) == \A d \in A, e \in B : Precedes(s, d, e)

\* t has its elements in the order in which s has them.
Follows(t, s) == \A i, j \in DOMAIN t : i < j => Precedes(s, t[i], t[j])

\* Until close(): what was dropped, what is being written and what waits were
\* logged in this order, and so were the records of each.
Sequel ==
    pc["closer"] = "open" =>
        /\ AllPrecede(logged, dropped, ToSet(Thread))
        /\ AllPrecede(logged, dropped, ToSet(buffer))
        /\ AllPrecede(logged, ToSet(Thread), ToSet(buffer))
        /\ Follows(Thread, logged) /\ Follows(buffer, logged)

OrderInv == Once(logged) /\ Sequel

(* A record that is appended comes last, and the others stay as they are.  *)
LEMMA LastPrecedes ==
  ASSUME NEW S, NEW s \in Seq(S), NEW x \in S
  PROVE  /\ \A d, e : Precedes(s, d, e) => Precedes(Append(s, x), d, e)
         /\ \A d \in ToSet(s) : Precedes(Append(s, x), d, x)
<1> DEFINE sx == Append(s, x)
<1>1. /\ Len(s) \in Nat /\ DOMAIN s = 1 .. Len(s) /\ DOMAIN sx = 1 .. (Len(s) + 1)
      /\ sx[Len(s) + 1] = x /\ \A i \in DOMAIN s : sx[i] = s[i]
  OBVIOUS
<1> HIDE DEF sx
<1>2. \A i \in DOMAIN s : i \in DOMAIN sx /\ i < Len(s) + 1
  BY <1>1
<1>3. ASSUME NEW d, NEW e, Precedes(s, d, e) PROVE Precedes(sx, d, e)
  BY <1>1, <1>2, <1>3 DEF Precedes
<1>4. ASSUME NEW d \in ToSet(s) PROVE Precedes(sx, d, x)
  <2>1. PICK i \in DOMAIN s : s[i] = d
    BY DEF ToSet
  <2>2. i \in DOMAIN sx /\ Len(s) + 1 \in DOMAIN sx /\ i < Len(s) + 1
    BY <1>1, <2>1
  <2> QED
    BY <1>1, <2>1, <2>2 DEF Precedes
<1> QED
  BY <1>3, <1>4 DEF sx

(* One sequence after the other follows, if each does and the first comes  *)
(* before the second.                                                      *)
LEMMA ConcatFollows ==
  ASSUME NEW S, NEW s \in Seq(S), NEW t \in Seq(S), NEW u,
         Follows(s, u), Follows(t, u), AllPrecede(u, ToSet(s), ToSet(t))
  PROVE  Follows(s \o t, u)
<1> DEFINE st == s \o t
<1>1. /\ Len(s) \in Nat /\ Len(t) \in Nat
      /\ DOMAIN s = 1 .. Len(s) /\ DOMAIN t = 1 .. Len(t)
      /\ DOMAIN st = 1 .. (Len(s) + Len(t))
      /\ \A i \in 1 .. Len(s) : st[i] = s[i]
      /\ \A i \in (Len(s) + 1) .. (Len(s) + Len(t)) : st[i] = t[i - Len(s)]
  OBVIOUS
<1> HIDE DEF st
<1>2. SUFFICES ASSUME NEW i \in DOMAIN st, NEW j \in DOMAIN st, i < j
               PROVE  Precedes(u, st[i], st[j])
  BY DEF Follows, st
<1>3. CASE j \in DOMAIN s
  <2>1. i \in DOMAIN s /\ st[i] = s[i] /\ st[j] = s[j]
    BY <1>1, <1>2, <1>3
  <2> QED
    BY <1>2, <1>3, <2>1 DEF Follows
<1>4. CASE i \notin DOMAIN s
  <2>1. /\ i - Len(s) \in DOMAIN t /\ st[i] = t[i - Len(s)]
        /\ j - Len(s) \in DOMAIN t /\ st[j] = t[j - Len(s)]
        /\ i - Len(s) < j - Len(s)
    BY <1>1, <1>2, <1>4
  <2> QED
    BY <2>1 DEF Follows
<1>5. CASE i \in DOMAIN s /\ j \notin DOMAIN s
  <2>1. st[i] = s[i] /\ j - Len(s) \in DOMAIN t /\ st[j] = t[j - Len(s)]
    BY <1>1, <1>2, <1>5
  <2>2. st[i] \in ToSet(s) /\ st[j] \in ToSet(t)
    BY <1>5, <2>1 DEF ToSet
  <2> QED
    BY <2>2 DEF AllPrecede
<1> QED
  BY <1>3, <1>4, <1>5

(* The end of a sequence that follows does, and comes after the rest.      *)
LEMMA SuffixFollows ==
  ASSUME NEW S, NEW s \in Seq(S), NEW n \in Nat, NEW u, Follows(s, u),
         NEW e, e = SubSeq(s, n + 1, Len(s))
  PROVE  Follows(e, u) /\ AllPrecede(u, ToSet(s) \ ToSet(e), ToSet(e))
<1>1. /\ Len(s) \in Nat /\ Len(e) \in Nat
      /\ DOMAIN s = 1 .. Len(s) /\ DOMAIN e = 1 .. Len(e)
      /\ \A i \in DOMAIN e : n + i \in DOMAIN s /\ e[i] = s[n + i]
  OBVIOUS
<1>2. \A i \in 1 .. Len(s), j \in 1 .. Len(e) : ~(i > n) => i < n + j
  <2> SUFFICES \A l, m \in Nat : \A i \in 1 .. l, j \in 1 .. m : ~(i > n) => i < n + j
    BY <1>1
  <2> QED
    OBVIOUS
<1>3. \A i \in DOMAIN s : i > n => i - n \in DOMAIN e /\ e[i - n] = s[i]
  OBVIOUS
<1>4. Follows(e, u)
  <2> SUFFICES ASSUME NEW i \in DOMAIN e, NEW j \in DOMAIN e, i < j
               PROVE  Precedes(u, e[i], e[j])
    BY DEF Follows
  <2>1. n + i \in DOMAIN s /\ n + j \in DOMAIN s
    BY <1>1
  <2>2. i \in Nat /\ j \in Nat
    BY <1>1
  <2>3. n + i < n + j
    BY <2>2
  <2> QED
    BY <1>1, <2>1, <2>3 DEF Follows
<1>5. ASSUME NEW d \in ToSet(s) \ ToSet(e), NEW f \in ToSet(e) PROVE Precedes(u, d, f)
  <2>1. PICK i \in DOMAIN s : s[i] = d
    BY DEF ToSet
  <2>2. PICK j \in DOMAIN e : e[j] = f
    BY DEF ToSet
  <2>3. ~(i > n)
    <3>1. ASSUME i > n PROVE d \in ToSet(e)
      <4>1. i - n \in DOMAIN e /\ e[i - n] = d
        BY <1>3, <2>1, <3>1
      <4> QED
        BY <4>1 DEF ToSet
    <3> QED
      BY <3>1
  <2>4. n + j \in DOMAIN s /\ s[n + j] = f
    BY <1>1, <2>2
  <2>5. i < n + j
    BY <1>2, <1>1, <2>3
  <2> QED
    BY <2>1, <2>4, <2>5 DEF Follows
<1> QED
  BY <1>4, <1>5 DEF AllPrecede

(* What is put back of a failed batch comes after what is dropped of it.   *)
LEMMA KeptFollows ==
  ASSUME Typed, NEW b \in Seq(Records), NEW u, Follows(b, u)
  PROVE  Follows(Kept(b), u) /\ AllPrecede(u, ToSet(b) \ ToSet(Kept(b)), ToSet(Kept(b)))
  BY OverflowType, SuffixFollows DEF Kept

(* A process that starts has the order.                                    *)
LEMMA OrderBlank == Blank => OrderInv
<1> SUFFICES ASSUME Blank PROVE OrderInv
  OBVIOUS
<1>1. DOMAIN <<>> = {} /\ ToSet(<<>>) = {} /\ Once(<<>>)
  BY EmptyIs DEF Once
<1>2. Thread = <<>> /\ buffer = <<>> /\ logged = <<>> /\ dropped = {}
  BY DEF Blank, Thread, Flushers
<1> QED
  BY <1>1, <1>2 DEF OrderInv, Sequel, AllPrecede, Follows

(* And so does every later one.                                           *)
LEMMA OrderBlankNext == Blank' => OrderInv'
  BY OrderBlank, PTL

(* A record that is logged comes last.                                     *)
LEMMA OrderAppend ==
  ASSUME LogInv, OrderInv, NEW w \in Workers, AppendRecord(w)
  PROVE  OrderInv'
<1> DEFINE x == item[w]
<1>1. /\ x \in Records /\ x \notin ToSet(logged)
      /\ buffer \in Seq(Records) /\ logged \in Seq(Records) /\ batch \in [Flushers -> Seq(Records)]
  BY DEF LogInv, Typed, Fresh, AppendRecord
<1>2. logged' = Append(logged, x) /\ buffer' = Append(buffer, x)
  BY DEF AppendRecord
<1>3. UNCHANGED <<pc, batch, dropped>>
  BY DEF AppendRecord
<1>4. ToSet(Thread) \cup dropped \cup ToSet(buffer) \subseteq ToSet(logged)
  BY DEF LogInv, Accounted
<1>5. Once(logged') /\ ToSet(buffer') = ToSet(buffer) \cup {x}
  BY <1>1, <1>2, AppendIs DEF OrderInv
<1>6. /\ \A d, e : Precedes(logged, d, e) => Precedes(logged', d, e)
      /\ \A d \in ToSet(logged) : Precedes(logged', d, x)
  BY <1>1, <1>2, LastPrecedes
<1>7. Sequel'
  <2> SUFFICES ASSUME pc["closer"] = "open"
               PROVE  /\ AllPrecede(logged', dropped, ToSet(Thread))
                      /\ AllPrecede(logged', dropped, ToSet(buffer'))
                      /\ AllPrecede(logged', ToSet(Thread), ToSet(buffer'))
                      /\ Follows(Thread, logged') /\ Follows(buffer', logged')
    BY <1>3 DEF Sequel, Thread
  <2> HIDE DEF x
  <2>1. AllPrecede(logged', dropped, ToSet(Thread))
    BY <1>6 DEF OrderInv, Sequel, AllPrecede
  <2>2. AllPrecede(logged', dropped, ToSet(buffer'))
    BY <1>4, <1>5, <1>6 DEF OrderInv, Sequel, AllPrecede
  <2>3. AllPrecede(logged', ToSet(Thread), ToSet(buffer'))
    BY <1>4, <1>5, <1>6 DEF OrderInv, Sequel, AllPrecede
  <2>4. Follows(Thread, logged')
    BY <1>6 DEF OrderInv, Sequel, Follows
  <2>5. Follows(buffer', logged')
    <3>1. Follows(buffer, logged')
      BY <1>6 DEF OrderInv, Sequel, Follows
    <3>2. /\ <<x>> \in Seq(Records) /\ buffer' = buffer \o <<x>>
          /\ DOMAIN <<x>> = {1} /\ <<x>>[1] = x
      BY <1>1, <1>2
    <3>3. ToSet(<<x>>) = {x} /\ Follows(<<x>>, logged')
      BY <3>2 DEF ToSet, Follows
    <3>4. AllPrecede(logged', ToSet(buffer), ToSet(<<x>>))
      BY <1>4, <1>6, <3>3 DEF AllPrecede
    <3> QED
      BY <1>1, <3>1, <3>2, <3>3, <3>4, ConcatFollows
  <2> QED
    BY <2>1, <2>2, <2>3, <2>4, <2>5
<1> QED
  BY <1>5, <1>7 DEF OrderInv

(* The flush thread takes the buffer, or has written its batch.            *)
LEMMA OrderFlush ==
  ASSUME LogInv, OrderInv, NEW f \in Flushers, Swap(f) \/ Insert(f)
  PROVE  OrderInv'
<1>1. DOMAIN <<>> = {} /\ ToSet(<<>>) = {}
  BY EmptyIs
<1>2. f = "closer" => pc'["closer"] # "open"
  BY DEF LogInv, Typed, Swap, Insert
<1>3. f # "closer" => f = "thread" /\ pc'["closer"] = pc["closer"]
  BY DEF LogInv, Typed, Swap, Insert, Flushers
<1>4. UNCHANGED <<logged, dropped>>
  BY DEF Swap, Insert
<1>5. f = "thread" => /\ \/ Thread' = buffer /\ buffer' = <<>>
                         \/ Thread' = <<>> /\ buffer' = buffer
  BY DEF Swap, Insert, LogInv, Typed, Thread, Flushers
<1> QED
  BY <1>1, <1>2, <1>3, <1>4, <1>5 DEF OrderInv, Sequel, AllPrecede, Follows

(* A write that fails: the oldest of its batch are dropped, and the rest   *)
(* of it comes before the buffer.                                          *)
LEMMA OrderFails ==
  ASSUME LogInv, OrderInv, NEW f \in Flushers, InsertFails(f)
  PROVE  OrderInv'
<1>1. CASE f = "closer"
  <2>1. pc'["closer"] # "open" /\ UNCHANGED logged
    BY <1>1 DEF LogInv, Typed, InsertFails, Flushers
  <2> QED
    BY <2>1 DEF OrderInv, Sequel
<1>2. CASE f = "thread"
  <2> DEFINE k == Kept(Thread)
  <2>1. /\ buffer' = k \o buffer /\ dropped' = dropped \cup (ToSet(Thread) \ ToSet(k))
        /\ Thread' = <<>> /\ logged' = logged /\ pc'["closer"] = pc["closer"]
    BY <1>2 DEF InsertFails, LogInv, Typed, Thread, Flushers
  <2>2. Thread \in Seq(Records) /\ buffer \in Seq(Records)
    BY DEF LogInv, Typed, Thread, Flushers
  <2>3. k \in Seq(Records) /\ ToSet(k) \subseteq ToSet(Thread)
    BY <2>2, KeptIs DEF LogInv
  <2>4. Sequel'
    <3> SUFFICES ASSUME pc["closer"] = "open" PROVE Sequel'
      BY <2>1 DEF Sequel
    <3>1. Follows(k, logged) /\ AllPrecede(logged, ToSet(Thread) \ ToSet(k), ToSet(k))
      BY <2>2, KeptFollows DEF LogInv, OrderInv, Sequel
    <3> HIDE DEF k
    <3>2. ToSet(k \o buffer) = ToSet(k) \cup ToSet(buffer)
      BY <2>2, <2>3, ConcatIs
    <3>3. AllPrecede(logged, ToSet(k), ToSet(buffer))
      BY <2>3 DEF OrderInv, Sequel, AllPrecede
    <3>4. Follows(k \o buffer, logged)
      BY <2>2, <2>3, <3>1, <3>3, ConcatFollows DEF OrderInv, Sequel
    <3>5. AllPrecede(logged, dropped \cup (ToSet(Thread) \ ToSet(k)), ToSet(k \o buffer))
      BY <2>3, <3>1, <3>2 DEF OrderInv, Sequel, AllPrecede
    <3>6. DOMAIN <<>> = {} /\ ToSet(<<>>) = {}
      BY EmptyIs
    <3> QED
      BY <2>1, <3>4, <3>5, <3>6 DEF Sequel, AllPrecede, Follows
  <2> QED
    BY <2>1, <2>4 DEF OrderInv
<1> QED
  BY <1>1, <1>2 DEF Flushers

(* Every step keeps the order.                                             *)
LEMMA OrderStep == LogInv /\ OrderInv /\ [Next]_vars => OrderInv'
<1> SUFFICES ASSUME LogInv, OrderInv, [Next]_vars PROVE OrderInv'
  OBVIOUS
<1>1. ASSUME UNCHANGED <<logged, dropped, buffer, batch>>, pc'["closer"] \in {pc["closer"], "join", "swap"}
      PROVE  OrderInv'
  BY <1>1 DEF OrderInv, Sequel, Thread
<1>2. ASSUME NEW w \in Workers, Accept(w) PROVE OrderInv'
  BY <1>1, <1>2 DEF Accept
<1>3. CASE Wake \/ Guard
  BY <1>1, <1>3 DEF Wake, Guard, LogInv, Typed, Flushers
<1>4. CASE CloseStart \/ Join
  BY <1>1, <1>4 DEF CloseStart, Join, LogInv, Typed, Flushers
<1>5. CASE Start
  <2>1. Blank'
    BY <1>5 DEF Start, LogInv, Typed, Blank
  <2> QED
    BY <2>1, OrderBlankNext
<1>6. CASE Exit \/ Crash \/ UNCHANGED vars
  BY <1>1, <1>6 DEF Exit, Crash, vars, process
<1> QED
  BY <1>2, <1>3, <1>4, <1>5, <1>6, OrderAppend, OrderFlush, OrderFails
     DEF Next, FlushLoop, Close, DoFlush, Flushers

(* OldestDropped: when a failed batch is put back, what a full buffer      *)
(* gives up was logged before everything that waits, whichever worker      *)
(* logged it and however often writes fail, until close() flushes beside   *)
(* the flush thread.                                                       *)
THEOREM OldestDroppedHolds == Spec => []OldestDropped
<1>1. Init => OrderInv
  BY OrderBlank DEF Init, Blank
<1>2. LogInv /\ OrderInv => OldestDropped
  <2> SUFFICES ASSUME LogInv, OrderInv, pc["closer"] = "open",
                      NEW d \in dropped, NEW e \in ToSet(buffer)
               PROVE  Position(d) < Position(e)
    BY DEF OldestDropped
  <2>1. PICK i \in DOMAIN logged, j \in DOMAIN logged : i < j /\ logged[i] = d /\ logged[j] = e
    BY DEF OrderInv, Sequel, AllPrecede, Precedes
  <2>2. Position(d) = i
    <3>1. \A n \in DOMAIN logged : logged[n] = d => n = i
      BY <2>1 DEF OrderInv, Once
    <3> QED
      BY <2>1, <3>1 DEF Position
  <2>3. Position(e) = j
    <3>1. \A n \in DOMAIN logged : logged[n] = e => n = j
      BY <2>1 DEF OrderInv, Once
    <3> QED
      BY <2>1, <3>1 DEF Position
  <2> QED
    BY <2>1, <2>2, <2>3
<1> QED
  BY <1>1, <1>2, OrderStep, Invariance, PTL DEF Spec
=============================================================================
