------------------------------ MODULE ReadProofs ------------------------------
(***************************************************************************)
(* The read side of a stream transport (StreamRead), for every pool size,  *)
(* water mark, event budget and coalescing limit that the assumption of    *)
(* the module allows and any number of bytes from the peer.                *)
(*                                                                         *)
(* ReadInv says where every byte, event and buffer is: the bytes given,    *)
(* kept, at hand and in the backlog are the stream in order, the end and   *)
(* the loss stand behind them, each buffer in use has its slot, and each   *)
(* queued event and each waiting reader has someone on the way to it.      *)
(***************************************************************************)
EXTENDS StreamRead, SequenceFacts

-----------------------------------------------------------------------------
(* Events in a queue.                                                      *)

ReadEvents ==
    {e \in [kind : {"data", "eof", "lost"}, byte : Nat] : e.kind = "data" => e.byte # 0}

\* Every end is behind the data, there is only data, there is none; the data are the
\* bytes after the first n; the numbers after n.
EndsLast(q) == \A i, j \in 1..Len(q) : i < j /\ q[j].kind = "data" => q[i].kind = "data"
AllData(q) == \A i \in 1..Len(q) : q[i].kind = "data"
NoData(q) == \A i \in 1..Len(q) : q[i].kind # "data"
NumberedFrom(q, n) == \A i \in 1..Len(q) : q[i].kind = "data" => q[i].byte = n + i
RunsFrom(s, n) == \A i \in 1..Len(s) : s[i] = n + i

OfKind(k) == {e \in ReadEvents : e.kind = k}

USE DEF rPool, rWaits, rFlags, rSocket, rEvents, rHistory, rDrain, rReader, PoolNotify,
    PoolRelease, NotifyReaders, RGoto, LoseInDrain, flush_raises, EndDrain, SetClosing,
    FlushData, flush_nothing, callback_returns, fail_write_closes, drain_data, flush_called,
    writer_schedules, drain_other, acquire_read_buffer, coalesce, AfterData, writer_reports,
    feed_owned_data, wait_async_register, wait_async_recheck, drain_swap, reader_schedule,
    close_transport, ScheduleRead, drain_start, EnqueueLost, eof_raises, eof_closes, drain_lost,
    ReadUnlessClosing, resume_reading, wait_async_woken, drain_feed, Enqueue, pause_reading,
    reader_stopped, DataJoined, eof_keeps, Push, reader_check, read_nothing, DataFed, DataHeld,
    FeedRaises,
    wait_timeout, read_fails, read_some, listening, consume, reclaim, waiting, listen,
    notify_all_send, Refuse, enqueue_read_event, write_fails, spun, peer_closes, TakeSlot,
    HasAvailable, NextReadState, REvent, Proceeds

LEMMA EventFields ==
    ASSUME NEW e \in ReadEvents
    PROVE  /\ e.kind \in {"data", "eof", "lost"} /\ e.byte \in Nat
           /\ e.kind = "data" => e.byte # 0
           /\ e = REvent(e.kind, e.byte)
  BY DEF ReadEvents

LEMMA KindIsCount ==
    ASSUME NEW q \in Seq(ReadEvents), NEW k
    PROVE  KindCount(q, k) = CountIn(q, OfKind(k))
<1>1. \A i \in 1..Len(q) : q[i] \in ReadEvents BY ElementOfSeq
<1>2. {i \in 1..Len(q) : q[i].kind = k} = Spots(q, OfKind(k)) BY <1>1 DEF Spots, OfKind
<1> QED BY <1>2 DEF KindCount, CountIn

LEMMA KindType ==
    ASSUME NEW q \in Seq(ReadEvents), NEW k
    PROVE  KindCount(q, k) \in Nat
  BY KindIsCount, CountType

LEMMA KindAppend ==
    ASSUME NEW q \in Seq(ReadEvents), NEW e \in ReadEvents, NEW k
    PROVE  KindCount(Append(q, e), k) = KindCount(q, k) + IF e.kind = k THEN 1 ELSE 0
<1>1. Append(q, e) \in Seq(ReadEvents) BY AppendProperties
<1>2. KindCount(Append(q, e), k) = CountIn(Append(q, e), OfKind(k)) BY <1>1, KindIsCount
<1>3. KindCount(q, k) = CountIn(q, OfKind(k)) BY KindIsCount
<1>4. e \in OfKind(k) <=> e.kind = k BY DEF OfKind
<1>5. CountIn(Append(q, e), OfKind(k))
          = CountIn(q, OfKind(k)) + IF e \in OfKind(k) THEN 1 ELSE 0
  BY CountAppend
<1> QED BY <1>2, <1>3, <1>4, <1>5

LEMMA KindTail ==
    ASSUME NEW q \in Seq(ReadEvents), q # <<>>, NEW k
    PROVE  KindCount(q, k) = KindCount(Tail(q), k) + IF Head(q).kind = k THEN 1 ELSE 0
<1>1. Tail(q) \in Seq(ReadEvents) /\ Head(q) \in ReadEvents BY HeadTailProperties
<1>2. KindCount(Tail(q), k) = CountIn(Tail(q), OfKind(k)) BY <1>1, KindIsCount
<1>3. KindCount(q, k) = CountIn(q, OfKind(k)) BY KindIsCount
<1>4. Head(q) \in OfKind(k) <=> Head(q).kind = k BY <1>1 DEF OfKind
<1>5. CountIn(q, OfKind(k))
          = CountIn(Tail(q), OfKind(k)) + IF Head(q) \in OfKind(k) THEN 1 ELSE 0
  BY CountTail
<1> QED BY <1>2, <1>3, <1>4, <1>5

LEMMA KindTailOther ==
    ASSUME NEW q \in Seq(ReadEvents), q # <<>>, NEW k, Head(q).kind # k
    PROVE  KindCount(Tail(q), k) = KindCount(q, k)
<1> DEFINE h == Head(q).kind
           m == KindCount(Tail(q), k)
           n == KindCount(q, k)
<1>1. n = m + IF h = k THEN 1 ELSE 0 BY KindTail
<1>2. m \in Nat BY HeadTailProperties, KindType
<1>3. h # k OBVIOUS
<1> HIDE DEF h, m, n
<1>4. n = m BY <1>1, <1>2, <1>3
<1> QED BY <1>4 DEF m, n

LEMMA KindTailSame ==
    ASSUME NEW q \in Seq(ReadEvents), q # <<>>, NEW k, Head(q).kind = k
    PROVE  KindCount(Tail(q), k) = KindCount(q, k) - 1
<1> DEFINE h == Head(q).kind
           m == KindCount(Tail(q), k)
           n == KindCount(q, k)
<1>1. n = m + IF h = k THEN 1 ELSE 0 BY KindTail
<1>2. m \in Nat BY HeadTailProperties, KindType
<1>3. h = k OBVIOUS
<1> HIDE DEF h, m, n
<1>4. m = n - 1 BY <1>1, <1>2, <1>3
<1> QED BY <1>4 DEF m, n

LEMMA KindConcat ==
    ASSUME NEW r \in Seq(ReadEvents), NEW q \in Seq(ReadEvents), NEW k
    PROVE  KindCount(r \o q, k) = KindCount(r, k) + KindCount(q, k)
<1>1. r \o q \in Seq(ReadEvents) BY ConcatProperties
<1>2. KindCount(r \o q, k) = CountIn(r \o q, OfKind(k)) BY <1>1, KindIsCount
<1>3. KindCount(r, k) = CountIn(r, OfKind(k)) /\ KindCount(q, k) = CountIn(q, OfKind(k))
  BY KindIsCount
<1> QED BY <1>2, <1>3, CountConcat

LEMMA KindNone ==
    ASSUME NEW q \in Seq(ReadEvents), NoData(q)
    PROVE  KindCount(q, "data") = 0
<1>1. \A i \in 1..Len(q) : q[i] \notin OfKind("data") BY DEF NoData, OfKind
<1> QED BY <1>1, KindIsCount, CountType

LEMMA KindAll ==
    ASSUME NEW q \in Seq(ReadEvents), AllData(q)
    PROVE  KindCount(q, "data") = Len(q)
<1>1. {i \in 1..Len(q) : q[i].kind = "data"} = 1..Len(q) BY DEF AllData
<1>2. Len(q) \in Nat BY LenProperties
<1> QED BY <1>1, <1>2, IntervalFinite DEF KindCount

\* When the ends come last the data are the first events.
LEMMA DataAtFront ==
    ASSUME NEW q \in Seq(ReadEvents), EndsLast(q), NEW i \in 1..KindCount(q, "data")
    PROVE  i \in 1..Len(q) /\ q[i].kind = "data"
<1> DEFINE D == {j \in 1..Len(q) : q[j].kind = "data"}
           c == Cardinality(D)
<1>1. Len(q) \in Nat BY LenProperties
<1>2. IsFiniteSet(1..Len(q)) /\ Cardinality(1..Len(q)) = Len(q) BY <1>1, IntervalFinite
<1>3. IsFiniteSet(D) /\ c \in Nat /\ c <= Len(q) BY <1>2, FS_Subset, FS_CardinalityType
<1>4. i \in Nat /\ 1 <= i /\ i <= c /\ i - 1 \in Nat BY <1>3 DEF KindCount
<1>5. i \in 1..Len(q) BY <1>1, <1>3, <1>4
<1>6. ASSUME q[i].kind # "data" PROVE FALSE
 <2>1. D \subseteq 1..(i - 1) BY <1>1, <1>4, <1>5, <1>6 DEF EndsLast
 <2>2. IsFiniteSet(1..(i - 1)) /\ Cardinality(1..(i - 1)) = i - 1 BY <1>4, IntervalFinite
 <2> HIDE DEF D
 <2>3. c <= i - 1 BY <2>1, <2>2, FS_Subset
 <2> QED BY <1>3, <1>4, <2>3
<1> QED BY <1>5, <1>6

\* An event is added.
LEMMA PushOrder ==
    ASSUME NEW q \in Seq(ReadEvents), NEW e \in ReadEvents, NEW n \in Nat
    PROVE  /\ EndsLast(q) /\ (e.kind = "data" => AllData(q)) => EndsLast(Append(q, e))
           /\ AllData(q) /\ e.kind = "data" => AllData(Append(q, e))
           /\ NoData(q) /\ e.kind # "data" => NoData(Append(q, e))
           /\ NumberedFrom(q, n) /\ (e.kind = "data" => e.byte = n + Len(q) + 1)
                  => NumberedFrom(Append(q, e), n)
<1>1. /\ Len(Append(q, e)) = Len(q) + 1 /\ Len(q) \in Nat
      /\ \A i \in 1..Len(q) : Append(q, e)[i] = q[i]
      /\ Append(q, e)[Len(q) + 1] = e
  BY AppendProperties, LenProperties
<1>2. \A i \in 1..(Len(q) + 1) : i \in 1..Len(q) \/ i = Len(q) + 1 BY <1>1
<1>3. EndsLast(q) /\ (e.kind = "data" => AllData(q)) => EndsLast(Append(q, e))
  BY <1>1, <1>2 DEF EndsLast, AllData
<1>4. AllData(q) /\ e.kind = "data" => AllData(Append(q, e)) BY <1>1, <1>2 DEF AllData
<1>5. NoData(q) /\ e.kind # "data" => NoData(Append(q, e)) BY <1>1, <1>2 DEF NoData
<1>6. NumberedFrom(q, n) /\ (e.kind = "data" => e.byte = n + Len(q) + 1)
          => NumberedFrom(Append(q, e), n)
 <2> SUFFICES ASSUME NumberedFrom(q, n), e.kind = "data" => e.byte = n + Len(q) + 1,
                     NEW i \in 1..Len(Append(q, e)), Append(q, e)[i].kind = "data"
              PROVE  Append(q, e)[i].byte = n + i
   BY DEF NumberedFrom
 <2>1. CASE i \in 1..Len(q) BY <1>1, <2>1 DEF NumberedFrom
 <2>2. CASE i = Len(q) + 1
  <3>1. n + Len(q) + 1 = n + (Len(q) + 1) BY <1>1
  <3> QED BY <1>1, <2>2, <3>1
 <2> QED BY <1>1, <1>2, <2>1, <2>2
<1> QED BY <1>3, <1>4, <1>5, <1>6

\* The first event is taken.
LEMMA TakeOrder ==
    ASSUME NEW q \in Seq(ReadEvents), q # <<>>, NEW n \in Nat
    PROVE  /\ EndsLast(q) => EndsLast(Tail(q))
           /\ AllData(q) => AllData(Tail(q)) /\ Head(q).kind = "data"
           /\ NoData(q) => NoData(Tail(q)) /\ Head(q).kind # "data"
           /\ EndsLast(q) /\ Head(q).kind # "data" => NoData(q)
           /\ NumberedFrom(q, n) /\ Head(q).kind = "data"
                  => Head(q).byte = n + 1 /\ NumberedFrom(Tail(q), n + 1)
<1>1. /\ Head(q) = q[1] /\ Len(q) \in Nat \ {0} /\ Len(Tail(q)) = Len(q) - 1
      /\ \A i \in 1..(Len(q) - 1) : Tail(q)[i] = q[i + 1]
  BY TailElems
<1>2. 1 \in 1..Len(q) /\ \A i \in 1..(Len(q) - 1) : i + 1 \in 1..Len(q) BY <1>1
<1>3. EndsLast(q) => EndsLast(Tail(q)) BY <1>1, <1>2 DEF EndsLast
<1>4. AllData(q) => AllData(Tail(q)) /\ Head(q).kind = "data" BY <1>1, <1>2 DEF AllData
<1>5. NoData(q) => NoData(Tail(q)) /\ Head(q).kind # "data" BY <1>1, <1>2 DEF NoData
<1>6. EndsLast(q) /\ Head(q).kind # "data" => NoData(q) BY <1>1, <1>2 DEF EndsLast, NoData
<1>7. NumberedFrom(q, n) /\ Head(q).kind = "data"
          => Head(q).byte = n + 1 /\ NumberedFrom(Tail(q), n + 1)
  BY <1>1, <1>2 DEF NumberedFrom
<1> QED BY <1>3, <1>4, <1>5, <1>6, <1>7

LEMMA AppendNotEmpty ==
    ASSUME NEW s \in Seq(Nat), NEW x \in Nat
    PROVE  Append(s, x) # <<>>
<1>1. Len(Append(s, x)) = Len(s) + 1 /\ Len(s) \in Nat BY AppendProperties, LenProperties
<1>2. Len(Append(s, x)) # 0 BY <1>1
<1> QED BY <1>2

LEMMA RunsAppend ==
    ASSUME NEW s \in Seq(Nat), NEW n \in Nat, RunsFrom(s, n), NEW x \in Nat, x = n + Len(s) + 1
    PROVE  RunsFrom(Append(s, x), n)
<1>1. /\ Len(Append(s, x)) = Len(s) + 1 /\ Len(s) \in Nat
      /\ \A i \in 1..Len(s) : Append(s, x)[i] = s[i]
      /\ Append(s, x)[Len(s) + 1] = x
  BY AppendProperties, LenProperties
<1>2. \A i \in 1..(Len(s) + 1) : i \in 1..Len(s) \/ i = Len(s) + 1 BY <1>1
<1>3. n + Len(s) + 1 = n + (Len(s) + 1) BY <1>1
<1>4. ASSUME NEW i \in 1..(Len(s) + 1) PROVE Append(s, x)[i] = n + i
  BY <1>1, <1>2, <1>3 DEF RunsFrom
<1> QED BY <1>1, <1>4, Zenon DEF RunsFrom

LEMMA RunsConcat ==
    ASSUME NEW s \in Seq(Nat), NEW t \in Seq(Nat), RunsFrom(s, 0), RunsFrom(t, Len(s))
    PROVE  RunsFrom(s \o t, 0)
<1>1. /\ Len(s \o t) = Len(s) + Len(t) /\ Len(s) \in Nat /\ Len(t) \in Nat
      /\ \A i \in 1..(Len(s) + Len(t)) : (s \o t)[i] = IF i <= Len(s) THEN s[i] ELSE t[i - Len(s)]
  BY ConcatProperties, LenProperties
<1>2. ASSUME NEW i \in 1..(Len(s) + Len(t)) PROVE (s \o t)[i] = 0 + i
 <2>1. CASE i <= Len(s) BY <1>1, <2>1 DEF RunsFrom
 <2>2. CASE ~(i <= Len(s))
  <3>1. i - Len(s) \in 1..Len(t) BY <1>1, <2>2
  <3>2. t[i - Len(s)] = Len(s) + (i - Len(s)) BY <3>1 DEF RunsFrom
  <3> QED BY <1>1, <2>2, <3>2
 <2> QED BY <2>1, <2>2
<1> QED BY <1>1, <1>2 DEF RunsFrom

\* Two queues in a row: one is added to, or taken from.
LEMMA PushBehind ==
    ASSUME NEW r \in Seq(ReadEvents), NEW q \in Seq(ReadEvents), NEW e \in ReadEvents
    PROVE  r \o Append(q, e) = Append(r \o q, e)
<1>1. Append(q, e) = q \o <<e>> /\ <<e>> \in Seq(ReadEvents) BY AppendIsConcat
<1>2. r \o q \in Seq(ReadEvents) BY ConcatProperties
<1>3. Append(r \o q, e) = (r \o q) \o <<e>> BY <1>2, AppendIsConcat
<1> QED BY <1>1, <1>3, ConcatAssociative

LEMMA TakeBefore ==
    ASSUME NEW r \in Seq(ReadEvents), r # <<>>, NEW q \in Seq(ReadEvents)
    PROVE  r \o q # <<>> /\ Head(r \o q) = Head(r) /\ Tail(r) \o q = Tail(r \o q)
<1>1. /\ Tail(r) \in Seq(ReadEvents) /\ Head(r) = r[1] /\ Len(r) \in Nat \ {0}
      /\ Len(Tail(r)) = Len(r) - 1
      /\ \A i \in 1..(Len(r) - 1) : Tail(r)[i] = r[i + 1]
  BY TailElems
<1>2. /\ r \o q \in Seq(ReadEvents) /\ Len(r \o q) = Len(r) + Len(q) /\ Len(q) \in Nat
      /\ \A i \in 1..(Len(r) + Len(q)) : (r \o q)[i] = IF i <= Len(r) THEN r[i] ELSE q[i - Len(r)]
  BY ConcatProperties, LenProperties
<1>3. r \o q # <<>> BY <1>1, <1>2
<1>4. /\ Tail(r \o q) \in Seq(ReadEvents) /\ Head(r \o q) = (r \o q)[1]
      /\ Len(Tail(r \o q)) = Len(r \o q) - 1
      /\ \A i \in 1..(Len(r \o q) - 1) : Tail(r \o q)[i] = (r \o q)[i + 1]
  BY <1>2, <1>3, TailElems
<1>5. Head(r \o q) = Head(r) BY <1>1, <1>2, <1>4
<1>6. /\ Tail(r) \o q \in Seq(ReadEvents) /\ Len(Tail(r) \o q) = Len(Tail(r)) + Len(q)
      /\ \A i \in 1..(Len(Tail(r)) + Len(q)) :
             (Tail(r) \o q)[i] = IF i <= Len(Tail(r)) THEN Tail(r)[i] ELSE q[i - Len(Tail(r))]
  BY <1>1, ConcatProperties
<1>7. Len(Tail(r) \o q) = Len(Tail(r \o q)) BY <1>1, <1>2, <1>4, <1>6
<1>8. ASSUME NEW i \in 1..Len(Tail(r) \o q) PROVE (Tail(r) \o q)[i] = Tail(r \o q)[i]
 <2>1. i \in 1..(Len(r) - 1 + Len(q)) /\ i + 1 \in 1..(Len(r) + Len(q)) BY <1>1, <1>2, <1>6
 <2>2. Tail(r \o q)[i] = (r \o q)[i + 1] BY <1>1, <1>2, <1>4, <2>1
 <2>3. CASE i <= Len(r) - 1 BY <1>1, <1>2, <1>6, <2>1, <2>2, <2>3
 <2>4. CASE ~(i <= Len(r) - 1)
  <3>1. i - (Len(r) - 1) = i + 1 - Len(r) BY <1>1, <2>1
  <3> QED BY <1>1, <1>2, <1>6, <2>1, <2>2, <2>4, <3>1
 <2> QED BY <2>3, <2>4
<1>9. Tail(r) \o q = Tail(r \o q) BY <1>4, <1>6, <1>7, <1>8, SeqEqual, Zenon
<1> QED BY <1>3, <1>5, <1>9

-----------------------------------------------------------------------------
(* The inductive invariant.                                                *)

ReadFlags ==
    /\ rstop \in BOOLEAN /\ rsched \in BOOLEAN /\ rpaused \in BOOLEAN /\ rbackp \in BOOLEAN
    /\ rreading \in BOOLEAN /\ rclosing \in BOOLEAN /\ rlost \in BOOLEAN
    /\ rdetached \in BOOLEAN /\ pclosed \in BOOLEAN /\ dnotify \in BOOLEAN
    /\ dpooled \in BOOLEAN /\ nslot \in BOOLEAN /\ peer_ended \in BOOLEAN
ReadPoints ==
    /\ rkind \in {"task", "thread"} /\ rproto \in {"slow", "native"}
    /\ rpc \in {"acquire", "register", "recheck", "parked", "poolwait", "check", "listen",
                "listening", "waiting", "read", "spin", "spun", "enqueue", "schedule", "done"}
    /\ ract \in {"check", "spin", "spun"} /\ rafter \in {"acquire", "done"}
    /\ rlisten \in {"none", "registered", "taken", "fired"} /\ rparked \in {"no", "yes", "woken"}
    /\ rstate \in {"open", "eof", "lost"}
    /\ dpc \in {"idle", "swap", "event", "flush", "feed", "called", "eof", "lost",
                "raised"}
    /\ dafter \in {"idle", "swap", "event", "feed", "eof", "lost"}
    /\ wpc \in {"open", "report", "fail", "schedule", "fail_schedule", "fail_close", "done"}
ReadCounts ==
    /\ rcmds \in Nat /\ pfree \in Nat /\ palloc \in Nat /\ dcount \in Nat /\ nunread \in Nat
    /\ peer \in Nat /\ taken \in Nat /\ eofs \in Nat /\ losts \in Nat
ReadQueues ==
    /\ rev \in ReadEvents \union {NoREvent}
    /\ rqueue \in Seq(ReadEvents) /\ rdrained \in Seq(ReadEvents)
    /\ dcoal \in Seq(Nat) /\ given \in Seq(Nat) /\ dcur \in Nat
ReadTypes == ReadFlags /\ ReadPoints /\ ReadCounts /\ ReadQueues

\* The reader: a thread does not wait as a task does, an event is at hand while one is
\* enqueued, and an end is the last one.
ReaderControl ==
    /\ rkind = "thread" =>
         rpc \notin {"register", "recheck", "parked", "listen", "listening", "waiting"}
    /\ rpc = "enqueue" => rev.kind # "none"
    /\ rev.kind \in {"eof", "lost"} => rafter = "done" /\ rpc \in {"enqueue", "schedule", "done"}
    /\ rpc \in {"listening", "waiting"} => rlisten # "none"

\* The loss closes the transport and is reported once.
LossControl ==
    /\ rdetached \/ rlost => rclosing
    /\ losts <= 1 /\ (~rlost => losts = 0)

\* The drain: what follows a callback, what is at hand, and that nothing is left between
\* drains.
InCallback == dpc \in {"flush", "called"}
DrainControl ==
    /\ ~InCallback => dafter = "idle"
    /\ dpc = "flush" => dafter # "event"
    /\ dcur # 0 <=> dpc = "feed" \/ dafter = "feed"
    /\ dcoal # <<>> => dpc \in {"event", "flush"}
    /\ rproto = "native" /\ ~rlost => dcoal = <<>> /\ dcur = 0
    /\ dcoal = <<>> => ~dpooled
    /\ nunread = 0 => ~nslot
DrainsLeft ==
    /\ ~rlost /\ (dpc \in {"idle", "swap"} \/ (InCallback /\ dafter \in {"idle", "swap"}))
           => rdrained = <<>>
    /\ InCallback /\ dafter = "idle" => rcmds > 0
    /\ rsched => rcmds > 0 \/ dpc # "idle"

\* The end of the stream is in one place, and the reader has ended with it.
EofHere == dpc = "eof" \/ dafter = "eof"
EofCount == KindCount(Backlog, "eof") + (IF EofHere THEN 1 ELSE 0) + eofs
EofOnce ==
    /\ EofCount <= IF rstate = "open" THEN 0 ELSE 1
    /\ rstate = "eof" \/ EofCount > 0 => rev.kind = "eof" /\ rpc # "enqueue"

\* The slots: every buffer in use has one, and until the end or the loss none is missing.
SlotsKept ==
    /\ pfree <= palloc /\ palloc <= PoolLimit /\ ~rbackp
    /\ rbytes = KindCount(Backlog, "data")
    /\ SlotsInUse <= palloc - pfree
    /\ rpc # "done" /\ rev.kind \notin {"eof", "lost"} /\ ~rlost => palloc - pfree = SlotsInUse

\* While the protocol is given data: the data come before the end, are numbered in order
\* and, until a loss is queued, are all there.
Alive == IF rproto = "native" THEN ~rlost ELSE ~rclosing
Ending == dpc \in {"eof", "lost"} \/ dafter \in {"eof", "lost"} \/ eofs > 0
EndsOrdered ==
    Alive => /\ EndsLast(Backlog)
             /\ Ending => NoData(Backlog) /\ dcur = 0
             /\ eofs > 0 => dcoal = <<>>
             /\ rstate = "open" => AllData(Backlog) /\ ~Ending
BytesOrdered ==
    /\ Alive => /\ RunsFrom(dcoal, Len(given)) /\ (dcur # 0 => dcur = Kept)
                /\ NumberedFrom(Backlog, Kept)
    /\ RunsFrom(given, 0)
BytesCounted ==
    Alive /\ ~rdetached /\ (rstate # "lost" \/ EofCount > 0) =>
        /\ InReader = 1 => rev.byte = taken
        /\ Kept + KindCount(Backlog, "data") + InReader = taken

ReadInv ==
    /\ ReadTypes /\ ReaderControl /\ LossControl /\ DrainControl /\ DrainsLeft
    /\ EofOnce /\ SlotsKept /\ EndsOrdered /\ BytesOrdered /\ BytesCounted
    /\ NoEventStranded /\ NoReaderStranded

-----------------------------------------------------------------------------
(* What each part leaves alone.                                            *)

LEMMA ReaderFrame ==
    ASSUME AcquireStep \/ ReaderMove \/ read_fails
    PROVE  UNCHANGED <<rqueue, rdrained, rstate, rsched, rbytes, rcmds, rpaused, rbackp, rreading,
                       rclosing, rlost, rdetached, rstop, dpc, dafter, dcur, dcount, dnotify,
                       dcoal, dpooled, nunread, nslot, given, eofs, losts, wpc, pclosed,
                       peer_ended>>
<1>1. UNCHANGED <<pclosed, peer_ended>> BY DEF AcquireStep, ReaderMove
<1> QED BY <1>1 DEF AcquireStep, ReaderMove

LEMMA EnqueueFrame ==
    ASSUME ReadPoints, EnqueueStep
    PROVE  UNCHANGED <<rdrained, rpaused, rbackp, rreading, rclosing, rlost, rdetached, rstop,
                       dpc, dafter, dcur, dcount, dnotify, dcoal, dpooled, nunread, nslot, given,
                       eofs, losts, wpc, pclosed, palloc, rlisten, ract, rev, rafter, peer,
                       peer_ended, taken>>
<1>1. CASE enqueue_read_event BY <1>1 DEF EnqueueStep
<1>2. CASE reader_schedule BY <1>2 DEF EnqueueStep
<1> QED BY <1>1, <1>2 DEF EnqueueStep, backpressure_set, ReadPoints

LEMMA WriterFrame ==
    ASSUME WriterStep
    PROVE  UNCHANGED <<rpc, ract, rev, rafter, rpaused, rbackp, rreading, rlost, rdetached, rstop,
                       pfree, palloc, dpc, dafter, dcur, dcount, dnotify, dcoal, dpooled, nunread,
                       nslot, peer, peer_ended, taken, given, eofs, losts, rdrained>>
<1>1. UNCHANGED rdrained BY DEF WriterStep
<1> QED BY <1>1 DEF WriterStep

LEMMA DrainFrame ==
    ASSUME DrainStep
    PROVE  UNCHANGED <<rpc, ract, rev, rafter, peer, peer_ended, taken, rpaused, rdetached, rstop,
                       rstate, palloc>>
<1>0. UNCHANGED <<rpc, ract, rev, rafter, peer, peer_ended, taken>> BY DEF DrainStep
<1>1. ASSUME DrainMove PROVE UNCHANGED <<rpaused, rdetached, rstop, rstate, palloc>>
 <2>1. CASE drain_start \/ drain_swap \/ drain_other \/ callback_returns \/ eof_keeps BY <2>1
 <2>2. CASE drain_data BY <2>2
 <2>3. CASE drain_feed BY <2>3
 <2>4. CASE flush_called \/ flush_raises \/ flush_nothing BY <2>4
 <2>5. CASE eof_raises \/ drain_lost BY <2>5
 <2> QED BY <1>1, <2>1, <2>2, <2>3, <2>4, <2>5, Zenon DEF DrainMove
<1>2. ASSUME eof_closes PROVE UNCHANGED <<rpaused, rdetached, rstop, rstate, palloc>> BY <1>2
<1> QED BY <1>0, <1>1, <1>2 DEF DrainStep

LEMMA AppFrame ==
    ASSUME AppStep
    PROVE  UNCHANGED <<rpc, ract, rev, rafter, rqueue, rdrained, rstate, rsched, rbytes, rcmds,
                       dpc, dafter, dcur, dcount, dcoal, dpooled, peer, peer_ended, taken, given,
                       eofs, palloc, rbackp>>
<1>1. UNCHANGED <<palloc, rbackp>> BY DEF AppStep
<1> QED BY <1>1 DEF AppStep

LEMMA OtherFrame ==
    ASSUME notify_all_send \/ write_fails \/ peer_closes
    PROVE  UNCHANGED <<rpc, ract, rev, rafter, rparked, rqueue, rdrained, rstate, rsched, rbytes,
                       rcmds, rpaused, rbackp, rreading, rclosing, rlost, rdetached, rstop, pfree,
                       palloc, pclosed, dpc, dafter, dcur, dcount, dcoal, dpooled, nunread, nslot,
                       peer, taken, given, eofs, losts>>
  OBVIOUS

\* connection_lost closes the transport, and is called once.
LEMMA LosesOnce ==
    ASSUME ReadFlags, LossControl, losts \in Nat, ConnectionLostOnce
    PROVE  rlost' = TRUE /\ losts' \in Nat /\ losts' <= 1
<1>1. CASE rdetached \/ rlost BY <1>1 DEF ConnectionLostOnce, LossControl
<1>2. CASE ~(rdetached \/ rlost) BY <1>2 DEF ConnectionLostOnce, LossControl
<1> QED BY <1>1, <1>2

LEMMA LossCloses ==
    ASSUME ReadFlags, LossControl, ClosedByLoss
    PROVE  rclosing' = TRUE
<1>1. (rclosing \/ ~(rdetached \/ rlost)) = TRUE BY DEF LossControl
<1> QED BY <1>1 DEF ClosedByLoss

\* Backpressure is never on.
LEMMA DrainedQuietly ==
    ASSUME ReadInv, RecordDrained
    PROVE  rbytes' = rbytes - 1 /\ UNCHANGED <<rbackp, rreading, rlisten, dnotify>>
  BY DEF RecordDrained, ReadInv, SlotsKept

-----------------------------------------------------------------------------
(* Events are enqueued.                                                    *)

LEMMA EventAtHand ==
    ASSUME ReadInv, rpc = "enqueue"
    PROVE  rev \in ReadEvents
  BY DEF ReadInv, ReadTypes, ReadQueues, ReaderControl, NoREvent

LEMMA BacklogType ==
    ASSUME ReadInv
    PROVE  Backlog \in Seq(ReadEvents)
  BY ConcatProperties DEF ReadInv, ReadTypes, ReadQueues, Backlog

\* The bytes queued are below the high mark: each has a slot, and so has the one at hand.
LEMMA NoBackpressure ==
    ASSUME ReadInv, rpc = "enqueue", Push(rev)
    PROVE  ~BackpressureLoad
<1> SUFFICES ASSUME rev.kind = "data" PROVE ~(rbytes' >= ReadHigh) BY DEF BackpressureLoad
<1> DEFINE c == KindCount(Backlog, "data")
           p == IF dpooled THEN 1 ELSE 0
           s == IF nslot THEN 1 ELSE 0
<1>1. c \in Nat BY BacklogType, KindType
<1>2. Current \in Nat /\ p \in Nat /\ s \in Nat BY DEF Current
<1>3. SlotsInUse = 1 + c + Current + p + s BY DEF SlotsInUse, HasBuffer
<1>4. /\ SlotsInUse <= palloc - pfree /\ palloc <= PoolLimit /\ palloc \in Nat /\ pfree \in Nat
      /\ rbytes = c
  BY DEF ReadInv, SlotsKept, ReadTypes, ReadCounts
<1>5. rbytes' = rbytes + 1 OBVIOUS
<1>6. PoolLimit \in Nat /\ PoolLimit <= ReadLow /\ ReadLow < ReadHigh BY ReadAssumption
<1>7. ReadLow \in Int /\ ReadHigh \in Int BY ReadAssumption
<1> HIDE DEF c, p, s
<1>8. rbytes' <= PoolLimit BY <1>1, <1>2, <1>3, <1>4, <1>5, <1>6
<1> QED BY <1>1, <1>4, <1>5, <1>6, <1>7, <1>8

EventPushed ==
    /\ rpc = "enqueue" /\ ~rdetached /\ Admits(rev) /\ Push(rev) /\ rpc' = "schedule"
    /\ UNCHANGED <<pfree, rparked, rsched, rcmds>>
EventRefused ==
    /\ rpc = "enqueue" /\ (rdetached \/ ~Admits(rev)) /\ Refuse(rev) /\ rpc' = rafter
    /\ UNCHANGED <<rqueue, rstate, rbytes, rsched, rcmds>>

LEMMA EnqueueCases ==
    ASSUME ReadInv, EnqueueStep
    PROVE  EventPushed \/ EventRefused \/ reader_schedule
<1>1. CASE enqueue_read_event
 <2>1. CASE ~rdetached /\ Admits(rev) /\ Push(rev)
  <3>1. ~BackpressureLoad BY <1>1, <2>1, NoBackpressure
  <3> QED BY <1>1, <2>1, <3>1 DEF EventPushed
 <2>2. CASE ~(~rdetached /\ Admits(rev) /\ Push(rev)) BY <1>1, <2>2 DEF EventRefused
 <2> QED BY <2>1, <2>2
<1>2. rpc # "backpressure" BY DEF ReadInv, ReadTypes, ReadPoints
<1> QED BY <1>1, <1>2 DEF EnqueueStep, backpressure_set

-----------------------------------------------------------------------------
(* Control.                                                                *)

LEMMA ReadFlagsKept == ASSUME ReadInv, ReadNext PROVE ReadFlags'
<1>0. ReadFlags /\ ReadPoints BY DEF ReadInv, ReadTypes
<1>f. UNCHANGED <<rkind, rproto>> BY DEF ReadNext
<1>x. EnqueueStep => EventPushed \/ EventRefused \/ reader_schedule BY EnqueueCases
<1>d. RecordDrained => UNCHANGED <<rbackp, rreading, dnotify>> BY DrainedQuietly
<1>l. ConnectionLostOnce => rlost' = TRUE BY DEF ConnectionLostOnce
<1>c. ClosedByLoss => rclosing' \in BOOLEAN BY DEF ClosedByLoss
<1>1. CASE AcquireStep \/ ReaderMove \/ read_fails
 <2>0. UNCHANGED <<rsched, rpaused, rbackp, rreading, rclosing, rlost, rdetached,
                 rstop, dnotify, dpooled, nslot, pclosed, peer_ended>>
   BY <1>1, ReaderFrame
 <2> QED BY <1>0, <1>f, <2>0 DEF ReadFlags
<1>2. CASE EnqueueStep
 <2>0. UNCHANGED <<rpaused, rbackp, rreading, rclosing, rlost, rdetached, rstop,
                 dnotify, dpooled, nslot, pclosed, peer_ended>>
   BY <1>2, EnqueueFrame DEF ReadInv, ReadTypes
 <2>1. CASE EventPushed BY <1>0, <1>f, <2>0, <2>1 DEF EventPushed, ReadFlags
 <2>2. CASE EventRefused BY <1>0, <1>f, <2>0, <2>2 DEF EventRefused, ReadFlags
 <2>3. CASE reader_schedule BY <1>0, <1>f, <2>0, <2>3 DEF ReadFlags
 <2> QED BY <1>x, <1>2, <2>1, <2>2, <2>3 DEF EnqueueStep
<1>3. CASE WriterStep
 <2>0. UNCHANGED <<rpaused, rbackp, rreading, rlost, rdetached, rstop, dnotify,
                 dpooled, nslot, peer_ended>>
   BY <1>3, WriterFrame
 <2>1. CASE writer_reports BY <1>0, <1>f, <2>0, <2>1 DEF ReadFlags
 <2>2. CASE writer_schedules BY <1>0, <1>f, <2>0, <2>2 DEF ReadFlags
 <2>3. CASE fail_write_closes BY <1>0, <1>f, <2>0, <2>3 DEF ReadFlags
 <2> QED BY <1>3, <2>1, <2>2, <2>3, Zenon DEF WriterStep
<1>4. CASE DrainStep
 <2>0. UNCHANGED <<peer_ended, rpaused, rdetached, rstop>> BY <1>4, DrainFrame
 <2>1. CASE drain_start /\ UNCHANGED wpc BY <1>0, <1>f, <2>0, <2>1 DEF ReadFlags
 <2>2. CASE drain_swap /\ UNCHANGED wpc
  <3>1. rsched' = rsched \/ rsched' = FALSE BY <2>2
  <3>2. rsched' \in BOOLEAN BY <1>0, <3>1 DEF ReadFlags
  <3>3. UNCHANGED <<rbackp, rreading, rclosing, rlost, pclosed, dnotify, dpooled, nslot>> BY <2>2
  <3> QED BY <1>0, <2>0, <3>2, <3>3 DEF ReadFlags
 <2>3. CASE drain_data /\ UNCHANGED wpc
   <3> DEFINE b == Head(rdrained).byte
  <3>1. UNCHANGED <<rbackp, rreading, rsched, rclosing, rlost, dnotify>> BY <2>3, <1>d
  <3>2. CASE DataFed(b) BY <1>0, <2>0, <3>1, <3>2 DEF ReadFlags
  <3>3. CASE DataJoined(b) BY <1>0, <2>0, <3>1, <3>3 DEF ReadFlags
  <3>4. CASE DataHeld(b) BY <1>0, <2>0, <3>1, <3>4 DEF ReadFlags
  <3> QED BY <2>3, <3>2, <3>3, <3>4
 <2>4. CASE drain_feed /\ UNCHANGED wpc BY <1>0, <1>f, <2>0, <2>4 DEF ReadFlags
 <2>5. CASE drain_other /\ UNCHANGED wpc BY <1>0, <1>f, <2>0, <2>5 DEF ReadFlags
 <2>6. CASE flush_called /\ UNCHANGED wpc BY <1>0, <1>f, <2>0, <2>6 DEF ReadFlags
 <2>7. CASE flush_raises /\ UNCHANGED wpc
  <3>1. rlost' \in BOOLEAN /\ rclosing' \in BOOLEAN BY <1>0, <1>l, <1>c, <2>7 DEF ReadFlags
  <3>2. rsched' \in BOOLEAN /\ dnotify' \in BOOLEAN BY <1>0, <2>7 DEF ReadFlags
  <3>3. dpooled' \in BOOLEAN /\ nslot' \in BOOLEAN /\ pclosed' \in BOOLEAN
    BY <1>0, <2>7 DEF ReadFlags
  <3>4. UNCHANGED <<rbackp, rreading>> BY <2>7
  <3> QED BY <1>0, <2>0, <3>1, <3>2, <3>3, <3>4 DEF ReadFlags
 <2>8. CASE flush_nothing /\ UNCHANGED wpc
  <3>1. dpooled' \in BOOLEAN BY <2>8
  <3>2. UNCHANGED <<rsched, rbackp, rreading, rclosing, rlost, pclosed, dnotify, nslot>> BY <2>8
  <3> QED BY <1>0, <2>0, <3>1, <3>2 DEF ReadFlags
 <2>9. CASE callback_returns /\ UNCHANGED wpc BY <1>0, <1>f, <2>0, <2>9 DEF ReadFlags
 <2>10. CASE eof_keeps /\ UNCHANGED wpc BY <1>0, <1>f, <2>0, <2>10 DEF ReadFlags
 <2>11. CASE eof_raises /\ UNCHANGED wpc BY <1>0, <1>f, <2>0, <2>11, <1>l, <1>c DEF ReadFlags
 <2>12. CASE drain_lost /\ UNCHANGED wpc BY <1>0, <1>f, <2>0, <2>12, <1>l, <1>c DEF ReadFlags
 <2>13. CASE eof_closes BY <1>0, <1>f, <2>0, <2>13, <1>l DEF ReadFlags
 <2> QED BY <1>4, <2>1, <2>2, <2>3, <2>4, <2>5, <2>6, <2>7, <2>8, <2>9, <2>10, <2>11, <2>12,
     <2>13, Zenon DEF DrainStep, DrainMove
<1>5. CASE AppStep
 <2>0. UNCHANGED <<rsched, dpooled, peer_ended, rbackp>> BY <1>5, AppFrame
 <2>1. CASE pause_reading BY <1>0, <1>f, <2>0, <2>1 DEF ReadFlags
 <2>2. CASE resume_reading BY <1>0, <1>f, <2>0, <2>2 DEF ReadFlags
 <2>3. CASE reclaim BY <1>0, <1>f, <2>0, <2>3 DEF ReadFlags
 <2>4. CASE consume
  <3>1. nslot' \in BOOLEAN BY <2>4
  <3>2. UNCHANGED <<rpaused, rreading, rclosing, rlost, rdetached, rstop, pclosed, dnotify>>
    BY <2>4, Zenon
  <3> QED BY <1>0, <2>0, <3>1, <3>2 DEF ReadFlags
 <2>5. CASE close_transport BY <1>0, <1>f, <2>0, <2>5, <1>l DEF ReadFlags
 <2> QED BY <1>5, <2>1, <2>2, <2>3, <2>4, <2>5 DEF AppStep
<1>6. CASE notify_all_send \/ write_fails \/ peer_closes
 <2>0. UNCHANGED <<rsched, rpaused, rbackp, rreading, rclosing, rlost, rdetached,
                 rstop, pclosed, dpooled, nslot>>
   BY <1>6, OtherFrame
 <2>1. CASE notify_all_send
  <3>1. dnotify' \in BOOLEAN /\ peer_ended' \in BOOLEAN BY <1>0, <2>1 DEF ReadFlags
  <3> QED BY <1>0, <2>0, <3>1 DEF ReadFlags
 <2>2. CASE write_fails BY <1>0, <1>f, <2>0, <2>2 DEF ReadFlags
 <2>3. CASE peer_closes BY <1>0, <1>f, <2>0, <2>3 DEF ReadFlags
 <2> QED BY <1>6, <2>1, <2>2, <2>3
<1> QED BY <1>1, <1>2, <1>3, <1>4, <1>5, <1>6 DEF ReadNext, ReaderStep

LEMMA ReadPointsKept == ASSUME ReadInv, ReadNext PROVE ReadPoints'
<1>0. ReadPoints /\ ReadQueues /\ DrainControl BY DEF ReadInv, ReadTypes
<1>f. UNCHANGED <<rkind, rproto>> BY DEF ReadNext
<1>x. EnqueueStep => EventPushed \/ EventRefused \/ reader_schedule BY EnqueueCases
<1>d. RecordDrained => UNCHANGED rlisten BY DrainedQuietly
<1>e. rpc = "enqueue" => rev.kind \in {"data", "eof", "lost"} BY EventAtHand, EventFields
<1>h. rdrained # <<>> => Head(rdrained).kind \in {"data", "eof", "lost"}
  BY <1>0, HeadTailProperties, EventFields DEF ReadQueues
<1>1. CASE AcquireStep \/ ReaderMove \/ read_fails
 <2>0. UNCHANGED <<rstate, dpc, dafter, wpc>> BY <1>1, ReaderFrame
 <2>1. CASE acquire_read_buffer /\ UNCHANGED rSocket BY <1>0, <1>f, <2>0, <2>1 DEF ReadPoints
 <2>2. CASE wait_async_register /\ UNCHANGED rSocket BY <1>0, <1>f, <2>0, <2>2 DEF ReadPoints
 <2>3. CASE wait_async_recheck /\ UNCHANGED rSocket BY <1>0, <1>f, <2>0, <2>3 DEF ReadPoints
 <2>4. CASE wait_async_woken /\ UNCHANGED rSocket BY <1>0, <1>f, <2>0, <2>4 DEF ReadPoints
 <2>5. CASE wait_timeout /\ UNCHANGED rSocket BY <1>0, <1>f, <2>0, <2>5 DEF ReadPoints
 <2>6. CASE reader_check BY <1>0, <1>f, <2>0, <2>6 DEF ReadPoints
 <2>7. CASE listen BY <1>0, <1>f, <2>0, <2>7 DEF ReadPoints
 <2>8. CASE listening BY <1>0, <1>f, <2>0, <2>8 DEF ReadPoints
 <2>9. CASE waiting BY <1>0, <1>f, <2>0, <2>9 DEF ReadPoints
 <2>10. CASE read_some BY <1>0, <1>f, <2>0, <2>10 DEF ReadPoints
 <2>11. CASE read_nothing BY <1>0, <1>f, <2>0, <2>11 DEF ReadPoints
 <2>12. CASE spun BY <1>0, <1>f, <2>0, <2>12 DEF ReadPoints
 <2>13. CASE reader_stopped BY <1>0, <1>f, <2>0, <2>13 DEF ReadPoints
 <2>14. CASE read_fails BY <1>0, <1>f, <2>0, <2>14 DEF ReadPoints
 <2> QED BY <1>1, <2>1, <2>2, <2>3, <2>4, <2>5, <2>6, <2>7, <2>8, <2>9, <2>10, <2>11, <2>12,
     <2>13, <2>14 DEF AcquireStep, ReaderMove
<1>2. CASE EnqueueStep
 <2>0. UNCHANGED <<dpc, dafter, wpc, rlisten, ract, rafter>>
   BY <1>2, EnqueueFrame DEF ReadInv, ReadTypes
 <2>1. CASE EventPushed BY <1>0, <1>f, <2>0, <2>1, <1>e DEF EventPushed, ReadPoints
 <2>2. CASE EventRefused BY <1>0, <1>f, <2>0, <2>2 DEF EventRefused, ReadPoints
 <2>3. CASE reader_schedule BY <1>0, <1>f, <2>0, <2>3 DEF ReadPoints
 <2> QED BY <1>x, <1>2, <2>1, <2>2, <2>3 DEF EnqueueStep
<1>3. CASE WriterStep
 <2>0. UNCHANGED <<rpc, ract, rafter, dpc, dafter>> BY <1>3, WriterFrame, Zenon
 <2>1. CASE writer_reports BY <1>0, <1>f, <2>0, <2>1 DEF ReadPoints
 <2>2. CASE writer_schedules BY <1>0, <1>f, <2>0, <2>2 DEF ReadPoints
 <2>3. CASE fail_write_closes BY <1>0, <1>f, <2>0, <2>3 DEF ReadPoints
 <2> QED BY <1>3, <2>1, <2>2, <2>3 DEF WriterStep
<1>4. CASE DrainStep
 <2>0. UNCHANGED <<rpc, ract, rafter, rstate>> BY <1>4, DrainFrame
 <2>1. CASE drain_start /\ UNCHANGED wpc BY <1>0, <1>f, <2>0, <2>1 DEF ReadPoints
 <2>2. CASE drain_swap /\ UNCHANGED wpc BY <1>0, <1>f, <2>0, <2>2 DEF ReadPoints
 <2>3. CASE drain_data /\ UNCHANGED wpc BY <1>0, <1>f, <2>0, <2>3, <1>d DEF ReadPoints
 <2>4. CASE drain_feed /\ UNCHANGED wpc BY <1>0, <1>f, <2>0, <2>4 DEF ReadPoints
 <2>5. CASE drain_other /\ UNCHANGED wpc BY <1>0, <1>f, <2>0, <2>5, <1>h DEF NextIsData, ReadPoints
 <2>6. CASE flush_called /\ UNCHANGED wpc BY <1>0, <1>f, <2>0, <2>6 DEF ReadPoints
 <2>7. CASE flush_raises /\ UNCHANGED wpc BY <1>0, <1>f, <2>0, <2>7 DEF ReadPoints
 <2>8. CASE flush_nothing /\ UNCHANGED wpc
   BY <1>0, <1>f, <2>0, <2>8 DEF DrainControl, InCallback, ReadPoints
 <2>9. CASE callback_returns /\ UNCHANGED wpc BY <1>0, <1>f, <2>0, <2>9 DEF ReadPoints
 <2>10. CASE eof_keeps /\ UNCHANGED wpc BY <1>0, <1>f, <2>0, <2>10 DEF ReadPoints
 <2>11. CASE eof_raises /\ UNCHANGED wpc BY <1>0, <1>f, <2>0, <2>11 DEF ReadPoints
 <2>12. CASE drain_lost /\ UNCHANGED wpc BY <1>0, <1>f, <2>0, <2>12 DEF ReadPoints
 <2>13. CASE eof_closes BY <1>0, <1>f, <2>0, <2>13 DEF ReadPoints
 <2> QED BY <1>4, <2>1, <2>2, <2>3, <2>4, <2>5, <2>6, <2>7, <2>8, <2>9, <2>10, <2>11, <2>12,
     <2>13 DEF DrainStep, DrainMove
<1>5. CASE AppStep
 <2>0. UNCHANGED <<rpc, ract, rafter, rstate, dpc, dafter>> BY <1>5, AppFrame
 <2>1. CASE pause_reading BY <1>0, <1>f, <2>0, <2>1 DEF ReadPoints
 <2>2. CASE resume_reading BY <1>0, <1>f, <2>0, <2>2 DEF ReadPoints
 <2>3. CASE reclaim BY <1>0, <1>f, <2>0, <2>3 DEF ReadPoints
 <2>4. CASE consume BY <1>0, <1>f, <2>0, <2>4 DEF ReadPoints
 <2>5. CASE close_transport BY <1>0, <1>f, <2>0, <2>5 DEF ReadPoints
 <2> QED BY <1>5, <2>1, <2>2, <2>3, <2>4, <2>5 DEF AppStep
<1>6. CASE notify_all_send \/ write_fails \/ peer_closes
 <2>0. UNCHANGED <<rpc, ract, rafter, rparked, rstate, dpc, dafter>> BY <1>6, OtherFrame
 <2>1. CASE notify_all_send BY <1>0, <1>f, <2>0, <2>1 DEF ReadPoints
 <2>2. CASE write_fails BY <1>0, <1>f, <2>0, <2>2 DEF ReadPoints
 <2>3. CASE peer_closes BY <1>0, <1>f, <2>0, <2>3 DEF ReadPoints
 <2> QED BY <1>6, <2>1, <2>2, <2>3
<1> QED BY <1>1, <1>2, <1>3, <1>4, <1>5, <1>6 DEF ReadNext, ReaderStep

LEMMA ReaderControlKept == ASSUME ReadInv, ReadNext PROVE ReaderControl'
<1>0. ReaderControl /\ ReadPoints BY DEF ReadInv, ReadTypes
<1>f. UNCHANGED <<rkind, rproto>> BY DEF ReadNext
<1>x. EnqueueStep => EventPushed \/ EventRefused \/ reader_schedule BY EnqueueCases
<1>d. RecordDrained => UNCHANGED rlisten BY DrainedQuietly
<1>p. ract \in {"check", "spin", "spun"} /\ rafter \in {"acquire", "done"}
  BY <1>0, Zenon DEF ReadPoints
<1>1. CASE AcquireStep \/ ReaderMove \/ read_fails
 <2>0. UNCHANGED <<>> BY <1>1, ReaderFrame
 <2>1. CASE acquire_read_buffer /\ UNCHANGED rSocket
   BY <1>0, <1>f, <2>0, <2>1, <1>p DEF ReaderControl
 <2>2. CASE wait_async_register /\ UNCHANGED rSocket BY <1>0, <1>f, <2>0, <2>2 DEF ReaderControl
 <2>3. CASE wait_async_recheck /\ UNCHANGED rSocket BY <1>0, <1>f, <2>0, <2>3 DEF ReaderControl
 <2>4. CASE wait_async_woken /\ UNCHANGED rSocket BY <1>0, <1>f, <2>0, <2>4 DEF ReaderControl
 <2>5. CASE wait_timeout /\ UNCHANGED rSocket BY <1>0, <1>f, <2>0, <2>5 DEF ReaderControl
 <2>6. CASE reader_check BY <1>0, <1>f, <2>0, <2>6 DEF ReaderControl
 <2>7. CASE listen BY <1>0, <1>f, <2>0, <2>7 DEF ReaderControl
 <2>8. CASE listening BY <1>0, <1>f, <2>0, <2>8 DEF ReaderControl
 <2>9. CASE waiting BY <1>0, <1>f, <2>0, <2>9 DEF ReaderControl
 <2>10. CASE read_some BY <1>0, <1>f, <2>0, <2>10 DEF ReaderControl
 <2>11. CASE read_nothing BY <1>0, <1>f, <2>0, <2>11 DEF ReaderControl
 <2>12. CASE spun BY <1>0, <1>f, <2>0, <2>12 DEF ReaderControl
 <2>13. CASE reader_stopped BY <1>0, <1>f, <2>0, <2>13 DEF ReaderControl
 <2>14. CASE read_fails BY <1>0, <1>f, <2>0, <2>14 DEF ReaderControl
 <2> QED BY <1>1, <2>1, <2>2, <2>3, <2>4, <2>5, <2>6, <2>7, <2>8, <2>9, <2>10, <2>11, <2>12,
     <2>13, <2>14 DEF AcquireStep, ReaderMove
<1>2. CASE EnqueueStep
 <2>0. UNCHANGED <<rlisten, rev, rafter>> BY <1>2, EnqueueFrame DEF ReadInv, ReadTypes
 <2>1. CASE EventPushed BY <1>0, <1>f, <2>0, <2>1, <1>p DEF EventPushed, ReaderControl
 <2>2. CASE EventRefused BY <1>0, <1>f, <2>0, <2>2, <1>p DEF EventRefused, ReaderControl
 <2>3. CASE reader_schedule BY <1>0, <1>f, <2>0, <2>3, <1>p DEF ReaderControl
 <2> QED BY <1>x, <1>2, <2>1, <2>2, <2>3 DEF EnqueueStep
<1>3. CASE WriterStep
 <2>0. UNCHANGED <<rpc, rev, rafter>> BY <1>3, WriterFrame
 <2>1. CASE writer_reports BY <1>0, <1>f, <2>0, <2>1 DEF ReaderControl
 <2>2. CASE writer_schedules BY <1>0, <1>f, <2>0, <2>2 DEF ReaderControl
 <2>3. CASE fail_write_closes BY <1>0, <1>f, <2>0, <2>3 DEF ReaderControl
 <2> QED BY <1>3, <2>1, <2>2, <2>3 DEF WriterStep
<1>4. CASE DrainStep
 <2>0. UNCHANGED <<rpc, rev, rafter>> BY <1>4, DrainFrame
 <2>1. CASE drain_start /\ UNCHANGED wpc BY <1>0, <1>f, <2>0, <2>1 DEF ReaderControl
 <2>2. CASE drain_swap /\ UNCHANGED wpc BY <1>0, <1>f, <2>0, <2>2, Zenon DEF ReaderControl
 <2>3. CASE drain_data /\ UNCHANGED wpc BY <1>0, <1>f, <2>0, <2>3, <1>d DEF ReaderControl
 <2>4. CASE drain_feed /\ UNCHANGED wpc BY <1>0, <1>f, <2>0, <2>4 DEF ReaderControl
 <2>5. CASE drain_other /\ UNCHANGED wpc BY <1>0, <1>f, <2>0, <2>5 DEF ReaderControl
 <2>6. CASE flush_called /\ UNCHANGED wpc BY <1>0, <1>f, <2>0, <2>6 DEF ReaderControl
 <2>7. CASE flush_raises /\ UNCHANGED wpc BY <1>0, <1>f, <2>0, <2>7 DEF ReaderControl
 <2>8. CASE flush_nothing /\ UNCHANGED wpc BY <1>0, <1>f, <2>0, <2>8 DEF ReaderControl
 <2>9. CASE callback_returns /\ UNCHANGED wpc BY <1>0, <1>f, <2>0, <2>9 DEF ReaderControl
 <2>10. CASE eof_keeps /\ UNCHANGED wpc BY <1>0, <1>f, <2>0, <2>10 DEF ReaderControl
 <2>11. CASE eof_raises /\ UNCHANGED wpc BY <1>0, <1>f, <2>0, <2>11 DEF ReaderControl
 <2>12. CASE drain_lost /\ UNCHANGED wpc BY <1>0, <1>f, <2>0, <2>12 DEF ReaderControl
 <2>13. CASE eof_closes BY <1>0, <1>f, <2>0, <2>13 DEF ReaderControl
 <2> QED BY <1>4, <2>1, <2>2, <2>3, <2>4, <2>5, <2>6, <2>7, <2>8, <2>9, <2>10, <2>11, <2>12,
     <2>13 DEF DrainStep, DrainMove
<1>5. CASE AppStep
 <2>0. UNCHANGED <<rpc, rev, rafter>> BY <1>5, AppFrame
 <2>1. CASE pause_reading BY <1>0, <1>f, <2>0, <2>1 DEF ReaderControl
 <2>2. CASE resume_reading BY <1>0, <1>f, <2>0, <2>2 DEF ReaderControl
 <2>3. CASE reclaim BY <1>0, <1>f, <2>0, <2>3 DEF ReaderControl
 <2>4. CASE consume BY <1>0, <1>f, <2>0, <2>4 DEF ReaderControl
 <2>5. CASE close_transport BY <1>0, <1>f, <2>0, <2>5 DEF ReaderControl
 <2> QED BY <1>5, <2>1, <2>2, <2>3, <2>4, <2>5 DEF AppStep
<1>6. CASE notify_all_send \/ write_fails \/ peer_closes
 <2>0. UNCHANGED <<rpc, rev, rafter>> BY <1>6, OtherFrame
 <2>1. CASE notify_all_send BY <1>0, <1>f, <2>0, <2>1 DEF ReaderControl
 <2>2. CASE write_fails BY <1>0, <1>f, <2>0, <2>2 DEF ReaderControl
 <2>3. CASE peer_closes BY <1>0, <1>f, <2>0, <2>3 DEF ReaderControl
 <2> QED BY <1>6, <2>1, <2>2, <2>3
<1> QED BY <1>1, <1>2, <1>3, <1>4, <1>5, <1>6 DEF ReadNext, ReaderStep

LEMMA LossControlKept == ASSUME ReadInv, ReadNext PROVE LossControl'
<1>0. LossControl /\ ReadFlags /\ losts \in Nat BY DEF ReadInv, ReadTypes, ReadCounts
<1>f. UNCHANGED <<rkind, rproto>> BY DEF ReadNext
<1>l. ConnectionLostOnce => rlost' = TRUE /\ losts' \in Nat /\ losts' <= 1 BY <1>0, LosesOnce
<1>c. ClosedByLoss => rclosing' = TRUE BY <1>0, LossCloses
<1>1. CASE AcquireStep \/ ReaderMove \/ read_fails
 <2>0. UNCHANGED <<rclosing, rlost, rdetached, losts>> BY <1>1, ReaderFrame
 <2> QED BY <1>0, <1>f, <2>0 DEF LossControl
<1>2. CASE EnqueueStep
 <2>0. UNCHANGED <<rclosing, rlost, rdetached, losts>> BY <1>2, EnqueueFrame DEF ReadInv, ReadTypes
 <2> QED BY <1>0, <1>f, <2>0 DEF LossControl
<1>3. CASE WriterStep
 <2>0. UNCHANGED <<rlost, rdetached, losts>> BY <1>3, WriterFrame
 <2>1. CASE writer_reports BY <1>0, <1>f, <2>0, <2>1 DEF LossControl
 <2>2. CASE writer_schedules BY <1>0, <1>f, <2>0, <2>2 DEF LossControl
 <2>3. CASE fail_write_closes BY <1>0, <1>f, <2>0, <2>3 DEF LossControl
 <2> QED BY <1>3, <2>1, <2>2, <2>3 DEF WriterStep
<1>4. CASE DrainStep
 <2>0. UNCHANGED <<rdetached>> BY <1>4, DrainFrame
 <2>1. CASE drain_start /\ UNCHANGED wpc BY <1>0, <1>f, <2>0, <2>1 DEF LossControl
 <2>2. CASE drain_swap /\ UNCHANGED wpc BY <1>0, <1>f, <2>0, <2>2 DEF LossControl
 <2>3. CASE drain_data /\ UNCHANGED wpc BY <1>0, <1>f, <2>0, <2>3 DEF LossControl
 <2>4. CASE drain_feed /\ UNCHANGED wpc BY <1>0, <1>f, <2>0, <2>4 DEF LossControl
 <2>5. CASE drain_other /\ UNCHANGED wpc BY <1>0, <1>f, <2>0, <2>5 DEF LossControl
 <2>6. CASE flush_called /\ UNCHANGED wpc BY <1>0, <1>f, <2>0, <2>6 DEF LossControl
 <2>7. CASE flush_raises /\ UNCHANGED wpc BY <1>0, <1>f, <2>0, <2>7, <1>l, <1>c DEF LossControl
 <2>8. CASE flush_nothing /\ UNCHANGED wpc BY <1>0, <1>f, <2>0, <2>8 DEF LossControl
 <2>9. CASE callback_returns /\ UNCHANGED wpc BY <1>0, <1>f, <2>0, <2>9 DEF LossControl
 <2>10. CASE eof_keeps /\ UNCHANGED wpc BY <1>0, <1>f, <2>0, <2>10 DEF LossControl
 <2>11. CASE eof_raises /\ UNCHANGED wpc BY <1>0, <1>f, <2>0, <2>11, <1>l, <1>c DEF LossControl
 <2>12. CASE drain_lost /\ UNCHANGED wpc BY <1>0, <1>f, <2>0, <2>12, <1>l, <1>c DEF LossControl
 <2>13. CASE eof_closes BY <1>0, <1>f, <2>0, <2>13, <1>l DEF LossControl
 <2> QED BY <1>4, <2>1, <2>2, <2>3, <2>4, <2>5, <2>6, <2>7, <2>8, <2>9, <2>10, <2>11, <2>12,
     <2>13 DEF DrainStep, DrainMove
<1>5. CASE AppStep
 <2>0. UNCHANGED <<>> BY <1>5, AppFrame, Zenon
 <2>1. CASE pause_reading BY <1>0, <1>f, <2>0, <2>1 DEF LossControl
 <2>2. CASE resume_reading BY <1>0, <1>f, <2>0, <2>2 DEF LossControl
 <2>3. CASE reclaim BY <1>0, <1>f, <2>0, <2>3 DEF LossControl
 <2>4. CASE consume BY <1>0, <1>f, <2>0, <2>4 DEF LossControl
 <2>5. CASE close_transport BY <1>0, <1>f, <2>0, <2>5, <1>l DEF LossControl
 <2> QED BY <1>5, <2>1, <2>2, <2>3, <2>4, <2>5 DEF AppStep
<1>6. CASE notify_all_send \/ write_fails \/ peer_closes
 <2>0. UNCHANGED <<rclosing, rlost, rdetached, losts>> BY <1>6, OtherFrame
 <2> QED BY <1>0, <1>f, <2>0 DEF LossControl
<1> QED BY <1>1, <1>2, <1>3, <1>4, <1>5, <1>6 DEF ReadNext, ReaderStep

LEMMA ReadCountsKept == ASSUME ReadInv, ReadNext PROVE ReadCounts'
<1>0. ReadCounts /\ LossControl /\ ReadFlags BY DEF ReadInv, ReadTypes
<1>f. UNCHANGED <<rkind, rproto>> BY DEF ReadNext
<1>x. EnqueueStep => EventPushed \/ EventRefused \/ reader_schedule BY EnqueueCases
<1>l. ConnectionLostOnce => losts' \in Nat BY <1>0, LosesOnce DEF ReadCounts
<1>a. PoolLimit \in Nat BY ReadAssumption
<1>1. CASE AcquireStep \/ ReaderMove \/ read_fails
 <2>0. UNCHANGED <<rcmds, dcount, nunread, eofs, losts>> BY <1>1, ReaderFrame
 <2>1. CASE acquire_read_buffer /\ UNCHANGED rSocket BY <1>0, <1>f, <2>0, <2>1 DEF ReadCounts
 <2>2. CASE wait_async_register /\ UNCHANGED rSocket BY <1>0, <1>f, <2>0, <2>2 DEF ReadCounts
 <2>3. CASE wait_async_recheck /\ UNCHANGED rSocket BY <1>0, <1>f, <2>0, <2>3 DEF ReadCounts
 <2>4. CASE wait_async_woken /\ UNCHANGED rSocket BY <1>0, <1>f, <2>0, <2>4 DEF ReadCounts
 <2>5. CASE wait_timeout /\ UNCHANGED rSocket BY <1>0, <1>f, <2>0, <2>5 DEF ReadCounts
 <2>6. CASE reader_check BY <1>0, <1>f, <2>0, <2>6 DEF ReadCounts
 <2>7. CASE listen BY <1>0, <1>f, <2>0, <2>7 DEF ReadCounts
 <2>8. CASE listening BY <1>0, <1>f, <2>0, <2>8 DEF ReadCounts
 <2>9. CASE waiting BY <1>0, <1>f, <2>0, <2>9 DEF ReadCounts
 <2>10. CASE read_some BY <1>0, <1>f, <2>0, <2>10 DEF ReadCounts
 <2>11. CASE read_nothing BY <1>0, <1>f, <2>0, <2>11 DEF ReadCounts
 <2>12. CASE spun BY <1>0, <1>f, <2>0, <2>12 DEF ReadCounts
 <2>13. CASE reader_stopped BY <1>0, <1>f, <2>0, <2>13, Zenon DEF ReadCounts
 <2>14. CASE read_fails BY <1>0, <1>f, <2>0, <2>14 DEF ReadCounts
 <2> QED BY <1>1, <2>1, <2>2, <2>3, <2>4, <2>5, <2>6, <2>7, <2>8, <2>9, <2>10, <2>11, <2>12,
     <2>13, <2>14 DEF AcquireStep, ReaderMove
<1>2. CASE EnqueueStep
 <2>0. UNCHANGED <<dcount, nunread, eofs, losts, palloc, peer, taken>>
   BY <1>2, EnqueueFrame DEF ReadInv, ReadTypes
 <2>1. CASE EventPushed BY <1>0, <1>f, <2>0, <2>1 DEF EventPushed, ReadCounts
 <2>2. CASE EventRefused BY <1>0, <1>f, <2>0, <2>2 DEF EventRefused, ReadCounts
 <2>3. CASE reader_schedule BY <1>0, <1>f, <2>0, <2>3 DEF ReadCounts
 <2> QED BY <1>x, <1>2, <2>1, <2>2, <2>3 DEF EnqueueStep
<1>3. CASE WriterStep
 <2>0. UNCHANGED <<pfree, palloc, dcount, nunread, peer, taken, eofs, losts>> BY <1>3, WriterFrame
 <2>1. CASE writer_reports BY <1>0, <1>f, <2>0, <2>1 DEF ReadCounts
 <2>2. CASE writer_schedules BY <1>0, <1>f, <2>0, <2>2 DEF ReadCounts
 <2>3. CASE fail_write_closes BY <1>0, <1>f, <2>0, <2>3, Zenon DEF ReadCounts
 <2> QED BY <1>3, <2>1, <2>2, <2>3 DEF WriterStep
<1>4. CASE DrainStep
 <2>0. UNCHANGED <<peer, taken, palloc>> BY <1>4, DrainFrame
 <2>1. CASE drain_start /\ UNCHANGED wpc BY <1>0, <1>f, <2>0, <2>1 DEF ReadCounts
 <2>2. CASE drain_swap /\ UNCHANGED wpc BY <1>0, <1>f, <2>0, <2>2 DEF ReadCounts
 <2>3. CASE drain_data /\ UNCHANGED wpc BY <1>0, <1>f, <2>0, <2>3 DEF ReadCounts
 <2>4. CASE drain_feed /\ UNCHANGED wpc BY <1>0, <1>f, <2>0, <2>4 DEF ReadCounts
 <2>5. CASE drain_other /\ UNCHANGED wpc BY <1>0, <1>f, <2>0, <2>5 DEF ReadCounts
 <2>6. CASE flush_called /\ UNCHANGED wpc BY <1>0, <1>f, <2>0, <2>6 DEF ReadCounts
 <2>7. CASE flush_raises /\ UNCHANGED wpc BY <1>0, <1>f, <2>0, <2>7, <1>l DEF ReadCounts
 <2>8. CASE flush_nothing /\ UNCHANGED wpc BY <1>0, <1>f, <2>0, <2>8 DEF ReadCounts
 <2>9. CASE callback_returns /\ UNCHANGED wpc BY <1>0, <1>f, <2>0, <2>9, Zenon DEF ReadCounts
 <2>10. CASE eof_keeps /\ UNCHANGED wpc BY <1>0, <1>f, <2>0, <2>10 DEF ReadCounts
 <2>11. CASE eof_raises /\ UNCHANGED wpc BY <1>0, <1>f, <2>0, <2>11, <1>l DEF ReadCounts
 <2>12. CASE drain_lost /\ UNCHANGED wpc BY <1>0, <1>f, <2>0, <2>12, <1>l, Zenon DEF ReadCounts
 <2>13. CASE eof_closes BY <1>0, <1>f, <2>0, <2>13, <1>l DEF ReadCounts
 <2> QED BY <1>4, <2>1, <2>2, <2>3, <2>4, <2>5, <2>6, <2>7, <2>8, <2>9, <2>10, <2>11, <2>12,
     <2>13 DEF DrainStep, DrainMove
<1>5. CASE AppStep
 <2>0. UNCHANGED <<rcmds, dcount, peer, taken, eofs, palloc>> BY <1>5, AppFrame, Zenon
 <2>1. CASE pause_reading BY <1>0, <1>f, <2>0, <2>1 DEF ReadCounts
 <2>2. CASE resume_reading BY <1>0, <1>f, <2>0, <2>2 DEF ReadCounts
 <2>3. CASE reclaim BY <1>0, <1>f, <2>0, <2>3 DEF ReadCounts
 <2>4. CASE consume BY <1>0, <1>f, <2>0, <2>4 DEF ReadCounts
 <2>5. CASE close_transport BY <1>0, <1>f, <2>0, <2>5, <1>l DEF ReadCounts
 <2> QED BY <1>5, <2>1, <2>2, <2>3, <2>4, <2>5 DEF AppStep
<1>6. CASE notify_all_send \/ write_fails \/ peer_closes
 <2>0. UNCHANGED <<rcmds, pfree, palloc, dcount, nunread, peer, taken, eofs, losts>>
   BY <1>6, OtherFrame
 <2> QED BY <1>0, <1>f, <2>0 DEF ReadCounts
<1> QED BY <1>1, <1>2, <1>3, <1>4, <1>5, <1>6 DEF ReadNext, ReaderStep

LEMMA ReadQueuesKept == ASSUME ReadInv, ReadNext PROVE ReadQueues'
<1>0. ReadQueues /\ taken \in Nat BY DEF ReadInv, ReadTypes, ReadCounts
<1>f. UNCHANGED <<rkind, rproto>> BY DEF ReadNext
<1>x. EnqueueStep => EventPushed \/ EventRefused \/ reader_schedule BY EnqueueCases
<1>n. <<>> \in Seq(ReadEvents) /\ <<>> \in Seq(Nat) BY EmptySeq
<1>e. REvent("eof", 0) \in ReadEvents /\ REvent("lost", 0) \in ReadEvents BY DEF ReadEvents
<1>d. REvent("data", taken + 1) \in ReadEvents BY <1>0 DEF ReadEvents
<1>p. \A e \in ReadEvents : Append(rqueue, e) \in Seq(ReadEvents)
  BY <1>0, AppendProperties DEF ReadQueues
<1>h. rpc = "enqueue" => rev \in ReadEvents BY EventAtHand
<1>t. rdrained # <<>> => Tail(rdrained) \in Seq(ReadEvents) /\ Head(rdrained).byte \in Nat
  BY <1>0, HeadTailProperties, EventFields, Zenon DEF ReadQueues
<1>r. /\ rdrained \o rqueue \in Seq(ReadEvents)
      /\ rdrained # <<>> => Tail(rdrained) \o rqueue \in Seq(ReadEvents)
  BY <1>0, <1>t, ConcatProperties DEF ReadQueues
<1>g. /\ \A b \in Nat : Append(given, b) \in Seq(Nat) /\ Append(dcoal, b) \in Seq(Nat)
      /\ given \o dcoal \in Seq(Nat)
  BY <1>0, AppendProperties, ConcatProperties, Zenon DEF ReadQueues
<1>1. CASE AcquireStep \/ ReaderMove \/ read_fails
 <2>0. UNCHANGED <<rqueue, rdrained, dcur, dcoal, given>> BY <1>1, ReaderFrame
 <2>1. CASE acquire_read_buffer /\ UNCHANGED rSocket BY <1>0, <1>f, <2>0, <2>1 DEF ReadQueues
 <2>2. CASE wait_async_register /\ UNCHANGED rSocket BY <1>0, <1>f, <2>0, <2>2 DEF ReadQueues
 <2>3. CASE wait_async_recheck /\ UNCHANGED rSocket BY <1>0, <1>f, <2>0, <2>3 DEF ReadQueues
 <2>4. CASE wait_async_woken /\ UNCHANGED rSocket BY <1>0, <1>f, <2>0, <2>4 DEF ReadQueues
 <2>5. CASE wait_timeout /\ UNCHANGED rSocket BY <1>0, <1>f, <2>0, <2>5 DEF ReadQueues
 <2>6. CASE reader_check BY <1>0, <1>f, <2>0, <2>6, <1>e DEF ReadQueues
 <2>7. CASE listen BY <1>0, <1>f, <2>0, <2>7, Zenon DEF ReadQueues
 <2>8. CASE listening BY <1>0, <1>f, <2>0, <2>8, <1>e, Zenon DEF ReadQueues
 <2>9. CASE waiting BY <1>0, <1>f, <2>0, <2>9 DEF ReadQueues
 <2>10. CASE read_some
  <3>1. rev' = REvent("data", taken + 1) \/ rev' = REvent("eof", 0) BY <2>10
  <3> QED BY <1>0, <2>0, <1>e, <1>d, <3>1 DEF ReadQueues
 <2>11. CASE read_nothing BY <1>0, <1>f, <2>0, <2>11 DEF ReadQueues
 <2>12. CASE spun BY <1>0, <1>f, <2>0, <2>12, Zenon DEF ReadQueues
 <2>13. CASE reader_stopped BY <1>0, <1>f, <2>0, <2>13 DEF ReadQueues
 <2>14. CASE read_fails BY <1>0, <1>f, <2>0, <2>14, <1>e DEF ReadQueues
 <2> QED BY <1>1, <2>1, <2>2, <2>3, <2>4, <2>5, <2>6, <2>7, <2>8, <2>9, <2>10, <2>11, <2>12,
     <2>13, <2>14 DEF AcquireStep, ReaderMove
<1>2. CASE EnqueueStep
 <2>0. UNCHANGED <<rdrained, dcur, dcoal, given, rev>> BY <1>2, EnqueueFrame DEF ReadInv, ReadTypes
 <2>1. CASE EventPushed BY <1>0, <1>f, <2>0, <2>1, <1>p, <1>h DEF EventPushed, ReadQueues
 <2>2. CASE EventRefused BY <1>0, <1>f, <2>0, <2>2 DEF EventRefused, ReadQueues
 <2>3. CASE reader_schedule BY <1>0, <1>f, <2>0, <2>3 DEF ReadQueues
 <2> QED BY <1>x, <1>2, <2>1, <2>2, <2>3 DEF EnqueueStep
<1>3. CASE WriterStep
 <2>0. UNCHANGED <<rev, dcur, dcoal, given, rdrained>> BY <1>3, WriterFrame
 <2>1. CASE writer_reports BY <1>0, <1>f, <2>0, <2>1, <1>e, <1>p DEF ReadQueues
 <2>2. CASE writer_schedules BY <1>0, <1>f, <2>0, <2>2 DEF ReadQueues
 <2>3. CASE fail_write_closes BY <1>0, <1>f, <2>0, <2>3 DEF ReadQueues
 <2> QED BY <1>3, <2>1, <2>2, <2>3 DEF WriterStep
<1>4. CASE DrainStep
 <2>0. UNCHANGED <<rev>> BY <1>4, DrainFrame, Zenon
 <2>1. CASE drain_start /\ UNCHANGED wpc BY <1>0, <1>f, <2>0, <2>1 DEF ReadQueues
 <2>2. CASE drain_swap /\ UNCHANGED wpc BY <1>0, <1>f, <2>0, <2>2 DEF ReadQueues
 <2>3. CASE drain_data /\ UNCHANGED wpc
   BY <1>0, <1>f, <2>0, <2>3, <1>n, <1>t, <1>r, <1>g DEF NextIsData, Requeued, ReadQueues
 <2>4. CASE drain_feed /\ UNCHANGED wpc
   BY <1>0, <1>f, <2>0, <2>4, <1>n, <1>r, <1>g DEF Requeued, ReadQueues
 <2>5. CASE drain_other /\ UNCHANGED wpc BY <1>0, <1>f, <2>0, <2>5, <1>n, <1>t DEF ReadQueues
 <2>6. CASE flush_called /\ UNCHANGED wpc BY <1>0, <1>f, <2>0, <2>6, <1>n, <1>g DEF ReadQueues
 <2>7. CASE flush_raises /\ UNCHANGED wpc BY <1>0, <1>f, <2>0, <2>7, <1>n, <1>g DEF ReadQueues
 <2>8. CASE flush_nothing /\ UNCHANGED wpc BY <1>0, <1>f, <2>0, <2>8, <1>n DEF ReadQueues
 <2>9. CASE callback_returns /\ UNCHANGED wpc BY <1>0, <1>f, <2>0, <2>9 DEF ReadQueues
 <2>10. CASE eof_keeps /\ UNCHANGED wpc BY <1>0, <1>f, <2>0, <2>10 DEF ReadQueues
 <2>11. CASE eof_raises /\ UNCHANGED wpc BY <1>0, <1>f, <2>0, <2>11 DEF ReadQueues
 <2>12. CASE drain_lost /\ UNCHANGED wpc BY <1>0, <1>f, <2>0, <2>12 DEF ReadQueues
 <2>13. CASE eof_closes BY <1>0, <1>f, <2>0, <2>13 DEF ReadQueues
 <2> QED BY <1>4, <2>1, <2>2, <2>3, <2>4, <2>5, <2>6, <2>7, <2>8, <2>9, <2>10, <2>11, <2>12,
     <2>13 DEF DrainStep, DrainMove
<1>5. CASE AppStep
 <2>0. UNCHANGED <<rev, rqueue, rdrained, dcur, dcoal, given>> BY <1>5, AppFrame
 <2> QED BY <1>0, <1>f, <2>0 DEF ReadQueues
<1>6. CASE notify_all_send \/ write_fails \/ peer_closes
 <2>0. UNCHANGED <<rev, rqueue, rdrained, dcur, dcoal, given>> BY <1>6, OtherFrame
 <2> QED BY <1>0, <1>f, <2>0 DEF ReadQueues
<1> QED BY <1>1, <1>2, <1>3, <1>4, <1>5, <1>6 DEF ReadNext, ReaderStep

-----------------------------------------------------------------------------
(* The drain, and what waits.                                              *)

LEMMA DrainControlKept == ASSUME ReadInv, ReadNext PROVE DrainControl'
<1>0. DrainControl /\ ReadQueues /\ ReadFlags /\ ReadPoints /\ nunread \in Nat
  BY DEF ReadInv, ReadTypes, ReadCounts
<1>f. UNCHANGED <<rkind, rproto>> BY DEF ReadNext
<1>n. \A b \in Nat : Append(dcoal, b) # <<>>
 <2>1. dcoal \in Seq(Nat) BY <1>0 DEF ReadQueues
 <2> QED BY <2>1, AppendNotEmpty
<1>h. rdrained # <<>> => /\ Head(rdrained).kind \in {"data", "eof", "lost"} /\ Head(rdrained).byte \in Nat
                        /\ (Head(rdrained).kind = "data" => Head(rdrained).byte # 0)
  BY <1>0, HeadTailProperties, EventFields DEF ReadQueues
<1>c. dcur \in Nat BY <1>0 DEF ReadQueues
<1>1. CASE AcquireStep \/ ReaderMove \/ read_fails
 <2>0. UNCHANGED <<rlost, dpc, dafter, dcur, dcoal, dpooled, nunread, nslot>> BY <1>1, ReaderFrame
 <2> QED BY <1>0, <1>f, <2>0 DEF DrainControl, InCallback
<1>2. CASE EnqueueStep
 <2>0. UNCHANGED <<rlost, dpc, dafter, dcur, dcoal, dpooled, nunread, nslot>>
   BY <1>2, EnqueueFrame DEF ReadInv, ReadTypes
 <2> QED BY <1>0, <1>f, <2>0 DEF DrainControl, InCallback
<1>3. CASE WriterStep
 <2>0. UNCHANGED <<rlost, dpc, dafter, dcur, dcoal, dpooled, nunread, nslot>>
   BY <1>3, WriterFrame, Zenon
 <2> QED BY <1>0, <1>f, <2>0 DEF DrainControl, InCallback
<1>4. CASE DrainStep
 <2>0. UNCHANGED <<>> BY <1>4, DrainFrame
 <2>1. CASE drain_start /\ UNCHANGED wpc BY <1>0, <1>f, <2>0, <2>1 DEF DrainControl, InCallback
 <2>2. CASE drain_swap /\ UNCHANGED wpc
   BY <1>0, <1>f, <2>0, <2>2, Zenon DEF DrainControl, InCallback
 <2>3. CASE drain_data /\ UNCHANGED wpc
   BY <1>0, <1>f, <2>0, <2>3, <1>n, <1>h DEF NextIsData, Native, DrainControl, InCallback
 <2>4. CASE drain_feed /\ UNCHANGED wpc
   BY <1>0, <1>f, <2>0, <2>4, <1>n, <1>c DEF DrainControl, InCallback
 <2>5. CASE drain_other /\ UNCHANGED wpc
   BY <1>0, <1>f, <2>0, <2>5, <1>h DEF NextIsData, DrainControl, InCallback
 <2>6. CASE flush_called /\ UNCHANGED wpc BY <1>0, <1>f, <2>0, <2>6 DEF DrainControl, InCallback
 <2>7. CASE flush_raises /\ UNCHANGED wpc
   BY <1>0, <1>f, <2>0, <2>7 DEF ConnectionLostOnce, DrainControl, InCallback
 <2>8. CASE flush_nothing /\ UNCHANGED wpc
   BY <1>0, <1>f, <2>0, <2>8, Zenon DEF DrainControl, InCallback
 <2>9. CASE callback_returns /\ UNCHANGED wpc
   BY <1>0, <1>f, <2>0, <2>9 DEF DrainControl, InCallback
 <2>10. CASE eof_keeps /\ UNCHANGED wpc BY <1>0, <1>f, <2>0, <2>10 DEF DrainControl, InCallback
 <2>11. CASE eof_raises /\ UNCHANGED wpc
   BY <1>0, <1>f, <2>0, <2>11 DEF ConnectionLostOnce, DrainControl, InCallback
 <2>12. CASE drain_lost /\ UNCHANGED wpc
   BY <1>0, <1>f, <2>0, <2>12 DEF ConnectionLostOnce, DrainControl, InCallback
 <2>13. CASE eof_closes BY <1>0, <1>f, <2>0, <2>13 DEF ConnectionLostOnce, DrainControl, InCallback
 <2> QED BY <1>4, <2>1, <2>2, <2>3, <2>4, <2>5, <2>6, <2>7, <2>8, <2>9, <2>10, <2>11, <2>12,
     <2>13 DEF DrainStep, DrainMove
<1>5. CASE AppStep
 <2>0. UNCHANGED <<dpc, dafter, dcur, dcoal, dpooled>> BY <1>5, AppFrame
 <2>1. CASE pause_reading BY <1>0, <1>f, <2>0, <2>1 DEF DrainControl, InCallback
 <2>2. CASE resume_reading BY <1>0, <1>f, <2>0, <2>2 DEF DrainControl, InCallback
 <2>3. CASE reclaim BY <1>0, <1>f, <2>0, <2>3 DEF DrainControl, InCallback
 <2>4. CASE consume BY <1>0, <1>f, <2>0, <2>4 DEF DrainControl, InCallback
 <2>5. CASE close_transport
   BY <1>0, <1>f, <2>0, <2>5 DEF ConnectionLostOnce, DrainControl, InCallback
 <2> QED BY <1>5, <2>1, <2>2, <2>3, <2>4, <2>5 DEF AppStep
<1>6. CASE notify_all_send \/ write_fails \/ peer_closes
 <2>0. UNCHANGED <<rlost, dpc, dafter, dcur, dcoal, dpooled, nunread, nslot>> BY <1>6, OtherFrame
 <2> QED BY <1>0, <1>f, <2>0 DEF DrainControl, InCallback
<1> QED BY <1>1, <1>2, <1>3, <1>4, <1>5, <1>6 DEF ReadNext, ReaderStep

LEMMA DrainsLeftKept == ASSUME ReadInv, ReadNext PROVE DrainsLeft'
<1>0. DrainsLeft /\ DrainControl /\ ReadFlags /\ rcmds \in Nat /\ ReadPoints
  BY DEF ReadInv, ReadTypes, ReadCounts
<1>f. UNCHANGED <<rkind, rproto>> BY DEF ReadNext
<1>x. EnqueueStep => EventPushed \/ EventRefused \/ reader_schedule BY EnqueueCases
<1>h. rdrained # <<>> => Head(rdrained).kind \in {"data", "eof", "lost"}
  BY HeadTailProperties, EventFields DEF ReadInv, ReadTypes, ReadQueues
<1>a. dafter \notin {"flush", "called"} BY <1>0 DEF ReadPoints
<1>1. CASE AcquireStep \/ ReaderMove \/ read_fails
 <2>0. UNCHANGED <<rdrained, rsched, rcmds, rlost, dpc, dafter>> BY <1>1, ReaderFrame
 <2> QED BY <1>0, <1>f, <2>0 DEF DrainsLeft, InCallback, DrainControl
<1>2. CASE EnqueueStep
 <2>0. UNCHANGED <<rdrained, rlost, dpc, dafter>> BY <1>2, EnqueueFrame DEF ReadInv, ReadTypes
 <2>1. CASE EventPushed
   BY <1>0, <1>f, <2>0, <2>1 DEF EventPushed, DrainsLeft, InCallback, DrainControl
 <2>2. CASE EventRefused
   BY <1>0, <1>f, <2>0, <2>2 DEF EventRefused, DrainsLeft, InCallback, DrainControl
 <2>3. CASE reader_schedule BY <1>0, <1>f, <2>0, <2>3 DEF DrainsLeft, InCallback, DrainControl
 <2> QED BY <1>x, <1>2, <2>1, <2>2, <2>3 DEF EnqueueStep
<1>3. CASE WriterStep
 <2>0. UNCHANGED <<rlost, dpc, dafter, rdrained>> BY <1>3, WriterFrame
 <2>1. CASE writer_reports BY <1>0, <1>f, <2>0, <2>1 DEF DrainsLeft, InCallback, DrainControl
 <2>2. CASE writer_schedules BY <1>0, <1>f, <2>0, <2>2 DEF DrainsLeft, InCallback, DrainControl
 <2>3. CASE fail_write_closes BY <1>0, <1>f, <2>0, <2>3 DEF DrainsLeft, InCallback, DrainControl
 <2> QED BY <1>3, <2>1, <2>2, <2>3 DEF WriterStep
<1>4. CASE DrainStep
 <2>0. UNCHANGED <<>> BY <1>4, DrainFrame
 <2>1. CASE drain_start /\ UNCHANGED wpc
   BY <1>0, <1>f, <2>0, <2>1 DEF DrainsLeft, InCallback, DrainControl
 <2>2. CASE drain_swap /\ UNCHANGED wpc
   BY <1>0, <1>f, <2>0, <2>2 DEF DrainsLeft, InCallback, DrainControl
 <2>3. CASE drain_data /\ UNCHANGED wpc
   BY <1>0, <1>f, <2>0, <2>3 DEF NextIsData, Native, DrainsLeft, InCallback, DrainControl
 <2>4. CASE drain_feed /\ UNCHANGED wpc
   BY <1>0, <1>f, <2>0, <2>4 DEF DrainsLeft, InCallback, DrainControl
 <2>5. CASE drain_other /\ UNCHANGED wpc
   BY <1>0, <1>f, <2>0, <2>5, <1>h DEF NextIsData, DrainsLeft, InCallback, DrainControl
 <2>6. CASE flush_called /\ UNCHANGED wpc
   BY <1>0, <1>f, <2>0, <2>6 DEF DrainsLeft, InCallback, DrainControl
 <2>7. CASE flush_raises /\ UNCHANGED wpc
   BY <1>0, <1>f, <2>0, <2>7 DEF ConnectionLostOnce, DrainsLeft, InCallback, DrainControl
 <2>8. CASE flush_nothing /\ UNCHANGED wpc
   BY <1>0, <1>f, <2>0, <2>8, <1>a DEF DrainsLeft, InCallback, DrainControl
 <2>9. CASE callback_returns /\ UNCHANGED wpc
   BY <1>0, <1>f, <2>0, <2>9, <1>a DEF DrainsLeft, InCallback, DrainControl
 <2>10. CASE eof_keeps /\ UNCHANGED wpc
   BY <1>0, <1>f, <2>0, <2>10 DEF DrainsLeft, InCallback, DrainControl
 <2>11. CASE eof_raises /\ UNCHANGED wpc
   BY <1>0, <1>f, <2>0, <2>11 DEF ConnectionLostOnce, DrainsLeft, InCallback, DrainControl
 <2>12. CASE drain_lost /\ UNCHANGED wpc
   BY <1>0, <1>f, <2>0, <2>12 DEF ConnectionLostOnce, DrainsLeft, InCallback, DrainControl
 <2>13. CASE eof_closes
   BY <1>0, <1>f, <2>0, <2>13 DEF ConnectionLostOnce, DrainsLeft, InCallback, DrainControl
 <2> QED BY <1>4, <2>1, <2>2, <2>3, <2>4, <2>5, <2>6, <2>7, <2>8, <2>9, <2>10, <2>11, <2>12,
     <2>13 DEF DrainStep, DrainMove
<1>5. CASE AppStep
 <2>0. UNCHANGED <<rdrained, rsched, rcmds, dpc, dafter>> BY <1>5, AppFrame
 <2>1. CASE pause_reading BY <1>0, <1>f, <2>0, <2>1 DEF DrainsLeft, InCallback, DrainControl
 <2>2. CASE resume_reading BY <1>0, <1>f, <2>0, <2>2 DEF DrainsLeft, InCallback, DrainControl
 <2>3. CASE reclaim BY <1>0, <1>f, <2>0, <2>3 DEF DrainsLeft, InCallback, DrainControl
 <2>4. CASE consume BY <1>0, <1>f, <2>0, <2>4 DEF DrainsLeft, InCallback, DrainControl
 <2>5. CASE close_transport
   BY <1>0, <1>f, <2>0, <2>5 DEF ConnectionLostOnce, DrainsLeft, InCallback, DrainControl
 <2> QED BY <1>5, <2>1, <2>2, <2>3, <2>4, <2>5 DEF AppStep
<1>6. CASE notify_all_send \/ write_fails \/ peer_closes
 <2>0. UNCHANGED <<rdrained, rsched, rcmds, rlost, dpc, dafter>> BY <1>6, OtherFrame
 <2> QED BY <1>0, <1>f, <2>0 DEF DrainsLeft, InCallback, DrainControl
<1> QED BY <1>1, <1>2, <1>3, <1>4, <1>5, <1>6 DEF ReadNext, ReaderStep

LEMMA EventsNotStranded == ASSUME ReadInv, ReadNext PROVE NoEventStranded'
<1>0. NoEventStranded /\ DrainsLeft /\ ReadFlags /\ rcmds \in Nat /\ ReadPoints
  BY DEF ReadInv, ReadTypes, ReadCounts
<1>f. UNCHANGED <<rkind, rproto>> BY DEF ReadNext
<1>x. EnqueueStep => EventPushed \/ EventRefused \/ reader_schedule BY EnqueueCases
<1>s. AcquireStep \/ ReaderMove \/ read_fails => rpc # "schedule" BY DEF AcquireStep, ReaderMove
<1>b. rpc # "backpressure" BY <1>0 DEF ReadPoints
<1>h. rdrained # <<>> => Head(rdrained).kind \in {"data", "eof", "lost"}
  BY HeadTailProperties, EventFields DEF ReadInv, ReadTypes, ReadQueues
<1>1. CASE AcquireStep \/ ReaderMove \/ read_fails
 <2>0. UNCHANGED <<rqueue, rdrained, rcmds, rlost, dpc, wpc>> BY <1>1, ReaderFrame, Zenon
 <2> QED BY <1>0, <1>1, <1>s, <1>b, <2>0 DEF NoEventStranded, DrainsLeft, InCallback
<1>2. CASE EnqueueStep
 <2>0. UNCHANGED <<rdrained, rlost, dpc, wpc>> BY <1>2, EnqueueFrame DEF ReadInv, ReadTypes
 <2>1. CASE EventPushed
   BY <1>0, <1>f, <2>0, <2>1 DEF EventPushed, NoEventStranded, DrainsLeft, InCallback
 <2>2. CASE EventRefused
   BY <1>0, <1>f, <2>0, <2>2 DEF EventRefused, NoEventStranded, DrainsLeft, InCallback
 <2>3. CASE reader_schedule BY <1>0, <1>f, <2>0, <2>3 DEF NoEventStranded, DrainsLeft, InCallback
 <2> QED BY <1>x, <1>2, <2>1, <2>2, <2>3 DEF EnqueueStep
<1>3. CASE WriterStep
 <2>0. UNCHANGED <<rpc, rlost, dpc, rdrained>> BY <1>3, WriterFrame
 <2>1. CASE writer_reports BY <1>0, <1>f, <2>0, <2>1 DEF NoEventStranded, DrainsLeft, InCallback
 <2>2. CASE writer_schedules BY <1>0, <1>f, <2>0, <2>2 DEF NoEventStranded, DrainsLeft, InCallback
 <2>3. CASE fail_write_closes
   BY <1>0, <1>f, <2>0, <2>3, Zenon DEF NoEventStranded, DrainsLeft, InCallback
 <2> QED BY <1>3, <2>1, <2>2, <2>3 DEF WriterStep
<1>4. CASE DrainStep
 <2>0. UNCHANGED <<rpc>> BY <1>4, DrainFrame
 <2>1. CASE drain_start /\ UNCHANGED wpc
   BY <1>0, <1>f, <2>0, <2>1 DEF NoEventStranded, DrainsLeft, InCallback
 <2>2. CASE drain_swap /\ UNCHANGED wpc
   BY <1>0, <1>f, <2>0, <2>2, Zenon DEF NoEventStranded, DrainsLeft, InCallback
 <2>3. CASE drain_data /\ UNCHANGED wpc
   BY <1>0, <1>f, <2>0, <2>3 DEF Requeued, NoEventStranded, DrainsLeft, InCallback
 <2>4. CASE drain_feed /\ UNCHANGED wpc
   BY <1>0, <1>f, <2>0, <2>4, Zenon DEF Requeued, NoEventStranded, DrainsLeft, InCallback
 <2>5. CASE drain_other /\ UNCHANGED wpc
   BY <1>0, <1>f, <2>0, <2>5, <1>h, Zenon DEF NextIsData, NoEventStranded, DrainsLeft, InCallback
 <2>6. CASE flush_called /\ UNCHANGED wpc
   BY <1>0, <1>f, <2>0, <2>6 DEF NoEventStranded, DrainsLeft, InCallback
 <2>7. CASE flush_raises /\ UNCHANGED wpc
   BY <1>0, <1>f, <2>0, <2>7 DEF ConnectionLostOnce, NoEventStranded, DrainsLeft, InCallback
 <2>8. CASE flush_nothing /\ UNCHANGED wpc
   BY <1>0, <1>f, <2>0, <2>8 DEF NoEventStranded, DrainsLeft, InCallback
 <2>9. CASE callback_returns /\ UNCHANGED wpc
   BY <1>0, <1>f, <2>0, <2>9 DEF NoEventStranded, DrainsLeft, InCallback
 <2>10. CASE eof_keeps /\ UNCHANGED wpc
   BY <1>0, <1>f, <2>0, <2>10 DEF NoEventStranded, DrainsLeft, InCallback
 <2>11. CASE eof_raises /\ UNCHANGED wpc
   BY <1>0, <1>f, <2>0, <2>11, Zenon DEF ConnectionLostOnce, NoEventStranded, DrainsLeft,
     InCallback
 <2>12. CASE drain_lost /\ UNCHANGED wpc
   BY <1>0, <1>f, <2>0, <2>12 DEF ConnectionLostOnce, NoEventStranded, DrainsLeft, InCallback
 <2>13. CASE eof_closes
   BY <1>0, <1>f, <2>0, <2>13, Zenon DEF ConnectionLostOnce, NoEventStranded, DrainsLeft,
     InCallback
 <2> QED BY <1>4, <2>1, <2>2, <2>3, <2>4, <2>5, <2>6, <2>7, <2>8, <2>9, <2>10, <2>11, <2>12,
     <2>13 DEF DrainStep, DrainMove
<1>5. CASE AppStep
 <2>0. UNCHANGED <<rpc, rqueue, rdrained, rcmds, dpc>> BY <1>5, AppFrame
 <2>1. CASE pause_reading BY <1>0, <1>f, <2>0, <2>1 DEF NoEventStranded, DrainsLeft, InCallback
 <2>2. CASE resume_reading
   BY <1>0, <1>f, <2>0, <2>2, Zenon DEF NoEventStranded, DrainsLeft, InCallback
 <2>3. CASE reclaim BY <1>0, <1>f, <2>0, <2>3 DEF NoEventStranded, DrainsLeft, InCallback
 <2>4. CASE consume BY <1>0, <1>f, <2>0, <2>4 DEF NoEventStranded, DrainsLeft, InCallback
 <2>5. CASE close_transport
   BY <1>0, <1>f, <2>0, <2>5 DEF ConnectionLostOnce, NoEventStranded, DrainsLeft, InCallback
 <2> QED BY <1>5, <2>1, <2>2, <2>3, <2>4, <2>5 DEF AppStep
<1>6. CASE notify_all_send \/ write_fails \/ peer_closes
 <2>0. UNCHANGED <<rpc, rqueue, rdrained, rcmds, rlost, dpc>> BY <1>6, OtherFrame
 <2>1. CASE notify_all_send BY <1>0, <1>f, <2>0, <2>1 DEF NoEventStranded, DrainsLeft, InCallback
 <2>2. CASE write_fails BY <1>0, <1>f, <2>0, <2>2 DEF NoEventStranded, DrainsLeft, InCallback
 <2>3. CASE peer_closes BY <1>0, <1>f, <2>0, <2>3 DEF NoEventStranded, DrainsLeft, InCallback
 <2> QED BY <1>6, <2>1, <2>2, <2>3
<1> QED BY <1>1, <1>2, <1>3, <1>4, <1>5, <1>6 DEF ReadNext, ReaderStep

LEMMA ReadersKept == ASSUME ReadInv, ReadNext PROVE NoReaderStranded'
<1>0. /\ NoReaderStranded /\ ReaderControl /\ ReadFlags /\ ReadPoints
      /\ pfree \in Nat /\ palloc \in Nat /\ PoolLimit \in Nat /\ ~rbackp
  BY ReadAssumption DEF ReadInv, ReadTypes, ReadCounts, SlotsKept
<1>f. UNCHANGED <<rkind, rproto>> BY DEF ReadNext
<1>x. EnqueueStep => EventPushed \/ EventRefused \/ reader_schedule BY EnqueueCases
<1>d. RecordDrained => UNCHANGED <<rreading, rlisten, dnotify>> BY DrainedQuietly
<1>c. ClosedByLoss => rclosing' = TRUE BY LossCloses DEF ReadInv, ReadTypes
<1>p. ract \in {"check", "spin", "spun"} /\ rafter \in {"acquire", "done"}
  BY <1>0, Zenon DEF ReadPoints
<1>1. CASE AcquireStep \/ ReaderMove \/ read_fails
 <2>0. UNCHANGED <<rreading, rclosing, dnotify, pclosed>> BY <1>1, ReaderFrame
 <2>1. CASE acquire_read_buffer /\ UNCHANGED rSocket
   BY <1>0, <1>f, <2>0, <2>1, <1>p DEF NoReaderStranded, ReaderControl
 <2>2. CASE wait_async_register /\ UNCHANGED rSocket
   BY <1>0, <1>f, <2>0, <2>2 DEF NoReaderStranded, ReaderControl
 <2>3. CASE wait_async_recheck /\ UNCHANGED rSocket
   BY <1>0, <1>f, <2>0, <2>3 DEF NoReaderStranded, ReaderControl
 <2>4. CASE wait_async_woken /\ UNCHANGED rSocket
   BY <1>0, <1>f, <2>0, <2>4 DEF NoReaderStranded, ReaderControl
 <2>5. CASE wait_timeout /\ UNCHANGED rSocket
   BY <1>0, <1>f, <2>0, <2>5 DEF NoReaderStranded, ReaderControl
 <2>6. CASE reader_check BY <1>0, <1>f, <2>0, <2>6 DEF NoReaderStranded, ReaderControl
 <2>7. CASE listen BY <1>0, <1>f, <2>0, <2>7, Zenon DEF NoReaderStranded, ReaderControl
 <2>8. CASE listening BY <1>0, <1>f, <2>0, <2>8 DEF NoReaderStranded, ReaderControl
 <2>9. CASE waiting BY <1>0, <1>f, <2>0, <2>9 DEF NoReaderStranded, ReaderControl
 <2>10. CASE read_some BY <1>0, <1>f, <2>0, <2>10 DEF NoReaderStranded, ReaderControl
 <2>11. CASE read_nothing BY <1>0, <1>f, <2>0, <2>11 DEF NoReaderStranded, ReaderControl
 <2>12. CASE spun BY <1>0, <1>f, <2>0, <2>12 DEF NoReaderStranded, ReaderControl
 <2>13. CASE reader_stopped BY <1>0, <1>f, <2>0, <2>13 DEF NoReaderStranded, ReaderControl
 <2>14. CASE read_fails BY <1>0, <1>f, <2>0, <2>14 DEF NoReaderStranded, ReaderControl
 <2> QED BY <1>1, <2>1, <2>2, <2>3, <2>4, <2>5, <2>6, <2>7, <2>8, <2>9, <2>10, <2>11, <2>12,
     <2>13, <2>14 DEF AcquireStep, ReaderMove
<1>2. CASE EnqueueStep
 <2>0. UNCHANGED <<rreading, rclosing, dnotify, pclosed, palloc, rlisten>>
   BY <1>2, EnqueueFrame DEF ReadInv, ReadTypes
 <2>1. CASE EventPushed BY <1>0, <1>f, <2>0, <2>1 DEF EventPushed, NoReaderStranded, ReaderControl
 <2>2. CASE EventRefused
   BY <1>0, <1>f, <2>0, <2>2, <1>p, Zenon DEF EventRefused, NoReaderStranded, ReaderControl
 <2>3. CASE reader_schedule BY <1>0, <1>f, <2>0, <2>3, <1>p DEF NoReaderStranded, ReaderControl
 <2> QED BY <1>x, <1>2, <2>1, <2>2, <2>3 DEF EnqueueStep
<1>3. CASE WriterStep
 <2>0. UNCHANGED <<rpc, rreading, pfree, palloc, dnotify>> BY <1>3, WriterFrame
 <2>1. CASE writer_reports BY <1>0, <1>f, <2>0, <2>1 DEF NoReaderStranded, ReaderControl
 <2>2. CASE writer_schedules BY <1>0, <1>f, <2>0, <2>2 DEF NoReaderStranded, ReaderControl
 <2>3. CASE fail_write_closes BY <1>0, <1>f, <2>0, <2>3 DEF NoReaderStranded, ReaderControl
 <2> QED BY <1>3, <2>1, <2>2, <2>3 DEF WriterStep
<1>4. CASE DrainStep
 <2>0. UNCHANGED <<rpc, palloc>> BY <1>4, DrainFrame
 <2>n. ~dnotify BY <1>4 DEF DrainStep
 <2>1. CASE drain_start /\ UNCHANGED wpc
   BY <1>0, <1>f, <2>0, <2>n, <2>1 DEF NoReaderStranded, ReaderControl
 <2>2. CASE drain_swap /\ UNCHANGED wpc
   BY <1>0, <1>f, <2>0, <2>n, <2>2, Zenon DEF NoReaderStranded, ReaderControl
 <2>3. CASE drain_data /\ UNCHANGED wpc
   BY <1>0, <1>f, <2>0, <2>n, <2>3, <1>d DEF NoReaderStranded, ReaderControl
 <2>4. CASE drain_feed /\ UNCHANGED wpc
   BY <1>0, <1>f, <2>0, <2>n, <2>4 DEF NoReaderStranded, ReaderControl
 <2>5. CASE drain_other /\ UNCHANGED wpc
   BY <1>0, <1>f, <2>0, <2>n, <2>5, Zenon DEF NoReaderStranded, ReaderControl
 <2>6. CASE flush_called /\ UNCHANGED wpc
   BY <1>0, <1>f, <2>0, <2>n, <2>6 DEF NoReaderStranded, ReaderControl
 <2>7. CASE flush_raises /\ UNCHANGED wpc
  <3>1. IF dpooled /\ ~HasAvailable THEN PoolNotify ELSE UNCHANGED rparked BY <2>7
  <3>2. pfree' >= pfree /\ pfree' \in Nat /\ (~dpooled => pfree' = pfree) /\ pclosed' = pclosed
    BY <1>0, <2>7
  <3>3. rpc = "parked" /\ rparked' = "yes" => ~HasAvailable' /\ ~pclosed'
    BY <1>0, <2>0, <3>1, <3>2 DEF NoReaderStranded, ReadPoints, ReadFlags
  <3>4. CASE dafter = "idle" BY <1>0, <2>0, <2>n, <2>7, <3>3, <3>4 DEF NoReaderStranded
  <3>5. CASE dafter # "idle"
    BY <1>0, <1>c, <2>0, <2>n, <2>7, <3>3, <3>5 DEF NoReaderStranded, ReadPoints
  <3> QED BY <3>4, <3>5
 <2>8. CASE flush_nothing /\ UNCHANGED wpc
   BY <1>0, <1>f, <2>0, <2>n, <2>8 DEF NoReaderStranded, ReaderControl
 <2>9. CASE callback_returns /\ UNCHANGED wpc
   BY <1>0, <1>f, <2>0, <2>n, <2>9 DEF NoReaderStranded, ReaderControl
 <2>10. CASE eof_keeps /\ UNCHANGED wpc
   BY <1>0, <1>f, <2>0, <2>n, <2>10, Zenon DEF NoReaderStranded, ReaderControl
 <2>11. CASE eof_raises /\ UNCHANGED wpc
   BY <1>0, <1>f, <2>0, <2>n, <2>11, <1>c DEF NoReaderStranded, ReaderControl
 <2>12. CASE drain_lost /\ UNCHANGED wpc
   BY <1>0, <1>f, <2>0, <2>n, <2>12, <1>c DEF NoReaderStranded, ReaderControl
 <2>13. CASE eof_closes BY <1>0, <1>f, <2>0, <2>n, <2>13 DEF NoReaderStranded, ReaderControl
 <2> QED BY <1>4, <2>1, <2>2, <2>3, <2>4, <2>5, <2>6, <2>7, <2>8, <2>9, <2>10, <2>11, <2>12,
     <2>13 DEF DrainStep, DrainMove
<1>5. CASE AppStep
 <2>0. UNCHANGED <<rpc, palloc>> BY <1>5, AppFrame
 <2>n. ~dnotify BY <1>5 DEF AppStep, AppMay
 <2>1. CASE pause_reading BY <1>0, <1>f, <2>0, <2>n, <2>1 DEF NoReaderStranded, ReaderControl
 <2>2. CASE resume_reading BY <1>0, <1>f, <2>0, <2>n, <2>2 DEF NoReaderStranded, ReaderControl
 <2>3. CASE reclaim BY <1>0, <1>f, <2>0, <2>n, <2>3 DEF NoReaderStranded, ReaderControl
 <2>4. CASE consume BY <1>0, <1>f, <2>0, <2>n, <2>4 DEF NoReaderStranded, ReaderControl
 <2>5. CASE close_transport BY <1>0, <1>f, <2>0, <2>n, <2>5 DEF NoReaderStranded, ReaderControl
 <2> QED BY <1>5, <2>1, <2>2, <2>3, <2>4, <2>5 DEF AppStep
<1>6. CASE notify_all_send \/ write_fails \/ peer_closes
 <2>0. UNCHANGED <<rpc, rparked, rreading, rclosing, pfree, palloc, pclosed>> BY <1>6, OtherFrame
 <2>1. CASE notify_all_send BY <1>0, <1>f, <2>0, <2>1 DEF NoReaderStranded, ReaderControl
 <2>2. CASE write_fails BY <1>0, <1>f, <2>0, <2>2 DEF NoReaderStranded, ReaderControl
 <2>3. CASE peer_closes BY <1>0, <1>f, <2>0, <2>3 DEF NoReaderStranded, ReaderControl
 <2> QED BY <1>6, <2>1, <2>2, <2>3
<1> QED BY <1>1, <1>2, <1>3, <1>4, <1>5, <1>6 DEF ReadNext, ReaderStep

-----------------------------------------------------------------------------
(* How the backlog changes.                                                *)

LEMMA BacklogPushed ==
    ASSUME ReadInv, NEW e \in ReadEvents, rqueue' = Append(rqueue, e), rdrained' = rdrained
    PROVE  Backlog' = Append(Backlog, e)
<1>1. rqueue \in Seq(ReadEvents) /\ rdrained \in Seq(ReadEvents)
  BY DEF ReadInv, ReadTypes, ReadQueues
<1>2. Backlog' = rdrained \o Append(rqueue, e) BY DEF Backlog
<1> QED BY <1>1, <1>2, PushBehind, Zenon DEF Backlog

LEMMA DrainedType ==
    ASSUME ReadInv
    PROVE  /\ rqueue \in Seq(ReadEvents) /\ rdrained \in Seq(ReadEvents)
           /\ rdrained # <<>> => /\ Backlog # <<>> /\ Head(Backlog) = Head(rdrained)
                                 /\ Tail(rdrained) \o rqueue = Tail(Backlog)
                                 /\ Tail(rdrained) \in Seq(ReadEvents)
                                 /\ Head(rdrained) \in ReadEvents
<1>1. rqueue \in Seq(ReadEvents) /\ rdrained \in Seq(ReadEvents)
  BY DEF ReadInv, ReadTypes, ReadQueues
<1>2. ASSUME rdrained # <<>>
      PROVE  /\ Backlog # <<>> /\ Head(Backlog) = Head(rdrained)
             /\ Tail(rdrained) \o rqueue = Tail(Backlog)
  BY <1>1, <1>2, TakeBefore DEF Backlog
<1>3. ASSUME rdrained # <<>>
      PROVE  Tail(rdrained) \in Seq(ReadEvents) /\ Head(rdrained) \in ReadEvents
  BY <1>1, <1>3, HeadTailProperties
<1> QED BY <1>1, <1>2, <1>3

\* With rest in hand, whether it is queued again or not.
LEMMA RestKept ==
    ASSUME ReadInv, NEW rest \in Seq(ReadEvents), NEW n, AfterData(rest, n)
    PROVE  Backlog' = rest \o rqueue
<1>1. rest \o rqueue \in Seq(ReadEvents) BY DrainedType, ConcatProperties
<1>2. <<>> \o (rest \o rqueue) = rest \o rqueue BY <1>1, ConcatEmptySeq
<1> QED BY <1>2 DEF Requeued, Backlog

LEMMA DataTaken ==
    ASSUME ReadInv, drain_data
    PROVE  /\ Backlog # <<>> /\ Head(Backlog) = Head(rdrained)
           /\ Head(Backlog).kind = "data" /\ Backlog' = Tail(Backlog)
<1>1. rdrained # <<>> /\ Head(rdrained).kind = "data" BY DEF NextIsData
<1>2. /\ Backlog # <<>> /\ Head(Backlog) = Head(rdrained)
      /\ Tail(rdrained) \o rqueue = Tail(Backlog) /\ Tail(rdrained) \in Seq(ReadEvents)
  BY <1>1, DrainedType, Zenon
<1> DEFINE b == Head(rdrained).byte
<1>3. Backlog' = Tail(rdrained) \o rqueue
 <2>1. CASE AfterData(Tail(rdrained), dcount + 1) BY <1>2, <2>1, RestKept
 <2>2. CASE DataHeld(b) BY <2>2 DEF Backlog
 <2>3. CASE FeedRaises BY <2>3 DEF Backlog
 <2> QED BY <2>1, <2>2, <2>3
<1> QED BY <1>1, <1>2, <1>3, Zenon

LEMMA FeedKeeps ==
    ASSUME ReadInv, drain_feed
    PROVE  Backlog' = Backlog
  BY DrainedType, RestKept DEF Backlog

LEMMA OtherTaken ==
    ASSUME ReadInv, drain_other
    PROVE  /\ rdrained = <<>> => Backlog' = Backlog
           /\ rdrained # <<>> => /\ Backlog # <<>> /\ Head(Backlog) = Head(rdrained)
                                 /\ Head(Backlog).kind # "data" /\ Backlog' = Tail(Backlog)
<1>1. ASSUME rdrained = <<>> PROVE Backlog' = Backlog BY <1>1 DEF Backlog
<1>2. ASSUME rdrained # <<>>
      PROVE  /\ Backlog # <<>> /\ Head(Backlog) = Head(rdrained)
             /\ Head(Backlog).kind # "data" /\ Backlog' = Tail(Backlog)
 <2>1. Backlog' = Tail(rdrained) \o rqueue /\ Head(rdrained).kind # "data"
   BY <1>2 DEF NextIsData, Backlog
 <2> QED BY <1>2, <2>1, DrainedType, Zenon
<1> QED BY <1>1, <1>2

LEMMA SwapKeeps ==
    ASSUME ReadInv, drain_swap
    PROVE  /\ ~rlost => Backlog' = Backlog
           /\ \A k : KindCount(Backlog', k) = KindCount(Backlog, k)
<1>1. rqueue \in Seq(ReadEvents) /\ rdrained \in Seq(ReadEvents) BY DrainedType
<1>2. CASE rqueue = <<>> BY <1>2 DEF Backlog
<1>3. CASE rqueue # <<>>
 <2>1. Backlog' = rqueue \o rdrained BY <1>3, Zenon DEF Backlog
 <2>2. ~rlost => rdrained = <<>> BY DEF ReadInv, DrainsLeft
 <2>3. rqueue \o <<>> = rqueue /\ <<>> \o rqueue = rqueue BY <1>1, ConcatEmptySeq
 <2>4. ASSUME NEW k PROVE KindCount(Backlog', k) = KindCount(Backlog, k)
  <3>1. KindCount(rqueue \o rdrained, k) = KindCount(rqueue, k) + KindCount(rdrained, k)
    BY <1>1, KindConcat
  <3>2. KindCount(rdrained \o rqueue, k) = KindCount(rdrained, k) + KindCount(rqueue, k)
    BY <1>1, KindConcat
  <3>3. KindCount(rqueue, k) \in Nat /\ KindCount(rdrained, k) \in Nat BY <1>1, KindType
  <3> QED BY <2>1, <3>1, <3>2, <3>3 DEF Backlog
 <2>5. ~rlost => Backlog' = Backlog BY <2>1, <2>2, <2>3 DEF Backlog
 <2> QED BY <2>4, <2>5
<1> QED BY <1>2, <1>3

\* The other steps of the loop leave it.
LEMMA DrainRests ==
    ASSUME drain_start \/ flush_called \/ flush_raises \/ flush_nothing \/ callback_returns
           \/ eof_keeps \/ eof_raises \/ drain_lost \/ eof_closes
    PROVE  UNCHANGED <<rqueue, rdrained, rbytes, Backlog>>
<1>1. UNCHANGED <<rqueue, rdrained, rbytes>> OBVIOUS
<1> QED BY <1>1 DEF Backlog

LEMMA BacklogNext ==
    ASSUME ReadInv, ReadNext
    PROVE  Backlog' \in Seq(ReadEvents)
<1>1. rqueue' \in Seq(ReadEvents) /\ rdrained' \in Seq(ReadEvents) BY ReadQueuesKept DEF ReadQueues
<1> QED BY <1>1, ConcatProperties DEF Backlog

-----------------------------------------------------------------------------
(* The end of the stream is in one place.                                  *)

LEMMA EofType ==
    ASSUME ReadInv
    PROVE  KindCount(Backlog, "eof") \in Nat /\ eofs \in Nat /\ EofCount \in Nat
<1>1. KindCount(Backlog, "eof") \in Nat BY BacklogType, KindType
<1>2. eofs \in Nat BY DEF ReadInv, ReadTypes, ReadCounts
<1> QED BY <1>1, <1>2 DEF EofCount

\* The drain hands the end on, or loses it with the connection.
LEMMA EofFlows ==
    ASSUME ReadInv, DrainStep
    PROVE  EofCount' \in Nat /\ EofCount' <= EofCount
<1> DEFINE c == KindCount(Backlog, "eof")
           h == IF EofHere THEN 1 ELSE 0
<1>0. c \in Nat /\ eofs \in Nat /\ h \in Nat /\ (EofHere => h = 1) /\ (~EofHere => h = 0) BY EofType
<1>1. (EofHere' => h' = 1) /\ (~EofHere' => h' = 0) OBVIOUS
<1>2. EofCount = c + h + eofs /\ EofCount' = c' + h' + eofs' BY DEF EofCount
<1>t. DrainControl /\ ReadPoints BY DEF ReadInv, ReadTypes
<1> HIDE DEF c, h
<1>3. CASE drain_start \/ flush_called \/ flush_raises \/ flush_nothing \/ callback_returns
           \/ drain_lost
 <2>1. c' = c BY <1>3, DrainRests DEF c
 <2>2. eofs' = eofs BY <1>3
 <2>3. EofHere' => EofHere BY <1>3, <1>t DEF EofHere, DrainControl, InCallback
 <2> QED BY <1>0, <1>1, <1>2, <2>1, <2>2, <2>3
<1>4. CASE eof_keeps \/ eof_raises \/ eof_closes
 <2>1. c' = c BY <1>4, DrainRests DEF c
 <2>2. eofs' = eofs + 1 BY <1>4
 <2>3. EofHere /\ ~EofHere' BY <1>4 DEF EofHere
 <2> QED BY <1>0, <1>1, <1>2, <2>1, <2>2, <2>3
<1>5. CASE drain_swap
 <2>1. c' = c BY <1>5, SwapKeeps DEF c
 <2>2. eofs' = eofs /\ (EofHere' => EofHere) BY <1>5 DEF EofHere
 <2> QED BY <1>0, <1>1, <1>2, <2>1, <2>2
<1>6. CASE drain_data
 <2>1. c' = c BY <1>6, DataTaken, BacklogType, KindTailOther DEF c
 <2>2. eofs' = eofs /\ ~EofHere' BY <1>6, <1>t DEF EofHere, DrainControl, InCallback
 <2> QED BY <1>0, <1>1, <1>2, <2>1, <2>2
<1>7. CASE drain_feed
 <2>1. c' = c BY <1>7, FeedKeeps DEF c
 <2>2. eofs' = eofs /\ ~EofHere' BY <1>7, <1>t DEF EofHere, DrainControl, InCallback
 <2> QED BY <1>0, <1>1, <1>2, <2>1, <2>2
<1>8. CASE drain_other
 <2>0. eofs' = eofs /\ ~EofHere BY <1>8, <1>t, Zenon DEF EofHere, DrainControl, InCallback
 <2>1. CASE rdrained = <<>>
  <3>1. c' = c BY <1>8, <2>1, OtherTaken DEF c
  <3>2. ~EofHere' BY <1>8, <1>t, <2>1 DEF EofHere, DrainControl, InCallback
  <3> QED BY <1>0, <1>1, <1>2, <2>0, <3>1, <3>2
 <2>2. CASE rdrained # <<>>
  <3>1. c = c' + IF Head(Backlog).kind = "eof" THEN 1 ELSE 0
    BY <1>8, <2>2, OtherTaken, BacklogType, KindTail DEF c
  <3>2. c' \in Nat BY <1>8, <2>2, OtherTaken, BacklogType, HeadTailProperties, KindType DEF c
  <3>3. EofHere' => Head(Backlog).kind = "eof"
   <4>1. Head(Backlog) = Head(rdrained) BY <1>8, <2>2, OtherTaken
   <4> QED BY <1>8, <1>t, <2>2, <4>1 DEF EofHere, DrainControl, InCallback
  <3> QED BY <1>0, <1>1, <1>2, <2>0, <3>1, <3>2, <3>3
 <2> QED BY <2>1, <2>2
<1> QED BY <1>3, <1>4, <1>5, <1>6, <1>7, <1>8 DEF DrainStep, DrainMove

\* The event the reader ends with.
LEMMA EofStays ==
    ASSUME ReadInv, rstate' = rstate \/ rstate' = "lost", EofCount' \in Nat, EofCount' <= EofCount,
           rev.kind = "eof" /\ rpc # "enqueue" => rev' = rev /\ rpc' # "enqueue"
    PROVE  EofOnce'
<1>1. EofCount \in Nat BY EofType
<1>2. EofCount > 0 \/ rstate = "eof" => rev.kind = "eof" /\ rpc # "enqueue" BY DEF ReadInv, EofOnce
<1>3. EofCount <= IF rstate = "open" THEN 0 ELSE 1 BY DEF ReadInv, EofOnce
<1>4. EofCount' <= IF rstate' = "open" THEN 0 ELSE 1 BY <1>1, <1>3
<1>5. EofCount' > 0 \/ rstate' = "eof" => EofCount > 0 \/ rstate = "eof" BY <1>1
<1> QED BY <1>2, <1>4, <1>5, Zenon DEF EofOnce

LEMMA EofOnceKept ==
    ASSUME ReadInv, ReadNext
    PROVE  EofOnce'
<1>e. EofCount \in Nat BY EofType
<1>q. UNCHANGED <<rqueue, rdrained, dpc, dafter, eofs>> => EofCount' = EofCount
  BY DEF EofCount, Backlog, EofHere
<1>1. CASE AcquireStep \/ ReaderMove \/ read_fails
 <2>1. EofCount' = EofCount /\ rstate' = rstate BY <1>1, <1>q, ReaderFrame
 <2>2. rpc \notin {"enqueue", "schedule", "done"} BY <1>1 DEF AcquireStep, ReaderMove
 <2>3. rev.kind # "eof" BY <2>2 DEF ReadInv, ReaderControl
 <2> QED BY <1>e, <2>1, <2>3, EofStays
<1>2. CASE EnqueueStep
 <2>0. UNCHANGED <<rdrained, dpc, dafter, eofs, rev>> BY <1>2, EnqueueFrame DEF ReadInv, ReadTypes
 <2>1. CASE EventPushed
  <3>1. rev \in ReadEvents /\ rpc = "enqueue" BY <2>1, EventAtHand DEF EventPushed
  <3>2. rqueue' = Append(rqueue, rev) /\ rpc' = "schedule" BY <2>1 DEF EventPushed
  <3>3. Backlog' = Append(Backlog, rev) BY <2>0, <3>1, <3>2, BacklogPushed
  <3>4. KindCount(Backlog, "eof")' = KindCount(Backlog, "eof") + IF rev.kind = "eof" THEN 1 ELSE 0
    BY <3>1, <3>3, BacklogType, KindAppend
  <3>5. EofHere' <=> EofHere BY <2>0 DEF EofHere
  <3>6. EofCount' = EofCount + IF rev.kind = "eof" THEN 1 ELSE 0
    <4> DEFINE c == KindCount(Backlog, "eof")
               h == IF EofHere THEN 1 ELSE 0
   <4>1. c \in Nat /\ eofs \in Nat /\ h \in Nat BY EofType
   <4>2. h' = h BY <3>5
   <4>3. EofCount = c + h + eofs /\ EofCount' = c' + h' + eofs' BY DEF EofCount
   <4> HIDE DEF c, h
   <4>4. c' = c + IF rev.kind = "eof" THEN 1 ELSE 0 BY <3>4 DEF c
   <4> QED BY <2>0, <4>1, <4>2, <4>3, <4>4
  <3>7. EofCount = 0 /\ rstate # "eof" BY <1>e, <3>1 DEF ReadInv, EofOnce
  <3>8. CASE rev.kind = "eof"
   <4>1. EofCount' = 1 /\ rstate' = "eof" BY <2>1, <3>6, <3>7, <3>8 DEF EventPushed
   <4> QED BY <2>0, <3>2, <3>8, <4>1 DEF EofOnce
  <3>9. CASE rev.kind # "eof"
   <4>1. EofCount' = 0 BY <3>6, <3>7, <3>9
   <4>2. rstate' # "eof" BY <2>1, <3>7, <3>9 DEF EventPushed
   <4> QED BY <4>1, <4>2 DEF EofOnce
  <3> QED BY <3>8, <3>9
 <2>2. CASE EventRefused
  <3>1. EofCount' = EofCount /\ rstate' = rstate /\ rpc = "enqueue"
    BY <1>q, <2>0, <2>2 DEF EventRefused
  <3> QED BY <1>e, <3>1, EofStays
 <2>3. CASE reader_schedule
  <3>1. EofCount' = EofCount /\ rstate' = rstate BY <1>q, <2>0, <2>3
  <3>2. rpc' # "enqueue" BY <2>3 DEF ReadInv, ReadTypes, ReadPoints
  <3> QED BY <1>e, <2>0, <3>1, <3>2, EofStays
 <2> QED BY <1>2, <2>1, <2>2, <2>3, EnqueueCases
<1>3. CASE WriterStep
 <2>0. UNCHANGED <<rdrained, dpc, dafter, eofs, rev, rpc>> BY <1>3, WriterFrame
 <2>1. EofCount' = EofCount
  <3>1. CASE UNCHANGED rqueue BY <1>q, <2>0, <3>1
  <3>2. CASE rqueue' = Append(rqueue, REvent("lost", 0))
   <4>1. REvent("lost", 0) \in ReadEvents /\ REvent("lost", 0).kind = "lost" BY DEF ReadEvents
   <4>2. Backlog' = Append(Backlog, REvent("lost", 0)) BY <2>0, <3>2, <4>1, BacklogPushed
   <4>3. KindCount(Backlog, "eof")' = KindCount(Backlog, "eof")
    <5>1. KindCount(Append(Backlog, REvent("lost", 0)), "eof")
              = KindCount(Backlog, "eof") + IF REvent("lost", 0).kind = "eof" THEN 1 ELSE 0
      BY <4>1, BacklogType, KindAppend
    <5> QED BY <4>1, <4>2, <5>1, EofType
   <4> QED BY <2>0, <4>3 DEF EofCount, EofHere
  <3> QED BY <1>3, <3>1, <3>2 DEF WriterStep
 <2>2. rstate' = rstate \/ rstate' = "lost" BY <1>3 DEF WriterStep
 <2> QED BY <1>e, <2>0, <2>1, <2>2, EofStays
<1>4. CASE DrainStep
 <2>1. UNCHANGED <<rev, rpc, rstate>> BY <1>4, DrainFrame
 <2> QED BY <1>4, <2>1, EofFlows, EofStays
<1>5. CASE AppStep
 <2>1. EofCount' = EofCount /\ UNCHANGED <<rev, rpc, rstate>> BY <1>5, <1>q, AppFrame, Zenon
 <2> QED BY <1>e, <2>1, EofStays
<1>6. CASE notify_all_send \/ write_fails \/ peer_closes
 <2>1. EofCount' = EofCount /\ UNCHANGED <<rev, rpc, rstate>> BY <1>6, <1>q, OtherFrame
 <2> QED BY <1>e, <2>1, EofStays
<1> QED BY <1>1, <1>2, <1>3, <1>4, <1>5, <1>6 DEF ReadNext, ReaderStep

-----------------------------------------------------------------------------
(* Slots.                                                                  *)

Exact == rpc # "done" /\ rev.kind \notin {"eof", "lost"} /\ ~rlost

\* The reader's own steps: a buffer comes with a slot, and is given up only at the end.
LEMMA ReaderBuffer ==
    ASSUME ReadInv, AcquireStep \/ ReaderMove \/ read_fails
    PROVE  /\ Exact' => Exact
           /\ \/ /\ ~HasBuffer /\ HasBuffer' /\ palloc' \in Nat /\ pfree' \in Nat
                 /\ palloc' - pfree' = palloc - pfree + 1 /\ palloc' <= PoolLimit
              \/ /\ UNCHANGED <<palloc, pfree>> /\ (HasBuffer' => HasBuffer)
                 /\ Exact' => (HasBuffer' <=> HasBuffer)
<1>0. /\ ReaderControl /\ ReadPoints /\ palloc \in Nat /\ pfree \in Nat /\ palloc <= PoolLimit
      /\ PoolLimit \in Nat
  BY ReadAssumption DEF ReadInv, ReadTypes, ReadCounts, SlotsKept
<1>f. rlost' = rlost BY ReaderFrame
<1>1. CASE acquire_read_buffer
 <2>1. Exact' => Exact BY <1>0, <1>1, <1>f DEF Exact
 <2>2. CASE TakeSlot /\ RGoto(ract)
  <3>1. ~HasBuffer /\ HasBuffer' BY <1>0, <1>1, <2>2 DEF HasBuffer, ReadPoints
  <3>2. /\ palloc' \in Nat /\ pfree' \in Nat /\ palloc' - pfree' = palloc - pfree + 1
        /\ palloc' <= PoolLimit
    BY <1>0, <2>2
  <3> QED BY <2>1, <3>1, <3>2
 <2>3. CASE ~(TakeSlot /\ RGoto(ract))
  <3>1. UNCHANGED <<palloc, pfree>> /\ ~HasBuffer /\ ~HasBuffer' BY <1>0, <1>1, <2>3 DEF HasBuffer
  <3> QED BY <2>1, <3>1
 <2> QED BY <2>2, <2>3
<1>2. CASE wait_async_register \/ wait_async_recheck \/ wait_async_woken \/ wait_timeout
 <2>1. UNCHANGED <<palloc, pfree>> /\ ~HasBuffer /\ ~HasBuffer' BY <1>0, <1>2 DEF HasBuffer
 <2>2. Exact' => Exact BY <1>0, <1>2, <1>f DEF Exact
 <2> QED BY <2>1, <2>2
<1>3. CASE ReaderMove \/ read_fails
 <2>1. UNCHANGED <<palloc, pfree>> BY <1>3 DEF ReaderMove
 <2>2. rpc \notin {"enqueue", "schedule", "done"} BY <1>3 DEF ReaderMove
 <2>3. rev.kind \notin {"eof", "lost"} BY <1>0, <2>2 DEF ReaderControl
 <2>4. Exact' => Exact BY <1>f, <2>2, <2>3 DEF Exact
 <2>5. CASE reader_check \/ listen \/ listening \/ waiting \/ read_nothing \/ spun
   BY <2>1, <2>4, <2>5 DEF HasBuffer, Exact
 <2>6. CASE read_some \/ read_fails BY <2>1, <2>4, <2>6 DEF HasBuffer, Exact
 <2>7. CASE reader_stopped BY <2>1, <2>4, <2>7 DEF HasBuffer, Exact
 <2> QED BY <1>3, <2>5, <2>6, <2>7 DEF ReaderMove
<1> QED BY <1>1, <1>2, <1>3 DEF AcquireStep

\* coalesce: one slot is kept for the data that are joined.
LEMMA CoalesceSlots ==
    ASSUME ReadInv, NEW b, coalesce(b)
    PROVE  /\ pfree' \in Nat
           /\ pfree' + (IF dpooled' THEN 1 ELSE 0) = pfree + (IF dpooled THEN 1 ELSE 0) + 1
           /\ UNCHANGED nslot
<1>0. dpooled \in BOOLEAN /\ pfree \in Nat /\ (dcoal = <<>> => ~dpooled)
  BY DEF ReadInv, ReadTypes, ReadFlags, ReadCounts, DrainControl
<1>1. CASE dcoal = <<>>
 <2>1. pfree' = pfree + 0 /\ dpooled' = TRUE /\ ~dpooled /\ UNCHANGED nslot BY <1>0, <1>1
 <2> QED BY <1>0, <2>1
<1>2. CASE dcoal # <<>>
 <2>1. /\ pfree' = pfree + (IF dpooled THEN 2 ELSE 1) /\ dpooled' = FALSE
       /\ UNCHANGED nslot
   BY <1>2
 <2>2. CASE dpooled BY <1>0, <2>1, <2>2
 <2>3. CASE ~dpooled BY <1>0, <2>1, <2>3
 <2> QED BY <2>2, <2>3
<1> QED BY <1>1, <1>2

LEMMA SlotsKeptStep ==
    ASSUME ReadInv, ReadNext
    PROVE  SlotsKept'
<1> DEFINE B == IF HasBuffer THEN 1 ELSE 0
           K == KindCount(Backlog, "data")
           C == Current
           P == IF dpooled THEN 1 ELSE 0
           S == IF nslot THEN 1 ELSE 0
           Bn == IF HasBuffer' THEN 1 ELSE 0
           Kn == KindCount(Backlog', "data")
           Cn == Current'
           Pn == IF dpooled' THEN 1 ELSE 0
           Sn == IF nslot' THEN 1 ELSE 0
<1>t. /\ ReadPoints /\ ReadFlags /\ ReadQueues /\ DrainControl /\ ReaderControl
      /\ pfree \in Nat /\ palloc \in Nat /\ PoolLimit \in Nat /\ nunread \in Nat
  BY ReadAssumption DEF ReadInv, ReadTypes, ReadCounts
<1>a. pfree \in Nat /\ palloc \in Nat /\ PoolLimit \in Nat BY <1>t
<1>n. B \in Nat /\ K \in Nat /\ C \in Nat /\ P \in Nat /\ S \in Nat
  BY BacklogType, KindType DEF Current
<1>m. Kn \in Nat BY BacklogNext, KindType
<1>o. Bn \in Nat /\ Cn \in Nat /\ Pn \in Nat /\ Sn \in Nat BY DEF Current
<1>u. SlotsInUse = B + K + C + P + S /\ SlotsInUse' = Bn + Kn + Cn + Pn + Sn BY DEF SlotsInUse
<1>i. /\ pfree <= palloc /\ palloc <= PoolLimit /\ ~rbackp /\ rbytes = K
      /\ B + K + C + P + S <= palloc - pfree
      /\ Exact => palloc - pfree = B + K + C + P + S
  BY <1>u DEF ReadInv, SlotsKept, Exact
<1>b. (HasBuffer => B = 1) /\ (~HasBuffer => B = 0) OBVIOUS
<1>d. (HasBuffer' => Bn = 1) /\ (~HasBuffer' => Bn = 0) OBVIOUS
<1>p. (dpooled => P = 1) /\ (~dpooled => P = 0) OBVIOUS
<1>r. UNCHANGED <<rpc, rev>> => Bn = B BY DEF HasBuffer
<1>v. UNCHANGED <<rqueue, rdrained>> => Kn = K BY DEF Backlog
<1>w. (UNCHANGED dcur => Cn = C) /\ (dcur' = 0 => Cn = 0) /\ (dcur' # 0 => Cn = 1)
      /\ (dcur = 0 => C = 0) /\ (dcur # 0 => C = 1)
  BY DEF Current
<1>y. (UNCHANGED dpooled => Pn = P) /\ (UNCHANGED nslot => Sn = S)
      /\ (dpooled' = FALSE => Pn = 0) /\ (nslot' = FALSE => Sn = 0) /\ (nslot' = TRUE => Sn = 1)
  OBVIOUS
<1>z. (nslot => S = 1) /\ (~nslot => S = 0) OBVIOUS
<1> HIDE DEF B, K, C, P, S, Bn, Kn, Cn, Pn, Sn
<1>q. SUFFICES /\ pfree' <= palloc' /\ palloc' <= PoolLimit /\ ~rbackp' /\ rbytes' = Kn
               /\ Bn + Kn + Cn + Pn + Sn <= palloc' - pfree'
               /\ Exact' => palloc' - pfree' = Bn + Kn + Cn + Pn + Sn
  BY <1>u DEF SlotsKept, Exact, Kn
<1> DEFINE U == B + K + C + P + S
           G == palloc - pfree
           Un == Bn + Kn + Cn + Pn + Sn
           Fn == pfree'
           An == palloc'
           Gn == An - Fn
<1>f. U \in Nat BY <1>n
<1>g. Un \in Nat BY <1>m, <1>o
<1>k. ASSUME Fn \in Nat, An \in Nat, An <= PoolLimit, ~rbackp', rbytes' = Kn,
             Exact' => Exact, Gn - G = Un - U
      PROVE  /\ pfree' <= palloc' /\ palloc' <= PoolLimit /\ ~rbackp' /\ rbytes' = Kn
             /\ Bn + Kn + Cn + Pn + Sn <= palloc' - pfree'
             /\ Exact' => palloc' - pfree' = Bn + Kn + Cn + Pn + Sn
 <2> HIDE DEF Fn, An
 <2>a. G \in Int BY <1>a
 <2>b. Gn \in Int BY <1>k
 <2>1. U \in Nat /\ Un \in Nat /\ G \in Int /\ Gn \in Int BY <1>f, <1>g, <2>a, <2>b
 <2>2. U <= G /\ (Exact => G = U) BY <1>i
 <2> HIDE DEF U, G, Un, Gn
 <2>3. Un <= Gn /\ (Exact' => Gn = Un) BY <1>k, <2>1, <2>2
 <2>4. Bn + Kn + Cn + Pn + Sn <= An - Fn
       /\ (Exact' => An - Fn = Bn + Kn + Cn + Pn + Sn)
   BY <2>3 DEF Un, Gn
 <2>5. 0 <= An - Fn BY <2>1, <2>3 DEF Gn
 <2>6. Fn <= An BY <1>k, <2>5
 <2> QED BY <1>k, <2>4, <2>6 DEF An, Fn
<1>1. CASE AcquireStep \/ ReaderMove \/ read_fails
 <2>0. UNCHANGED <<rbytes, rbackp>> /\ Kn = K /\ Cn = C /\ Pn = P /\ Sn = S
   BY <1>1, <1>v, <1>w, <1>y, ReaderFrame
 <2>1. Exact' => Exact BY <1>1, ReaderBuffer
 <2>2. CASE /\ ~HasBuffer /\ HasBuffer' /\ palloc' \in Nat /\ pfree' \in Nat
            /\ palloc' - pfree' = palloc - pfree + 1 /\ palloc' <= PoolLimit
  <3>1. B = 0 /\ Bn = 1 BY <1>b, <1>d, <2>2
  <3>4. Un - U = 1 BY <1>n, <2>0, <3>1
  <3>5. Gn - G = 1
   <4>1. An \in Nat /\ Fn \in Nat /\ An - Fn = palloc - pfree + 1 BY <2>2
   <4> HIDE DEF An, Fn
   <4> QED BY <1>a, <4>1
  <3>2. Gn - G = Un - U BY <3>4, <3>5
  <3>3. rbytes' = Kn /\ ~rbackp' BY <1>i, <2>0
  <3> QED BY <1>k, <2>1, <2>2, <3>2, <3>3
 <2>3. CASE /\ UNCHANGED <<palloc, pfree>> /\ (HasBuffer' => HasBuffer)
            /\ Exact' => (HasBuffer' <=> HasBuffer)
  <3>1. Bn <= B /\ (Exact' => Bn = B) BY <1>n, <1>o, <1>b, <1>d, <2>3
  <3>6. Un <= U /\ (Exact' => Un = U) BY <1>n, <1>o, <2>0, <3>1
  <3>7. Gn = G /\ G \in Int BY <1>a, <2>3
  <3>2. Un \in Nat /\ U \in Nat /\ Un <= U /\ (Exact' => Un = U) /\ Gn = G /\ G \in Int
    BY <1>f, <1>g, <3>6, <3>7
  <3>3. U <= G /\ (Exact => G = U) BY <1>i
  <3>4. rbytes' = Kn /\ ~rbackp' /\ pfree' <= palloc' /\ palloc' <= PoolLimit BY <1>i, <2>0, <2>3
  <3> HIDE DEF U, G, Un, Gn
  <3>5. Un <= Gn /\ (Exact' => Gn = Un) BY <2>1, <3>2, <3>3
  <3> QED BY <3>4, <3>5 DEF Un, Gn
 <2> QED BY <1>1, <2>2, <2>3, ReaderBuffer
<1>2. CASE EnqueueStep
 <2>0. UNCHANGED <<rbackp, palloc, rdrained, rlost, rev>> /\ Cn = C /\ Pn = P /\ Sn = S
   BY <1>2, <1>w, <1>y, EnqueueFrame DEF ReadInv, ReadTypes
 <2>x. rpc # "done" => (Exact' => Exact) BY <2>0 DEF Exact
 <2>1. CASE EventPushed
  <3>0. /\ rpc = "enqueue" /\ rpc' = "schedule" /\ pfree' = pfree
        /\ rqueue' = Append(rqueue, rev)
        /\ rbytes' = rbytes + IF rev.kind = "data" THEN 1 ELSE 0
    BY <2>1 DEF EventPushed
  <3>1. rev \in ReadEvents BY <3>0, EventAtHand
  <3>2. Backlog' = Append(Backlog, rev) BY <2>0, <3>0, <3>1, BacklogPushed
  <3>3. Kn = K + IF rev.kind = "data" THEN 1 ELSE 0
    BY <3>1, <3>2, BacklogType, KindAppend DEF K, Kn
  <3>4. Bn = 0 /\ B = IF rev.kind = "data" THEN 1 ELSE 0 BY <3>0, <1>b, <1>d DEF HasBuffer
  <3> QED BY <1>a, <1>n, <1>i, <2>0, <2>x, <3>0, <3>3, <3>4
 <2>2. CASE EventRefused
  <3>0. /\ rpc = "enqueue" /\ rpc' = rafter
        /\ pfree' = pfree + IF rev.kind = "data" THEN 1 ELSE 0
        /\ rbytes' = rbytes /\ rqueue' = rqueue
    BY <2>2 DEF EventRefused
  <3>1. Bn = 0 /\ B = IF rev.kind = "data" THEN 1 ELSE 0
    BY <3>0, <1>b, <1>d, <1>t DEF HasBuffer, ReadPoints
  <3>2. Kn = K BY <1>v, <2>0, <3>0
  <3> QED BY <1>a, <1>n, <1>i, <2>0, <2>x, <3>0, <3>1, <3>2
 <2>3. CASE reader_schedule
  <3>0. rpc = "schedule" /\ rpc' = rafter /\ UNCHANGED <<pfree, rbytes, rqueue>> BY <2>3
  <3>1. Bn = 0 /\ B = 0 BY <3>0, <1>b, <1>d, <1>t DEF HasBuffer, ReadPoints
  <3>2. Kn = K BY <1>v, <2>0, <3>0
  <3> QED BY <1>a, <1>n, <1>i, <2>0, <2>x, <3>0, <3>1, <3>2
 <2> QED BY <1>2, <2>1, <2>2, <2>3, EnqueueCases
<1>3. CASE WriterStep
 <2>0. /\ UNCHANGED <<rbackp, palloc, pfree, rdrained, rlost, rpc, rev>>
       /\ Bn = B /\ Cn = C /\ Pn = P /\ Sn = S
   BY <1>3, <1>r, <1>w, <1>y, WriterFrame
 <2>x. Exact' => Exact BY <2>0 DEF Exact
 <2>1. CASE UNCHANGED <<rqueue, rbytes>>
  <3>1. Kn = K BY <1>v, <2>0, <2>1
  <3> QED BY <1>a, <1>n, <1>i, <2>0, <2>x, <2>1, <3>1
 <2>2. CASE rqueue' = Append(rqueue, REvent("lost", 0)) /\ rbytes' = rbytes + 0
  <3>1. REvent("lost", 0) \in ReadEvents /\ REvent("lost", 0).kind = "lost" BY DEF ReadEvents
  <3>2. Backlog' = Append(Backlog, REvent("lost", 0)) BY <2>0, <2>2, <3>1, BacklogPushed
  <3>3. Kn = K + IF REvent("lost", 0).kind = "data" THEN 1 ELSE 0
    BY <3>1, <3>2, BacklogType, KindAppend DEF K, Kn
  <3>4. Kn = K BY <1>n, <3>1, <3>3
  <3> QED BY <1>a, <1>n, <1>i, <2>0, <2>x, <2>2, <3>4
 <2> QED BY <1>3, <2>1, <2>2 DEF WriterStep
<1>4. CASE DrainStep
 <2>0. UNCHANGED <<rpc, rev, palloc>> /\ Bn = B BY <1>4, <1>r, DrainFrame
 <2>x. UNCHANGED rlost => (Exact' => Exact) BY <2>0 DEF Exact
 <2>l. rlost' = TRUE => ~Exact' BY DEF Exact
 <2>1. CASE drain_start \/ callback_returns \/ eof_keeps
  <3>1. Kn = K /\ rbytes' = rbytes BY <1>v, <2>1, DrainRests
  <3>2. UNCHANGED <<pfree, rbackp, rlost, dcur, dpooled, nslot>> BY <2>1
  <3>3. Cn = C /\ Pn = P /\ Sn = S BY <1>w, <1>y, <3>2
  <3> QED BY <1>a, <1>n, <1>i, <2>0, <2>x, <3>1, <3>2, <3>3
 <2>2. CASE drain_swap
  <3>1. Kn = K BY <2>2, SwapKeeps DEF K, Kn
  <3>2. UNCHANGED <<pfree, rbackp, rlost, dcur, dpooled, nslot, rbytes>> BY <2>2
  <3>3. Cn = C /\ Pn = P /\ Sn = S BY <1>w, <1>y, <3>2
  <3> QED BY <1>a, <1>n, <1>i, <2>0, <2>x, <3>1, <3>2, <3>3
 <2>3. CASE eof_raises \/ drain_lost \/ eof_closes
  <3>1. Kn = K /\ rbytes' = rbytes BY <1>v, <2>3, DrainRests
  <3>2. UNCHANGED <<pfree, rbackp, dpooled, nslot>> /\ rlost' = TRUE /\ dcur' = 0
    BY <2>3 DEF ConnectionLostOnce
  <3>3. Cn = 0 /\ Pn = P /\ Sn = S BY <1>w, <1>y, <3>2
  <3> QED BY <1>a, <1>n, <1>i, <2>0, <2>l, <3>1, <3>2, <3>3
 <2>4. CASE flush_called \/ flush_nothing
  <3>1. Kn = K /\ rbytes' = rbytes BY <1>v, <2>4, DrainRests
  <3>2. UNCHANGED <<rbackp, rlost, dcur, nslot>> /\ dpooled' = FALSE BY <2>4
  <3>3. pfree' = pfree + P BY <2>4 DEF P
  <3>4. Cn = C /\ Pn = 0 /\ Sn = S BY <1>w, <1>y, <3>2
  <3> QED BY <1>a, <1>n, <1>i, <2>0, <2>x, <3>1, <3>2, <3>3, <3>4
 <2>5. CASE flush_raises
  <3>1. Kn = K /\ rbytes' = rbytes BY <1>v, <2>5, DrainRests
  <3>2. UNCHANGED <<rbackp, nslot>> /\ dpooled' = FALSE BY <2>5
  <3>3. pfree' = pfree + P BY <2>5 DEF P
  <3>4. Pn = 0 /\ Sn = S BY <1>y, <3>2
  <3>5. CASE dafter = "idle"
   <4>1. UNCHANGED <<rlost, dcur>> BY <2>5, <3>5
   <4>2. Cn = C BY <1>w, <4>1
   <4> QED BY <1>a, <1>n, <1>i, <2>0, <2>x, <3>1, <3>2, <3>3, <3>4, <4>1, <4>2
  <3>6. CASE dafter # "idle"
   <4>1. rlost' = TRUE /\ dcur' = 0 BY <2>5, <3>6 DEF ConnectionLostOnce
   <4>2. Cn = 0 BY <1>w, <4>1
   <4> QED BY <1>a, <1>n, <1>i, <2>0, <2>l, <3>1, <3>2, <3>3, <3>4, <4>1, <4>2
  <3> QED BY <3>5, <3>6
 <2>6. CASE drain_data
  <3>1. rbytes' = rbytes - 1 /\ UNCHANGED <<rbackp, rlost>> BY <2>6, DrainedQuietly
  <3>3. Kn = K - 1 BY <2>6, DataTaken, BacklogType, KindTailSame DEF K, Kn
  <3> DEFINE b == Head(rdrained).byte
  <3>4. CASE DataFed(b)
   <4>1. UNCHANGED <<dcur, dpooled>> BY <3>4
   <4>2. Cn = C /\ Pn = P BY <1>w, <1>y, <4>1
   <4>3. CASE nunread = 0
    <5>1. pfree' = pfree + 0 /\ nslot' = TRUE /\ ~nslot
      BY <1>t, <3>4, <4>3 DEF DrainControl, ReadFlags
    <5>2. Sn = 1 /\ S = 0 BY <1>y, <1>z, <5>1
    <5> QED BY <1>a, <1>n, <1>i, <2>0, <2>x, <3>1, <3>3, <4>2, <5>1, <5>2
   <4>4. CASE nunread # 0
    <5>1. pfree' = pfree + 1 /\ nslot' = nslot BY <1>t, <3>4, <4>4 DEF ReadFlags
    <5>2. Sn = S BY <1>y, <5>1, Zenon
    <5>3. Gn - G = -1 /\ Un - U = -1 /\ pfree' \in Nat /\ palloc' \in Nat
      BY <1>a, <1>n, <2>0, <3>3, <4>2, <5>1, <5>2
    <5>4. rbytes' = Kn /\ ~rbackp' /\ palloc' <= PoolLimit /\ (Exact' => Exact)
      BY <1>i, <2>0, <2>x, <3>1, <3>3, Zenon
    <5> QED BY <1>k, <5>3, <5>4
   <4> QED BY <4>3, <4>4
  <3>5. CASE DataJoined(b)
   <4>1. coalesce(b) /\ UNCHANGED dcur BY <3>5
   <4>2. pfree' \in Nat /\ pfree' + Pn = pfree + P + 1 /\ UNCHANGED nslot
     BY <4>1, CoalesceSlots DEF P, Pn
   <4>3. Cn = C /\ Sn = S BY <1>w, <1>y, <4>1, <4>2
   <4>6. Un - U = Pn - P - 1 BY <1>n, <1>o, <2>0, <3>3, <4>3
   <4>7. Gn - G = pfree - pfree' /\ palloc' \in Nat BY <1>a, <2>0, <4>2
   <4>8. pfree - pfree' = Pn - P - 1
    <5>1. Fn \in Nat /\ Fn + Pn = pfree + P + 1 BY <4>2
    <5> HIDE DEF Fn
    <5>2. pfree - Fn = Pn - P - 1 BY <1>a, <1>n, <1>o, <5>1
    <5> QED BY <5>2 DEF Fn
   <4>4. Gn - G = Un - U /\ palloc' \in Nat BY <4>6, <4>7, <4>8
   <4>5. rbytes' = Kn /\ ~rbackp' /\ palloc' <= PoolLimit /\ (Exact' => Exact)
     BY <1>i, <2>0, <2>x, <3>1, <3>3
   <4> QED BY <1>k, <4>2, <4>4, <4>5, Zenon
  <3>6. CASE DataHeld(b)
   <4>1. UNCHANGED <<pfree, dpooled, nslot>> /\ dcur' = b BY <3>6
   <4>2. dcur = 0 BY <1>t, <2>6 DEF DrainControl, InCallback
   <4>3. b # 0 BY <2>6, DrainedType, EventFields DEF NextIsData
   <4>4. Cn = 1 /\ C = 0 /\ Pn = P /\ Sn = S BY <1>w, <1>y, <4>1, <4>2, <4>3
   <4> QED BY <1>a, <1>n, <1>i, <2>0, <2>x, <3>1, <3>3, <4>1, <4>4
  <3> QED BY <2>6, <3>4, <3>5, <3>6
 <2>7. CASE drain_feed
  <3>1. UNCHANGED <<rbytes, rbackp, rlost>> /\ dcur' = 0 /\ coalesce(dcur) BY <2>7
  <3>2. Kn = K BY <2>7, FeedKeeps DEF K, Kn
  <3>3. pfree' \in Nat /\ pfree' + Pn = pfree + P + 1 /\ UNCHANGED nslot
    BY <3>1, CoalesceSlots DEF P, Pn
  <3>4. dcur # 0 BY <1>t, <2>7 DEF DrainControl
  <3>5. Cn = 0 /\ C = 1 /\ Sn = S BY <1>w, <1>y, <3>1, <3>3, <3>4
  <3>8. Un - U = Pn - P - 1 BY <1>n, <1>o, <2>0, <3>2, <3>5
  <3>9. Gn - G = pfree - pfree' /\ palloc' \in Nat BY <1>a, <2>0, <3>3
  <3>10. pfree - pfree' = Pn - P - 1
   <4>1. Fn \in Nat /\ Fn + Pn = pfree + P + 1 BY <3>3
   <4> HIDE DEF Fn
   <4>2. pfree - Fn = Pn - P - 1 BY <1>a, <1>n, <1>o, <4>1
   <4> QED BY <4>2 DEF Fn
  <3>6. Gn - G = Un - U /\ palloc' \in Nat BY <3>8, <3>9, <3>10
  <3>7. rbytes' = Kn /\ ~rbackp' /\ palloc' <= PoolLimit /\ (Exact' => Exact)
    BY <1>i, <2>0, <2>x, <3>1, <3>2
  <3> QED BY <1>k, <3>3, <3>6, <3>7
 <2>8. CASE drain_other
  <3>1. UNCHANGED <<pfree, rbackp, rlost, dcur, dpooled, nslot, rbytes>> BY <2>8
  <3>2. Kn = K
   <4>1. CASE rdrained = <<>> BY <2>8, <4>1, OtherTaken DEF K, Kn
   <4>2. CASE rdrained # <<>> BY <2>8, <4>2, OtherTaken, BacklogType, KindTailOther DEF K, Kn
   <4> QED BY <4>1, <4>2
  <3>3. Cn = C /\ Pn = P /\ Sn = S BY <1>w, <1>y, <3>1
  <3> QED BY <1>a, <1>n, <1>i, <2>0, <2>x, <3>1, <3>2, <3>3
 <2> QED BY <1>4, <2>1, <2>2, <2>3, <2>4, <2>5, <2>6, <2>7, <2>8 DEF DrainStep, DrainMove
<1>5. CASE AppStep
 <2>0. UNCHANGED <<rpc, rev, palloc, rbytes, rbackp>> /\ Bn = B /\ Kn = K /\ Cn = C /\ Pn = P
   BY <1>5, <1>r, <1>v, <1>w, <1>y, AppFrame
 <2>x. Exact' => Exact BY <1>5, <2>0 DEF AppStep, ConnectionLostOnce, Exact
 <2>1. CASE consume
  <3>1. nslot' = FALSE /\ pfree' = pfree + S BY <2>1 DEF S
  <3>2. Sn = 0 BY <1>y, <3>1
  <3> QED BY <1>a, <1>n, <1>i, <2>0, <2>x, <3>1, <3>2
 <2>2. CASE ~consume
  <3>1. UNCHANGED <<pfree, nslot>> BY <1>5, <2>2 DEF AppStep
  <3>2. Sn = S BY <1>y, <3>1
  <3> QED BY <1>a, <1>n, <1>i, <2>0, <2>x, <3>1, <3>2
 <2> QED BY <2>1, <2>2
<1>6. CASE notify_all_send \/ write_fails \/ peer_closes
 <2>0. /\ UNCHANGED <<rpc, rev, rlost, palloc, pfree, rbytes, rbackp>>
       /\ Bn = B /\ Kn = K /\ Cn = C /\ Pn = P /\ Sn = S
   BY <1>6, <1>r, <1>v, <1>w, <1>y, OtherFrame
 <2>x. Exact' => Exact BY <2>0 DEF Exact
 <2> QED BY <1>a, <1>n, <1>i, <2>0, <2>x
<1> QED BY <1>1, <1>2, <1>3, <1>4, <1>5, <1>6 DEF ReadNext, ReaderStep

-----------------------------------------------------------------------------
(* The order of the data.                                                  *)

LEMMA AliveBefore ==
    ASSUME ReadInv, ReadNext
    PROVE  (rlost => rlost') /\ (rclosing => rclosing') /\ (Alive' => Alive)
<1>0. rproto' = rproto /\ ReadFlags BY DEF ReadNext, ReadInv, ReadTypes
<1> SUFFICES (rlost => rlost') /\ (rclosing => rclosing') BY <1>0 DEF Alive
<1>1. CASE AcquireStep \/ ReaderMove \/ read_fails BY <1>1, ReaderFrame
<1>2. CASE EnqueueStep BY <1>2, EnqueueFrame DEF ReadInv, ReadTypes
<1>3. CASE WriterStep BY <1>3, WriterFrame DEF WriterStep
<1>4. CASE DrainStep
 <2>1. CASE drain_start \/ drain_swap \/ drain_data \/ drain_feed \/ drain_other \/ flush_called
            \/ flush_nothing \/ callback_returns \/ eof_keeps
   BY <2>1
 <2>2. CASE flush_raises \/ eof_raises \/ drain_lost \/ eof_closes
   BY <1>0, <2>2 DEF ClosedByLoss, ConnectionLostOnce, ReadFlags
 <2> QED BY <1>4, <2>1, <2>2 DEF DrainStep, DrainMove
<1>5. CASE AppStep BY <1>5 DEF AppStep, ConnectionLostOnce
<1>6. CASE notify_all_send \/ write_fails \/ peer_closes BY <1>6, OtherFrame
<1> QED BY <1>1, <1>2, <1>3, <1>4, <1>5, <1>6 DEF ReadNext, ReaderStep

\* A loss out of the drain.
LEMMA LossEndsData ==
    ASSUME ReadInv, ReadNext, ConnectionLostOnce, ClosedByLoss \/ SetClosing
    PROVE  ~Alive'
<1>1. rclosing' = TRUE
 <2>1. CASE ClosedByLoss BY <2>1, LossCloses DEF ReadInv, ReadTypes
 <2>2. CASE SetClosing BY <2>2
 <2> QED BY <2>1, <2>2
<1> QED BY <1>1 DEF ConnectionLostOnce, Alive

\* A step that moves no data, or after which none is given.
LEMMA OrderStays ==
    ASSUME ReadInv, given' = given,
           Alive' => /\ Alive /\ Backlog' = Backlog /\ UNCHANGED <<dcoal, dcur, eofs, rstate>>
                     /\ (Ending' <=> Ending)
    PROVE  EndsOrdered' /\ BytesOrdered'
<1>1. RunsFrom(given', 0) BY DEF ReadInv, BytesOrdered
<1>2. CASE ~Alive' BY <1>1, <1>2 DEF EndsOrdered, BytesOrdered
<1>3. CASE Alive'
 <2>1. /\ Alive /\ Backlog' = Backlog /\ UNCHANGED <<dcoal, dcur, eofs, rstate>>
       /\ (Ending' <=> Ending)
   BY <1>3
 <2>2. Kept' = Kept BY <2>1 DEF Kept, Current
 <2>3. EndsOrdered /\ BytesOrdered BY DEF ReadInv
 <2>4. EndsOrdered' BY <1>3, <2>1, <2>3 DEF EndsOrdered
 <2>5. BytesOrdered' BY <1>1, <1>3, <2>1, <2>2, <2>3 DEF BytesOrdered
 <2> QED BY <2>4, <2>5
<1> QED BY <1>2, <1>3

\* An end is queued.
LEMMA EndPushed ==
    ASSUME ReadInv, NEW e \in ReadEvents, e.kind # "data", Backlog' = Append(Backlog, e),
           UNCHANGED <<dcoal, dcur, given, eofs, dpc, dafter>>, Alive' => Alive, rstate' # "open"
    PROVE  EndsOrdered' /\ BytesOrdered'
<1>0. Backlog \in Seq(ReadEvents) /\ Kept' = Kept /\ (Ending' <=> Ending)
  BY BacklogType DEF Kept, Current, Ending
<1>1. RunsFrom(given', 0) BY DEF ReadInv, BytesOrdered
<1>2. CASE ~Alive' BY <1>1, <1>2 DEF EndsOrdered, BytesOrdered
<1>3. CASE Alive'
 <2>1. /\ EndsLast(Backlog) /\ (Ending => NoData(Backlog) /\ dcur = 0)
       /\ (eofs > 0 => dcoal = <<>>)
   BY <1>3 DEF ReadInv, EndsOrdered
 <2>2. /\ RunsFrom(dcoal, Len(given)) /\ (dcur # 0 => dcur = Kept)
       /\ NumberedFrom(Backlog, Kept)
   BY <1>3 DEF ReadInv, BytesOrdered
 <2>3. Kept \in Nat BY LenProperties DEF Kept, Current, ReadInv, ReadTypes, ReadQueues
 <2>4. /\ EndsLast(Append(Backlog, e)) /\ (Ending => NoData(Append(Backlog, e)))
       /\ NumberedFrom(Append(Backlog, e), Kept)
   BY <1>0, <2>1, <2>2, <2>3, PushOrder
 <2>5. EndsOrdered' BY <1>0, <2>1, <2>4 DEF EndsOrdered
 <2>6. BytesOrdered' BY <1>0, <1>1, <2>2, <2>4 DEF BytesOrdered
 <2> QED BY <2>5, <2>6
<1> QED BY <1>2, <1>3

\* What is kept is a number.
LEMMA KeptType ==
    ASSUME ReadInv
    PROVE  Kept \in Nat /\ Len(given) \in Nat /\ Len(dcoal) \in Nat /\ Current \in {0, 1}
  BY LenProperties DEF Kept, Current, ReadInv, ReadTypes, ReadQueues

\* A byte is queued: the one after all that are kept.
LEMMA DataPushed ==
    ASSUME ReadInv, EventPushed, rev.kind = "data", rdrained' = rdrained,
           UNCHANGED <<dcoal, dcur, given, eofs, dpc, dafter>>, Alive' => Alive
    PROVE  EndsOrdered' /\ BytesOrdered'
<1>0. Backlog \in Seq(ReadEvents) /\ Kept' = Kept /\ (Ending' <=> Ending) /\ rev \in ReadEvents
  BY BacklogType, EventAtHand DEF Kept, Current, Ending, EventPushed
<1>1. RunsFrom(given', 0) BY DEF ReadInv, BytesOrdered
<1>2. Backlog' = Append(Backlog, rev) /\ rstate = "open" /\ rstate' = rstate
  BY <1>0, BacklogPushed DEF EventPushed, Admits
<1>3. CASE ~Alive' BY <1>1, <1>3 DEF EndsOrdered, BytesOrdered
<1>4. CASE Alive'
 <2>1. /\ EndsLast(Backlog) /\ AllData(Backlog) /\ ~Ending /\ (eofs > 0 => dcoal = <<>>)
   BY <1>2, <1>4 DEF ReadInv, EndsOrdered
 <2>2. /\ RunsFrom(dcoal, Len(given)) /\ (dcur # 0 => dcur = Kept)
       /\ NumberedFrom(Backlog, Kept)
   BY <1>4 DEF ReadInv, BytesOrdered
 <2>3. Kept \in Nat BY KeptType
 <2>4. rev.byte = Kept + Len(Backlog) + 1
  <3>1. InReader = 1 BY DEF InReader, EventPushed
  <3>2. rev.byte = taken /\ Kept + KindCount(Backlog, "data") + InReader = taken
    BY <1>2, <1>4, <3>1 DEF ReadInv, BytesCounted, EventPushed
  <3>3. KindCount(Backlog, "data") = Len(Backlog) BY <1>0, <2>1, KindAll
  <3> QED BY <3>1, <3>2, <3>3
 <2>5. /\ EndsLast(Append(Backlog, rev)) /\ AllData(Append(Backlog, rev))
       /\ NumberedFrom(Append(Backlog, rev), Kept)
   BY <1>0, <2>1, <2>2, <2>3, <2>4, PushOrder
 <2>6. EndsOrdered' BY <1>0, <1>2, <2>1, <2>5 DEF EndsOrdered
 <2>7. BytesOrdered' BY <1>0, <1>1, <1>2, <2>2, <2>5 DEF BytesOrdered
 <2> QED BY <2>6, <2>7
<1> QED BY <1>3, <1>4

\* The first byte of the backlog is the next one; the protocol is given it, or it is kept.
LEMMA DataMoves ==
    ASSUME ReadInv, ReadNext, drain_data
    PROVE  /\ EndsOrdered' /\ BytesOrdered' 
           /\ Alive' => Kept' = Kept + 1
<1> DEFINE b == Head(rdrained).byte
<1>0. /\ Backlog \in Seq(ReadEvents) /\ Backlog # <<>> /\ Head(Backlog) = Head(rdrained)
      /\ Head(Backlog).kind = "data" /\ Backlog' = Tail(Backlog)
  BY BacklogType, DataTaken
<1>1. dafter = "idle" /\ dcur = 0 /\ dpc = "event" BY DEF ReadInv, DrainControl, InCallback
<1>2. UNCHANGED <<eofs, rstate>> OBVIOUS
<1>3. given \in Seq(Nat) /\ dcoal \in Seq(Nat) BY DEF ReadInv, ReadTypes, ReadQueues
<1>4. Kept = Len(given) + Len(dcoal) /\ Len(given) \in Nat /\ Len(dcoal) \in Nat
  BY <1>1, KeptType DEF Kept, Current
<1>5. CASE ~Alive
 <2>1. ~Alive' BY <1>5, AliveBefore
 <2>2. ~Native BY <1>5 DEF Native, Alive
 <2>3. given' = given BY <2>2
 <2> QED BY <2>1, <2>3, OrderStays
<1>6. CASE Alive
 <2>1. EndsLast(Backlog) /\ (rstate = "open" => AllData(Backlog)) /\ (Ending => NoData(Backlog))
   BY <1>6 DEF ReadInv, EndsOrdered
 <2>2. RunsFrom(dcoal, Len(given)) /\ NumberedFrom(Backlog, Kept) /\ RunsFrom(given, 0)
   BY <1>6 DEF ReadInv, BytesOrdered
 <2>3. /\ EndsLast(Tail(Backlog)) /\ (AllData(Backlog) => AllData(Tail(Backlog)))
       /\ ~NoData(Backlog)
       /\ Head(Backlog).byte = Kept + 1 /\ NumberedFrom(Tail(Backlog), Kept + 1)
   BY <1>0, <2>1, <2>2, KeptType, TakeOrder
 <2>4. b = Kept + 1 /\ b \in Nat BY <1>0, <2>3, KeptType
 <2>5. ~Ending /\ (eofs \in Nat => eofs = 0) BY <2>1, <2>3 DEF Ending
 <2>6. ~Ending' BY <1>1, <1>2, <2>5 DEF Ending
 <2>7. eofs' = 0 BY <1>2, <2>5 DEF ReadInv, ReadTypes, ReadCounts
 <2>8. EndsOrdered' BY <1>0, <1>2, <2>1, <2>3, <2>6, <2>7 DEF EndsOrdered
 <2> HIDE DEF b
 <2>9. /\ RunsFrom(dcoal', Len(given')) /\ (dcur' # 0 => dcur' = Kept')
       /\ Kept' = Kept + 1 /\ RunsFrom(given', 0)
  <3>1. CASE DataFed(b)
   <4>1. /\ given' = Append(given, b) /\ dcoal' = dcoal /\ dcur' = 0 /\ dcoal = <<>>
     BY <1>1, <3>1 DEF Native, ReadInv, DrainControl
   <4>2. Len(dcoal) = 0 BY <4>1
   <4>3. Len(given') = Len(given) + 1 BY <1>3, <2>4, <4>1, AppendProperties
   <4>4. Kept' = Kept + 1 BY <1>4, <4>1, <4>2, <4>3 DEF Kept, Current
   <4>5. b = 0 + Len(given) + 1 BY <1>4, <2>4, <4>2
   <4>6. RunsFrom(given', 0) BY <1>3, <2>2, <2>4, <4>1, <4>5, RunsAppend
   <4>7. RunsFrom(dcoal', Len(given')) BY <4>1, <4>2 DEF RunsFrom
   <4> QED BY <4>1, <4>4, <4>6, <4>7
  <3>2. CASE DataJoined(b)
   <4>1. given' = given /\ dcoal' = Append(dcoal, b) /\ dcur' = 0 BY <1>1, <3>2
   <4>2. Len(dcoal') = Len(dcoal) + 1 BY <1>3, <2>4, <4>1, AppendProperties
   <4>3. Kept' = Kept + 1 BY <1>4, <4>1, <4>2 DEF Kept, Current
   <4>4. b = Len(given) + Len(dcoal) + 1 BY <1>4, <2>4
   <4>5. RunsFrom(dcoal', Len(given')) BY <1>3, <1>4, <2>2, <2>4, <4>1, <4>4, RunsAppend
   <4> QED BY <2>2, <4>1, <4>3, <4>5
  <3>3. CASE DataHeld(b)
   <4>1. given' = given /\ dcoal' = dcoal /\ dcur' = b BY <3>3
   <4>2. b # 0 BY <2>4, KeptType
   <4>3. Kept' = Kept + 1 BY <1>4, <4>1, <4>2 DEF Kept, Current
   <4> QED BY <2>2, <2>4, <4>1, <4>3
  <3> QED BY <3>1, <3>2, <3>3 DEF b
 <2>10. BytesOrdered' BY <1>0, <2>3, <2>9 DEF BytesOrdered
 <2> QED BY <2>8, <2>9, <2>10
<1> QED BY <1>5, <1>6

\* The byte at hand is joined to what is kept.
LEMMA FeedMoves ==
    ASSUME ReadInv, ReadNext, drain_feed
    PROVE  EndsOrdered' /\ BytesOrdered' /\ (Alive' => Kept' = Kept)
<1>0. Backlog' = Backlog /\ Backlog \in Seq(ReadEvents) BY FeedKeeps, BacklogType
<1>1. /\ dafter = "idle" /\ dcur # 0 /\ dcur \in Nat /\ dcur' = 0 /\ dcoal' = Append(dcoal, dcur)
      /\ UNCHANGED <<given, eofs, rstate>>
  BY DEF ReadInv, DrainControl, InCallback, ReadTypes, ReadQueues
<1>2. given \in Seq(Nat) /\ dcoal \in Seq(Nat) BY DEF ReadInv, ReadTypes, ReadQueues
<1>3. CASE ~Alive
 <2>1. ~Alive' BY <1>3, AliveBefore
 <2> QED BY <1>1, <2>1, OrderStays
<1>4. CASE Alive
 <2>1. /\ EndsLast(Backlog) /\ ~Ending /\ (rstate = "open" => AllData(Backlog))
   BY <1>1, <1>4 DEF ReadInv, EndsOrdered
 <2>2. /\ RunsFrom(dcoal, Len(given)) /\ dcur = Kept /\ NumberedFrom(Backlog, Kept)
       /\ RunsFrom(given, 0)
   BY <1>1, <1>4 DEF ReadInv, BytesOrdered
 <2>3. dcur = Len(given) + Len(dcoal) + 1 BY <1>1, <2>2 DEF Kept, Current
 <2>4. RunsFrom(dcoal', Len(given')) BY <1>1, <1>2, <2>2, <2>3, KeptType, RunsAppend
 <2>5. Len(dcoal') = Len(dcoal) + 1 BY <1>1, <1>2, AppendProperties
 <2>6. Kept' = Len(given) + (Len(dcoal) + 1) + 0 BY <1>1, <2>5 DEF Kept, Current
 <2>7. Kept' = Kept BY <2>2, <2>3, <2>6, KeptType
 <2>8. ~Ending' BY <1>1, <2>1 DEF Ending
 <2>9. EndsOrdered'
  <3>1. ~(eofs > 0) BY <2>1 DEF Ending
  <3> QED BY <1>0, <1>1, <2>1, <2>8, <3>1 DEF EndsOrdered
 <2>10. BytesOrdered' BY <1>0, <1>1, <2>2, <2>4, <2>7 DEF BytesOrdered
 <2> QED BY <2>7, <2>9, <2>10
<1> QED BY <1>3, <1>4

\* An end at the front: there is no data behind it.
LEMMA EndMoves ==
    ASSUME ReadInv, ReadNext, drain_other
    PROVE  EndsOrdered' /\ BytesOrdered'
<1>1. dpc = "event" /\ dafter = "idle" /\ dcur = 0 /\ UNCHANGED <<given, dcoal, dcur, eofs, rstate>>
  BY DEF ReadInv, DrainControl, InCallback
<1>2. CASE ~Alive
 <2>1. ~Alive' BY <1>2, AliveBefore
 <2> QED BY <1>1, <2>1, OrderStays
<1>3. CASE Alive /\ rdrained = <<>>
 <2>1. Backlog' = Backlog BY <1>3, OtherTaken
 <2>2. Ending' <=> Ending BY <1>1, <1>3 DEF Ending
 <2> QED BY <1>1, <1>3, <2>1, <2>2, OrderStays
<1>4. CASE Alive /\ rdrained # <<>>
 <2>0. /\ Backlog \in Seq(ReadEvents) /\ Backlog # <<>> /\ Head(Backlog).kind # "data"
       /\ Backlog' = Tail(Backlog)
   BY <1>4, BacklogType, OtherTaken
 <2>1. EndsLast(Backlog) /\ (eofs > 0 => dcoal = <<>>) /\ (rstate = "open" => AllData(Backlog))
   BY <1>4 DEF ReadInv, EndsOrdered
 <2>2. /\ EndsLast(Tail(Backlog)) /\ NoData(Tail(Backlog)) /\ rstate # "open"
  <3>1. NoData(Backlog) BY <2>0, <2>1, TakeOrder, KeptType
  <3>2. EndsLast(Tail(Backlog)) /\ NoData(Tail(Backlog)) /\ ~AllData(Backlog)
    BY <2>0, <2>1, <3>1, TakeOrder, KeptType
  <3> QED BY <2>1, <3>2
 <2>3. EndsOrdered' BY <1>1, <2>0, <2>1, <2>2 DEF EndsOrdered
 <2>4. RunsFrom(dcoal, Len(given)) /\ RunsFrom(given, 0) BY <1>4 DEF ReadInv, BytesOrdered
 <2>5. NumberedFrom(Tail(Backlog), Kept') BY <2>2 DEF NoData, NumberedFrom
 <2>6. BytesOrdered' BY <1>1, <2>0, <2>4, <2>5 DEF BytesOrdered
 <2> QED BY <2>3, <2>6
<1> QED BY <1>2, <1>3, <1>4

\* What is kept is given.
LEMMA FlushMoves ==
    ASSUME ReadInv, ReadNext, FlushData
    PROVE  Alive /\ RunsFrom(given', 0) /\ dcoal' = <<>> /\ Len(given') = Len(given) + Len(dcoal)
<1>1. given \in Seq(Nat) /\ dcoal \in Seq(Nat) BY DEF ReadInv, ReadTypes, ReadQueues
<1>2. given' = given \o dcoal /\ dcoal' = <<>> OBVIOUS
<1>3. Alive BY DEF Alive
<1>4. RunsFrom(dcoal, Len(given)) /\ RunsFrom(given, 0) BY <1>3 DEF ReadInv, BytesOrdered
<1>5. RunsFrom(given', 0) BY <1>1, <1>2, <1>4, RunsConcat
<1>6. Len(given') = Len(given) + Len(dcoal) BY <1>1, <1>2, ConcatProperties
<1> QED BY <1>2, <1>3, <1>5, <1>6

LEMMA FlushCallMoves ==
    ASSUME ReadInv, ReadNext, FlushData, UNCHANGED <<rqueue, rdrained, dcur, eofs, rstate>>,
           Ending' <=> Ending
    PROVE  EndsOrdered' /\ BytesOrdered' /\ Kept' = Kept
<1>1. Alive /\ RunsFrom(given', 0) /\ dcoal' = <<>> /\ Len(given') = Len(given) + Len(dcoal)
  BY FlushMoves
<1>2. Backlog' = Backlog BY DEF Backlog
<1>3. Kept' = (Len(given) + Len(dcoal)) + 0 + Current BY <1>1 DEF Kept, Current
<1>4. Kept' = Kept BY <1>3, KeptType DEF Kept
<1>5. EndsOrdered' BY <1>1, <1>2 DEF ReadInv, EndsOrdered
<1>6. BytesOrdered'
 <2>1. (dcur # 0 => dcur = Kept) /\ NumberedFrom(Backlog, Kept) BY <1>1 DEF ReadInv, BytesOrdered
 <2>2. RunsFrom(dcoal', Len(given')) BY <1>1 DEF RunsFrom
 <2> QED BY <1>1, <1>2, <1>4, <2>1, <2>2 DEF BytesOrdered
<1> QED BY <1>4, <1>5, <1>6

\* The end is given to the protocol, which keeps the transport.
LEMMA EofMoves ==
    ASSUME ReadInv, ReadNext, eof_keeps
    PROVE  EndsOrdered' /\ BytesOrdered'
<1>1. /\ dpc = "eof" /\ eofs' = eofs + 1 /\ UNCHANGED <<dcoal, dcur, given, rstate>>
      /\ UNCHANGED <<rqueue, rdrained>>
  OBVIOUS
<1>2. dcoal = <<>> /\ Backlog' = Backlog /\ Kept' = Kept
  BY <1>1 DEF ReadInv, DrainControl, Backlog, Kept, Current
<1>3. Alive' => Alive BY AliveBefore
<1>4. Ending BY <1>1 DEF Ending
<1>5. EndsOrdered' BY <1>1, <1>2, <1>3, <1>4 DEF ReadInv, EndsOrdered
<1>6. BytesOrdered' BY <1>1, <1>2, <1>3 DEF ReadInv, BytesOrdered
<1> QED BY <1>5, <1>6

LEMMA DrainOrder ==
    ASSUME ReadInv, ReadNext, DrainStep
    PROVE  EndsOrdered' /\ BytesOrdered'
<1>0. UNCHANGED rstate BY DrainFrame
<1>a. Alive' => Alive BY AliveBefore
<1>c. DrainControl BY DEF ReadInv
<1>1. CASE drain_data BY <1>1, DataMoves
<1>2. CASE drain_feed BY <1>2, FeedMoves
<1>3. CASE drain_other BY <1>3, EndMoves
<1>4. CASE eof_keeps BY <1>4, EofMoves
<1>5. CASE flush_called
 <2>1. Ending' <=> Ending BY <1>5 DEF Ending
 <2>2. FlushData /\ UNCHANGED <<rqueue, rdrained, dcur, eofs>> BY <1>5
 <2> QED BY <1>0, <2>1, <2>2, FlushCallMoves
<1>6. CASE flush_raises
 <2>1. CASE dafter = "idle"
  <3>1. Ending' <=> Ending BY <1>6, <2>1 DEF Ending
  <3>2. FlushData /\ UNCHANGED <<rqueue, rdrained, dcur, eofs>> BY <1>6, <2>1
  <3> QED BY <1>0, <3>1, <3>2, FlushCallMoves
 <2>2. CASE dafter # "idle"
  <3>1. ~Alive' BY <1>6, <2>2, LossEndsData
  <3>2. RunsFrom(given', 0) BY <1>6, FlushMoves
  <3> QED BY <3>1, <3>2 DEF EndsOrdered, BytesOrdered
 <2> QED BY <2>1, <2>2
<1>7. CASE eof_raises \/ drain_lost \/ eof_closes
 <2>1. ~Alive' BY <1>7, LossEndsData
 <2>2. given' = given BY <1>7
 <2> QED BY <2>1, <2>2, OrderStays
<1>8. CASE drain_start
 <2>1. /\ UNCHANGED <<given, dcoal, dcur, eofs>> /\ (Ending' <=> Ending) BY <1>8 DEF Ending
 <2>2. Backlog' = Backlog BY <1>8, DrainRests
 <2> QED BY <1>0, <1>a, <2>1, <2>2, OrderStays
<1>9. CASE callback_returns
 <2>1. UNCHANGED <<given, dcoal, dcur, eofs>> /\ (Ending' <=> Ending) BY <1>9 DEF Ending
 <2>2. Backlog' = Backlog BY <1>9, DrainRests
 <2> QED BY <1>0, <1>a, <2>1, <2>2, OrderStays
<1>10. CASE drain_swap
 <2>1. UNCHANGED <<given, dcoal, dcur, eofs>> /\ (Ending' <=> Ending)
   BY <1>10, <1>c DEF Ending, DrainControl, InCallback
 <2>2. Alive => ~rlost BY DEF Alive, ReadInv, LossControl
 <2>3. Alive' => Backlog' = Backlog BY <1>10, <1>a, <2>2, SwapKeeps
 <2> QED BY <1>0, <1>a, <2>1, <2>3, OrderStays
<1>11. CASE flush_nothing
 <2>1. UNCHANGED <<given, dcur, eofs>> /\ (Ending' <=> Ending) /\ dcoal' = <<>> BY <1>11 DEF Ending
 <2>2. Alive => dcoal = <<>> BY <1>11, <1>c DEF Alive, DrainControl, ReadInv, LossControl
 <2>3. Backlog' = Backlog BY <1>11, DrainRests
 <2> QED BY <1>0, <1>a, <2>1, <2>2, <2>3, OrderStays
<1> QED BY <1>1, <1>2, <1>3, <1>4, <1>5, <1>6, <1>7, <1>8, <1>9, <1>10, <1>11 DEF DrainStep,
    DrainMove

LEMMA OrderKept ==
    ASSUME ReadInv, ReadNext
    PROVE  EndsOrdered' /\ BytesOrdered'
<1>a. Alive' => Alive BY AliveBefore
<1>q. UNCHANGED <<rqueue, rdrained, dpc, dafter, eofs>> => Backlog' = Backlog /\ (Ending' <=> Ending)
  BY DEF Backlog, Ending
<1>1. CASE AcquireStep \/ ReaderMove \/ read_fails
 <2>1. UNCHANGED <<rqueue, rdrained, dpc, dafter, eofs, given, dcoal, dcur, rstate>>
   BY <1>1, ReaderFrame
 <2> QED BY <1>a, <1>q, <2>1, OrderStays
<1>2. CASE EnqueueStep
 <2>0. UNCHANGED <<rdrained, dpc, dafter, eofs, given, dcoal, dcur>>
   BY <1>2, EnqueueFrame DEF ReadInv, ReadTypes
 <2>1. CASE EventPushed /\ rev.kind = "data" BY <1>a, <2>0, <2>1, DataPushed
 <2>2. CASE EventPushed /\ rev.kind # "data"
  <3>1. rev \in ReadEvents BY <2>2, EventAtHand DEF EventPushed
  <3>2. Backlog' = Append(Backlog, rev) BY <2>0, <2>2, <3>1, BacklogPushed DEF EventPushed
  <3>3. rstate' # "open" BY <2>2, <3>1, EventFields DEF EventPushed
  <3> QED BY <1>a, <2>0, <2>2, <3>1, <3>2, <3>3, EndPushed
 <2>3. CASE EventRefused \/ reader_schedule
  <3>1. UNCHANGED <<rqueue, rstate>> BY <2>3 DEF EventRefused
  <3> QED BY <1>a, <1>q, <2>0, <3>1, OrderStays
 <2> QED BY <1>2, <2>1, <2>2, <2>3, EnqueueCases
<1>3. CASE WriterStep
 <2>0. UNCHANGED <<rdrained, dpc, dafter, eofs, given, dcoal, dcur>> BY <1>3, WriterFrame
 <2>1. CASE UNCHANGED <<rqueue, rstate>> BY <1>a, <1>q, <2>0, <2>1, OrderStays
 <2>2. CASE rqueue' = Append(rqueue, REvent("lost", 0)) /\ rstate' = "lost"
  <3>1. REvent("lost", 0) \in ReadEvents /\ REvent("lost", 0).kind # "data" BY DEF ReadEvents
  <3>2. Backlog' = Append(Backlog, REvent("lost", 0)) BY <2>0, <2>2, <3>1, BacklogPushed, Zenon
  <3> QED BY <1>a, <2>0, <2>2, <3>1, <3>2, EndPushed
 <2> QED BY <1>3, <2>1, <2>2 DEF WriterStep
<1>4. CASE DrainStep BY <1>4, DrainOrder
<1>5. CASE AppStep
 <2>1. UNCHANGED <<rqueue, rdrained, dpc, dafter, eofs, given, dcoal, dcur, rstate>>
   BY <1>5, AppFrame
 <2> QED BY <1>a, <1>q, <2>1, OrderStays
<1>6. CASE notify_all_send \/ write_fails \/ peer_closes
 <2>1. UNCHANGED <<rqueue, rdrained, dpc, dafter, eofs, given, dcoal, dcur, rstate>>
   BY <1>6, OtherFrame
 <2> QED BY <1>a, <1>q, <2>1, OrderStays
<1> QED BY <1>1, <1>2, <1>3, <1>4, <1>5, <1>6 DEF ReadNext, ReaderStep

-----------------------------------------------------------------------------
(* Every byte read is somewhere.                                           *)

Counting == Alive /\ ~rdetached /\ (rstate # "lost" \/ EofCount > 0)

\* Bytes move between the places of the loop.
LEMMA CountStays ==
    ASSUME ReadInv, Counting' => Counting, UNCHANGED <<rev, taken, rpc>>,
           Alive' => Kept' + KindCount(Backlog', "data") = Kept + KindCount(Backlog, "data")
    PROVE  BytesCounted'
<1>1. InReader' = InReader BY DEF InReader
<1>2. SUFFICES ASSUME Counting'
               PROVE  /\ InReader = 1 => rev.byte = taken
                      /\ Kept' + KindCount(Backlog', "data") + InReader = taken
  BY <1>1 DEF BytesCounted, Counting
<1>3. /\ InReader = 1 => rev.byte = taken
      /\ Kept + KindCount(Backlog, "data") + InReader = taken
  BY <1>2 DEF ReadInv, BytesCounted, Counting
<1>4. Alive' BY <1>2 DEF Counting
<1> QED BY <1>3, <1>4

\* The reader takes a byte, or an event is queued.
LEMMA DetachedStays ==
    ASSUME ReadInv, ReadNext
    PROVE  rdetached => rdetached'
<1>1. CASE AcquireStep \/ ReaderMove \/ read_fails BY <1>1, ReaderFrame
<1>2. CASE EnqueueStep BY <1>2, EnqueueFrame DEF ReadInv, ReadTypes
<1>3. CASE WriterStep BY <1>3, WriterFrame
<1>4. CASE DrainStep BY <1>4, DrainFrame
<1>5. CASE AppStep BY <1>5 DEF AppStep
<1>6. CASE notify_all_send \/ write_fails \/ peer_closes BY <1>6, OtherFrame
<1> QED BY <1>1, <1>2, <1>3, <1>4, <1>5, <1>6 DEF ReadNext, ReaderStep

LEMMA ByteTaken ==
    ASSUME ReadInv, ReadNext, AcquireStep \/ ReaderMove \/ read_fails
    PROVE  BytesCounted'
<1>0. UNCHANGED <<rqueue, rdrained, dpc, dafter, eofs, given, dcoal, dcur, rstate, rdetached>>
  BY ReaderFrame
<1>1. /\ Kept' = Kept /\ Backlog' = Backlog /\ EofCount' = EofCount /\ (Alive' => Alive)
  BY <1>0, AliveBefore DEF Kept, Current, Backlog, EofCount, EofHere
<1> DEFINE k == Kept
           d == KindCount(Backlog, "data")
<1>2. k \in Nat /\ d \in Nat /\ taken \in Nat
  BY KeptType, BacklogType, KindType DEF ReadInv, ReadTypes, ReadCounts
<1>3. InReader = 0 BY DEF AcquireStep, ReaderMove, InReader
<1>4. SUFFICES ASSUME Counting'
               PROVE  /\ InReader' = 1 => rev'.byte = taken'
                      /\ k + d + InReader' = taken'
  BY <1>1 DEF BytesCounted, Counting
<1>5. Counting BY <1>0, <1>1, <1>4 DEF Counting
<1>6. k + d + 0 = taken BY <1>3, <1>5 DEF ReadInv, BytesCounted, Counting
<1> HIDE DEF k, d
<1>7. CASE rpc' = "enqueue" /\ rev' = REvent("data", taken + 1) /\ taken' = taken + 1
 <2>1. InReader' = 1 /\ rev'.byte = taken + 1 BY <1>7 DEF InReader
 <2> QED BY <1>2, <1>6, <1>7, <2>1
<1>8. CASE taken' = taken /\ (rpc' # "enqueue" \/ rev'.kind # "data")
 <2>1. InReader' = 0 BY <1>8 DEF InReader
 <2> QED BY <1>2, <1>6, <1>8, <2>1
<1>9. CASE AcquireStep
 <2>1. taken' = taken /\ rpc' # "enqueue" BY <1>9 DEF AcquireStep, ReadInv, ReadTypes, ReadPoints
 <2> QED BY <1>8, <2>1
<1>10. CASE ReaderMove \/ read_fails
 <2>1. CASE read_some BY <1>7, <1>8, <2>1
 <2>2. CASE reader_check \/ listen \/ listening \/ waiting \/ read_nothing \/ spun
            \/ reader_stopped \/ read_fails
  <3>1. taken' = taken /\ (rpc' # "enqueue" \/ rev'.kind # "data") BY <2>2
  <3> QED BY <1>8, <3>1
 <2> QED BY <1>10, <2>1, <2>2 DEF ReaderMove
<1> QED BY <1>9, <1>10

LEMMA ByteQueued ==
    ASSUME ReadInv, ReadNext, EnqueueStep
    PROVE  BytesCounted'
<1>0. /\ UNCHANGED <<rdrained, dpc, dafter, eofs, given, dcoal, dcur, rdetached, rev, taken>>
      /\ Kept' = Kept /\ (Alive' => Alive)
  BY EnqueueFrame, AliveBefore DEF Kept, Current, ReadInv, ReadTypes
<1>e. EofCount \in Nat /\ Backlog \in Seq(ReadEvents) BY EofType, BacklogType
<1>1. CASE EventPushed
 <2>1. rev \in ReadEvents /\ rpc = "enqueue" /\ rqueue' = Append(rqueue, rev)
   BY <1>1, EventAtHand DEF EventPushed
 <2>2. Backlog' = Append(Backlog, rev) BY <1>0, <2>1, BacklogPushed
 <2>3. KindCount(Backlog', "data") = KindCount(Backlog, "data")
                                         + IF rev.kind = "data" THEN 1 ELSE 0
   BY <1>e, <2>1, <2>2, KindAppend
 <2>4. InReader' = 0 /\ InReader = IF rev.kind = "data" THEN 1 ELSE 0
   BY <1>1, <2>1 DEF EventPushed, InReader
 <2>5. EofCount = 0 BY <1>e, <2>1 DEF ReadInv, EofOnce
 <2>6. Counting' => Counting
  <3>1. CASE rev.kind = "lost"
   <4>1. rstate' = "lost" BY <1>1, <3>1 DEF EventPushed
   <4>2. EofCount' = 0
    <5>1. KindCount(Backlog', "eof") = KindCount(Backlog, "eof")
     <6>1. KindCount(Backlog', "eof") = KindCount(Backlog, "eof")
                                     + IF rev.kind = "eof" THEN 1 ELSE 0
       BY <1>e, <2>1, <2>2, KindAppend
     <6> QED BY <3>1, <6>1, EofType
    <5> QED BY <1>0, <2>5, <5>1 DEF EofCount, EofHere
   <4> QED BY <4>1, <4>2 DEF Counting
  <3>2. CASE rev.kind # "lost"
   <4>1. rstate # "lost" BY <1>1, <2>1, <3>2, EventFields DEF EventPushed, Admits
   <4> QED BY <1>0, <4>1 DEF Counting
  <3> QED BY <3>1, <3>2
<2> DEFINE k == Kept
           d == KindCount(Backlog, "data")
           f == IF rev.kind = "data" THEN 1 ELSE 0
 <2>7. k \in Nat /\ d \in Nat /\ f \in Nat BY <1>e, KeptType, KindType
 <2>8. SUFFICES ASSUME Counting' PROVE k + (d + f) + 0 = taken
   BY <1>0, <2>3, <2>4 DEF BytesCounted, Counting
 <2>9. k + d + f = taken BY <2>4, <2>6, <2>8 DEF ReadInv, BytesCounted, Counting
 <2> HIDE DEF k, d, f
 <2> QED BY <2>7, <2>9
<1>2. CASE EventRefused
 <2>1. Backlog' = Backlog /\ EofCount' = EofCount /\ rstate' = rstate /\ rpc = "enqueue"
   BY <1>0, <1>2 DEF EventRefused, Backlog, EofCount, EofHere
 <2>2. rpc' # "enqueue" BY <1>2 DEF EventRefused, ReadInv, ReadTypes, ReadPoints
 <2>3. InReader' = 0 BY <2>2 DEF InReader
 <2>4. EofCount = 0 /\ rstate # "eof" BY <1>e, <2>1 DEF ReadInv, EofOnce
 <2>5. SUFFICES ASSUME Counting' PROVE Kept + KindCount(Backlog, "data") + 0 = taken
   BY <1>0, <2>1, <2>3 DEF BytesCounted, Counting
 <2>6. Counting BY <1>0, <2>1, <2>5 DEF Counting
 <2>7. rev.kind # "data"
  <3>1. rstate = "open" /\ ~rdetached BY <2>4, <2>6 DEF Counting, ReadInv, ReadTypes, ReadPoints
  <3> QED BY <1>2, <3>1 DEF EventRefused, Admits
 <2>8. InReader = 0 BY <2>7 DEF InReader
 <2> QED BY <2>6, <2>8 DEF ReadInv, BytesCounted, Counting
<1>3. CASE reader_schedule
 <2>1. /\ Backlog' = Backlog /\ EofCount' = EofCount /\ rstate' = rstate
       /\ rpc = "schedule" /\ rpc' = rafter
   BY <1>0, <1>3 DEF Backlog, EofCount, EofHere
 <2>2. InReader' = 0 /\ InReader = 0 BY <2>1 DEF InReader, ReadInv, ReadTypes, ReadPoints
 <2>3. Counting' => Counting BY <1>0, <2>1 DEF Counting
 <2> QED BY <1>0, <2>1, <2>2, <2>3 DEF ReadInv, BytesCounted, Counting
<1> QED BY <1>1, <1>2, <1>3, EnqueueCases

LEMMA BytesCountedKept ==
    ASSUME ReadInv, ReadNext
    PROVE  BytesCounted'
<1>a. (Alive' => Alive) /\ (rdetached => rdetached') BY AliveBefore, DetachedStays
<1>e. EofCount \in Nat BY EofType
<1>c. rstate' = rstate /\ EofCount' \in Nat /\ EofCount' <= EofCount => (Counting' => Counting)
 <2>1. ASSUME EofCount' \in Nat, EofCount' <= EofCount PROVE EofCount' > 0 => EofCount > 0
   <3> DEFINE e == EofCount
              f == EofCount'
  <3>1. e \in Nat /\ f \in Nat /\ f <= e BY <1>e, <2>1
  <3> HIDE DEF e, f
  <3>2. f > 0 => e > 0 BY <3>1
  <3> QED BY <3>2 DEF e, f
 <2> QED BY <1>a, <2>1 DEF Counting
<1>q. UNCHANGED <<rqueue, rdrained, dpc, dafter, eofs, given, dcoal, dcur>>
          => Kept' = Kept /\ Backlog' = Backlog /\ EofCount' = EofCount
  BY DEF Kept, Current, Backlog, EofCount, EofHere
<1>1. CASE AcquireStep \/ ReaderMove \/ read_fails BY <1>1, ByteTaken
<1>2. CASE EnqueueStep BY <1>2, ByteQueued
<1>3. CASE WriterStep
 <2>0. UNCHANGED <<rdrained, dpc, dafter, eofs, given, dcoal, dcur, rev, taken, rpc>>
   BY <1>3, WriterFrame
 <2>1. CASE UNCHANGED <<rqueue, rstate>>
  <3>1. Kept' = Kept /\ Backlog' = Backlog /\ EofCount' = EofCount BY <1>q, <2>0, <2>1
  <3>2. Counting' => Counting BY <1>a, <2>1, <3>1 DEF Counting
  <3> QED BY <2>0, <3>1, <3>2, CountStays
 <2>2. CASE rqueue' = Append(rqueue, REvent("lost", 0)) /\ rstate' = "lost"
  <3>1. REvent("lost", 0) \in ReadEvents /\ REvent("lost", 0).kind = "lost" BY DEF ReadEvents
  <3>2. Backlog' = Append(Backlog, REvent("lost", 0)) BY <2>0, <2>2, <3>1, BacklogPushed
  <3>3. \A c \in {"data", "eof"} : KindCount(Backlog', c) = KindCount(Backlog, c)
   <4> SUFFICES ASSUME NEW c \in {"data", "eof"}
                PROVE  KindCount(Backlog', c) = KindCount(Backlog, c)
     OBVIOUS
   <4>1. KindCount(Backlog', c) = KindCount(Backlog, c)
                                      + IF REvent("lost", 0).kind = c THEN 1 ELSE 0
     BY <3>1, <3>2, BacklogType, KindAppend
   <4>2. KindCount(Backlog, c) \in Nat BY BacklogType, KindType
   <4> QED BY <3>1, <4>1, <4>2
  <3>4. Kept' = Kept /\ EofCount' = EofCount BY <2>0, <3>3 DEF Kept, Current, EofCount, EofHere
  <3>5. Counting' => Counting BY <1>a, <2>2, <3>4 DEF Counting
  <3>6. Kept' + KindCount(Backlog', "data") = Kept + KindCount(Backlog, "data") BY <3>3, <3>4
  <3> QED BY <2>0, <3>5, <3>6, CountStays
 <2> QED BY <1>3, <2>1, <2>2 DEF WriterStep
<1>4. CASE DrainStep
 <2>0. UNCHANGED <<rev, taken, rpc>> /\ (Counting' => Counting) BY <1>4, <1>c, DrainFrame, EofFlows
 <2> SUFFICES ASSUME Alive'
              PROVE  Kept' + KindCount(Backlog', "data") = Kept + KindCount(Backlog, "data")
   BY <2>0, CountStays
 <2>a. Alive /\ ~rlost BY <1>a DEF Alive, ReadInv, LossControl
 <2>1. CASE drain_data
  <3>1. Kept' = Kept + 1 BY <2>1, DataMoves
  <3>2. KindCount(Backlog', "data") = KindCount(Backlog, "data") - 1
    BY <2>1, DataTaken, BacklogType, KindTailSame
  <3> DEFINE k == Kept
             d == KindCount(Backlog, "data")
  <3>3. k \in Nat /\ d \in Nat BY KeptType, BacklogType, KindType
  <3> HIDE DEF k, d
  <3>4. (k + 1) + (d - 1) = k + d BY <3>3
  <3> QED BY <3>1, <3>2, <3>4 DEF k, d
 <2>2. CASE drain_feed BY <2>2, FeedMoves, FeedKeeps
 <2>3. CASE drain_other
  <3>1. Kept' = Kept BY <2>3 DEF Kept, Current
  <3>2. KindCount(Backlog', "data") = KindCount(Backlog, "data")
   <4>1. CASE rdrained = <<>> BY <2>3, <4>1, OtherTaken
   <4>2. CASE rdrained # <<>> BY <2>3, <4>2, OtherTaken, BacklogType, KindTailOther
   <4> QED BY <4>1, <4>2
  <3> QED BY <3>1, <3>2
 <2>4. CASE flush_called
  <3>1. Ending' <=> Ending BY <2>4 DEF Ending
  <3>2. FlushData /\ UNCHANGED <<rqueue, rdrained, dcur, eofs>> /\ Backlog' = Backlog
    BY <2>4 DEF Backlog
  <3>3. UNCHANGED rstate BY <1>4, DrainFrame
  <3> QED BY <3>1, <3>2, <3>3, FlushCallMoves
 <2>5. CASE flush_raises
  <3>1. dafter = "idle"
   <4>1. ASSUME dafter # "idle" PROVE FALSE BY <2>5, <4>1, LossEndsData
   <4> QED BY <4>1
  <3>2. Ending' <=> Ending BY <2>5, <3>1 DEF Ending
  <3>3. FlushData /\ UNCHANGED <<rqueue, rdrained, dcur, eofs, rstate>> /\ Backlog' = Backlog
    BY <2>5, <3>1 DEF Backlog
  <3> QED BY <3>2, <3>3, FlushCallMoves
 <2>6. CASE eof_raises \/ drain_lost \/ eof_closes BY <2>6, LossEndsData
 <2>7. CASE drain_start \/ callback_returns \/ eof_keeps
  <3>1. UNCHANGED <<given, dcoal, dcur>> /\ Backlog' = Backlog BY <2>7, DrainRests
  <3> QED BY <3>1 DEF Kept, Current
 <2>8. CASE drain_swap
  <3>1. UNCHANGED <<given, dcoal, dcur>> /\ Backlog' = Backlog BY <2>8, <2>a, SwapKeeps
  <3> QED BY <3>1 DEF Kept, Current
 <2>9. CASE flush_nothing
  <3>1. dcoal = <<>> BY <2>9, <2>a DEF Alive, ReadInv, DrainControl
  <3>2. UNCHANGED <<given, dcoal, dcur>> /\ Backlog' = Backlog BY <2>9, <3>1, DrainRests
  <3> QED BY <3>2 DEF Kept, Current
 <2> QED BY <1>4, <2>1, <2>2, <2>3, <2>4, <2>5, <2>6, <2>7, <2>8, <2>9 DEF DrainStep, DrainMove
<1>5. CASE AppStep
 <2>1. UNCHANGED <<rqueue, rdrained, dpc, dafter, eofs, given, dcoal, dcur, rstate, rev, taken, rpc>>
   BY <1>5, AppFrame
 <2>2. Kept' = Kept /\ Backlog' = Backlog /\ EofCount' = EofCount BY <1>q, <2>1
 <2>3. Counting' => Counting BY <1>a, <2>1, <2>2 DEF Counting
 <2> QED BY <2>1, <2>2, <2>3, CountStays
<1>6. CASE notify_all_send \/ write_fails \/ peer_closes
 <2>1. UNCHANGED <<rqueue, rdrained, dpc, dafter, eofs, given, dcoal, dcur, rstate, rev, taken, rpc>>
   BY <1>6, OtherFrame
 <2>2. Kept' = Kept /\ Backlog' = Backlog /\ EofCount' = EofCount BY <1>q, <2>1
 <2>3. Counting' => Counting BY <1>a, <2>1, <2>2 DEF Counting
 <2> QED BY <2>1, <2>2, <2>3, CountStays
<1> QED BY <1>1, <1>2, <1>3, <1>4, <1>5, <1>6 DEF ReadNext, ReaderStep

-----------------------------------------------------------------------------
(* The invariant holds.                                                    *)

LEMMA NoneOfAny == \A k : KindCount(<<>>, k) = 0
<1>1. <<>> \in Seq(ReadEvents) OBVIOUS
<1>2. \A k : {i \in 1..Len(<<>>) : <<>>[i].kind = k} = {} OBVIOUS
<1> QED BY <1>2, FS_EmptySet DEF KindCount

LEMMA ReadInvStarts == ASSUME ReadInit PROVE ReadInv
<1>1. PICK c \in ReadCases : rkind = c[1] /\ rproto = c[2] /\ peer = c[3] BY DEF ReadInit
<1>2. rkind \in {"task", "thread"} /\ rproto \in {"slow", "native"} /\ peer \in Nat
  BY <1>1, ReadAssumption
<1>3. ReadTypes
 <2>1. ReadFlags BY DEF ReadInit, ReadFlags
 <2>2. ReadPoints BY <1>2 DEF ReadInit, ReadPoints
 <2>3. ReadCounts BY <1>2 DEF ReadInit, ReadCounts
 <2>4. ReadQueues BY DEF ReadInit, ReadQueues
 <2> QED BY <2>1, <2>2, <2>3, <2>4 DEF ReadTypes
<1>4. rev.kind = "none" BY DEF ReadInit, NoREvent
<1>5. ReaderControl /\ LossControl /\ DrainControl /\ DrainsLeft
  BY <1>4 DEF ReadInit, ReaderControl, LossControl, DrainControl, DrainsLeft, InCallback
<1>6. Backlog = <<>> /\ <<>> \in Seq(ReadEvents) BY ConcatEmptySeq DEF Backlog, ReadInit
<1>7. \A k : KindCount(Backlog, k) = 0 BY <1>6, NoneOfAny
<1>8. EofOnce
 <2>1. EofCount = 0 BY <1>7 DEF EofCount, EofHere, ReadInit
 <2> QED BY <2>1 DEF EofOnce, ReadInit
<1>9. Kept = 0 /\ InReader = 0 /\ Current = 0 BY DEF Kept, Current, InReader, ReadInit
<1>10. SlotsKept
 <2>1. SlotsInUse = 0 BY <1>7, <1>9 DEF SlotsInUse, HasBuffer, ReadInit
 <2>2. PoolLimit \in Nat BY ReadAssumption
 <2> QED BY <1>7, <2>1, <2>2 DEF SlotsKept, ReadInit
<1>11. EndsOrdered BY <1>6 DEF EndsOrdered, EndsLast, AllData, NoData, Ending, ReadInit
<1>12. BytesOrdered BY <1>6 DEF BytesOrdered, RunsFrom, NumberedFrom, ReadInit
<1>13. BytesCounted BY <1>7, <1>9 DEF BytesCounted, ReadInit
<1>14. NoEventStranded /\ NoReaderStranded BY DEF NoEventStranded, NoReaderStranded, ReadInit
<1> QED BY <1>3, <1>5, <1>8, <1>10, <1>11, <1>12, <1>13, <1>14 DEF ReadInv

LEMMA ReadInvKept == ASSUME ReadInv, ReadNext PROVE ReadInv'
<1>1. ReadTypes' BY ReadFlagsKept, ReadPointsKept, ReadCountsKept, ReadQueuesKept DEF ReadTypes
<1> QED BY <1>1, ReaderControlKept, LossControlKept, DrainControlKept, DrainsLeftKept,
    EofOnceKept, SlotsKeptStep, OrderKept, BytesCountedKept, EventsNotStranded, ReadersKept DEF
    ReadInv

LEMMA ReadInvStutters == ASSUME ReadInv, UNCHANGED readVars PROVE ReadInv'
<1>1. UNCHANGED <<rkind, rproto, rpc, ract, rev, rafter, rlisten, rparked, rqueue, rdrained, rstate,
                  rsched, rbytes, rcmds, rpaused, rbackp, rreading, rclosing, rlost, rdetached,
                  rstop, pfree, palloc, pclosed, dpc, dafter, dcur, dcount, dnotify, dcoal, dpooled,
                  nunread, nslot, peer, peer_ended, taken, given, eofs, losts, wpc>>
  BY DEF readVars
<1>2. ReadFlags' /\ ReadPoints' /\ ReadCounts' /\ ReadQueues'
  BY <1>1 DEF ReadInv, ReadTypes, ReadFlags, ReadPoints, ReadCounts, ReadQueues
<1>3. ReaderControl' /\ LossControl' /\ DrainControl' /\ DrainsLeft'
  BY <1>1 DEF ReadInv, ReaderControl, LossControl, DrainControl, DrainsLeft, InCallback
<1>4. /\ Backlog' = Backlog /\ EofCount' = EofCount /\ Kept' = Kept /\ InReader' = InReader
      /\ SlotsInUse' = SlotsInUse /\ (Ending' <=> Ending) /\ (Alive' <=> Alive)
  BY <1>1 DEF Backlog, EofCount, EofHere, Kept, InReader, SlotsInUse, HasBuffer, Current, Ending,
    Alive
<1>5. EofOnce' /\ SlotsKept' /\ BytesCounted'
  BY <1>1, <1>4 DEF ReadInv, EofOnce, SlotsKept, BytesCounted
<1>6. EndsOrdered' /\ BytesOrdered' BY <1>1, <1>4 DEF ReadInv, EndsOrdered, BytesOrdered
<1>7. NoEventStranded' /\ NoReaderStranded' BY <1>1 DEF ReadInv, NoEventStranded, NoReaderStranded
<1> QED BY <1>2, <1>3, <1>5, <1>6, <1>7 DEF ReadInv, ReadTypes

-----------------------------------------------------------------------------
(* What the invariant says.                                                *)

LEMMA InvReadTypes == ASSUME ReadInv PROVE ReadTypeOK
<1>1. rbytes \in Nat BY BacklogType, KindType DEF ReadInv, SlotsKept
<1>2. {rstop, rsched, rpaused, rbackp, rreading, rclosing, rlost, rdetached,
       pclosed, dnotify, dpooled, nslot, peer_ended} \subseteq BOOLEAN
  BY DEF ReadInv, ReadTypes, ReadFlags
<1>3. {rbytes, rcmds, pfree, palloc, dcount, nunread, peer, taken, eofs, losts} \subseteq Nat
  BY <1>1 DEF ReadInv, ReadTypes, ReadCounts
<1> QED BY <1>2, <1>3 DEF ReadInv, ReadTypes, ReadPoints, ReadTypeOK

LEMMA RunsAre ==
    ASSUME NEW s \in Seq(Nat), NEW n \in Nat, RunsFrom(s, n)
    PROVE  s = [i \in 1..Len(s) |-> n + i]
<1>1. s = [i \in 1..Len(s) |-> s[i]] BY SeqDef
<1> QED BY <1>1 DEF RunsFrom

LEMMA InvInOrder == ASSUME ReadInv PROVE NothingLostInOrder
<1>t. given \in Seq(Nat) /\ dcoal \in Seq(Nat) /\ Len(given) \in Nat /\ Kept \in Nat
  BY KeptType DEF ReadInv, ReadTypes, ReadQueues
<1>1. given = [i \in 1..Len(given) |-> i]
 <2>1. RunsFrom(given, 0) BY DEF ReadInv, BytesOrdered
 <2>2. given = [i \in 1..Len(given) |-> 0 + i] BY <1>t, <2>1, RunsAre
 <2>3. \A i \in 1..Len(given) : 0 + i = i BY <1>t
 <2> QED BY <2>2, <2>3
<1>2. ASSUME ~rclosing, rstate # "lost"
      PROVE  /\ dcoal = [i \in 1..Len(dcoal) |-> Len(given) + i] /\ dcur \in {0, Kept}
             /\ \A i \in 1..KindCount(Backlog, "data") : Backlog[i] = REvent("data", Kept + i)
             /\ InReader = 1 => rev.byte = taken
             /\ Kept + KindCount(Backlog, "data") + InReader = taken
 <2>1. Alive /\ ~rdetached BY <1>2 DEF Alive, ReadInv, LossControl
 <2>2. RunsFrom(dcoal, Len(given)) /\ (dcur # 0 => dcur = Kept) /\ NumberedFrom(Backlog, Kept)
   BY <2>1 DEF ReadInv, BytesOrdered
 <2>3. EndsLast(Backlog) BY <2>1 DEF ReadInv, EndsOrdered
 <2>4. dcoal = [i \in 1..Len(dcoal) |-> Len(given) + i] BY <1>t, <2>2, RunsAre
 <2>5. ASSUME NEW i \in 1..KindCount(Backlog, "data") PROVE Backlog[i] = REvent("data", Kept + i)
  <3>1. Backlog \in Seq(ReadEvents) BY BacklogType
  <3>2. i \in 1..Len(Backlog) /\ Backlog[i].kind = "data" BY <2>3, <3>1, DataAtFront
  <3>3. Backlog[i].byte = Kept + i BY <2>2, <3>2 DEF NumberedFrom
  <3>4. Backlog[i] \in ReadEvents BY <3>1, <3>2, ElementOfSeq
  <3> QED BY <3>2, <3>3, <3>4, EventFields
 <2>6. (InReader = 1 => rev.byte = taken) /\ Kept + KindCount(Backlog, "data") + InReader = taken
   BY <1>2, <2>1 DEF ReadInv, BytesCounted
 <2> QED BY <2>2, <2>4, <2>5, <2>6
<1> QED BY <1>1, <1>2 DEF NothingLostInOrder

LEMMA InvEndLast == ASSUME ReadInv PROVE LostIsLast
<1> DEFINE c == KindCount(Backlog, "eof")
           h == IF EofHere THEN 1 ELSE 0
<1>1. c \in Nat /\ h \in Nat /\ eofs \in Nat BY EofType
<1>2. c + h + eofs <= 1
 <2>1. EofCount <= 1 BY EofType DEF ReadInv, EofOnce
 <2> QED BY <2>1 DEF EofCount
<1> HIDE DEF c, h
<1>3. eofs <= 1 BY <1>1, <1>2
<1>4. ASSUME eofs = 1, ~rclosing PROVE Len(given) = taken
 <2>1. Alive /\ ~rdetached /\ Ending /\ eofs > 0 BY <1>4 DEF Alive, Ending, ReadInv, LossControl
 <2>2. c + h + eofs > 0 BY <1>1, <1>4
 <2>3. EofCount > 0 BY <2>2 DEF EofCount, c, h
 <2>4. InReader = 0 BY <2>3 DEF ReadInv, EofOnce, InReader
 <2>5. NoData(Backlog) /\ dcur = 0 /\ dcoal = <<>> BY <2>1 DEF ReadInv, EndsOrdered
 <2>6. KindCount(Backlog, "data") = 0 BY <2>5, BacklogType, KindNone
 <2>7. Kept + KindCount(Backlog, "data") + InReader = taken BY <2>1, <2>3 DEF ReadInv, BytesCounted
 <2>8. Kept = Len(given) + 0 + 0 BY <2>5 DEF Kept, Current
 <2>9. (Len(given) + 0 + 0) + 0 + 0 = taken BY <2>4, <2>6, <2>7, <2>8
 <2>10. Len(given) \in Nat BY KeptType
 <2> QED BY <2>9, <2>10
<1> QED BY <1>3, <1>4 DEF ReadInv, LossControl, LostIsLast

LEMMA InvPool == ASSUME ReadInv PROVE PoolBoundsReading
<1> DEFINE B == IF HasBuffer THEN 1 ELSE 0
           K == KindCount(Backlog, "data")
           P == IF dpooled THEN 1 ELSE 0
           S == IF nslot THEN 1 ELSE 0
           C == Current
<1>1. B \in Nat /\ K \in Nat /\ P \in Nat /\ S \in Nat /\ C \in Nat
  BY BacklogType, KindType, KeptType
<1>2. SlotsInUse = B + K + C + P + S BY DEF SlotsInUse
<1>3. /\ B + K + C + P + S <= palloc - pfree /\ palloc <= PoolLimit /\ rbytes = K
      /\ pfree \in Nat /\ palloc \in Nat /\ PoolLimit \in Nat
  BY <1>2, ReadAssumption DEF ReadInv, SlotsKept, ReadTypes, ReadCounts
<1> HIDE DEF B, K, P, S, C
<1>4. K <= PoolLimit BY <1>1, <1>3
<1> QED BY <1>3, <1>4 DEF ReadInv, SlotsKept, PoolBoundsReading

LEMMA InvReadSafe == ASSUME ReadInv PROVE ReadSafe
  BY InvReadTypes, InvInOrder, InvEndLast, InvPool DEF ReadInv, ReadSafe

=============================================================================
