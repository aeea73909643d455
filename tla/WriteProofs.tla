----------------------------- MODULE WriteProofs -----------------------------
(***************************************************************************)
(* Proofs about the write side of stream transports, for every number and  *)
(* length of writes and all water marks: each accepted byte is in one      *)
(* place, the buffered size is exact, a pipe keeps its order, and close()  *)
(* and write_eof() shut the socket down behind the bytes accepted before.  *)
(***************************************************************************)
EXTENDS StreamWrite, SequenceFacts

-----------------------------------------------------------------------------
(* The writer queue: a sequence of commands.                               *)

Command == [kind : {"data"}, bytes : Seq(Bytes)]
           \union [kind : Kinds \ {"data"}, bytes : {<<>>}]

\* The bytes queued, the kinds of the commands, and the bytes behind a control command.
QueueBytes(q) == UNION {Elems(q[i].bytes) : i \in 1..Len(q)}
KindsIn(q) == {q[i].kind : i \in 1..Len(q)}
BarredIn(q) ==
    UNION {Elems(q[i].bytes) : i \in {j \in 1..Len(q) : \E k \in 1..Len(q) :
                                          k < j /\ q[k].kind # "data"}}

\* No byte is queued twice.
OnceIn(q) ==
    /\ \A i \in 1..Len(q) : Distinct(q[i].bytes)
    /\ \A i, j \in 1..Len(q) : i # j => Elems(q[i].bytes) \cap Elems(q[j].bytes) = {}

\* The bytes are queued in ascending order.
Ascending(s) == \A i, j \in 1..Len(s) : i < j => s[i] < s[j]
Below(A, B) == \A a \in A, b \in B : a < b
OrderedIn(q) ==
    /\ \A i \in 1..Len(q) : Ascending(q[i].bytes)
    /\ \A i, j \in 1..Len(q) : i < j => Below(Elems(q[i].bytes), Elems(q[j].bytes))

-----------------------------------------------------------------------------
(* The inductive invariant.                                                *)

FlagTypes ==
    /\ closing \in BOOLEAN /\ lost_called \in BOOLEAN /\ backpressure \in BOOLEAN
    /\ protocol_paused \in BOOLEAN /\ scheduled \in BOOLEAN /\ receiver_alive \in BOOLEAN
    /\ counted \in BOOLEAN /\ should_pause \in BOOLEAN /\ faulty \in BOOLEAN
PointTypes ==
    /\ transport \in Transports
    /\ loop_pc \in {"idle", "direct", "stage", "mark", "record", "send", "flush", "drained"}
    /\ after \in {"idle", "close", "eof"}
    /\ worker_pc \in {"lazy", "recv", "write", "drained", "resume", "try", "empty", "clear",
                      "command", "exited"}
    /\ shut \in {"open", "graceful", "aborted"}
    /\ ended \in {"open", "close", "abort", "eof", "peer"}
CountTypes ==
    /\ size \in Nat /\ sent \in Nat /\ batch_len \in Nat
    /\ accepted \in Nat /\ accepted <= MaxBytes /\ covered \in Nat /\ covered <= accepted
ByteTypes ==
    /\ staged \in Seq(Bytes) /\ hand \in Seq(Bytes) /\ batch \in Seq(Bytes) /\ wire \in Seq(Bytes)
    /\ commands \in Seq(Command)
    /\ pending \in [kind : (Kinds \ {"data"}) \union {"none"}, bytes : {<<>>}]
    /\ refused \subseteq Bytes /\ dropped \subseteq Bytes
EventTypes ==
    events \in Seq({"resume", "eof", "lost"}) /\ read_event_state \in {"open", "eof", "lost"}
WriteTypes == FlagTypes /\ PointTypes /\ CountTypes /\ ByteTypes /\ EventTypes

\* W, S, H, B, Q, R and D share the bytes 1..n out between them.
Shares(W, S, H, B, Q, R, D, n) ==
    /\ W \union S \union H \union B \union Q \union R \union D = 1..n
    /\ \A b \in W : b \notin S /\ b \notin H /\ b \notin B /\ b \notin Q /\ b \notin R /\ b \notin D
    /\ \A b \in S : b \notin H /\ b \notin B /\ b \notin Q /\ b \notin R /\ b \notin D
    /\ \A b \in H : b \notin B /\ b \notin Q /\ b \notin R /\ b \notin D
    /\ \A b \in B : b \notin Q /\ b \notin R /\ b \notin D
    /\ \A b \in Q : b \notin R /\ b \notin D
    /\ \A b \in R : b \notin D

\* The bytes accepted are shared out between wire, buffers, queue, refused and dropped.
Apart ==
    Shares(Elems(wire), Elems(staged), Elems(hand), Elems(batch), QueueBytes(commands),
           refused, dropped, accepted)
EachOnce ==
    /\ Distinct(wire) /\ Distinct(staged) /\ Distinct(hand) /\ Distinct(batch)
    /\ OnceIn(commands)
Shared == Apart /\ EachOnce

\* What the loop thread holds at each point of a call.
Mid == {"direct", "stage", "mark", "record", "send", "flush"}
IsLost == read_event_state = "lost" \/ lost_called
LoopShape ==
    /\ loop_pc = "idle" => hand = <<>> /\ ~counted /\ sent = 0
    /\ loop_pc \in {"direct", "stage", "record"} => ~counted /\ sent = 0 /\ after = "idle"
    /\ loop_pc = "mark" => counted \/ (sent = 0 /\ after = "idle")
    /\ loop_pc = "send" => counted
    /\ loop_pc = "flush" => counted /\ sent = 0
    /\ loop_pc = "drained" => hand = <<>> /\ (counted \/ IsLost)
    /\ after # "idle" => staged = <<>> /\ ended = after

\* What the worker holds at each point of its loop.
WorkerShape ==
    /\ worker_pc # "write" => batch = <<>>
    /\ worker_pc = "command" <=> pending.kind # "none"
    /\ worker_pc = "lazy" => Direct /\ QueueBytes(commands) = {}

\* The control commands the worker was sent and has not finished.
Told == (KindsIn(commands) \union {pending.kind}) \ {"data", "none"}

\* How a transport comes to be closing, lost, or without its worker.
LossShape ==
    /\ ~receiver_alive => read_event_state = "lost"
    /\ "stop" \in Told => read_event_state = "lost"
    /\ "lost" \in Elems(events) => read_event_state = "lost"
    /\ lost_called => closing
    /\ closing /\ staged # <<>> => IsLost
    /\ closing /\ loop_pc \in Mid => ~receiver_alive /\ faulty
    /\ "close" \in Told \/ "abort" \in Told \/ "stop" \in Told => closing
    /\ ~receiver_alive => closing \/ faulty \/ CloseOnEof
    /\ ended = "peer" => closing

\* The worker alone writes to a pipe.
PipeShape ==
    CloseOnEof => staged = <<>> /\ loop_pc \in {"idle", "record", "send"}
                  /\ (loop_pc # "idle" => after = "idle" /\ sent = 0)

\* Nothing ends a connection but a fault or one of close(), write_eof(), abort() and the peer.
EndShape ==
    Told # {} \/ IsLost \/ closing \/ ~receiver_alive \/ shut # "open"
        => faulty \/ ended # "open"

\* The promised bytes have left the loop thread, or the flush of the first close() or
\* write_eof() is still under way and nothing has been told to end.
Settled == \A b \in 1..covered : b \notin Elems(staged) /\ b \notin Elems(hand)
FlushFirst ==
    ended \in {"close", "eof"} /\ ~faulty =>
        Settled \/ (after # "idle" /\ Told = {} /\ receiver_alive /\ ~closing)

\* No promised byte is queued behind a control command, or dropped.
Excused == faulty \/ ended = "abort" \/ (ended = "peer" /\ Direct)
Barred == IF pending.kind # "none" THEN QueueBytes(commands) ELSE BarredIn(commands)
DataFirst == ~Excused => \A b \in Promised : b \notin Barred
DropsExcused == ~Excused => \A b \in Promised : b \notin dropped

\* A graceful shutdown leaves no promised byte behind.
ShutLast ==
    shut = "graceful" /\ ~faulty /\ ended \in {"close", "eof"} =>
        \A b \in 1..covered : b \in Elems(wire) \/ b \in refused

\* The bytes of a pipe are in order from the wire back to the loop thread.
PipeOrder ==
    CloseOnEof =>
    /\ Ascending(wire) /\ Ascending(batch) /\ Ascending(hand) /\ OrderedIn(commands)
    /\ Below(Elems(wire), Elems(batch)) /\ Below(Elems(wire), QueueBytes(commands))
    /\ Below(Elems(wire), Elems(hand)) /\ Below(Elems(batch), QueueBytes(commands))
    /\ Below(Elems(batch), Elems(hand)) /\ Below(QueueBytes(commands), Elems(hand))

\* The buffered size counts what is staged, queued, in flight and held by a flush.
SizeCounts ==
    ~IsLost => size = Len(staged) + Cardinality(QueueBytes(commands)) + InFlight + LoopHolds

WriteInv ==
    /\ WriteTypes /\ Shared /\ LoopShape /\ WorkerShape /\ LossShape /\ PipeShape /\ EndShape
    /\ FlushFirst /\ DataFirst /\ DropsExcused /\ ShutLast /\ PipeOrder /\ SizeCounts

-----------------------------------------------------------------------------
(* The queue as commands are added and taken.                              *)

USE DEF history_vars, stage_vars, worker_vars, socket_vars, state_vars, queue_vars, event_vars,
    size_vars, loop_vars, SendControl, ClearSize, Return, flush_pending_direct_write, fail_write,
    Shutdown, stage_direct_write_buffer, DrainEvent, DrainOnLoop, ConnectionLost,
    worker_start_fails, direct_write_fails, send_data_fails, write_eof_writer,
    notify_resume_writing, Flush, worker_write_fails, Drain, close_writer, clear_backpressure,
    mark_backpressure, enqueue_pending_read_event, record_enqueued, eof_received,
    connection_lost, worker_eof, worker_drained, direct_write, Takes, flush_drained,
    try_recv_empty, resume_writing, Exit, send_data, worker_resume, flush_write, worker_write,
    worker_close, write_eof, worker_stop, peer_eof, abort, close, recv, write, SizeDrained,
    Resumes, OverCap, FlushedBytes, Rest, Pauses

LEMMA RangeElems == ASSUME NEW T, NEW s \in Seq(T) PROVE Range(s) = Elems(s)
  BY DEF Range, Elems

LEMMA InjectiveDistinct == ASSUME NEW T, NEW s \in Seq(T) PROVE IsInjective(s) <=> Distinct(s)
  BY DEF IsInjective, Distinct

LEMMA NothingIn ==
    /\ Elems(<<>>) = {} /\ Distinct(<<>>) /\ Ascending(<<>>) /\ Len(<<>>) = 0
    /\ <<>> \in Seq(Bytes) /\ <<>> \in Seq(Command)
    /\ QueueBytes(<<>>) = {} /\ KindsIn(<<>>) = {} /\ BarredIn(<<>>) = {}
    /\ OnceIn(<<>>) /\ OrderedIn(<<>>)
<1>1. Len(<<>>) = 0 /\ 1..0 = {} OBVIOUS
<1>2. Elems(<<>>) = {} /\ Distinct(<<>>) /\ Ascending(<<>>) BY <1>1 DEF Elems, Distinct, Ascending
<1>3. QueueBytes(<<>>) = {} /\ KindsIn(<<>>) = {} /\ BarredIn(<<>>) = {}
  BY <1>1 DEF QueueBytes, KindsIn, BarredIn
<1>4. OnceIn(<<>>) /\ OrderedIn(<<>>) BY <1>1 DEF OnceIn, OrderedIn
<1>5. <<>> \in Seq(Bytes) OBVIOUS
<1>6. <<>> \in Seq(Command) OBVIOUS
<1> QED BY <1>1, <1>2, <1>3, <1>4, <1>5, <1>6

LEMMA EmptyElems == ASSUME NEW T, NEW s \in Seq(T), Elems(s) = {} PROVE s = <<>>
<1>1. ASSUME Len(s) # 0 PROVE FALSE
 <2>1. 1 \in 1..Len(s) BY <1>1
 <2> QED BY <2>1 DEF Elems
<1> QED BY <1>1

LEMMA CommandFields ==
    ASSUME NEW c \in Command
    PROVE  /\ c.kind \in Kinds /\ c.bytes \in Seq(Bytes)
           /\ c.kind # "data" => c.bytes = <<>>
<1>1. CASE c \in [kind : {"data"}, bytes : Seq(Bytes)] BY <1>1 DEF Kinds
<1>2. CASE c \in [kind : Kinds \ {"data"}, bytes : {<<>>}]
 <2>1. c.bytes = <<>> /\ c.kind \in Kinds \ {"data"} BY <1>2
 <2> QED BY <2>1, NothingIn
<1> QED BY <1>1, <1>2 DEF Command

LEMMA DataCommand ==
    ASSUME NEW d \in Seq(Bytes)
    PROVE  Data(d) \in Command /\ Data(d).kind = "data" /\ Data(d).bytes = d
  BY DEF Data, Command

LEMMA ControlCommand ==
    ASSUME NEW k \in Kinds \ {"data"}
    PROVE  Control(k) \in Command /\ Control(k).kind = k /\ Control(k).bytes = <<>>
  BY DEF Control, Command

\* A command is queued behind the others.
LEMMA AppendQueue ==
    ASSUME NEW q \in Seq(Command), NEW c \in Command
    PROVE  /\ Append(q, c) \in Seq(Command)
           /\ QueueBytes(Append(q, c)) = QueueBytes(q) \union Elems(c.bytes)
           /\ KindsIn(Append(q, c)) = KindsIn(q) \union {c.kind}
<1> DEFINE a == Append(q, c)
<1>1. a \in Seq(Command) /\ Len(a) = Len(q) + 1 /\ Len(q) \in Nat
      /\ (\A i \in 1..Len(q) : a[i] = q[i]) /\ a[Len(q) + 1] = c
  OBVIOUS
<1>2. 1..Len(a) = 1..Len(q) \union {Len(q) + 1} BY <1>1
<1> HIDE DEF a
<1>3. QueueBytes(a) = QueueBytes(q) \union Elems(c.bytes) BY <1>1, <1>2 DEF QueueBytes
<1>4. KindsIn(a) = KindsIn(q) \union {c.kind} BY <1>1, <1>2, ZenonT(60) DEF KindsIn
<1> QED BY <1>1, <1>3, <1>4 DEF a

\* The elements of a command are among those of the queue.
LEMMA InQueue ==
    ASSUME NEW q, NEW i \in 1..Len(q), NEW b \in Elems(q[i].bytes)
    PROVE  b \in QueueBytes(q)
  BY DEF QueueBytes

LEMMA OfQueue ==
    ASSUME NEW q, NEW b \in QueueBytes(q)
    PROVE  \E i \in 1..Len(q) : b \in Elems(q[i].bytes)
  BY DEF QueueBytes

LEMMA InBarred ==
    ASSUME NEW q, NEW j \in 1..Len(q), NEW k \in 1..Len(q), k < j, q[k].kind # "data",
           NEW b \in Elems(q[j].bytes)
    PROVE  b \in BarredIn(q)
  BY DEF BarredIn

LEMMA OfBarred ==
    ASSUME NEW q, NEW b \in BarredIn(q)
    PROVE  \E j, k \in 1..Len(q) : k < j /\ q[k].kind # "data" /\ b \in Elems(q[j].bytes)
  BY DEF BarredIn

LEMMA BarredQueued == ASSUME NEW q PROVE BarredIn(q) \subseteq QueueBytes(q)
  BY OfBarred, InQueue

LEMMA NoneBarred == ASSUME NEW q, KindsIn(q) \subseteq {"data"} PROVE BarredIn(q) = {}
<1>1. \A k \in 1..Len(q) : q[k].kind = "data" BY DEF KindsIn
<1> QED BY <1>1, OfBarred

LEMMA AppendOnce ==
    ASSUME NEW q \in Seq(Command), NEW c \in Command, OnceIn(q), Distinct(c.bytes),
           \A b \in Elems(c.bytes) : b \notin QueueBytes(q)
    PROVE  OnceIn(Append(q, c))
<1> DEFINE a == Append(q, c)
<1>1. Len(a) = Len(q) + 1 /\ Len(q) \in Nat
      /\ (\A i \in 1..Len(q) : a[i] = q[i]) /\ a[Len(q) + 1] = c
  OBVIOUS
<1>2. \A i \in 1..Len(a) : i \in 1..Len(q) \/ i = Len(q) + 1 BY <1>1
<1> HIDE DEF a
<1>3. \A i \in 1..Len(a) : Distinct(a[i].bytes) BY <1>1, <1>2 DEF OnceIn
<1>4. ASSUME NEW i \in 1..Len(a), NEW j \in 1..Len(a), i # j,
             NEW b \in Elems(a[i].bytes), b \in Elems(a[j].bytes) PROVE FALSE
 <2>1. CASE i \in 1..Len(q) /\ j \in 1..Len(q) BY <1>1, <1>4, <2>1 DEF OnceIn
 <2>2. CASE i = Len(q) + 1
  <3>1. j \in 1..Len(q) BY <1>2, <1>4, <2>2
  <3>2. b \in QueueBytes(q) BY <1>1, <1>4, <3>1, InQueue
  <3> QED BY <1>1, <1>4, <2>2, <3>2
 <2>3. CASE j = Len(q) + 1
  <3>1. i \in 1..Len(q) BY <1>2, <1>4, <2>3
  <3>2. b \in QueueBytes(q) BY <1>1, <1>4, <3>1, InQueue
  <3> QED BY <1>1, <1>4, <2>3, <3>2
 <2> QED BY <1>2, <2>1, <2>2, <2>3
<1>5. OnceIn(a) BY <1>3, <1>4 DEF OnceIn
<1> QED BY <1>5 DEF a

LEMMA AppendBarred ==
    ASSUME NEW q \in Seq(Command), NEW c \in Command
    PROVE  /\ BarredIn(Append(q, c)) \subseteq BarredIn(q) \union Elems(c.bytes)
           /\ KindsIn(q) \subseteq {"data"} => BarredIn(Append(q, c)) = {}
<1> DEFINE a == Append(q, c)
<1>1. Len(a) = Len(q) + 1 /\ Len(q) \in Nat
      /\ (\A i \in 1..Len(q) : a[i] = q[i]) /\ a[Len(q) + 1] = c
  OBVIOUS
<1> HIDE DEF a
<1>2. ASSUME NEW b \in BarredIn(a)
      PROVE  b \in BarredIn(q) \union Elems(c.bytes) /\ ~(KindsIn(q) \subseteq {"data"})
 <2>1. PICK j \in 1..Len(a), k \in 1..Len(a) :
           k < j /\ a[k].kind # "data" /\ b \in Elems(a[j].bytes)
   BY OfBarred
 <2>2. k \in 1..Len(q) /\ (j \in 1..Len(q) \/ j = Len(q) + 1) BY <1>1, <2>1
 <2>3. q[k].kind # "data" BY <1>1, <2>1, <2>2
 <2>4. b \in BarredIn(q) \union Elems(c.bytes)
  <3>1. CASE j = Len(q) + 1 BY <1>1, <2>1, <3>1
  <3>2. CASE j \in 1..Len(q) BY <1>1, <2>1, <2>2, <2>3, <3>2, InBarred
  <3> QED BY <2>2, <3>1, <3>2
 <2> QED BY <2>2, <2>3, <2>4 DEF KindsIn
<1> QED BY <1>2 DEF a

LEMMA AppendOrdered ==
    ASSUME NEW q \in Seq(Command), NEW c \in Command, OrderedIn(q), Ascending(c.bytes),
           Below(QueueBytes(q), Elems(c.bytes))
    PROVE  OrderedIn(Append(q, c))
<1> DEFINE a == Append(q, c)
<1>1. Len(a) = Len(q) + 1 /\ Len(q) \in Nat
      /\ (\A i \in 1..Len(q) : a[i] = q[i]) /\ a[Len(q) + 1] = c
  OBVIOUS
<1> HIDE DEF a
<1>2. \A i \in 1..Len(a) : i \in 1..Len(q) \/ i = Len(q) + 1 BY <1>1
<1>3. \A i \in 1..Len(a) : Ascending(a[i].bytes) BY <1>1, <1>2 DEF OrderedIn
<1>4. ASSUME NEW i \in 1..Len(a), NEW j \in 1..Len(a), i < j
      PROVE  Below(Elems(a[i].bytes), Elems(a[j].bytes))
 <2>1. i \in 1..Len(q) /\ (j \in 1..Len(q) \/ j = Len(q) + 1) BY <1>1, <1>4
 <2>2. CASE j \in 1..Len(q) BY <1>1, <1>4, <2>1, <2>2 DEF OrderedIn
 <2>3. CASE j = Len(q) + 1
  <3>1. a[i] = q[i] /\ a[j] = c BY <1>1, <2>1, <2>3
  <3>2. Elems(q[i].bytes) \subseteq QueueBytes(q) BY <2>1, InQueue
  <3> QED BY <3>1, <3>2 DEF Below
 <2> QED BY <2>1, <2>2, <2>3
<1>5. OrderedIn(a) BY <1>3, <1>4 DEF OrderedIn
<1> QED BY <1>5 DEF a

\* Data is joined to the last command, which is data too.
Joined(q, d) == Front(q) \o <<Data(Last(q).bytes \o d)>>

LEMMA JoinShape ==
    ASSUME NEW q \in Seq(Command), q # <<>>, Last(q).kind = "data", NEW d \in Seq(Bytes)
    PROVE  /\ Joined(q, d) \in Seq(Command)
           /\ Len(Joined(q, d)) = Len(q) /\ Len(q) \in Nat \ {0}
           /\ \A i \in 1..(Len(q) - 1) : Joined(q, d)[i] = q[i]
           /\ Joined(q, d)[Len(q)].kind = "data" /\ q[Len(q)].kind = "data"
           /\ Joined(q, d)[Len(q)].bytes = q[Len(q)].bytes \o d
           /\ q[Len(q)].bytes \in Seq(Bytes)
<1> DEFINE n == Len(q)
           c == Data(q[n].bytes \o d)
<1>1. n \in Nat \ {0} /\ q[n] \in Command /\ Last(q) = q[n] BY DEF Last
<1>2. q[n].bytes \in Seq(Bytes) BY <1>1, CommandFields
<1>3. q[n].bytes \o d \in Seq(Bytes) BY <1>2
<1>4. c \in Command /\ c.kind = "data" /\ c.bytes = q[n].bytes \o d BY <1>3, DataCommand
<1> HIDE DEF c
<1>5. Front(q) \in Seq(Command) /\ Len(Front(q)) = n - 1
      /\ \A i \in 1..(n - 1) : Front(q)[i] = q[i]
  <2> DEFINE m == n - 1
 <2>1. m \in 0..Len(q) BY <1>1
 <2> HIDE DEF m
 <2>2. SubSeq(q, 1, m) \in Seq(Command) /\ Len(SubSeq(q, 1, m)) = m
       /\ \A i \in 1..m : SubSeq(q, 1, m)[i] = q[i]
   BY <2>1, CutElems
 <2> QED BY <2>2 DEF Front, m
<1>6. <<c>> \in Seq(Command) /\ Len(<<c>>) = 1 /\ <<c>>[1] = c BY <1>4
<1>7. Joined(q, d) = Front(q) \o <<c>> BY <1>1 DEF Joined, c
<1>8. Joined(q, d) \in Seq(Command) /\ Len(Joined(q, d)) = n BY <1>1, <1>5, <1>6, <1>7
<1>9. \A i \in 1..(n - 1) : Joined(q, d)[i] = q[i] BY <1>1, <1>5, <1>6, <1>7
<1>10. Joined(q, d)[n] = c BY <1>1, <1>5, <1>6, <1>7
<1> QED BY <1>1, <1>2, <1>4, <1>8, <1>9, <1>10

LEMMA JoinQueue ==
    ASSUME NEW q \in Seq(Command), q # <<>>, Last(q).kind = "data", NEW d \in Seq(Bytes)
    PROVE  /\ QueueBytes(Joined(q, d)) = QueueBytes(q) \union Elems(d)
           /\ KindsIn(Joined(q, d)) = KindsIn(q) \union {"data"}
<1> DEFINE n == Len(q)
           a == Joined(q, d)
<1>1. Len(a) = n /\ n \in Nat \ {0} /\ (\A i \in 1..(n - 1) : a[i] = q[i])
      /\ a[n].kind = "data" /\ q[n].kind = "data" /\ a[n].bytes = q[n].bytes \o d
  BY JoinShape
<1>2. Elems(a[n].bytes) = Elems(q[n].bytes) \union Elems(d) BY <1>1, JoinShape, ConcatElems
<1>3. 1..n = 1..(n - 1) \union {n} BY <1>1
<1> HIDE DEF a, n
<1>4. Len(q) = n BY DEF n
<1>5. ASSUME NEW b \in QueueBytes(a) PROVE b \in QueueBytes(q) \union Elems(d)
 <2>1. PICK i \in 1..Len(a) : b \in Elems(a[i].bytes) BY OfQueue
 <2>2. b \in Elems(q[i].bytes) \/ b \in Elems(d) BY <1>1, <1>2, <1>3, <2>1
 <2> QED BY <1>1, <1>4, <2>1, <2>2, InQueue
<1>6. ASSUME NEW b \in QueueBytes(q) \union Elems(d) PROVE b \in QueueBytes(a)
 <2>1. CASE b \in Elems(d)
  <3>1. n \in 1..Len(a) BY <1>1
  <3> QED BY <1>2, <2>1, <3>1, InQueue
 <2>2. CASE b \in QueueBytes(q)
  <3>1. PICK i \in 1..Len(q) : b \in Elems(q[i].bytes) BY <2>2, OfQueue
  <3>2. b \in Elems(a[i].bytes) /\ i \in 1..Len(a) BY <1>1, <1>2, <1>3, <1>4, <3>1
  <3> QED BY <3>2, InQueue
 <2> QED BY <1>6, <2>1, <2>2
<1>7. KindsIn(a) = {a[i].kind : i \in 1..(n - 1)} \union {"data"} BY <1>1, <1>3 DEF KindsIn
<1>8. KindsIn(q) = {q[i].kind : i \in 1..(n - 1)} \union {"data"} BY <1>1, <1>3 DEF KindsIn, n
<1>9. {a[i].kind : i \in 1..(n - 1)} = {q[i].kind : i \in 1..(n - 1)} BY <1>1, Zenon
<1>10. KindsIn(a) = KindsIn(q) \union {"data"} BY <1>7, <1>8, <1>9
<1>11. QueueBytes(a) = QueueBytes(q) \union Elems(d) BY <1>5, <1>6
<1> QED BY <1>10, <1>11 DEF a

LEMMA JoinOnce ==
    ASSUME NEW q \in Seq(Command), q # <<>>, Last(q).kind = "data", NEW d \in Seq(Bytes),
           OnceIn(q), Distinct(d), \A b \in Elems(d) : b \notin QueueBytes(q)
    PROVE  OnceIn(Joined(q, d))
<1> DEFINE n == Len(q)
           a == Joined(q, d)
<1>1. Len(a) = n /\ n \in Nat \ {0} /\ (\A i \in 1..(n - 1) : a[i] = q[i])
      /\ a[n].bytes = q[n].bytes \o d /\ q[n].bytes \in Seq(Bytes)
  BY JoinShape
<1>2. Elems(a[n].bytes) = Elems(q[n].bytes) \union Elems(d) BY <1>1, ConcatElems
<1>3. Distinct(a[n].bytes)
 <2>1. Distinct(q[n].bytes) /\ n \in 1..Len(q) BY <1>1 DEF OnceIn
 <2>2. Elems(q[n].bytes) \cap Elems(d) = {} BY <2>1, InQueue
 <2> QED BY <1>1, <2>1, <2>2, ConcatElems
<1>4. \A i \in 1..Len(a) : i \in 1..Len(q) /\ (i \in 1..(n - 1) \/ i = n) BY <1>1
<1> HIDE DEF a
<1>5. \A i \in 1..Len(a) : Distinct(a[i].bytes) BY <1>1, <1>3, <1>4 DEF OnceIn
<1>6. ASSUME NEW i \in 1..Len(a), NEW b \in Elems(a[i].bytes)
      PROVE  b \in Elems(q[i].bytes) \/ (i = n /\ b \in Elems(d))
  BY <1>1, <1>2, <1>4, <1>6
<1> HIDE DEF n
<1>7. ASSUME NEW i \in 1..Len(a), NEW j \in 1..Len(a), i # j,
             NEW b \in Elems(a[i].bytes), b \in Elems(a[j].bytes) PROVE FALSE
 <2>1. i \in 1..Len(q) /\ j \in 1..Len(q) BY <1>4
 <2>2. b \in Elems(q[i].bytes) \/ (i = n /\ b \in Elems(d)) BY <1>6, <1>7
 <2>3. b \in Elems(q[j].bytes) \/ (j = n /\ b \in Elems(d)) BY <1>6, <1>7
 <2>4. ~(b \in Elems(q[i].bytes) /\ b \in Elems(q[j].bytes)) BY <1>7, <2>1 DEF OnceIn
 <2>5. b \in QueueBytes(q) BY <1>7, <2>1, <2>2, <2>3, InQueue
 <2> QED BY <2>2, <2>3, <2>4, <2>5
<1>8. OnceIn(a) BY <1>5, <1>7 DEF OnceIn
<1> QED BY <1>8, Zenon DEF a

LEMMA JoinBarred ==
    ASSUME NEW q \in Seq(Command), q # <<>>, Last(q).kind = "data", NEW d \in Seq(Bytes)
    PROVE  BarredIn(Joined(q, d)) \subseteq BarredIn(q) \union Elems(d)
<1> DEFINE n == Len(q)
           a == Joined(q, d)
<1>1. Len(a) = n /\ n \in Nat \ {0} /\ (\A i \in 1..(n - 1) : a[i] = q[i])
      /\ a[n].bytes = q[n].bytes \o d /\ q[n].bytes \in Seq(Bytes) /\ a[n].kind = "data"
  BY JoinShape
<1>2. Elems(a[n].bytes) = Elems(q[n].bytes) \union Elems(d) BY <1>1, ConcatElems
<1> HIDE DEF a
<1>3. ASSUME NEW b \in BarredIn(a), b \notin Elems(d) PROVE b \in BarredIn(q)
 <2>1. PICK j \in 1..Len(a), k \in 1..Len(a) :
           k < j /\ a[k].kind # "data" /\ b \in Elems(a[j].bytes)
   BY OfBarred
 <2>2. k \in 1..(n - 1) /\ j \in 1..Len(q) /\ k \in 1..Len(q) /\ (j \in 1..(n - 1) \/ j = n)
   BY <1>1, <2>1
 <2>3. q[k].kind # "data" BY <1>1, <2>1, <2>2
 <2>4. b \in Elems(q[j].bytes) BY <1>1, <1>2, <1>3, <2>1, <2>2
 <2> QED BY <2>1, <2>2, <2>3, <2>4, InBarred
<1> QED BY <1>3 DEF a

\* Ascending sequences are joined.
LEMMA ConcatAscending ==
    ASSUME NEW s \in Seq(Bytes), NEW t \in Seq(Bytes), Ascending(s), Ascending(t),
           Below(Elems(s), Elems(t))
    PROVE  Ascending(s \o t)
<1>1. Len(s \o t) = Len(s) + Len(t) /\ Len(s) \in Nat /\ Len(t) \in Nat
      /\ \A i \in 1..(Len(s) + Len(t)) :
             (s \o t)[i] = IF i <= Len(s) THEN s[i] ELSE t[i - Len(s)]
  OBVIOUS
<1> SUFFICES ASSUME NEW i \in 1..(Len(s) + Len(t)), NEW j \in 1..(Len(s) + Len(t)), i < j
             PROVE  (s \o t)[i] < (s \o t)[j]
  BY <1>1 DEF Ascending
<1>2. ASSUME NEW k \in 1..(Len(s) + Len(t))
      PROVE  \/ k \in 1..Len(s) /\ (s \o t)[k] = s[k] /\ s[k] \in Elems(s)
             \/ k - Len(s) \in 1..Len(t) /\ (s \o t)[k] = t[k - Len(s)]
                /\ t[k - Len(s)] \in Elems(t)
  BY <1>1 DEF Elems
<1>3. CASE i \in 1..Len(s) /\ j \in 1..Len(s) BY <1>1, <1>3 DEF Ascending
<1>4. CASE i \in 1..Len(s) /\ ~(j \in 1..Len(s)) BY <1>1, <1>2, <1>4 DEF Below
<1>5. CASE ~(i \in 1..Len(s))
 <2>1. ~(j \in 1..Len(s)) /\ i - Len(s) < j - Len(s) BY <1>1, <1>5
 <2> QED BY <1>1, <1>2, <1>5, <2>1 DEF Ascending
<1> QED BY <1>3, <1>4, <1>5

LEMMA JoinOrdered ==
    ASSUME NEW q \in Seq(Command), q # <<>>, Last(q).kind = "data", NEW d \in Seq(Bytes),
           OrderedIn(q), Ascending(d), Below(QueueBytes(q), Elems(d))
    PROVE  OrderedIn(Joined(q, d))
<1> DEFINE n == Len(q)
           a == Joined(q, d)
<1>1. Len(a) = n /\ n \in Nat \ {0} /\ (\A i \in 1..(n - 1) : a[i] = q[i])
      /\ a[n].bytes = q[n].bytes \o d /\ q[n].bytes \in Seq(Bytes)
  BY JoinShape, Zenon
<1>2. Elems(a[n].bytes) = Elems(q[n].bytes) \union Elems(d) BY <1>1, ConcatElems
<1>3. \A i \in 1..Len(q) : Below(Elems(q[i].bytes), Elems(d)) BY InQueue DEF Below
<1>4. Ascending(a[n].bytes)
 <2>1. n \in 1..Len(q) BY <1>1
 <2>2. Ascending(q[n].bytes) BY <2>1, Zenon DEF OrderedIn
 <2> QED BY <1>1, <1>3, <2>1, <2>2, ConcatAscending
<1> HIDE DEF a
<1>5. \A i \in 1..Len(a) : Ascending(a[i].bytes)
 <2>1. \A i \in 1..Len(a) : i \in 1..Len(q) /\ (i \in 1..(n - 1) \/ i = n) BY <1>1
 <2> QED BY <1>1, <1>4, <2>1 DEF OrderedIn
<1>6. ASSUME NEW i \in 1..Len(a), NEW j \in 1..Len(a), i < j
      PROVE  Below(Elems(a[i].bytes), Elems(a[j].bytes))
 <2>1. i \in 1..(n - 1) /\ i \in 1..Len(q) /\ j \in 1..Len(q) /\ (j \in 1..(n - 1) \/ j = n)
   BY <1>1, <1>6
 <2>2. Below(Elems(q[i].bytes), Elems(q[j].bytes)) BY <1>6, <2>1 DEF OrderedIn
 <2>3. CASE j \in 1..(n - 1) BY <1>1, <2>1, <2>2, <2>3, Zenon
 <2>4. CASE j = n
  <3>1. a[i] = q[i] BY <1>1, <2>1
  <3> QED BY <1>2, <1>3, <2>1, <2>2, <2>4, <3>1 DEF Below
 <2> QED BY <2>1, <2>3, <2>4
<1>7. OrderedIn(a) BY <1>5, <1>6 DEF OrderedIn
<1> QED BY <1>7 DEF a

\* The first command is taken.
LEMMA TakeQueue ==
    ASSUME NEW q \in Seq(Command), q # <<>>
    PROVE  /\ Tail(q) \in Seq(Command) /\ Head(q) \in Command
           /\ QueueBytes(q) = QueueBytes(Tail(q)) \union Elems(Head(q).bytes)
           /\ KindsIn(q) = KindsIn(Tail(q)) \union {Head(q).kind}
<1> DEFINE a == Tail(q)
           n == Len(q)
<1>1. a \in Seq(Command) /\ Head(q) \in Command /\ Head(q) = q[1] /\ n \in Nat \ {0}
      /\ Len(a) = n - 1 /\ \A i \in 1..(n - 1) : a[i] = q[i + 1]
  BY TailElems
<1> HIDE DEF a
<1>2. ASSUME NEW i \in 1..n PROVE i = 1 \/ (i - 1 \in 1..Len(a) /\ a[i - 1] = q[i]) BY <1>1
<1>3. ASSUME NEW i \in 1..Len(a) PROVE i + 1 \in 1..n /\ a[i] = q[i + 1] BY <1>1
<1>4. 1 \in 1..n BY <1>1
<1>5. ASSUME NEW b \in QueueBytes(q) PROVE b \in QueueBytes(a) \union Elems(q[1].bytes)
 <2>1. PICK i \in 1..n : b \in Elems(q[i].bytes) BY OfQueue
 <2> QED BY <1>2, <2>1, InQueue, Zenon
<1>6. ASSUME NEW b \in QueueBytes(a) PROVE b \in QueueBytes(q)
 <2>1. PICK i \in 1..Len(a) : b \in Elems(a[i].bytes) BY OfQueue
 <2> QED BY <1>3, <2>1, InQueue, Zenon
<1>7. Elems(q[1].bytes) \subseteq QueueBytes(q) BY <1>4, InQueue
<1>8. ASSUME NEW x \in KindsIn(q) PROVE x \in KindsIn(a) \union {q[1].kind} BY <1>2 DEF KindsIn
<1>9. ASSUME NEW x \in KindsIn(a) PROVE x \in KindsIn(q) BY <1>3 DEF KindsIn
<1>10. q[1].kind \in KindsIn(q) BY <1>4 DEF KindsIn
<1> QED BY <1>1, <1>5, <1>6, <1>7, <1>8, <1>9, <1>10 DEF a

LEMMA TakeOnce ==
    ASSUME NEW q \in Seq(Command), q # <<>>, OnceIn(q)
    PROVE  /\ OnceIn(Tail(q)) /\ Distinct(Head(q).bytes)
           /\ \A b \in Elems(Head(q).bytes) : b \notin QueueBytes(Tail(q))
<1> DEFINE a == Tail(q)
           n == Len(q)
<1>1. Head(q) = q[1] /\ n \in Nat \ {0} /\ Len(a) = n - 1 /\ \A i \in 1..(n - 1) : a[i] = q[i + 1]
  BY TailElems
<1> HIDE DEF a
<1>2. ASSUME NEW i \in 1..Len(a) PROVE i + 1 \in 1..n /\ a[i] = q[i + 1] /\ i + 1 # 1 BY <1>1
<1>3. 1 \in 1..n BY <1>1
<1>4. \A i \in 1..Len(a) : Distinct(a[i].bytes) BY <1>2 DEF OnceIn
<1>5. ASSUME NEW i \in 1..Len(a), NEW j \in 1..Len(a), i # j
      PROVE  Elems(a[i].bytes) \cap Elems(a[j].bytes) = {}
 <2>1. i + 1 \in 1..n /\ j + 1 \in 1..n /\ i + 1 # j + 1 /\ a[i] = q[i + 1] /\ a[j] = q[j + 1]
   BY <1>1, <1>2, <1>5
 <2> QED BY <2>1 DEF OnceIn
<1>6. ASSUME NEW b \in Elems(q[1].bytes), b \in QueueBytes(a) PROVE FALSE
 <2>1. PICK i \in 1..Len(a) : b \in Elems(a[i].bytes) BY <1>6, OfQueue
 <2>2. i + 1 \in 1..n /\ a[i] = q[i + 1] /\ i + 1 # 1 BY <1>2
 <2> QED BY <1>3, <1>6, <2>1, <2>2 DEF OnceIn
<1>7. OnceIn(a) /\ Distinct(q[1].bytes) BY <1>3, <1>4, <1>5 DEF OnceIn
<1> QED BY <1>1, <1>6, <1>7 DEF a

LEMMA TakeBarred ==
    ASSUME NEW q \in Seq(Command), q # <<>>
    PROVE  /\ BarredIn(Tail(q)) \subseteq BarredIn(q)
           /\ Head(q).kind # "data" => QueueBytes(Tail(q)) \subseteq BarredIn(q)
<1> DEFINE a == Tail(q)
           n == Len(q)
<1>1. Head(q) = q[1] /\ n \in Nat \ {0} /\ Len(a) = n - 1 /\ \A i \in 1..(n - 1) : a[i] = q[i + 1]
  BY TailElems
<1> HIDE DEF a
<1>2. ASSUME NEW i \in 1..Len(a) PROVE i + 1 \in 1..n /\ a[i] = q[i + 1] /\ 1 < i + 1 BY <1>1
<1>3. ASSUME NEW b \in BarredIn(a) PROVE b \in BarredIn(q)
 <2>1. PICK j \in 1..Len(a), k \in 1..Len(a) :
           k < j /\ a[k].kind # "data" /\ b \in Elems(a[j].bytes)
   BY OfBarred
 <2>2. j + 1 \in 1..n /\ k + 1 \in 1..n /\ k + 1 < j + 1 /\ a[j] = q[j + 1] /\ a[k] = q[k + 1]
   BY <1>1, <1>2, <2>1
 <2> QED BY <2>1, <2>2, InBarred
<1>4. ASSUME q[1].kind # "data", NEW b \in QueueBytes(a) PROVE b \in BarredIn(q)
 <2>1. PICK i \in 1..Len(a) : b \in Elems(a[i].bytes) BY <1>4, OfQueue
 <2>2. i + 1 \in 1..n /\ a[i] = q[i + 1] /\ 1 < i + 1 /\ 1 \in 1..n BY <1>1, <1>2
 <2> QED BY <1>4, <2>1, <2>2, InBarred
<1> QED BY <1>1, <1>3, <1>4 DEF a

LEMMA TakeOrdered ==
    ASSUME NEW q \in Seq(Command), q # <<>>, OrderedIn(q)
    PROVE  /\ OrderedIn(Tail(q)) /\ Ascending(Head(q).bytes)
           /\ Below(Elems(Head(q).bytes), QueueBytes(Tail(q)))
<1> DEFINE a == Tail(q)
           n == Len(q)
<1>1. Head(q) = q[1] /\ n \in Nat \ {0} /\ Len(a) = n - 1 /\ \A i \in 1..(n - 1) : a[i] = q[i + 1]
  BY TailElems
<1> HIDE DEF a
<1>2. ASSUME NEW i \in 1..Len(a) PROVE i + 1 \in 1..n /\ a[i] = q[i + 1] /\ 1 < i + 1 BY <1>1
<1>3. 1 \in 1..n BY <1>1
<1>4. \A i \in 1..Len(a) : Ascending(a[i].bytes) BY <1>2 DEF OrderedIn
<1>5. ASSUME NEW i \in 1..Len(a), NEW j \in 1..Len(a), i < j
      PROVE  Below(Elems(a[i].bytes), Elems(a[j].bytes))
 <2>1. i + 1 \in 1..n /\ j + 1 \in 1..n /\ i + 1 < j + 1 /\ a[i] = q[i + 1] /\ a[j] = q[j + 1]
   BY <1>1, <1>2, <1>5
 <2> QED BY <2>1 DEF OrderedIn
<1>6. Below(Elems(q[1].bytes), QueueBytes(a))
 <2> SUFFICES ASSUME NEW x \in Elems(q[1].bytes), NEW b \in QueueBytes(a) PROVE x < b BY DEF Below
 <2>1. PICK i \in 1..Len(a) : b \in Elems(a[i].bytes) BY OfQueue
 <2>2. i + 1 \in 1..n /\ a[i] = q[i + 1] /\ 1 < i + 1 BY <1>2
 <2> QED BY <1>3, <2>1, <2>2 DEF OrderedIn, Below
<1>7. OrderedIn(a) /\ Ascending(q[1].bytes) BY <1>3, <1>4, <1>5 DEF OrderedIn
<1> QED BY <1>1, <1>6, <1>7 DEF a

LEMMA CutAscending ==
    ASSUME NEW s \in Seq(Bytes), Ascending(s), NEW n \in 0..Len(s)
    PROVE  /\ Ascending(SubSeq(s, 1, n)) /\ Ascending(SubSeq(s, n + 1, Len(s)))
           /\ Below(Elems(SubSeq(s, 1, n)), Elems(SubSeq(s, n + 1, Len(s))))
<1> DEFINE a == SubSeq(s, 1, n)
           b == SubSeq(s, n + 1, Len(s))
<1>1. Len(a) = n /\ Len(b) = Len(s) - n /\ Len(s) \in Nat /\ n \in Nat
      /\ (\A i \in 1..n : a[i] = s[i]) /\ \A i \in 1..(Len(s) - n) : b[i] = s[n + i]
  BY CutElems
<1> HIDE DEF a, b
<1>2. Ascending(a)
 <2> SUFFICES ASSUME NEW i \in 1..n, NEW j \in 1..n, i < j PROVE a[i] < a[j] BY <1>1 DEF Ascending
 <2>1. i \in 1..Len(s) /\ j \in 1..Len(s) BY <1>1
 <2> QED BY <1>1, <2>1 DEF Ascending
<1>3. Ascending(b)
 <2> SUFFICES ASSUME NEW i \in 1..(Len(s) - n), NEW j \in 1..(Len(s) - n), i < j PROVE b[i] < b[j]
   BY <1>1 DEF Ascending
 <2>1. n + i \in 1..Len(s) /\ n + j \in 1..Len(s) /\ n + i < n + j BY <1>1
 <2>2. s[n + i] < s[n + j] BY <2>1 DEF Ascending
 <2> QED BY <1>1, <2>2
<1>4. ASSUME NEW x \in Elems(a), NEW y \in Elems(b) PROVE x < y
 <2>1. PICK i \in 1..n : x = s[i] BY <1>1 DEF Elems
 <2>2. PICK j \in 1..(Len(s) - n) : y = s[n + j] BY <1>1 DEF Elems
 <2>3. i \in 1..Len(s) /\ n + j \in 1..Len(s) /\ i < n + j BY <1>1
 <2> QED BY <2>1, <2>2, <2>3 DEF Ascending
<1>5. Below(Elems(a), Elems(b)) BY <1>4 DEF Below
<1> QED BY <1>2, <1>3, <1>5 DEF a, b

\* A sequence without repetition has as many elements as it is long.
LEMMA CountElems ==
    ASSUME NEW T, NEW s \in Seq(T), Distinct(s)
    PROVE  IsFiniteSet(Elems(s)) /\ Cardinality(Elems(s)) = Len(s)
<1> DEFINE f == [i \in 1..Len(s) |-> s[i]]
<1>1. Len(s) \in Nat /\ 1 \in Int /\ Len(s) \in Int OBVIOUS
<1>2. IsFiniteSet(1..Len(s)) /\ Cardinality(1..Len(s)) = Len(s)
 <2>1. IsFiniteSet(1..Len(s)) /\ Cardinality(1..Len(s)) = IF 1 > Len(s) THEN 0 ELSE Len(s) - 1 + 1
   BY <1>1, FS_Interval
 <2> QED BY <1>1, <2>1
<1>3. f \in [1..Len(s) -> Elems(s)] BY DEF Elems
<1>4. \A a, b \in 1..Len(s) : f[a] = f[b] => a = b BY DEF Distinct
<1>5. \A t \in Elems(s) : \E a \in 1..Len(s) : f[a] = t BY DEF Elems
<1> HIDE DEF f
<1> QED BY <1>2, <1>3, <1>4, <1>5, SameSize

\* Disjoint sets of bytes add up.
LEMMA BytesFinite == IsFiniteSet(Bytes)
<1>1. 1 \in Int /\ MaxBytes \in Int BY WriteAssumption
<1> QED BY <1>1, FS_Interval DEF Bytes

LEMMA CountBoth ==
    ASSUME NEW A, NEW B, A \subseteq Bytes, B \subseteq Bytes, \A b \in B : b \notin A
    PROVE  /\ Cardinality(A) \in Nat /\ Cardinality(B) \in Nat
           /\ Cardinality(A \union B) = Cardinality(A) + Cardinality(B)
<1>1. IsFiniteSet(Bytes) BY BytesFinite
<1>2. IsFiniteSet(A) /\ IsFiniteSet(B) BY <1>1, FS_Subset
<1>3. Cardinality(A) \in Nat /\ Cardinality(B) \in Nat BY <1>2, FS_CardinalityType
<1>4. A \cap B = {} OBVIOUS
<1>5. Cardinality(A \cap B) = 0 BY <1>4, FS_EmptySet
<1>6. Cardinality(A \union B) = Cardinality(A) + Cardinality(B) - Cardinality(A \cap B)
  BY <1>2, FS_Union
<1> QED BY <1>3, <1>5, <1>6

-----------------------------------------------------------------------------
(* The steps, by what they do to the queue, the events and the buffers.    *)

\* A command sent to the worker.
LEMMA ControlSent ==
    ASSUME commands \in Seq(Command), NEW k \in Kinds \ {"data"},
           commands' = (IF receiver_alive THEN Append(commands, Control(k)) ELSE commands)
    PROVE  /\ commands' \in Seq(Command)
           /\ QueueBytes(commands') = QueueBytes(commands)
           /\ OnceIn(commands) => OnceIn(commands')
           /\ BarredIn(commands') \subseteq BarredIn(commands)
           /\ OrderedIn(commands) => OrderedIn(commands')
           /\ KindsIn(commands) \subseteq KindsIn(commands')
           /\ KindsIn(commands') \subseteq KindsIn(commands) \union {k}
           /\ ~receiver_alive => KindsIn(commands') = KindsIn(commands)
<1> DEFINE c == Control(k)
<1>1. c \in Command /\ c.kind = k /\ c.bytes = <<>> BY ControlCommand
<1> HIDE DEF c
<1>2. CASE ~receiver_alive BY <1>2
<1>3. CASE receiver_alive
 <2>1. commands' = Append(commands, c) BY <1>3 DEF c
 <2>2. Elems(c.bytes) = {} /\ Distinct(c.bytes) /\ Ascending(c.bytes) BY <1>1, NothingIn
 <2>3. /\ commands' \in Seq(Command)
       /\ QueueBytes(commands') = QueueBytes(commands) \union Elems(c.bytes)
       /\ KindsIn(commands') = KindsIn(commands) \union {c.kind}
   BY <1>1, <2>1, AppendQueue
 <2>4. OnceIn(commands) => OnceIn(commands') BY <1>1, <2>1, <2>2, AppendOnce
 <2>5. BarredIn(commands') \subseteq BarredIn(commands) \union Elems(c.bytes)
   BY <1>1, <2>1, AppendBarred
 <2>6. Below(QueueBytes(commands), Elems(c.bytes)) BY <2>2 DEF Below
 <2>7. OrderedIn(commands) => OrderedIn(commands') BY <1>1, <2>1, <2>2, <2>6, AppendOrdered
 <2> QED BY <1>1, <1>3, <2>2, <2>3, <2>4, <2>5, <2>7
<1> QED BY <1>2, <1>3

\* The loop thread hands its bytes to the worker.
LEMMA DataSent ==
    ASSUME commands \in Seq(Command), hand \in Seq(Bytes), OnceIn(commands), Distinct(hand),
           \A b \in Elems(hand) : b \notin QueueBytes(commands),
           \E append \in {FALSE, MayAppend} : commands' = Enqueued(hand, append)
    PROVE  /\ commands' \in Seq(Command)
           /\ QueueBytes(commands') = QueueBytes(commands) \union Elems(hand)
           /\ OnceIn(commands')
           /\ BarredIn(commands') \subseteq BarredIn(commands) \union Elems(hand)
           /\ KindsIn(commands') = KindsIn(commands) \union {"data"}
           /\ OrderedIn(commands) /\ Ascending(hand) /\ Below(QueueBytes(commands), Elems(hand))
                => OrderedIn(commands')
<1>1. CASE commands' = Append(commands, Data(hand))
  <2> DEFINE c == Data(hand)
 <2>1. c \in Command /\ c.kind = "data" /\ c.bytes = hand BY DataCommand
 <2> HIDE DEF c
 <2>2. commands' = Append(commands, c) BY <1>1 DEF c
 <2>3. /\ commands' \in Seq(Command)
       /\ QueueBytes(commands') = QueueBytes(commands) \union Elems(c.bytes)
       /\ KindsIn(commands') = KindsIn(commands) \union {c.kind}
   BY <2>1, <2>2, AppendQueue
 <2>4. OnceIn(commands') BY <2>1, <2>2, AppendOnce
 <2>5. BarredIn(commands') \subseteq BarredIn(commands) \union Elems(c.bytes)
   BY <2>1, <2>2, AppendBarred
 <2>6. OrderedIn(commands) /\ Ascending(hand) /\ Below(QueueBytes(commands), Elems(hand))
           => OrderedIn(commands')
   BY <2>1, <2>2, AppendOrdered, Zenon
 <2> QED BY <2>1, <2>3, <2>4, <2>5, <2>6
<1>2. CASE commands # <<>> /\ Last(commands).kind = "data" /\ commands' = Joined(commands, hand)
 <2>1. commands' \in Seq(Command) BY <1>2, JoinShape
 <2>2. /\ QueueBytes(commands') = QueueBytes(commands) \union Elems(hand)
       /\ KindsIn(commands') = KindsIn(commands) \union {"data"}
   BY <1>2, JoinQueue
 <2>3. OnceIn(commands') BY <1>2, JoinOnce
 <2>4. BarredIn(commands') \subseteq BarredIn(commands) \union Elems(hand) BY <1>2, JoinBarred
 <2>5. OrderedIn(commands) /\ Ascending(hand) /\ Below(QueueBytes(commands), Elems(hand))
           => OrderedIn(commands')
   BY <1>2, JoinOrdered, Zenon
 <2> QED BY <2>1, <2>2, <2>3, <2>4, <2>5
<1>3. commands' = Append(commands, Data(hand))
      \/ (commands # <<>> /\ Last(commands).kind = "data" /\ commands' = Joined(commands, hand))
  BY DEF Enqueued, MayAppend, Joined
<1> QED BY <1>1, <1>2, <1>3

\* An event passes the gate or not; a loss is never taken back.
LEMMA EventQueued ==
    ASSUME events \in Seq({"resume", "eof", "lost"}), read_event_state \in {"open", "eof", "lost"},
           NEW e \in {"resume", "eof", "lost"}, enqueue_pending_read_event(e)
    PROVE  /\ events' \in Seq({"resume", "eof", "lost"})
           /\ read_event_state' \in {"open", "eof", "lost"}
           /\ read_event_state = "lost" \/ e = "lost" <=> read_event_state' = "lost"
           /\ "lost" \in Elems(events') => "lost" \in Elems(events) \/ e = "lost"
<1>1. read_event_state' \in {"open", "eof", "lost"}
      /\ (read_event_state = "lost" \/ e = "lost" <=> read_event_state' = "lost")
  BY DEF Passes
<1>2. events' = events \/ events' = Append(events, e) OBVIOUS
<1>3. CASE events' = Append(events, e)
 <2>1. Append(events, e) \in Seq({"resume", "eof", "lost"})
       /\ Elems(Append(events, e)) = Elems(events) \union {e}
   BY AppendElems
 <2> QED BY <1>1, <1>3, <2>1
<1>4. CASE events' = events BY <1>1, <1>4
<1> QED BY <1>2, <1>3, <1>4

LEMMA TransportFixed == ASSUME WriteNext PROVE transport' = transport
  BY Zenon DEF WriteNext, LoopStep, WorkerStep, Call

LEMMA FlagsKept == ASSUME FlagTypes, WriteNext PROVE FlagTypes'
<1> USE DEF FlagTypes
<1>1. CASE stage_direct_write_buffer BY <1>1
<1>2. CASE mark_backpressure BY <1>2
<1>3. CASE record_enqueued BY <1>3
<1>4. CASE send_data BY <1>4
<1>5. CASE send_data_fails BY <1>5
<1>6. CASE flush_pending_direct_write BY <1>6
<1>7. CASE flush_drained BY <1>7
<1>8. CASE close_writer BY <1>8
<1>9. CASE connection_lost BY <1>9
<1>10. CASE eof_received BY <1>10
<1>11. ASSUME NEW k \in 0..MaxBytes, direct_write(k) PROVE FlagTypes' BY <1>11
<1>12. CASE direct_write_fails BY <1>12
<1>13. CASE worker_write_fails BY <1>13
<1>14. CASE worker_drained BY <1>14
<1>15. CASE clear_backpressure BY <1>15
<1>16. CASE worker_eof BY <1>16
<1>17. CASE worker_close BY <1>17
<1>18. CASE worker_stop BY <1>18
<1>19. CASE close BY <1>19
<1>20. CASE write_eof BY <1>20
<1>21. CASE abort BY <1>21
<1>22. CASE worker_start_fails BY <1>22
<1>23. CASE write_eof_writer \/ resume_writing \/ (\E k \in 0..MaxBytes : flush_write(k)) \/
         recv \/ worker_resume \/ try_recv_empty \/ (\E k \in 1..MaxBytes : worker_write(k)) \/
         (\E n \in Lengths : write(n)) \/ peer_eof
 <2>1. UNCHANGED <<closing, lost_called, backpressure, protocol_paused, scheduled,
                receiver_alive, counted, should_pause, faulty>>
   BY <1>23
 <2> QED BY <2>1
<1> HIDE DEF FlagTypes
<1> QED BY <1>1, <1>2, <1>3, <1>4, <1>5, <1>6, <1>7, <1>8, <1>9, <1>10, <1>11, <1>12, <1>13,
    <1>14, <1>15, <1>16, <1>17, <1>18, <1>19, <1>20, <1>21, <1>22, <1>23 DEF WriteNext, LoopStep,
    WorkerStep, Call

LEMMA PointsKept == ASSUME PointTypes, WriteNext PROVE PointTypes'
<1> USE DEF PointTypes
<1> transport' = transport BY TransportFixed
<1>1. CASE stage_direct_write_buffer BY <1>1
<1>2. CASE mark_backpressure BY <1>2
<1>3. CASE record_enqueued BY <1>3
<1>4. CASE send_data BY <1>4
<1>5. CASE send_data_fails BY <1>5
<1>6. CASE flush_pending_direct_write BY <1>6
<1>7. CASE flush_drained BY <1>7
<1>8. CASE close_writer BY <1>8
<1>9. CASE write_eof_writer BY <1>9
<1>10. CASE eof_received BY <1>10
<1>11. ASSUME NEW k \in 0..MaxBytes, direct_write(k) PROVE PointTypes' BY <1>11
<1>12. ASSUME NEW k \in 0..MaxBytes, flush_write(k) PROVE PointTypes' BY <1>12
<1>13. CASE direct_write_fails BY <1>13
<1>14. CASE recv BY <1>14
<1>15. CASE worker_write_fails BY <1>15
<1>16. CASE worker_drained BY <1>16
<1>17. CASE worker_resume BY <1>17
<1>18. CASE try_recv_empty BY <1>18
<1>19. CASE clear_backpressure BY <1>19
<1>20. CASE worker_eof BY <1>20
<1>21. CASE worker_close BY <1>21
<1>22. CASE worker_stop BY <1>22
<1>23. ASSUME NEW k \in 1..MaxBytes, worker_write(k) PROVE PointTypes' BY <1>23
<1>24. ASSUME NEW n \in Lengths, write(n) PROVE PointTypes' BY <1>24
<1>25. CASE close BY <1>25
<1>26. CASE write_eof BY <1>26
<1>27. CASE abort BY <1>27
<1>28. CASE worker_start_fails BY <1>28
<1>29. CASE resume_writing \/ connection_lost \/ peer_eof
 <2>1. UNCHANGED <<loop_pc, after, worker_pc, shut, ended>> BY <1>29
 <2> QED BY <2>1
<1> HIDE DEF PointTypes
<1> QED BY <1>1, <1>2, <1>3, <1>4, <1>5, <1>6, <1>7, <1>8, <1>9, <1>10, <1>11, <1>12, <1>13,
    <1>14, <1>15, <1>16, <1>17, <1>18, <1>19, <1>20, <1>21, <1>22, <1>23, <1>24, <1>25, <1>26,
    <1>27, <1>28, <1>29 DEF WriteNext, LoopStep, WorkerStep, Call

LEMMA CountsKept == ASSUME CountTypes, WriteNext PROVE CountTypes'
<1> USE WriteAssumption DEF CountTypes
<1>1. CASE stage_direct_write_buffer BY <1>1
<1>2. CASE record_enqueued BY <1>2
<1>3. CASE send_data BY <1>3
<1>4. CASE send_data_fails BY <1>4
<1>5. CASE flush_pending_direct_write BY <1>5
<1>6. CASE flush_drained BY <1>6
<1>7. CASE connection_lost BY <1>7
<1>8. CASE eof_received BY <1>8
<1>9. ASSUME NEW k \in 0..MaxBytes, direct_write(k) PROVE CountTypes' BY <1>9
<1>10. ASSUME NEW k \in 0..MaxBytes, flush_write(k) PROVE CountTypes' BY <1>10
<1>11. CASE direct_write_fails BY <1>11
<1>12. CASE recv BY <1>12
<1>13. CASE worker_write_fails BY <1>13
<1>14. CASE worker_drained BY <1>14
<1>15. CASE worker_eof BY <1>15
<1>16. CASE worker_close BY <1>16
<1>17. CASE worker_stop BY <1>17
<1>18. ASSUME NEW n \in Lengths, write(n) PROVE CountTypes' BY <1>18
<1>19. CASE close BY <1>19
<1>20. CASE write_eof BY <1>20
<1>21. CASE abort BY <1>21
<1>22. CASE worker_start_fails BY <1>22
<1>23. CASE mark_backpressure \/ close_writer \/ write_eof_writer \/ resume_writing \/
         worker_resume \/ try_recv_empty \/ clear_backpressure \/
         (\E k \in 1..MaxBytes : worker_write(k)) \/ peer_eof
 <2>1. UNCHANGED <<size, sent, batch_len, accepted, covered>> BY <1>23
 <2> QED BY <2>1, Zenon
<1> QED BY <1>1, <1>2, <1>3, <1>4, <1>5, <1>6, <1>7, <1>8, <1>9, <1>10, <1>11, <1>12, <1>13,
    <1>14, <1>15, <1>16, <1>17, <1>18, <1>19, <1>20, <1>21, <1>22, <1>23 DEF WriteNext, LoopStep,
    WorkerStep, Call

LEMMA EventsKept == ASSUME EventTypes, WriteNext PROVE EventTypes'
<1>1. CASE send_data_fails
 <2>1. PICK e \in {"resume", "eof", "lost"} :
           UNCHANGED <<events, read_event_state>> \/ enqueue_pending_read_event(e)
   BY <1>1
 <2> QED BY <2>1, EventQueued DEF EventTypes
<1>2. CASE close_writer
 <2>1. PICK e \in {"resume", "eof", "lost"} :
           UNCHANGED <<events, read_event_state>> \/ enqueue_pending_read_event(e)
   BY <1>2
 <2> QED BY <2>1, EventQueued DEF EventTypes
<1>3. CASE write_eof_writer
 <2>1. PICK e \in {"resume", "eof", "lost"} :
           UNCHANGED <<events, read_event_state>> \/ enqueue_pending_read_event(e)
   BY <1>3
 <2> QED BY <2>1, EventQueued DEF EventTypes
<1>4. CASE direct_write_fails
 <2>1. PICK e \in {"resume", "eof", "lost"} :
           UNCHANGED <<events, read_event_state>> \/ enqueue_pending_read_event(e)
   BY <1>4
 <2> QED BY <2>1, EventQueued DEF EventTypes
<1>5. CASE worker_write_fails
 <2>1. PICK e \in {"resume", "eof", "lost"} :
           UNCHANGED <<events, read_event_state>> \/ enqueue_pending_read_event(e)
   BY <1>5
 <2> QED BY <2>1, EventQueued DEF EventTypes
<1>6. CASE worker_resume
 <2>1. PICK e \in {"resume", "eof", "lost"} :
           UNCHANGED <<events, read_event_state>> \/ enqueue_pending_read_event(e)
   BY <1>6
 <2> QED BY <2>1, EventQueued DEF EventTypes
<1>7. CASE worker_eof
 <2>1. PICK e \in {"resume", "eof", "lost"} :
           UNCHANGED <<events, read_event_state>> \/ enqueue_pending_read_event(e)
   BY <1>7
 <2> QED BY <2>1, EventQueued DEF EventTypes
<1>8. CASE worker_close
 <2>1. PICK e \in {"resume", "eof", "lost"} :
           UNCHANGED <<events, read_event_state>> \/ enqueue_pending_read_event(e)
   BY <1>8
 <2> QED BY <2>1, EventQueued DEF EventTypes
<1>9. CASE abort
 <2>1. PICK e \in {"resume", "eof", "lost"} :
           UNCHANGED <<events, read_event_state>> \/ enqueue_pending_read_event(e)
   BY <1>9
 <2> QED BY <2>1, EventQueued DEF EventTypes
<1>10. CASE peer_eof
 <2>1. PICK e \in {"resume", "eof", "lost"} :
           UNCHANGED <<events, read_event_state>> \/ enqueue_pending_read_event(e)
   BY <1>10
 <2> QED BY <2>1, EventQueued DEF EventTypes
<1>11. CASE worker_start_fails
 <2>1. PICK e \in {"resume", "eof", "lost"} :
           UNCHANGED <<events, read_event_state>> \/ enqueue_pending_read_event(e)
   BY <1>11
 <2> QED BY <2>1, EventQueued DEF EventTypes
<1>12. CASE resume_writing
 <2>1. events # <<>> /\ events' = Tail(events) /\ read_event_state' = read_event_state BY <1>12
 <2> QED BY <2>1, TailElems DEF EventTypes
<1>13. CASE connection_lost
 <2>1. events # <<>> /\ events' = Tail(events) /\ read_event_state' = read_event_state BY <1>13
 <2> QED BY <2>1, TailElems DEF EventTypes
<1>14. CASE eof_received
 <2>1. events # <<>> /\ events' = Tail(events) /\ read_event_state' = read_event_state BY <1>14
 <2> QED BY <2>1, TailElems DEF EventTypes
<1>15. CASE stage_direct_write_buffer \/ mark_backpressure \/ record_enqueued \/ send_data \/
         flush_pending_direct_write \/ flush_drained \/
         (\E k \in 0..MaxBytes : direct_write(k)) \/ (\E k \in 0..MaxBytes : flush_write(k)) \/
         recv \/ worker_drained \/ try_recv_empty \/ clear_backpressure
 <2>1. UNCHANGED <<events, read_event_state>> BY <1>15
 <2> QED BY <2>1 DEF EventTypes
<1>16. CASE worker_stop \/ (\E k \in 1..MaxBytes : worker_write(k)) \/
         (\E n \in Lengths : write(n)) \/ close \/ write_eof
 <2>1. UNCHANGED <<events, read_event_state>> BY <1>16
 <2> QED BY <2>1 DEF EventTypes
<1> QED BY <1>1, <1>2, <1>3, <1>4, <1>5, <1>6, <1>7, <1>8, <1>9, <1>10, <1>11, <1>12, <1>13,
    <1>14, <1>15, <1>16 DEF WriteNext, LoopStep, WorkerStep, Call


LEMMA QueuedBytes ==
    ASSUME NEW q \in Seq(Command)
    PROVE  UNION {Range(q[i].bytes) : i \in 1..Len(q)} = QueueBytes(q)
<1>1. ASSUME NEW i \in 1..Len(q) PROVE Range(q[i].bytes) = Elems(q[i].bytes)
 <2>1. q[i] \in Command OBVIOUS
 <2>2. q[i].bytes \in Seq(Bytes) BY <2>1, CommandFields
 <2> QED BY <2>2, RangeElems
<1> QED BY <1>1 DEF QueueBytes

\* The elements of a sequence of bytes are bytes.
LEMMA ElemsBytes == ASSUME NEW s \in Seq(Bytes) PROVE Elems(s) \subseteq Bytes
  BY DEF Elems

\* What the worker, leaving, drops.
LEMMA ExitMoves ==
    ASSUME ByteTypes, Exit
    PROVE  /\ commands' = <<>> /\ batch' = <<>> /\ batch_len' = 0 /\ pending' = NoCommand
           /\ worker_pc' = "exited" /\ receiver_alive' = FALSE
           /\ dropped' = dropped \union Elems(batch) \union QueueBytes(commands)
           /\ QueueBytes(commands') = {} /\ Elems(batch') = {} /\ KindsIn(commands') = {}
           /\ BarredIn(commands') = {}
<1>1. Range(batch) = Elems(batch) BY RangeElems DEF ByteTypes
<1>2. Queued = QueueBytes(commands) BY QueuedBytes DEF Queued, ByteTypes
<1> QED BY <1>1, <1>2, NothingIn

\* What fail_write drops.
LEMMA FailMoves ==
    ASSUME WriteTypes, NEW L, fail_write(L)
    PROVE  /\ commands' \in Seq(Command)
           /\ QueueBytes(commands') = QueueBytes(commands)
           /\ OnceIn(commands) => OnceIn(commands')
           /\ BarredIn(commands') \subseteq BarredIn(commands)
           /\ OrderedIn(commands) => OrderedIn(commands')
           /\ KindsIn(commands) \subseteq KindsIn(commands')
           /\ \/ /\ closing /\ dropped' = dropped \union L
                 /\ UNCHANGED <<closing, backpressure, size_vars, stage_vars, events,
                                read_event_state, commands>>
              \/ /\ ~closing /\ closing' = TRUE /\ staged' = <<>>
                 /\ dropped' = dropped \union L \union Elems(staged)
                 /\ read_event_state' = "lost"
                 /\ KindsIn(commands') \subseteq KindsIn(commands) \union {"stop"}
<1>1. CASE closing BY <1>1 DEF WriteTypes, ByteTypes
<1>2. CASE ~closing
 <2>1. "stop" \in Kinds \ {"data"} BY DEF Kinds
 <2>2. commands' = (IF receiver_alive THEN Append(commands, Control("stop")) ELSE commands) BY <1>2
 <2>3. commands \in Seq(Command) BY DEF WriteTypes, ByteTypes
 <2>4. Range(staged) = Elems(staged) BY RangeElems DEF WriteTypes, ByteTypes
 <2>5. enqueue_pending_read_event("lost") /\ closing' = TRUE /\ staged' = <<>>
       /\ dropped' = dropped \union L \union Elems(staged)
   BY <1>2, <2>4
 <2>6. read_event_state' = "lost" BY <2>5, EventQueued DEF WriteTypes, EventTypes
 <2>7. /\ commands' \in Seq(Command)
       /\ QueueBytes(commands') = QueueBytes(commands)
       /\ OnceIn(commands) => OnceIn(commands')
       /\ BarredIn(commands') \subseteq BarredIn(commands)
       /\ OrderedIn(commands) => OrderedIn(commands')
       /\ KindsIn(commands) \subseteq KindsIn(commands')
       /\ KindsIn(commands') \subseteq KindsIn(commands) \union {"stop"}
   BY <2>1, <2>2, <2>3, ControlSent
 <2> QED BY <1>2, <2>5, <2>6, <2>7
<1> QED BY <1>1, <1>2

\* The socket takes the first k bytes of s.
LEMMA TakesMoves ==
    ASSUME NEW s \in Seq(Bytes), wire \in Seq(Bytes), NEW k, Takes(s, k), Distinct(s),
           Distinct(wire),
           \A b \in Elems(s) : b \notin Elems(wire)
    PROVE  \E A : /\ wire' \in Seq(Bytes) /\ Rest(s, k) \in Seq(Bytes) /\ k \in 0..Len(s)
                  /\ Len(Rest(s, k)) = Len(s) - k
                  /\ Distinct(wire') /\ Distinct(Rest(s, k))
                  /\ Elems(wire') = Elems(wire) \union A
                  /\ Elems(s) = A \union Elems(Rest(s, k))
                  /\ \A b \in A : b \notin Elems(Rest(s, k))
                  /\ k = Len(s) => Rest(s, k) = <<>>
                  /\ Ascending(wire) /\ Ascending(s) /\ Below(Elems(wire), Elems(s))
                       => /\ Ascending(wire') /\ Ascending(Rest(s, k))
                          /\ Below(A, Elems(Rest(s, k)))
<1> DEFINE a == SubSeq(s, 1, k)
           b == SubSeq(s, k + 1, Len(s))
<1>1. k \in 0..Len(s) /\ wire' = wire \o a OBVIOUS
<1>2. /\ a \in Seq(Bytes) /\ b \in Seq(Bytes) /\ Len(a) = k /\ Len(b) = Len(s) - k
      /\ Elems(s) = Elems(a) \union Elems(b)
      /\ Distinct(b) /\ Elems(a) \cap Elems(b) = {}
  BY <1>1, CutElems
<1>3. Distinct(a)
 <2>1. k \in Nat /\ \A i \in 1..k : i \in 1..Len(s) /\ a[i] = s[i] BY <1>1, CutElems
 <2> QED BY <1>2, <2>1 DEF Distinct
<1>4. Ascending(s) => Ascending(a) /\ Ascending(b) /\ Below(Elems(a), Elems(b))
  BY <1>1, CutAscending
<1>5. Rest(s, k) = b OBVIOUS
<1> HIDE DEF a, b
<1>6. wire' \in Seq(Bytes) /\ Elems(wire') = Elems(wire) \union Elems(a) /\ Distinct(wire')
 <2> HIDE DEF Takes, Rest
 <2>1. Elems(wire) \cap Elems(a) = {} BY <1>2
 <2> QED BY <1>1, <1>2, <1>3, <2>1, ConcatElems
<1>7. Ascending(wire) /\ Ascending(s) /\ Below(Elems(wire), Elems(s)) => Ascending(wire')
 <2> SUFFICES ASSUME Ascending(wire), Ascending(s), Below(Elems(wire), Elems(s))
              PROVE  Ascending(wire')
   OBVIOUS
 <2>1. Below(Elems(wire), Elems(a)) BY <1>2 DEF Below
 <2> QED BY <1>1, <1>2, <1>4, <2>1, ConcatAscending, Zenon
<1>8. k = Len(s) => b = <<>> BY <1>2
<1> WITNESS Elems(a)
<1> QED BY <1>1, <1>2, <1>4, <1>5, <1>6, <1>7, <1>8


LEMMA QueueOfBytes == ASSUME NEW q \in Seq(Command) PROVE QueueBytes(q) \subseteq Bytes
<1>1. ASSUME NEW i \in 1..Len(q) PROVE Elems(q[i].bytes) \subseteq Bytes
 <2>1. q[i] \in Command OBVIOUS
 <2>2. q[i].bytes \in Seq(Bytes) BY <2>1, CommandFields
 <2> QED BY <2>2, ElemsBytes, Zenon
<1> QED BY <1>1, OfQueue, Zenon

\* The bytes of a new write.
LEMMA FreshBytes ==
    ASSUME NEW n \in Nat, NEW m \in Nat, MaxBytes \in Nat, m + n <= MaxBytes
    PROVE  /\ [i \in 1..n |-> m + i] \in Seq(Bytes)
           /\ Elems([i \in 1..n |-> m + i]) = (m + 1)..(m + n)
           /\ Distinct([i \in 1..n |-> m + i]) /\ Ascending([i \in 1..n |-> m + i])
           /\ Len([i \in 1..n |-> m + i]) = n
<1> DEFINE s == [i \in 1..n |-> m + i]
<1>1. s \in Seq(Bytes) /\ Len(s) = n BY DEF Bytes
<1>2. \A i \in 1..n : s[i] = m + i OBVIOUS
<1> HIDE DEF s
<1>3. ASSUME NEW b \in (m + 1)..(m + n) PROVE b \in Elems(s)
 <2>1. b - m \in 1..n /\ s[b - m] = b BY <1>2
 <2> QED BY <1>1, <2>1 DEF Elems
<1>4. ASSUME NEW b \in Elems(s) PROVE b \in (m + 1)..(m + n) BY <1>1, <1>2 DEF Elems
<1>5. Distinct(s) /\ Ascending(s) BY <1>1, <1>2 DEF Distinct, Ascending
<1> QED BY <1>1, <1>3, <1>4, <1>5 DEF s

\* The bytes stay shared out as they move from the loop thread and the staging buffer to the
\* wire, the queue and the worker, and from there to the wire.
LEMMA BytesKept == ASSUME WriteInv, WriteNext PROVE ByteTypes' /\ Shared'
<1>t. /\ staged \in Seq(Bytes) /\ hand \in Seq(Bytes) /\ batch \in Seq(Bytes) /\ wire \in Seq(Bytes)
      /\ commands \in Seq(Command) /\ refused \subseteq Bytes /\ dropped \subseteq Bytes
      /\ pending \in [kind : (Kinds \ {"data"}) \union {"none"}, bytes : {<<>>}]
  BY DEF WriteInv, WriteTypes, ByteTypes
<1>r. Range(staged) = Elems(staged) /\ Range(hand) = Elems(hand) BY <1>t, RangeElems
<1>b. Elems(staged) \subseteq Bytes /\ Elems(hand) \subseteq Bytes /\ Elems(batch) \subseteq Bytes
  BY <1>t, ElemsBytes
<1>s. Shares(Elems(wire), Elems(staged), Elems(hand), Elems(batch), QueueBytes(commands),
             refused, dropped, accepted)
  BY DEF WriteInv, Shared, Apart, EachOnce
<1>d. Distinct(wire) /\ Distinct(staged) /\ Distinct(hand) /\ Distinct(batch) /\ OnceIn(commands)
  BY DEF WriteInv, Shared, Apart, EachOnce
<1>n. Elems(<<>>) = {} /\ Distinct(<<>>) /\ <<>> \in Seq(Bytes) /\ <<>> \in Seq(Command)
      /\ QueueBytes(<<>>) = {} /\ OnceIn(<<>>)
  BY NothingIn
<1>p. NoCommand \in [kind : (Kinds \ {"data"}) \union {"none"}, bytes : {<<>>}]
  BY DEF NoCommand, Control
<1>1. CASE stage_direct_write_buffer
 <2>1. CASE OverCap
  <3>1. hand' = <<>> /\ refused' = refused \union Elems(hand) BY <1>1, <2>1, <1>r
  <3>u. UNCHANGED <<wire, staged, batch, commands, pending, dropped, accepted>> BY <1>1, <2>1
  <3>x. ByteTypes' BY <3>1, <3>u, <1>t, <1>b, <1>n, <1>p, Zenon DEF ByteTypes
  <3>y. Apart' BY <3>1, <3>u, <1>s, <1>n DEF Apart, Shares
  <3>z. EachOnce' BY <3>1, <3>u, <1>d, <1>n, Zenon DEF EachOnce
  <3> QED BY <3>x, <3>y, <3>z DEF Shared
 <2>2. CASE ~OverCap
  <3>1. hand' = <<>> /\ staged' = staged \o hand BY <1>1, <2>2
  <3>2. staged' \in Seq(Bytes) /\ Elems(staged') = Elems(staged) \union Elems(hand) /\ Distinct(staged')
   <4>1. Elems(staged) \cap Elems(hand) = {} BY <1>s, Zenon DEF Shares
   <4> QED BY <1>t, <1>d, <3>1, <4>1, ConcatElems
  <3>u. UNCHANGED <<wire, batch, commands, pending, refused, dropped, accepted>>
    BY <1>1, <2>2, Zenon
  <3>x. ByteTypes' BY <3>1, <3>2, <3>u, <1>t, <1>b, <1>n, <1>p, Zenon DEF ByteTypes
  <3>y. Apart' BY <3>1, <3>2, <3>u, <1>s, <1>n DEF Apart, Shares
  <3>z. EachOnce' BY <3>1, <3>2, <3>u, <1>d, <1>n, Zenon DEF EachOnce
  <3> QED BY <3>x, <3>y, <3>z DEF Shared
 <2> QED BY <2>1, <2>2
<1>2. CASE record_enqueued
 <2>1. CASE OverCap
  <3>1. hand' = <<>> /\ refused' = refused \union Elems(hand) BY <1>2, <2>1, <1>r, Zenon
  <3>u. UNCHANGED <<wire, staged, batch, commands, pending, dropped, accepted>>
    BY <1>2, <2>1, Zenon
  <3>x. ByteTypes' BY <3>1, <3>u, <1>t, <1>b, <1>n, <1>p DEF ByteTypes
  <3>y. Apart' BY <3>1, <3>u, <1>s, <1>n DEF Apart, Shares
  <3>z. EachOnce' BY <3>1, <3>u, <1>d, <1>n DEF EachOnce
  <3> QED BY <3>x, <3>y, <3>z DEF Shared
 <2>2. CASE ~OverCap
  <3>1. UNCHANGED <<wire, staged, hand, batch, commands, pending, refused, dropped, accepted>>
    BY <1>2, <2>2, Zenon
  <3> QED BY <3>1 DEF WriteInv, WriteTypes, ByteTypes, Shared, Apart, EachOnce
 <2> QED BY <2>1, <2>2
<1>3. CASE send_data
 <2>1. hand' = <<>> BY <1>3, Zenon
 <2>2. /\ commands' \in Seq(Command)
       /\ QueueBytes(commands') = QueueBytes(commands) \union Elems(hand)
       /\ OnceIn(commands')
  <3>1. \A b \in Elems(hand) : b \notin QueueBytes(commands) BY <1>s DEF Shares
  <3>2. \E append \in {FALSE, MayAppend} : commands' = Enqueued(hand, append) BY <1>3
  <3> QED BY <1>t, <1>d, <3>1, <3>2, DataSent
 <2>u. UNCHANGED <<wire, staged, batch, pending, refused, dropped, accepted>> BY <1>3
 <2>x. ByteTypes' BY <2>1, <2>2, <2>u, <1>t, <1>b, <1>n, <1>p DEF ByteTypes
 <2>y. Apart' BY <2>1, <2>2, <2>u, <1>s, <1>n DEF Apart, Shares
 <2>z. EachOnce' BY <2>1, <2>2, <2>u, <1>d, <1>n DEF EachOnce
 <2> QED BY <2>x, <2>y, <2>z DEF Shared
<1>4. CASE direct_write_fails
 <2>1. fail_write(Range(hand)) /\ hand' = <<>> BY <1>4
 <2>h. hand' = <<>> BY <2>1
 <2>f. /\ commands' \in Seq(Command) /\ QueueBytes(commands') = QueueBytes(commands)
       /\ OnceIn(commands')
       /\ \/ dropped' = dropped \union Elems(hand) /\ UNCHANGED staged
          \/ dropped' = dropped \union Elems(hand) \union Elems(staged) /\ staged' = <<>>
   BY <2>1, <1>d, <1>r, FailMoves DEF WriteInv
 <2>u. UNCHANGED <<wire, batch, pending, refused, accepted>> BY <1>4
 <2>x. ByteTypes' BY <2>h, <2>f, <2>u, <1>t, <1>b, <1>n, <1>p DEF ByteTypes
 <2>y. Apart' BY <2>h, <2>f, <2>u, <1>s, <1>n DEF Apart, Shares
 <2>z. EachOnce' BY <2>h, <2>f, <2>u, <1>d, <1>n DEF EachOnce
 <2> QED BY <2>x, <2>y, <2>z DEF Shared
<1>5. CASE send_data_fails
 <2>1. CASE closing
  <3>1. hand' = <<>> /\ dropped' = dropped \union Elems(hand) BY <1>5, <2>1, <1>r
  <3>u. UNCHANGED <<wire, staged, batch, commands, pending, refused, accepted>> BY <1>5, <2>1
  <3>x. ByteTypes' BY <3>1, <3>u, <1>t, <1>b, <1>n, <1>p DEF ByteTypes
  <3>y. Apart' BY <3>1, <3>u, <1>s, <1>n, Zenon DEF Apart, Shares
  <3>z. EachOnce' BY <3>1, <3>u, <1>d, <1>n DEF EachOnce
  <3> QED BY <3>x, <3>y, <3>z DEF Shared
 <2>2. CASE ~closing
  <3>1. fail_write(Range(hand)) /\ hand' = <<>> BY <1>5, <2>2, Zenon
  <3>h. hand' = <<>> BY <3>1
  <3>f. /\ commands' \in Seq(Command) /\ QueueBytes(commands') = QueueBytes(commands)
        /\ OnceIn(commands')
        /\ \/ dropped' = dropped \union Elems(hand) /\ UNCHANGED staged
           \/ dropped' = dropped \union Elems(hand) \union Elems(staged) /\ staged' = <<>>
    BY <3>1, <1>d, <1>r, FailMoves DEF WriteInv
  <3>u. UNCHANGED <<wire, batch, pending, refused, accepted>> BY <1>5, <2>2
  <3>x. ByteTypes' BY <3>h, <3>f, <3>u, <1>t, <1>b, <1>n, <1>p DEF ByteTypes
  <3>y. Apart' BY <3>h, <3>f, <3>u, <1>s, <1>n DEF Apart, Shares
  <3>z. EachOnce' BY <3>h, <3>f, <3>u, <1>d, <1>n DEF EachOnce
  <3> QED BY <3>x, <3>y, <3>z DEF Shared
 <2> QED BY <2>1, <2>2
<1>6. CASE worker_start_fails
 <2>1. fail_write({}) BY <1>6
 <2>f. /\ commands' \in Seq(Command) /\ QueueBytes(commands') = QueueBytes(commands)
       /\ OnceIn(commands')
       /\ \/ dropped' = dropped \union {} /\ UNCHANGED staged
          \/ dropped' = dropped \union {} \union Elems(staged) /\ staged' = <<>>
   BY <2>1, <1>d, <1>r, FailMoves DEF WriteInv
 <2>u. UNCHANGED <<wire, hand, batch, pending, refused, accepted>> BY <1>6
 <2>x. ByteTypes' BY <2>f, <2>u, <1>t, <1>b, <1>n, <1>p DEF ByteTypes
 <2>y. Apart' BY <2>f, <2>u, <1>s, <1>n DEF Apart, Shares
 <2>z. EachOnce' BY <2>f, <2>u, <1>d, <1>n DEF EachOnce
 <2> QED BY <2>x, <2>y, <2>z DEF Shared
<1>7. CASE flush_pending_direct_write
 <2>1. CASE closing /\ staged # <<>>
  <3>1. staged' = <<>> /\ dropped' = dropped \union Elems(staged) BY <1>7, <2>1, <1>r, Zenon
  <3>u. UNCHANGED <<wire, hand, batch, commands, pending, refused, accepted>> BY <1>7, <2>1
  <3>x. ByteTypes' BY <3>1, <3>u, <1>t, <1>b, <1>n, <1>p, Zenon DEF ByteTypes
  <3>y. Apart' BY <3>1, <3>u, <1>s, <1>n DEF Apart, Shares
  <3>z. EachOnce' BY <3>1, <3>u, <1>d, <1>n, Zenon DEF EachOnce
  <3> QED BY <3>x, <3>y, <3>z DEF Shared
 <2>2. CASE ~(closing /\ staged # <<>>)
  <3>1. staged' = <<>> /\ hand' = staged /\ hand = <<>> BY <1>7, <2>2 DEF WriteInv, LoopShape
  <3>u. UNCHANGED <<wire, batch, commands, pending, refused, dropped, accepted>> BY <1>7, <2>2
  <3>x. ByteTypes' BY <3>1, <3>u, <1>t, <1>b, <1>n, <1>p, Zenon DEF ByteTypes
  <3>y. Apart' BY <3>1, <3>u, <1>s, <1>n DEF Apart, Shares
  <3>z. EachOnce' BY <3>1, <3>u, <1>d, <1>n, Zenon DEF EachOnce
  <3> QED BY <3>x, <3>y, <3>z DEF Shared
 <2> QED BY <2>1, <2>2, Zenon
<1>8. CASE close
 <2>1. CASE closing /\ staged # <<>>
  <3>1. staged' = <<>> /\ dropped' = dropped \union Elems(staged) BY <1>8, <2>1, <1>r
  <3>u. UNCHANGED <<wire, hand, batch, commands, pending, refused, accepted>> BY <1>8, <2>1
  <3>x. ByteTypes' BY <3>1, <3>u, <1>t, <1>b, <1>n, <1>p DEF ByteTypes
  <3>y. Apart' BY <3>1, <3>u, <1>s, <1>n DEF Apart, Shares
  <3>z. EachOnce' BY <3>1, <3>u, <1>d, <1>n DEF EachOnce
  <3> QED BY <3>x, <3>y, <3>z DEF Shared
 <2>2. CASE ~(closing /\ staged # <<>>)
  <3>1. staged' = <<>> /\ hand' = staged /\ hand = <<>> BY <1>8, <2>2 DEF WriteInv, LoopShape
  <3>u. UNCHANGED <<wire, batch, commands, pending, refused, dropped, accepted>> BY <1>8, <2>2
  <3>x. ByteTypes' BY <3>1, <3>u, <1>t, <1>b, <1>n, <1>p DEF ByteTypes
  <3>y. Apart' BY <3>1, <3>u, <1>s, <1>n DEF Apart, Shares
  <3>z. EachOnce' BY <3>1, <3>u, <1>d, <1>n DEF EachOnce
  <3> QED BY <3>x, <3>y, <3>z DEF Shared
 <2> QED BY <2>1, <2>2
<1>9. CASE write_eof
 <2>1. CASE closing /\ staged # <<>>
  <3>1. staged' = <<>> /\ dropped' = dropped \union Elems(staged) BY <1>9, <2>1, <1>r
  <3>u. UNCHANGED <<wire, hand, batch, commands, pending, refused, accepted>> BY <1>9, <2>1
  <3>x. ByteTypes' BY <3>1, <3>u, <1>t, <1>b, <1>n, <1>p DEF ByteTypes
  <3>y. Apart' BY <3>1, <3>u, <1>s, <1>n DEF Apart, Shares
  <3>z. EachOnce' BY <3>1, <3>u, <1>d, <1>n DEF EachOnce
  <3> QED BY <3>x, <3>y, <3>z DEF Shared
 <2>2. CASE ~(closing /\ staged # <<>>)
  <3>1. staged' = <<>> /\ hand' = staged /\ hand = <<>> BY <1>9, <2>2 DEF WriteInv, LoopShape
  <3>u. UNCHANGED <<wire, batch, commands, pending, refused, dropped, accepted>> BY <1>9, <2>2
  <3>x. ByteTypes' BY <3>1, <3>u, <1>t, <1>b, <1>n, <1>p DEF ByteTypes
  <3>y. Apart' BY <3>1, <3>u, <1>s, <1>n DEF Apart, Shares
  <3>z. EachOnce' BY <3>1, <3>u, <1>d, <1>n DEF EachOnce
  <3> QED BY <3>x, <3>y, <3>z DEF Shared
 <2> QED BY <2>1, <2>2
<1>10. CASE flush_drained
 <2>1. hand' = hand BY <1>10 DEF WriteInv, LoopShape
 <2>u. UNCHANGED <<wire, staged, batch, commands, pending, refused, dropped, accepted>> BY <1>10
 <2>x. ByteTypes' BY <2>1, <2>u, <1>t, <1>b, <1>n, <1>p, Zenon DEF ByteTypes
 <2>y. Apart' BY <2>1, <2>u, <1>s, <1>n DEF Apart, Shares
 <2>z. EachOnce' BY <2>1, <2>u, <1>d, <1>n DEF EachOnce
 <2> QED BY <2>x, <2>y, <2>z DEF Shared
<1>11. CASE close_writer
 <2>1. /\ commands' \in Seq(Command) /\ QueueBytes(commands') = QueueBytes(commands)
       /\ OnceIn(commands')
  <3>1. \/ commands' = commands
        \/ \E k \in Kinds \ {"data"} :
               commands' = (IF receiver_alive THEN Append(commands, Control(k)) ELSE commands)
    BY <1>11 DEF Kinds
  <3> QED BY <1>t, <1>d, <3>1, ControlSent
 <2>u. UNCHANGED <<wire, staged, hand, batch, pending, refused, dropped, accepted>> BY <1>11
 <2>x. ByteTypes' BY <2>1, <2>u, <1>t, <1>b, <1>n, <1>p DEF ByteTypes
 <2>y. Apart' BY <2>1, <2>u, <1>s, <1>n DEF Apart, Shares
 <2>z. EachOnce' BY <2>1, <2>u, <1>d, <1>n, Zenon DEF EachOnce
 <2> QED BY <2>x, <2>y, <2>z DEF Shared
<1>12. CASE write_eof_writer
 <2>1. /\ commands' \in Seq(Command) /\ QueueBytes(commands') = QueueBytes(commands)
       /\ OnceIn(commands')
  <3>1. \/ commands' = commands
        \/ \E k \in Kinds \ {"data"} :
               commands' = (IF receiver_alive THEN Append(commands, Control(k)) ELSE commands)
    BY <1>12 DEF Kinds
  <3> QED BY <1>t, <1>d, <3>1, ControlSent
 <2>u. UNCHANGED <<wire, staged, hand, batch, pending, refused, dropped, accepted>> BY <1>12
 <2>x. ByteTypes' BY <2>1, <2>u, <1>t, <1>b, <1>n, <1>p DEF ByteTypes
 <2>y. Apart' BY <2>1, <2>u, <1>s, <1>n DEF Apart, Shares
 <2>z. EachOnce' BY <2>1, <2>u, <1>d, <1>n DEF EachOnce
 <2> QED BY <2>x, <2>y, <2>z DEF Shared
<1>13. CASE eof_received
 <2>1. /\ commands' \in Seq(Command) /\ QueueBytes(commands') = QueueBytes(commands)
       /\ OnceIn(commands')
  <3>1. \/ commands' = commands
        \/ \E k \in Kinds \ {"data"} :
               commands' = (IF receiver_alive THEN Append(commands, Control(k)) ELSE commands)
    BY <1>13 DEF Kinds
  <3> QED BY <1>t, <1>d, <3>1, ControlSent
 <2>u. UNCHANGED <<wire, staged, hand, batch, pending, refused, dropped, accepted>> BY <1>13
 <2>x. ByteTypes' BY <2>1, <2>u, <1>t, <1>b, <1>n, <1>p DEF ByteTypes
 <2>y. Apart' BY <2>1, <2>u, <1>s, <1>n DEF Apart, Shares
 <2>z. EachOnce' BY <2>1, <2>u, <1>d, <1>n DEF EachOnce
 <2> QED BY <2>x, <2>y, <2>z DEF Shared
<1>14. CASE abort
 <2>1. /\ commands' \in Seq(Command) /\ QueueBytes(commands') = QueueBytes(commands)
       /\ OnceIn(commands')
  <3>1. \/ commands' = commands
        \/ \E k \in Kinds \ {"data"} :
               commands' = (IF receiver_alive THEN Append(commands, Control(k)) ELSE commands)
    BY <1>14 DEF Kinds
  <3> QED BY <1>t, <1>d, <3>1, ControlSent
 <2>2. staged' = <<>> /\ dropped' = dropped \union Elems(staged) BY <1>14, <1>r
 <2>u. UNCHANGED <<wire, hand, batch, pending, refused, accepted>> BY <1>14
 <2>x. ByteTypes' BY <2>1, <2>2, <2>u, <1>t, <1>b, <1>n, <1>p, Zenon DEF ByteTypes
 <2>y. Apart' BY <2>1, <2>2, <2>u, <1>s, <1>n DEF Apart, Shares
 <2>z. EachOnce' BY <2>1, <2>2, <2>u, <1>d, <1>n, Zenon DEF EachOnce
 <2> QED BY <2>x, <2>y, <2>z DEF Shared
<1>15. ASSUME NEW k \in 0..MaxBytes, direct_write(k) PROVE ByteTypes' /\ Shared'
 <2>1. Takes(hand, k) BY <1>15
 <2>2. PICK A : /\ wire' \in Seq(Bytes) /\ Rest(hand, k) \in Seq(Bytes)
                /\ Distinct(wire') /\ Distinct(Rest(hand, k))
                /\ Elems(wire') = Elems(wire) \union A
                /\ Elems(hand) = A \union Elems(Rest(hand, k))
                /\ (\A b \in A : b \notin Elems(Rest(hand, k)))
                /\ (k = Len(hand) => Rest(hand, k) = <<>>)
  <3>1. \A b \in Elems(hand) : b \notin Elems(wire) BY <1>s DEF Shares
  <3> QED BY <1>t, <1>d, <2>1, <3>1, TakesMoves, ZenonT(30)
 <2>3. hand' = Rest(hand, k) BY <1>15, <2>2
 <2>u. UNCHANGED <<staged, batch, commands, pending, refused, dropped, accepted>> BY <1>15
 <2>x. ByteTypes' BY <2>2, <2>3, <2>u, <1>t, <1>b, <1>n, <1>p, Zenon DEF ByteTypes
 <2>y. Apart' BY <2>2, <2>3, <2>u, <1>s, <1>n DEF Apart, Shares
 <2>z. EachOnce' BY <2>2, <2>3, <2>u, <1>d, <1>n DEF EachOnce
 <2> QED BY <2>x, <2>y, <2>z DEF Shared
<1>16. ASSUME NEW k \in 0..MaxBytes, flush_write(k) PROVE ByteTypes' /\ Shared'
 <2>1. Takes(hand, k) BY <1>16
 <2>2. PICK A : /\ wire' \in Seq(Bytes) /\ Rest(hand, k) \in Seq(Bytes)
                /\ Distinct(wire') /\ Distinct(Rest(hand, k))
                /\ Elems(wire') = Elems(wire) \union A
                /\ Elems(hand) = A \union Elems(Rest(hand, k))
                /\ (\A b \in A : b \notin Elems(Rest(hand, k)))
                /\ (k = Len(hand) => Rest(hand, k) = <<>>)
  <3>1. \A b \in Elems(hand) : b \notin Elems(wire) BY <1>s DEF Shares
  <3> QED BY <1>t, <1>d, <2>1, <3>1, TakesMoves, ZenonT(30)
 <2>3. hand' = Rest(hand, k) BY <1>16, <2>2
 <2>u. UNCHANGED <<staged, batch, commands, pending, refused, dropped, accepted>> BY <1>16
 <2>x. ByteTypes' BY <2>2, <2>3, <2>u, <1>t, <1>b, <1>n, <1>p DEF ByteTypes
 <2>y. Apart' BY <2>2, <2>3, <2>u, <1>s, <1>n DEF Apart, Shares
 <2>z. EachOnce' BY <2>2, <2>3, <2>u, <1>d, <1>n DEF EachOnce
 <2> QED BY <2>x, <2>y, <2>z DEF Shared
<1>17. ASSUME NEW k \in 1..MaxBytes, worker_write(k) PROVE ByteTypes' /\ Shared'
 <2>1. Takes(batch, k) BY <1>17
 <2>2. PICK A : /\ wire' \in Seq(Bytes) /\ Rest(batch, k) \in Seq(Bytes)
                /\ Distinct(wire') /\ Distinct(Rest(batch, k))
                /\ Elems(wire') = Elems(wire) \union A
                /\ Elems(batch) = A \union Elems(Rest(batch, k))
                /\ (\A b \in A : b \notin Elems(Rest(batch, k)))
                /\ (k = Len(batch) => Rest(batch, k) = <<>>)
  <3>1. \A b \in Elems(batch) : b \notin Elems(wire) BY <1>s DEF Shares
  <3> QED BY <1>t, <1>d, <2>1, <3>1, TakesMoves, ZenonT(30)
 <2>3. batch' = Rest(batch, k) BY <1>17, <2>2
 <2>u. UNCHANGED <<staged, hand, commands, pending, refused, dropped, accepted>> BY <1>17
 <2>x. ByteTypes' BY <2>2, <2>3, <2>u, <1>t, <1>b, <1>n, <1>p DEF ByteTypes
 <2>y. Apart' BY <2>2, <2>3, <2>u, <1>s, <1>n DEF Apart, Shares
 <2>z. EachOnce' BY <2>2, <2>3, <2>u, <1>d, <1>n DEF EachOnce
 <2> QED BY <2>x, <2>y, <2>z DEF Shared
<1>18. CASE recv
 <2>0. commands # <<>> /\ commands' = Tail(commands) /\ batch = <<>>
   BY <1>18 DEF WriteInv, WorkerShape
 <2>q. /\ commands' \in Seq(Command) /\ Head(commands) \in Command
       /\ QueueBytes(commands) = QueueBytes(commands') \union Elems(Head(commands).bytes)
   BY <1>t, <2>0, TakeQueue
 <2>o. /\ OnceIn(commands') /\ Distinct(Head(commands).bytes)
       /\ \A b \in Elems(Head(commands).bytes) : b \notin QueueBytes(commands')
   BY <1>t, <1>d, <2>0, TakeOnce
 <2>c. /\ Head(commands).kind \in Kinds /\ Head(commands).bytes \in Seq(Bytes)
       /\ Head(commands).kind # "data" => Head(commands).bytes = <<>>
   BY <2>q, CommandFields
 <2>1. CASE Head(commands).kind = "data"
  <3>1. batch' = Head(commands).bytes /\ pending' = pending BY <1>18, <2>1
  <3>2. batch = <<>> /\ commands' \in Seq(Command) BY <2>0, <2>q
  <3>u. UNCHANGED <<wire, staged, hand, refused, dropped, accepted>> BY <1>18, <2>1
  <3>x. ByteTypes'
    BY <3>1, <3>2, <2>q, <2>o, <2>c, <3>u, <1>t, <1>b, <1>n, <1>p, Zenon DEF ByteTypes
  <3>y. Apart' BY <3>1, <3>2, <2>q, <2>o, <2>c, <3>u, <1>s, <1>n DEF Apart, Shares
  <3>z. EachOnce' BY <3>1, <3>2, <2>q, <2>o, <2>c, <3>u, <1>d, <1>n, Zenon DEF EachOnce
  <3> QED BY <3>x, <3>y, <3>z DEF Shared
 <2>2. CASE Head(commands).kind # "data"
  <3>1. pending' = Head(commands) BY <1>18, <2>2
  <3>2. QueueBytes(commands) = QueueBytes(commands') /\ commands' \in Seq(Command)
    BY <2>q, <2>c, <2>2, <1>n
  <3>3. pending' \in [kind : (Kinds \ {"data"}) \union {"none"}, bytes : {<<>>}]
    BY <2>q, <2>c, <2>2, <3>1 DEF Command
  <3>u. UNCHANGED <<wire, staged, hand, batch, refused, dropped, accepted>> BY <1>18, <2>2
  <3>x. ByteTypes' BY <3>1, <3>2, <3>3, <2>o, <3>u, <1>t, <1>b, <1>n, <1>p, Zenon DEF ByteTypes
  <3>y. Apart' BY <3>1, <3>2, <3>3, <2>o, <3>u, <1>s, <1>n DEF Apart, Shares
  <3>z. EachOnce' BY <3>1, <3>2, <3>3, <2>o, <3>u, <1>d, <1>n DEF EachOnce
  <3> QED BY <3>x, <3>y, <3>z DEF Shared
 <2> QED BY <2>1, <2>2
<1>19. CASE worker_write_fails
 <2>0. Exit BY <1>19
 <2>1. /\ commands' = <<>> /\ batch' = <<>> /\ pending' = NoCommand
       /\ dropped' = dropped \union Elems(batch) \union QueueBytes(commands)
   BY <2>0, ExitMoves DEF WriteInv, WriteTypes
 <2>2. QueueBytes(commands) \subseteq Bytes BY <1>t, QueueOfBytes
 <2>u. UNCHANGED <<wire, staged, hand, refused, accepted>> BY <1>19
 <2>x. ByteTypes' BY <2>1, <2>2, <2>u, <1>t, <1>b, <1>n, <1>p DEF ByteTypes
 <2>y. Apart' BY <2>1, <2>2, <2>u, <1>s, <1>n DEF Apart, Shares
 <2>z. EachOnce' BY <2>1, <2>2, <2>u, <1>d, <1>n, Zenon DEF EachOnce
 <2> QED BY <2>x, <2>y, <2>z DEF Shared
<1>20. CASE worker_close
 <2>0. Exit BY <1>20
 <2>1. /\ commands' = <<>> /\ batch' = <<>> /\ pending' = NoCommand
       /\ dropped' = dropped \union Elems(batch) \union QueueBytes(commands)
   BY <2>0, ExitMoves DEF WriteInv, WriteTypes
 <2>2. QueueBytes(commands) \subseteq Bytes BY <1>t, QueueOfBytes
 <2>u. UNCHANGED <<wire, staged, hand, refused, accepted>> BY <1>20
 <2>x. ByteTypes' BY <2>1, <2>2, <2>u, <1>t, <1>b, <1>n, <1>p DEF ByteTypes
 <2>y. Apart' BY <2>1, <2>2, <2>u, <1>s, <1>n DEF Apart, Shares
 <2>z. EachOnce' BY <2>1, <2>2, <2>u, <1>d, <1>n DEF EachOnce
 <2> QED BY <2>x, <2>y, <2>z DEF Shared
<1>21. CASE worker_stop
 <2>0. Exit BY <1>21
 <2>1. /\ commands' = <<>> /\ batch' = <<>> /\ pending' = NoCommand
       /\ dropped' = dropped \union Elems(batch) \union QueueBytes(commands)
   BY <2>0, ExitMoves DEF WriteInv, WriteTypes
 <2>2. QueueBytes(commands) \subseteq Bytes BY <1>t, QueueOfBytes
 <2>u. UNCHANGED <<wire, staged, hand, refused, accepted>> BY <1>21
 <2>x. ByteTypes' BY <2>1, <2>2, <2>u, <1>t, <1>b, <1>n, <1>p DEF ByteTypes
 <2>y. Apart' BY <2>1, <2>2, <2>u, <1>s, <1>n DEF Apart, Shares
 <2>z. EachOnce' BY <2>1, <2>2, <2>u, <1>d, <1>n DEF EachOnce
 <2> QED BY <2>x, <2>y, <2>z DEF Shared
<1>22. CASE worker_eof
 <2>1. CASE CloseOnEof
  <3>0. Exit BY <1>22, <2>1
  <3>1. /\ commands' = <<>> /\ batch' = <<>> /\ pending' = NoCommand
        /\ dropped' = dropped \union Elems(batch) \union QueueBytes(commands)
    BY <3>0, ExitMoves DEF WriteInv, WriteTypes
  <3>2. QueueBytes(commands) \subseteq Bytes BY <1>t, QueueOfBytes
  <3>u. UNCHANGED <<wire, staged, hand, refused, accepted>> BY <1>22, <2>1
  <3>x. ByteTypes' BY <3>1, <3>2, <3>u, <1>t, <1>b, <1>n, <1>p DEF ByteTypes
  <3>y. Apart' BY <3>1, <3>2, <3>u, <1>s, <1>n DEF Apart, Shares
  <3>z. EachOnce' BY <3>1, <3>2, <3>u, <1>d, <1>n DEF EachOnce
  <3> QED BY <3>x, <3>y, <3>z DEF Shared
 <2>2. CASE ~CloseOnEof
  <3>1. pending' = NoCommand BY <1>22, <2>2
  <3>u. UNCHANGED <<wire, staged, hand, batch, commands, refused, dropped, accepted>>
    BY <1>22, <2>2
  <3>x. ByteTypes' BY <3>1, <3>u, <1>t, <1>b, <1>n, <1>p DEF ByteTypes
  <3>y. Apart' BY <3>1, <3>u, <1>s, <1>n DEF Apart, Shares
  <3>z. EachOnce' BY <3>1, <3>u, <1>d, <1>n DEF EachOnce
  <3> QED BY <3>x, <3>y, <3>z DEF Shared
 <2> QED BY <2>1, <2>2
<1>23. ASSUME NEW n \in Lengths, write(n) PROVE ByteTypes' /\ Shared'
 <2>0. n \in Nat /\ accepted \in Nat /\ accepted + n <= MaxBytes /\ MaxBytes \in Nat
   BY <1>23, WriteAssumption DEF WriteInv, WriteTypes, CountTypes
 <2>1. hand = <<>> /\ hand' = [i \in 1..n |-> accepted + i] /\ accepted' = accepted + n
   BY <1>23 DEF WriteInv, LoopShape
 <2>2. hand' \in Seq(Bytes) /\ Elems(hand') = (accepted + 1)..(accepted + n) /\ Distinct(hand')
   BY <2>0, <2>1, FreshBytes
 <2>3. 1..accepted' = 1..accepted \union Elems(hand')
       /\ \A b \in Elems(hand') : b \notin 1..accepted
   BY <2>0, <2>1, <2>2
 <2>u. UNCHANGED <<wire, staged, batch, commands, pending, refused, dropped>> BY <1>23
 <2>x. ByteTypes' BY <2>1, <2>2, <2>3, <2>u, <1>t, <1>b, <1>n, <1>p DEF ByteTypes
 <2>y. Apart' BY <2>1, <2>2, <2>3, <2>u, <1>s, <1>n DEF Apart, Shares
 <2>z. EachOnce' BY <2>1, <2>2, <2>3, <2>u, <1>d, <1>n, Zenon DEF EachOnce
 <2> QED BY <2>x, <2>y, <2>z DEF Shared
<1>24. CASE mark_backpressure \/ resume_writing \/ connection_lost \/ worker_drained \/
         worker_resume \/ try_recv_empty \/ clear_backpressure \/ peer_eof
 <2>1. UNCHANGED <<wire, staged, hand, batch, commands, pending, refused, dropped, accepted>>
   BY <1>24
 <2> QED BY <2>1 DEF WriteInv, WriteTypes, ByteTypes, Shared, Apart, EachOnce
<1> QED BY <1>1, <1>2, <1>3, <1>4, <1>5, <1>6, <1>7, <1>8, <1>9, <1>10, <1>11, <1>12, <1>13,
    <1>14, <1>15, <1>16, <1>17, <1>18, <1>19, <1>20, <1>21, <1>22, <1>23, <1>24, Zenon DEF
    WriteNext, LoopStep, WorkerStep, Call


LEMMA RestNone == ASSUME NEW s \in Seq(Bytes) PROVE Rest(s, Len(s)) = <<>>
<1>1. Len(s) \in 0..Len(s) OBVIOUS
<1>2. Rest(s, Len(s)) \in Seq(Bytes) /\ Len(Rest(s, Len(s))) = Len(s) - Len(s) BY <1>1, CutElems
<1> QED BY <1>2

\* A loss is final, and so are a fault and the end of the worker.
LEMMA LossStays ==
    ASSUME WriteTypes, WriteNext
    PROVE  /\ read_event_state = "lost" => read_event_state' = "lost"
           /\ (lost_called => lost_called') /\ (faulty => faulty') /\ (closing => closing')
           /\ ~receiver_alive => ~receiver_alive'
<1> DEFINE G == /\ read_event_state = "lost" => read_event_state' = "lost"
                /\ (lost_called => lost_called') /\ (faulty => faulty') /\ (closing => closing')
                /\ ~receiver_alive => ~receiver_alive'
<1> USE DEF WriteTypes, FlagTypes, EventTypes
<1>1. CASE send_data_fails BY <1>1 DEF Passes
<1>2. CASE close_writer BY <1>2 DEF Passes
<1>3. CASE write_eof_writer BY <1>3 DEF Passes
<1>4. CASE direct_write_fails BY <1>4 DEF Passes
<1>5. CASE worker_write_fails BY <1>5 DEF Passes
<1>6. CASE worker_resume BY <1>6 DEF Passes
<1>7. CASE worker_eof BY <1>7 DEF Passes
<1>8. CASE worker_close BY <1>8 DEF Passes
<1>9. CASE abort BY <1>9 DEF Passes
<1>10. CASE peer_eof BY <1>10 DEF Passes
<1>11. CASE worker_start_fails BY <1>11 DEF Passes
<1>12. CASE resume_writing BY <1>12 DEF Passes
<1>13. CASE connection_lost BY <1>13 DEF Passes
<1>14. CASE eof_received BY <1>14 DEF Passes
<1>15. CASE worker_stop BY <1>15
<1>16. CASE stage_direct_write_buffer \/ mark_backpressure \/ record_enqueued \/ send_data \/
         flush_pending_direct_write \/ flush_drained \/
         (\E k \in 0..MaxBytes : direct_write(k)) \/ (\E k \in 0..MaxBytes : flush_write(k)) \/
         recv
 <2>1. UNCHANGED <<read_event_state, lost_called, faulty, receiver_alive, closing>> BY <1>16
 <2> QED BY <2>1
<1>17. CASE worker_drained \/ try_recv_empty \/ clear_backpressure \/
         (\E k \in 1..MaxBytes : worker_write(k)) \/ (\E n \in Lengths : write(n)) \/ close \/
         write_eof
 <2>1. UNCHANGED <<read_event_state, lost_called, faulty, receiver_alive, closing>> BY <1>17
 <2> QED BY <2>1
<1> QED BY <1>1, <1>2, <1>3, <1>4, <1>5, <1>6, <1>7, <1>8, <1>9, <1>10, <1>11, <1>12, <1>13,
    <1>14, <1>15, <1>16, <1>17, Zenon DEF WriteNext, LoopStep, WorkerStep, Call

LEMMA LoopShapeKept == ASSUME WriteInv, WriteNext PROVE LoopShape'
<1>l. IsLost => IsLost' BY LossStays DEF WriteInv, IsLost
<1> USE DEF LoopShape
<1>i. LoopShape BY DEF WriteInv
<1>t. WriteTypes BY DEF WriteInv
<1>z. closing /\ staged # <<>> => IsLost BY DEF WriteInv, LossShape
<1>1. CASE stage_direct_write_buffer BY <1>l, <1>i, <1>t, <1>1
<1>2. CASE mark_backpressure BY <1>l, <1>i, <1>t, <1>2
<1>3. CASE record_enqueued BY <1>l, <1>i, <1>t, <1>3
<1>4. CASE send_data BY <1>l, <1>i, <1>t, <1>4
<1>5. CASE send_data_fails BY <1>l, <1>i, <1>t, <1>5
<1>6. CASE flush_pending_direct_write BY <1>l, <1>i, <1>t, <1>z, <1>6
<1>7. CASE flush_drained BY <1>l, <1>i, <1>t, <1>7
<1>8. CASE close_writer BY <1>l, <1>i, <1>t, <1>8
<1>9. CASE write_eof_writer BY <1>l, <1>i, <1>t, <1>9
<1>10. ASSUME NEW k \in 0..MaxBytes, direct_write(k) PROVE LoopShape' BY <1>l, <1>i, <1>t, <1>10
<1>11. ASSUME NEW k \in 0..MaxBytes, flush_write(k) PROVE LoopShape' BY <1>l, <1>i, <1>t, <1>11
<1>12. CASE direct_write_fails BY <1>l, <1>i, <1>t, <1>12
<1>13. ASSUME NEW n \in Lengths, write(n) PROVE LoopShape' BY <1>l, <1>i, <1>t, <1>13
<1>14. CASE close BY <1>l, <1>i, <1>t, <1>z, <1>14
<1>15. CASE write_eof BY <1>l, <1>i, <1>t, <1>z, <1>15
<1>16. CASE abort BY <1>l, <1>i, <1>t, <1>16
<1>17. CASE worker_start_fails BY <1>l, <1>i, <1>t, <1>17
<1>18. CASE eof_received BY <1>l, <1>i, <1>t, <1>18
<1>19. CASE resume_writing \/ connection_lost \/ recv \/ worker_write_fails \/
         worker_drained \/ worker_resume \/ try_recv_empty \/ clear_backpressure \/ worker_eof
 <2>1. UNCHANGED <<loop_pc, hand, counted, sent, after, staged, ended>> BY <1>19
 <2> QED BY <2>1, <1>l, <1>i, Zenon
<1>20. CASE worker_close \/ worker_stop \/ (\E k \in 1..MaxBytes : worker_write(k)) \/ peer_eof
 <2>1. UNCHANGED <<loop_pc, hand, counted, sent, after, staged, ended>> BY <1>20
 <2> QED BY <2>1, <1>l, <1>i
<1> QED BY <1>1, <1>2, <1>3, <1>4, <1>5, <1>6, <1>7, <1>8, <1>9, <1>10, <1>11, <1>12, <1>13,
    <1>14, <1>15, <1>16, <1>17, <1>18, <1>19, <1>20 DEF WriteNext, LoopStep, WorkerStep, Call

\* A loss is queued only with the state that says so.
LEMMA LossQueued ==
    ASSUME WriteTypes, WriteNext
    PROVE  "lost" \in Elems(events') => "lost" \in Elems(events) \/ read_event_state' = "lost"
<1> DEFINE G == "lost" \in Elems(events') => "lost" \in Elems(events) \/ read_event_state' = "lost"
<1>1. CASE send_data_fails
 <2>1. PICK e \in {"resume", "eof", "lost"} :
           UNCHANGED <<events, read_event_state>> \/ enqueue_pending_read_event(e)
   BY <1>1
 <2> QED BY <2>1, EventQueued DEF WriteTypes, EventTypes
<1>2. CASE close_writer
 <2>1. PICK e \in {"resume", "eof", "lost"} :
           UNCHANGED <<events, read_event_state>> \/ enqueue_pending_read_event(e)
   BY <1>2
 <2> QED BY <2>1, EventQueued DEF WriteTypes, EventTypes
<1>3. CASE write_eof_writer
 <2>1. PICK e \in {"resume", "eof", "lost"} :
           UNCHANGED <<events, read_event_state>> \/ enqueue_pending_read_event(e)
   BY <1>3
 <2> QED BY <2>1, EventQueued DEF WriteTypes, EventTypes
<1>4. CASE direct_write_fails
 <2>1. PICK e \in {"resume", "eof", "lost"} :
           UNCHANGED <<events, read_event_state>> \/ enqueue_pending_read_event(e)
   BY <1>4
 <2> QED BY <2>1, EventQueued DEF WriteTypes, EventTypes
<1>5. CASE worker_write_fails
 <2>1. PICK e \in {"resume", "eof", "lost"} :
           UNCHANGED <<events, read_event_state>> \/ enqueue_pending_read_event(e)
   BY <1>5
 <2> QED BY <2>1, EventQueued DEF WriteTypes, EventTypes
<1>6. CASE worker_resume
 <2>1. PICK e \in {"resume", "eof", "lost"} :
           UNCHANGED <<events, read_event_state>> \/ enqueue_pending_read_event(e)
   BY <1>6
 <2> QED BY <2>1, EventQueued DEF WriteTypes, EventTypes
<1>7. CASE worker_eof
 <2>1. PICK e \in {"resume", "eof", "lost"} :
           UNCHANGED <<events, read_event_state>> \/ enqueue_pending_read_event(e)
   BY <1>7
 <2> QED BY <2>1, EventQueued DEF WriteTypes, EventTypes
<1>8. CASE worker_close
 <2>1. PICK e \in {"resume", "eof", "lost"} :
           UNCHANGED <<events, read_event_state>> \/ enqueue_pending_read_event(e)
   BY <1>8
 <2> QED BY <2>1, EventQueued DEF WriteTypes, EventTypes
<1>9. CASE abort
 <2>1. PICK e \in {"resume", "eof", "lost"} :
           UNCHANGED <<events, read_event_state>> \/ enqueue_pending_read_event(e)
   BY <1>9
 <2> QED BY <2>1, EventQueued DEF WriteTypes, EventTypes
<1>10. CASE peer_eof
 <2>1. PICK e \in {"resume", "eof", "lost"} :
           UNCHANGED <<events, read_event_state>> \/ enqueue_pending_read_event(e)
   BY <1>10
 <2> QED BY <2>1, EventQueued DEF WriteTypes, EventTypes
<1>11. CASE worker_start_fails
 <2>1. PICK e \in {"resume", "eof", "lost"} :
           UNCHANGED <<events, read_event_state>> \/ enqueue_pending_read_event(e)
   BY <1>11
 <2> QED BY <2>1, EventQueued DEF WriteTypes, EventTypes
<1>12. CASE resume_writing
 <2>1. events # <<>> /\ events' = Tail(events) /\ events \in Seq({"resume", "eof", "lost"})
   BY <1>12 DEF WriteTypes, EventTypes
 <2>2. Elems(events) = Elems(Tail(events)) \union {Head(events)} BY <2>1, TailElems
 <2> QED BY <2>1, <2>2
<1>13. CASE connection_lost
 <2>1. events # <<>> /\ events' = Tail(events) /\ events \in Seq({"resume", "eof", "lost"})
   BY <1>13 DEF WriteTypes, EventTypes
 <2>2. Elems(events) = Elems(Tail(events)) \union {Head(events)} BY <2>1, TailElems
 <2> QED BY <2>1, <2>2
<1>14. CASE eof_received
 <2>1. events # <<>> /\ events' = Tail(events) /\ events \in Seq({"resume", "eof", "lost"})
   BY <1>14 DEF WriteTypes, EventTypes
 <2>2. Elems(events) = Elems(Tail(events)) \union {Head(events)} BY <2>1, TailElems
 <2> QED BY <2>1, <2>2
<1>15. CASE stage_direct_write_buffer \/ mark_backpressure \/ record_enqueued \/ send_data \/
         flush_pending_direct_write \/ flush_drained \/
         (\E k \in 0..MaxBytes : direct_write(k)) \/ (\E k \in 0..MaxBytes : flush_write(k)) \/
         recv \/ worker_drained \/ try_recv_empty \/ clear_backpressure
 <2>1. UNCHANGED events BY <1>15
 <2> QED BY <2>1
<1>16. CASE worker_stop \/ (\E k \in 1..MaxBytes : worker_write(k)) \/
         (\E n \in Lengths : write(n)) \/ close \/ write_eof
 <2>1. UNCHANGED events BY <1>16
 <2> QED BY <2>1
<1> QED BY <1>1, <1>2, <1>3, <1>4, <1>5, <1>6, <1>7, <1>8, <1>9, <1>10, <1>11, <1>12, <1>13,
    <1>14, <1>15, <1>16, Zenon DEF WriteNext, LoopStep, WorkerStep, Call

\* How a control command comes to the worker.
LEMMA ToldFollows ==
    ASSUME WriteInv, WriteNext
    PROVE  \A k \in Told' :
               \/ k \in Told
               \/ k = "stop" /\ read_event_state' = "lost" /\ closing'
               \/ k \in {"close", "abort"} /\ closing'
               \/ k = "eof" /\ after = "eof" /\ after' = "idle"
<1> DEFINE G == \A k \in Told' :
               \/ k \in Told
               \/ k = "stop" /\ read_event_state' = "lost" /\ closing'
               \/ k \in {"close", "abort"} /\ closing'
               \/ k = "eof" /\ after = "eof" /\ after' = "idle"
<1>t. commands \in Seq(Command) /\ hand \in Seq(Bytes) /\ events \in Seq({"resume", "eof", "lost"})
      /\ read_event_state \in {"open", "eof", "lost"}
  BY DEF WriteInv, WriteTypes, ByteTypes, EventTypes
<1>s. OnceIn(commands) /\ Distinct(hand) BY DEF WriteInv, Shared, Apart, EachOnce
<1>c. lost_called => closing BY DEF WriteInv, LossShape
<1>1. CASE close_writer
 <2>0. pending' = pending /\ closing' = TRUE BY <1>1
 <2>1. CASE Direct /\ WriterIsStillLazy
  <3>1. enqueue_pending_read_event("lost")
        /\ commands' = (IF receiver_alive THEN Append(commands, Control("stop")) ELSE commands)
    BY <1>1, <2>1
  <3>2. read_event_state' = "lost" BY <3>1, <1>t, EventQueued
  <3>3. KindsIn(commands') \subseteq KindsIn(commands) \union {"stop"}
    BY <3>1, <1>t, ControlSent DEF Kinds
  <3> QED BY <2>0, <3>2, <3>3 DEF Told
 <2>2. CASE ~(Direct /\ WriterIsStillLazy)
  <3>1. commands' = (IF receiver_alive THEN Append(commands, Control("close")) ELSE commands)
    BY <1>1, <2>2
  <3>2. KindsIn(commands') \subseteq KindsIn(commands) \union {"close"}
    BY <3>1, <1>t, ControlSent DEF Kinds
  <3> QED BY <2>0, <3>2 DEF Told
 <2> QED BY <2>1, <2>2
<1>2. CASE write_eof_writer
 <2>1. commands' = commands \/ \E k \in {"eof"} :
           commands' = (IF receiver_alive THEN Append(commands, Control(k)) ELSE commands)
   BY <1>2
 <2>2. KindsIn(commands') \subseteq KindsIn(commands) \union {"eof"}
   BY <2>1, <1>t, ControlSent DEF Kinds
 <2>3. pending' = pending /\ after = "eof" /\ after' = "idle" BY <1>2
 <2> QED BY <2>2, <2>3 DEF Told
<1>3. CASE eof_received
 <2>1. pending' = pending BY <1>3
 <2>2. CASE UNCHANGED commands BY <2>1, <2>2 DEF Told
 <2>3. CASE ~UNCHANGED commands
  <3>1. commands' = (IF receiver_alive THEN Append(commands, Control("close")) ELSE commands)
    BY <1>3, <2>3
  <3>2. closing' BY <1>3, <2>3, <1>c
  <3>3. KindsIn(commands') \subseteq KindsIn(commands) \union {"close"}
    BY <3>1, <1>t, ControlSent DEF Kinds
  <3> QED BY <2>1, <3>2, <3>3 DEF Told
 <2> QED BY <2>2, <2>3
<1>4. CASE abort
 <2>1. commands' = commands \/ \E k \in {"abort"} :
           commands' = (IF receiver_alive THEN Append(commands, Control(k)) ELSE commands)
   BY <1>4
 <2>2. KindsIn(commands') \subseteq KindsIn(commands) \union {"abort"}
   BY <2>1, <1>t, ControlSent DEF Kinds
 <2>3. pending' = pending /\ closing' BY <1>4
 <2> QED BY <2>2, <2>3 DEF Told
<1>5. CASE direct_write_fails
 <2>0. pending' = pending BY <1>5
 <2>1. fail_write(Range(hand)) BY <1>5
 <2>2. commands' = commands \/ (closing' /\ read_event_state' = "lost"
                             /\ KindsIn(commands') \subseteq KindsIn(commands) \union {"stop"})
   BY <2>1, FailMoves DEF WriteInv
 <2> QED BY <2>0, <2>2 DEF Told
<1>6. CASE worker_start_fails
 <2>0. pending' = pending BY <1>6
 <2>1. fail_write({}) BY <1>6
 <2>2. commands' = commands \/ (closing' /\ read_event_state' = "lost"
                             /\ KindsIn(commands') \subseteq KindsIn(commands) \union {"stop"})
   BY <2>1, FailMoves DEF WriteInv
 <2> QED BY <2>0, <2>2 DEF Told
<1>7. CASE send_data_fails
 <2>1. CASE closing BY <1>7, <2>1 DEF Told
 <2>2. CASE ~closing
  <3>0. pending' = pending BY <1>7
  <3>1. fail_write(Range(hand)) BY <1>7, <2>2
  <3>2. commands' = commands \/ (closing' /\ read_event_state' = "lost"
                              /\ KindsIn(commands') \subseteq KindsIn(commands) \union {"stop"})
    BY <3>1, FailMoves DEF WriteInv
  <3> QED BY <3>0, <3>2 DEF Told
 <2> QED BY <2>1, <2>2
<1>8. CASE send_data
 <2>1. \E append \in {FALSE, MayAppend} : commands' = Enqueued(hand, append) BY <1>8
 <2>2. \A b \in Elems(hand) : b \notin QueueBytes(commands)
   BY DEF WriteInv, Shared, Apart, EachOnce, Shares
 <2>3. KindsIn(commands') = KindsIn(commands) \union {"data"} BY <1>t, <1>s, <2>1, <2>2, DataSent
 <2>4. pending' = pending BY <1>8
 <2> QED BY <2>3, <2>4 DEF Told
<1>9. CASE recv
 <2>1. commands # <<>> /\ commands' = Tail(commands)
       /\ (pending' = pending \/ pending' = Head(commands))
   BY <1>9
 <2>2. KindsIn(commands) = KindsIn(commands') \union {Head(commands).kind} BY <1>t, <2>1, TakeQueue
 <2> QED BY <2>1, <2>2 DEF Told
<1>10. CASE worker_write_fails
 <2>1. Exit BY <1>10
 <2>2. KindsIn(commands') = {} /\ pending'.kind = "none"
   BY <2>1, ExitMoves DEF WriteInv, WriteTypes, NoCommand, Control
 <2> QED BY <2>2 DEF Told
<1>11. CASE worker_close
 <2>1. Exit BY <1>11
 <2>2. KindsIn(commands') = {} /\ pending'.kind = "none"
   BY <2>1, ExitMoves DEF WriteInv, WriteTypes, NoCommand, Control
 <2> QED BY <2>2 DEF Told
<1>12. CASE worker_stop
 <2>1. Exit BY <1>12
 <2>2. KindsIn(commands') = {} /\ pending'.kind = "none"
   BY <2>1, ExitMoves DEF WriteInv, WriteTypes, NoCommand, Control
 <2> QED BY <2>2 DEF Told
<1>13. CASE worker_eof
 <2>1. CASE CloseOnEof
  <3>1. Exit BY <1>13, <2>1
  <3>2. KindsIn(commands') = {} /\ pending'.kind = "none"
    BY <3>1, ExitMoves DEF WriteInv, WriteTypes, NoCommand, Control
  <3> QED BY <3>2 DEF Told
 <2>2. CASE ~CloseOnEof
  <3>1. commands' = commands /\ pending'.kind = "none" BY <1>13, <2>2 DEF NoCommand, Control
  <3> QED BY <3>1 DEF Told
 <2> QED BY <2>1, <2>2
<1>14. CASE stage_direct_write_buffer \/ mark_backpressure \/ record_enqueued \/
         flush_pending_direct_write \/ flush_drained \/ resume_writing \/ connection_lost \/
         (\E k \in 0..MaxBytes : direct_write(k)) \/ (\E k \in 0..MaxBytes : flush_write(k)) \/
         worker_drained \/ worker_resume \/ try_recv_empty
 <2>1. UNCHANGED <<commands, pending>> BY <1>14
 <2> QED BY <2>1, Zenon DEF Told
<1>15. CASE clear_backpressure \/ (\E k \in 1..MaxBytes : worker_write(k)) \/
         (\E n \in Lengths : write(n)) \/ close \/ write_eof \/ peer_eof
 <2>1. UNCHANGED <<commands, pending>> BY <1>15
 <2> QED BY <2>1 DEF Told
<1> QED BY <1>1, <1>2, <1>3, <1>4, <1>5, <1>6, <1>7, <1>8, <1>9, <1>10, <1>11, <1>12, <1>13,
    <1>14, <1>15 DEF WriteNext, LoopStep, WorkerStep, Call

LEMMA WorkerShapeKept == ASSUME WriteInv, WriteNext PROVE WorkerShape'
<1>t. commands \in Seq(Command) /\ hand \in Seq(Bytes) /\ batch \in Seq(Bytes)
  BY DEF WriteInv, WriteTypes, ByteTypes
<1>w. WorkerShape BY DEF WriteInv
<1>d. transport' = transport BY TransportFixed
<1> USE DEF WorkerShape, Direct
<1>1. CASE close_writer
 <2>1. commands' = commands \/ \E k \in Kinds \ {"data"} :
           commands' = (IF receiver_alive THEN Append(commands, Control(k)) ELSE commands)
   BY <1>1 DEF Kinds
 <2>2. QueueBytes(commands') = QueueBytes(commands) BY <2>1, <1>t, ControlSent
 <2>3. UNCHANGED <<batch, worker_pc, pending>> BY <1>1
 <2> QED BY <1>w, <1>d, <2>2, <2>3
<1>2. CASE write_eof_writer
 <2>1. commands' = commands \/ \E k \in Kinds \ {"data"} :
           commands' = (IF receiver_alive THEN Append(commands, Control(k)) ELSE commands)
   BY <1>2 DEF Kinds
 <2>2. QueueBytes(commands') = QueueBytes(commands) BY <2>1, <1>t, ControlSent
 <2>3. UNCHANGED <<batch, worker_pc, pending>> BY <1>2
 <2> QED BY <1>w, <1>d, <2>2, <2>3
<1>3. CASE eof_received
 <2>1. commands' = commands \/ \E k \in Kinds \ {"data"} :
           commands' = (IF receiver_alive THEN Append(commands, Control(k)) ELSE commands)
   BY <1>3 DEF Kinds
 <2>2. QueueBytes(commands') = QueueBytes(commands) BY <2>1, <1>t, ControlSent
 <2>3. UNCHANGED <<batch, worker_pc, pending>> BY <1>3
 <2> QED BY <1>w, <1>d, <2>2, <2>3
<1>4. CASE abort
 <2>1. commands' = commands \/ \E k \in Kinds \ {"data"} :
           commands' = (IF receiver_alive THEN Append(commands, Control(k)) ELSE commands)
   BY <1>4 DEF Kinds
 <2>2. QueueBytes(commands') = QueueBytes(commands) BY <2>1, <1>t, ControlSent
 <2>3. UNCHANGED <<batch, worker_pc, pending>> BY <1>4
 <2> QED BY <1>w, <1>d, <2>2, <2>3
<1>5. CASE direct_write_fails
 <2>1. commands' = commands \/ \E k \in Kinds \ {"data"} :
           commands' = (IF receiver_alive THEN Append(commands, Control(k)) ELSE commands)
   BY <1>5 DEF Kinds
 <2>2. QueueBytes(commands') = QueueBytes(commands) BY <2>1, <1>t, ControlSent
 <2>3. UNCHANGED <<batch, worker_pc, pending>> BY <1>5
 <2> QED BY <1>w, <1>d, <2>2, <2>3
<1>6. CASE send_data_fails
 <2>1. commands' = commands \/ \E k \in Kinds \ {"data"} :
           commands' = (IF receiver_alive THEN Append(commands, Control(k)) ELSE commands)
   BY <1>6 DEF Kinds
 <2>2. QueueBytes(commands') = QueueBytes(commands) BY <2>1, <1>t, ControlSent
 <2>3. UNCHANGED <<batch, worker_pc, pending>> BY <1>6
 <2> QED BY <1>w, <1>d, <2>2, <2>3
<1>7. CASE send_data
 <2>1. worker_pc' # "lazy" /\ UNCHANGED <<batch,
 pending>> /\ (worker_pc' = worker_pc \/ (worker_pc = "lazy" /\ worker_pc' = "recv"))
   BY <1>7
 <2> QED BY <1>w, <2>1
<1>8. CASE recv
 <2>1. batch = <<>> /\ worker_pc' \in {"write", "command"}
       /\ (worker_pc' # "write" => batch' = batch)
   BY <1>8, <1>w
 <2>2. pending.kind = "none" BY <1>8, <1>w
 <2>3. worker_pc' = "command" <=> pending'.kind # "none"
  <3>1. Head(commands).kind # "none" BY <1>8, <1>t, TakeQueue, CommandFields DEF Kinds
  <3> QED BY <1>8, <2>2, <3>1
 <2> QED BY <2>1, <2>3
<1>9. CASE worker_write_fails
 <2>1. Exit BY <1>9
 <2> QED BY <2>1 DEF NoCommand, Control
<1>10. CASE worker_close
 <2>1. Exit BY <1>10
 <2> QED BY <2>1 DEF NoCommand, Control
<1>11. CASE worker_stop
 <2>1. Exit BY <1>11
 <2> QED BY <2>1 DEF NoCommand, Control
<1>12. CASE worker_eof BY <1>12, <1>w DEF NoCommand, Control
<1>13. ASSUME NEW k \in 1..MaxBytes, worker_write(k) PROVE WorkerShape'
 <2>1. worker_pc = "write" /\ batch' = Rest(batch, k) /\ pending' = pending
       /\ worker_pc' = IF k = Len(batch) THEN "drained" ELSE "write"
   BY <1>13
 <2>2. Rest(batch, Len(batch)) = <<>> BY <1>t, RestNone
 <2> QED BY <1>w, <2>1, <2>2
<1>14. CASE worker_drained BY <1>14, <1>w
<1>15. CASE worker_resume BY <1>15, <1>w
<1>16. CASE try_recv_empty BY <1>16, <1>w
<1>17. CASE clear_backpressure BY <1>17, <1>w
<1>18. CASE worker_start_fails
 <2>1. worker_pc = "lazy" /\ worker_pc' = "exited" /\ UNCHANGED <<batch, pending>> BY <1>18
 <2> QED BY <1>w, <2>1
<1>19. CASE stage_direct_write_buffer \/ mark_backpressure \/ record_enqueued \/
         flush_pending_direct_write \/ flush_drained \/ resume_writing \/ connection_lost \/
         (\E k \in 0..MaxBytes : direct_write(k)) \/ (\E k \in 0..MaxBytes : flush_write(k)) \/
         (\E n \in Lengths : write(n)) \/ close \/ write_eof
 <2>1. UNCHANGED <<batch, worker_pc, pending, commands>> BY <1>19
 <2> QED BY <2>1, <1>w, <1>d, Zenon
<1>20. CASE peer_eof
 <2>1. UNCHANGED <<batch, worker_pc, pending, commands>> BY <1>20
 <2> QED BY <2>1, <1>w, <1>d
<1> QED BY <1>1, <1>2, <1>3, <1>4, <1>5, <1>6, <1>7, <1>8, <1>9, <1>10, <1>11, <1>12, <1>13,
    <1>14, <1>15, <1>16, <1>17, <1>18, <1>19, <1>20 DEF WriteNext, LoopStep, WorkerStep, Call

LEMMA LossShapeKept == ASSUME WriteInv, WriteNext PROVE LossShape'
<1> DEFINE G == /\ ~receiver_alive' => read_event_state' = "lost"
                /\ lost_called' => closing'
                /\ closing' /\ staged' # <<>> => IsLost'
                /\ closing' /\ loop_pc' \in Mid => ~receiver_alive' /\ faulty'
                /\ ~receiver_alive' => closing' \/ faulty' \/ CloseOnEof'
                /\ ended' = "peer" => closing'
<1>t. WriteTypes BY DEF WriteInv
<1>w. LossShape BY DEF WriteInv
<1>d. CloseOnEof' <=> CloseOnEof BY TransportFixed DEF CloseOnEof
<1>l. /\ read_event_state = "lost" => read_event_state' = "lost"
      /\ (lost_called => lost_called') /\ (faulty => faulty') /\ (closing => closing')
      /\ ~receiver_alive => ~receiver_alive'
  BY <1>t, LossStays
<1> USE DEF Mid, IsLost
<1>1. ASSUME mark_backpressure PROVE G BY <1>w, <1>d, <1>l, <1>1 DEF LossShape
<1>2. ASSUME record_enqueued PROVE G BY <1>w, <1>d, <1>l, <1>2 DEF LossShape
<1>3. ASSUME flush_pending_direct_write PROVE G BY <1>w, <1>d, <1>l, <1>3 DEF LossShape
<1>4. ASSUME flush_drained PROVE G BY <1>w, <1>d, <1>l, <1>4 DEF LossShape
<1>5. ASSUME resume_writing PROVE G BY <1>w, <1>d, <1>l, <1>5 DEF LossShape
<1>6. ASSUME connection_lost PROVE G BY <1>w, <1>d, <1>l, <1>6 DEF LossShape
<1>7. ASSUME NEW k \in 0..MaxBytes, direct_write(k) PROVE G BY <1>w, <1>d, <1>l, <1>7 DEF LossShape
<1>8. ASSUME NEW k \in 0..MaxBytes, flush_write(k) PROVE G BY <1>w, <1>d, <1>l, <1>8 DEF LossShape
<1>9. ASSUME NEW n \in Lengths, write(n) PROVE G BY <1>w, <1>d, <1>l, <1>9 DEF LossShape
<1>10. ASSUME send_data PROVE G BY <1>w, <1>d, <1>l, <1>10 DEF LossShape
<1>11. ASSUME eof_received PROVE G BY <1>w, <1>d, <1>l, <1>11 DEF LossShape
<1>12. ASSUME stage_direct_write_buffer PROVE G BY <1>w, <1>d, <1>l, <1>12 DEF LossShape
<1>13. ASSUME close_writer PROVE G
 <2>1. staged = <<>> BY <1>13 DEF WriteInv, LoopShape
 <2> QED BY <1>w, <1>d, <1>l, <2>1, <1>13 DEF LossShape
<1>14. ASSUME write_eof_writer PROVE G BY <1>w, <1>d, <1>l, <1>14 DEF LossShape
<1>15. ASSUME abort PROVE G BY <1>w, <1>d, <1>l, <1>15 DEF LossShape
<1>16. ASSUME close PROVE G BY <1>w, <1>d, <1>l, <1>16 DEF LossShape
<1>17. ASSUME write_eof PROVE G BY <1>w, <1>d, <1>l, <1>17 DEF LossShape
<1>18. ASSUME direct_write_fails PROVE G
 <2>1. fail_write(Range(hand)) BY <1>18
 <2>2. \/ closing /\ UNCHANGED <<closing, staged, read_event_state>>
       \/ ~closing /\ closing' = TRUE /\ staged' = <<>> /\ read_event_state' = "lost"
   BY <1>t, <2>1, FailMoves
 <2>3. UNCHANGED <<lost_called, ended>> BY <1>18
 <2>4. loop_pc' = "idle" /\ faulty' /\ receiver_alive' = receiver_alive BY <1>18
 <2> QED BY <1>w, <1>d, <1>l, <2>2, <2>3, <2>4 DEF LossShape
<1>19. ASSUME worker_start_fails PROVE G
 <2>1. fail_write({}) BY <1>19
 <2>2. \/ closing /\ UNCHANGED <<closing, staged, read_event_state>>
       \/ ~closing /\ closing' = TRUE /\ staged' = <<>> /\ read_event_state' = "lost"
   BY <1>t, <2>1, FailMoves
 <2>3. UNCHANGED <<lost_called, ended>> BY <1>19
 <2>4. loop_pc = "send" /\ loop_pc' = loop_pc /\ faulty' /\ receiver_alive' = FALSE BY <1>19
 <2> QED BY <1>w, <1>d, <1>l, <2>2, <2>3, <2>4 DEF LossShape
<1>20. ASSUME send_data_fails PROVE G
 <2>1. CASE closing BY <1>w, <1>d, <1>l, <1>20, <2>1, Zenon DEF LossShape
 <2>2. CASE ~closing
  <3>1. fail_write(Range(hand)) /\ loop_pc' = "idle" /\ receiver_alive' = receiver_alive
    BY <1>20, <2>2
  <3>2. closing' = TRUE /\ staged' = <<>> /\ read_event_state' = "lost"
    BY <1>t, <2>2, <3>1, FailMoves
  <3>3. UNCHANGED <<lost_called, ended>> BY <1>20
  <3> QED BY <1>w, <1>d, <1>l, <3>1, <3>2, <3>3 DEF LossShape
 <2> QED BY <2>1, <2>2
<1>21. ASSUME worker_write_fails PROVE G
 <2>1. enqueue_pending_read_event("lost") /\ faulty'
       /\ UNCHANGED <<closing, staged, lost_called, loop_pc, ended>>
   BY <1>21
 <2>2. read_event_state' = "lost" BY <1>t, <2>1, EventQueued DEF WriteTypes, EventTypes
 <2> QED BY <1>w, <1>d, <1>l, <2>1, <2>2 DEF LossShape
<1>22. ASSUME worker_close PROVE G
 <2>1. enqueue_pending_read_event("lost") /\ pending.kind \in {"close", "abort"}
       /\ UNCHANGED <<closing, staged, lost_called, loop_pc, ended>>
   BY <1>22
 <2>2. read_event_state' = "lost" BY <1>t, <2>1, EventQueued DEF WriteTypes, EventTypes
 <2>3. closing BY <1>w, <2>1 DEF LossShape, Told
 <2>4. receiver_alive' = FALSE /\ UNCHANGED faulty BY <1>22
 <2> QED BY <1>w, <1>d, <1>l, <2>1, <2>2, <2>3, <2>4 DEF LossShape
<1>23. ASSUME worker_stop PROVE G
 <2>1. pending.kind = "stop"
       /\ UNCHANGED <<closing, staged, lost_called, loop_pc, ended, read_event_state>>
   BY <1>23
 <2>2. closing /\ read_event_state = "lost" BY <1>w, <2>1 DEF LossShape, Told
 <2>3. receiver_alive' = FALSE /\ UNCHANGED faulty BY <1>23
 <2> QED BY <1>w, <1>d, <1>l, <2>1, <2>2, <2>3 DEF LossShape
<1>24. ASSUME worker_eof PROVE G
 <2>0. UNCHANGED <<closing, staged, lost_called, loop_pc, ended, faulty>> BY <1>24
 <2>1. CASE CloseOnEof
  <3>1. enqueue_pending_read_event("lost") /\ receiver_alive' = FALSE BY <1>24, <2>1
  <3>2. read_event_state' = "lost" BY <1>t, <3>1, EventQueued DEF WriteTypes, EventTypes
  <3> QED BY <1>w, <1>d, <1>l, <2>0, <2>1, <3>1, <3>2 DEF LossShape
 <2>2. CASE ~CloseOnEof
  <3>1. UNCHANGED <<receiver_alive, read_event_state>> BY <1>24, <2>2
  <3> QED BY <1>w, <1>d, <1>l, <2>0, <3>1 DEF LossShape
 <2> QED BY <2>1, <2>2
<1>25. ASSUME recv \/ worker_drained \/ worker_resume \/ try_recv_empty \/ clear_backpressure \/
         (\E k \in 1..MaxBytes : worker_write(k)) \/ peer_eof PROVE G
 <2>1. UNCHANGED <<closing, staged, lost_called, loop_pc, ended, receiver_alive, faulty>>
   BY <1>25, Zenon
 <2> QED BY <2>1, <1>w, <1>d, <1>l, Zenon DEF LossShape
<1>g. G BY <1>1, <1>2, <1>3, <1>4, <1>5, <1>6, <1>7, <1>8, <1>9, <1>10, <1>11, <1>12, <1>13, <1>14,
    <1>15, <1>16, <1>17, <1>18, <1>19, <1>20, <1>21, <1>22, <1>23, <1>24, <1>25 DEF WriteNext,
    LoopStep, WorkerStep, Call
<1>a. "stop" \in Told' => read_event_state' = "lost" BY <1>w, <1>l, ToldFollows DEF LossShape
<1>b. "close" \in Told' \/ "abort" \in Told' \/ "stop" \in Told' => closing'
  BY <1>w, <1>l, ToldFollows DEF LossShape
<1>e. "lost" \in Elems(events') => read_event_state' = "lost"
  BY <1>t, <1>w, <1>l, LossQueued DEF LossShape
<1> QED BY <1>g, <1>a, <1>b, <1>e DEF LossShape

LEMMA PipeShapeKept == ASSUME WriteInv, WriteNext PROVE PipeShape'
<1>t. transport \in {"socket", "pipe"} /\ transport' = transport
  BY TransportFixed, WriteAssumption DEF WriteInv, WriteTypes, PointTypes
<1>p. PipeShape BY DEF WriteInv
<1>l. loop_pc = "idle" => sent = 0 BY DEF WriteInv, LoopShape
<1> USE DEF PipeShape, CloseOnEof, Direct
<1>1. CASE stage_direct_write_buffer BY <1>t, <1>p, <1>l, <1>1
<1>2. CASE mark_backpressure BY <1>t, <1>p, <1>l, <1>2
<1>3. CASE record_enqueued BY <1>t, <1>p, <1>l, <1>3
<1>4. CASE send_data BY <1>t, <1>p, <1>l, <1>4
<1>5. CASE send_data_fails BY <1>t, <1>p, <1>l, <1>5
<1>6. CASE flush_pending_direct_write BY <1>t, <1>p, <1>l, <1>6
<1>7. CASE flush_drained BY <1>t, <1>p, <1>l, <1>7
<1>8. CASE close_writer BY <1>t, <1>p, <1>l, <1>8
<1>9. CASE write_eof_writer BY <1>t, <1>p, <1>l, <1>9
<1>10. ASSUME NEW k \in 0..MaxBytes, direct_write(k) PROVE PipeShape' BY <1>t, <1>p, <1>l, <1>10
<1>11. ASSUME NEW k \in 0..MaxBytes, flush_write(k) PROVE PipeShape' BY <1>t, <1>p, <1>l, <1>11
<1>12. CASE direct_write_fails BY <1>t, <1>p, <1>l, <1>12
<1>13. ASSUME NEW n \in Lengths, write(n) PROVE PipeShape' BY <1>t, <1>p, <1>l, <1>13
<1>14. CASE close BY <1>t, <1>p, <1>l, <1>14
<1>15. CASE write_eof BY <1>t, <1>p, <1>l, <1>15
<1>16. CASE abort BY <1>t, <1>p, <1>l, <1>16
<1>17. CASE worker_start_fails BY <1>t, <1>p, <1>l, <1>17
<1>18. CASE resume_writing \/ connection_lost \/ eof_received \/ recv \/ worker_write_fails \/
         worker_drained \/ worker_resume \/ try_recv_empty \/ clear_backpressure \/
         worker_eof \/ worker_close \/ worker_stop
 <2>1. UNCHANGED <<staged, loop_pc, after, sent>> BY <1>18
 <2> QED BY <2>1, <1>t, <1>p, Zenon
<1>19. CASE (\E k \in 1..MaxBytes : worker_write(k)) \/ peer_eof
 <2>1. UNCHANGED <<staged, loop_pc, after, sent>> BY <1>19
 <2> QED BY <2>1, <1>t, <1>p
<1> QED BY <1>1, <1>2, <1>3, <1>4, <1>5, <1>6, <1>7, <1>8, <1>9, <1>10, <1>11, <1>12, <1>13,
    <1>14, <1>15, <1>16, <1>17, <1>18, <1>19 DEF WriteNext, LoopStep, WorkerStep, Call

\* An end is final.
LEMMA EndStays == ASSUME WriteNext PROVE ended # "open" => ended' # "open"
<1>1. CASE eof_received BY <1>1
<1>2. CASE close BY <1>2
<1>3. CASE write_eof BY <1>3
<1>4. CASE abort BY <1>4
<1>5. CASE stage_direct_write_buffer \/ mark_backpressure \/ record_enqueued \/ send_data \/
         send_data_fails \/ flush_pending_direct_write \/ flush_drained \/ close_writer \/
         write_eof_writer \/ resume_writing \/ connection_lost \/
         (\E k \in 0..MaxBytes : direct_write(k))
 <2>1. UNCHANGED ended BY <1>5
 <2> QED BY <2>1
<1>6. CASE (\E k \in 0..MaxBytes : flush_write(k)) \/ direct_write_fails \/ recv \/
         worker_write_fails \/ worker_drained \/ worker_resume \/ try_recv_empty \/
         clear_backpressure \/ worker_eof \/ worker_close \/ worker_stop \/
         (\E k \in 1..MaxBytes : worker_write(k))
 <2>1. UNCHANGED ended BY <1>6
 <2> QED BY <2>1
<1>7. CASE (\E n \in Lengths : write(n)) \/ peer_eof \/ worker_start_fails
 <2>1. UNCHANGED ended BY <1>7
 <2> QED BY <2>1
<1> QED BY <1>1, <1>2, <1>3, <1>4, <1>5, <1>6, <1>7 DEF WriteNext, LoopStep, WorkerStep, Call

LEMMA EndShapeKept == ASSUME WriteInv, WriteNext PROVE EndShape'
<1> DEFINE G == IsLost' \/ closing' \/ ~receiver_alive' \/ shut' # "open"
                    => faulty' \/ ended' # "open"
<1>t. WriteTypes BY DEF WriteInv
<1>e. EndShape BY DEF WriteInv
<1>l. faulty => faulty' BY <1>t, LossStays
<1>a. after # "idle" => ended = after BY DEF WriteInv, LoopShape
<1>q. "lost" \in Elems(events) => read_event_state = "lost" BY DEF WriteInv, LossShape
<1> USE DEF EndShape, IsLost
<1>1. ASSUME close_writer PROVE G
 <2>1. ended # "open" /\ ended' = ended BY <1>1, <1>a
 <2> QED BY <2>1
<1>2. ASSUME write_eof_writer PROVE G
 <2>1. ended # "open" /\ ended' = ended BY <1>2, <1>a
 <2> QED BY <2>1
<1>3. ASSUME connection_lost PROVE G
 <2>1. events # <<>> /\ Head(events) = "lost" BY <1>3
 <2>2. Head(events) \in Elems(events)
  <3>1. events \in Seq({"resume", "eof", "lost"}) BY <1>t DEF WriteTypes, EventTypes
  <3> QED BY <2>1, <3>1, TailElems
 <2>3. faulty \/ ended # "open" BY <1>e, <1>q, <2>1, <2>2
 <2> QED BY <1>l, <2>3, <1>3
<1>4. ASSUME eof_received PROVE G
 <2>1. read_event_state' = read_event_state /\ UNCHANGED <<receiver_alive, shut>> BY <1>4
 <2>2. UNCHANGED <<closing, lost_called, ended>> \/ ended' # "open" BY <1>4
 <2> QED BY <1>e, <1>l, <2>1, <2>2
<1>5. ASSUME abort PROVE G BY <1>5
<1>6. ASSUME close PROVE G BY <1>6
<1>7. ASSUME write_eof PROVE G BY <1>7
<1>8. ASSUME direct_write_fails PROVE G BY <1>8
<1>9. ASSUME worker_start_fails PROVE G BY <1>9
<1>10. ASSUME worker_write_fails PROVE G BY <1>10
<1>11. ASSUME send_data_fails PROVE G
 <2>1. (faulty \/ ended # "open") /\ ended' = ended BY <1>11, <1>e
 <2> QED BY <1>l, <2>1
<1>12. ASSUME worker_eof PROVE G
 <2>1. pending.kind \notin {"data", "none"} /\ ended' = ended BY <1>12
 <2>2. Told # {} BY <2>1 DEF Told
 <2> QED BY <1>e, <1>l, <2>1, <2>2
<1>13. ASSUME worker_close PROVE G
 <2>1. pending.kind \notin {"data", "none"} /\ ended' = ended BY <1>13
 <2>2. Told # {} BY <2>1 DEF Told
 <2> QED BY <1>e, <1>l, <2>1, <2>2
<1>14. ASSUME worker_stop PROVE G
 <2>1. pending.kind \notin {"data", "none"} /\ ended' = ended BY <1>14
 <2>2. Told # {} BY <2>1 DEF Told
 <2> QED BY <1>e, <1>l, <2>1, <2>2
<1>15. ASSUME worker_resume PROVE G
 <2>1. UNCHANGED <<closing, lost_called, receiver_alive, shut, faulty, ended>> BY <1>15
 <2>2. read_event_state' = "lost" => read_event_state = "lost"
   BY <1>15, <1>t, EventQueued DEF WriteTypes, EventTypes
 <2> QED BY <1>e, <2>1, <2>2
<1>16. ASSUME peer_eof PROVE G
 <2>1. UNCHANGED <<closing, lost_called, receiver_alive, shut, faulty, ended>> BY <1>16
 <2>2. read_event_state' = "lost" => read_event_state = "lost"
   BY <1>16, <1>t, EventQueued DEF WriteTypes, EventTypes
 <2> QED BY <1>e, <2>1, <2>2
<1>17. ASSUME stage_direct_write_buffer \/ mark_backpressure \/ record_enqueued \/ send_data \/
         flush_pending_direct_write \/ flush_drained \/ resume_writing \/
         (\E k \in 0..MaxBytes : direct_write(k)) \/ (\E k \in 0..MaxBytes : flush_write(k)) \/
         recv \/ worker_drained \/ try_recv_empty PROVE G
 <2>1. UNCHANGED <<closing, lost_called, receiver_alive, shut, faulty, ended, read_event_state>>
   BY <1>17
 <2> QED BY <2>1, <1>e
<1>18. ASSUME clear_backpressure \/ (\E k \in 1..MaxBytes : worker_write(k)) \/
         (\E n \in Lengths : write(n)) PROVE G
 <2>1. UNCHANGED <<closing, lost_called, receiver_alive, shut, faulty, ended, read_event_state>>
   BY <1>18
 <2> QED BY <2>1, <1>e
<1>g. G BY <1>1, <1>2, <1>3, <1>4, <1>5, <1>6, <1>7, <1>8, <1>9, <1>10, <1>11, <1>12, <1>13, <1>14,
    <1>15, <1>16, <1>17, <1>18 DEF WriteNext, LoopStep, WorkerStep, Call
<1>o. ended # "open" => ended' # "open" BY EndStays
<1>k. ASSUME NEW k \in Told' PROVE faulty' \/ ended' # "open"
 <2>1. k \in Told \/ closing' \/ (k = "eof" /\ after = "eof") BY ToldFollows
 <2> QED BY <1>e, <1>l, <1>g, <1>a, <1>o, <2>1
<1> QED BY <1>g, <1>k

\* Only write() gives the loop thread bytes, and they are new.
LEMMA HeldShrinks ==
    ASSUME WriteInv, WriteNext
    PROVE  \A b \in 1..accepted : b \in Elems(staged') \/ b \in Elems(hand')
               => b \in Elems(staged) \/ b \in Elems(hand)
<1> DEFINE G == \A b \in 1..accepted : b \in Elems(staged') \/ b \in Elems(hand')
                    => b \in Elems(staged) \/ b \in Elems(hand)
<1>t. staged \in Seq(Bytes) /\ hand \in Seq(Bytes) BY DEF WriteInv, WriteTypes, ByteTypes
<1>n. Elems(<<>>) = {} BY NothingIn
<1>i. loop_pc = "idle" => hand = <<>> BY DEF WriteInv, LoopShape
<1>1. ASSUME record_enqueued PROVE G
 <2>1. staged' \in {staged, <<>>} /\ (hand' \in {hand, <<>>} \/ hand' = staged) BY <1>1, <1>i
 <2> QED BY <1>n, <2>1
<1>2. ASSUME send_data PROVE G
 <2>1. staged' \in {staged, <<>>} /\ (hand' \in {hand, <<>>} \/ hand' = staged) BY <1>2, <1>i
 <2> QED BY <1>n, <2>1
<1>3. ASSUME flush_drained PROVE G
 <2>1. staged' \in {staged, <<>>} /\ (hand' \in {hand, <<>>} \/ hand' = staged) BY <1>3, <1>i
 <2> QED BY <1>n, <2>1
<1>4. ASSUME abort PROVE G
 <2>1. staged' \in {staged, <<>>} /\ (hand' \in {hand, <<>>} \/ hand' = staged) BY <1>4, <1>i
 <2> QED BY <1>n, <2>1
<1>5. ASSUME flush_pending_direct_write PROVE G
 <2>1. staged' \in {staged, <<>>} /\ (hand' \in {hand, <<>>} \/ hand' = staged) BY <1>5, <1>i
 <2> QED BY <1>n, <2>1
<1>6. ASSUME close PROVE G
 <2>1. staged' \in {staged, <<>>} /\ (hand' \in {hand, <<>>} \/ hand' = staged) BY <1>6, <1>i
 <2> QED BY <1>n, <2>1
<1>7. ASSUME write_eof PROVE G
 <2>1. staged' \in {staged, <<>>} /\ (hand' \in {hand, <<>>} \/ hand' = staged) BY <1>7, <1>i
 <2> QED BY <1>n, <2>1
<1>8. ASSUME direct_write_fails PROVE G
 <2>1. staged' \in {staged, <<>>} /\ hand' \in {hand, <<>>} BY <1>8
 <2> QED BY <1>n, <2>1
<1>9. ASSUME worker_start_fails PROVE G
 <2>1. staged' \in {staged, <<>>} /\ hand' \in {hand, <<>>} BY <1>9
 <2> QED BY <1>n, <2>1
<1>10. ASSUME send_data_fails PROVE G
 <2>1. staged' \in {staged, <<>>} /\ hand' \in {hand, <<>>} BY <1>10
 <2> QED BY <1>n, <2>1
<1>11. ASSUME stage_direct_write_buffer PROVE G
 <2>1. hand' = <<>> /\ (staged' = staged \/ staged' = staged \o hand) BY <1>11
 <2>2. Elems(staged \o hand) = Elems(staged) \union Elems(hand) BY <1>t, ConcatElems
 <2> QED BY <1>n, <2>1, <2>2
<1>12. ASSUME NEW k \in 0..MaxBytes, direct_write(k) PROVE G
 <2>1. staged' = staged /\ (hand' = <<>> \/ (k \in 0..Len(hand) /\ hand' = SubSeq(hand, k + 1,
 Len(hand))))
   BY <1>12
 <2>2. k \in 0..Len(hand) => Elems(SubSeq(hand, k + 1, Len(hand))) \subseteq Elems(hand)
   BY <1>t, CutElems
 <2> QED BY <1>n, <2>1, <2>2
<1>13. ASSUME NEW k \in 0..MaxBytes, flush_write(k) PROVE G
 <2>1. staged' = staged /\ (hand' = <<>> \/ (k \in 0..Len(hand) /\ hand' = SubSeq(hand, k + 1,
 Len(hand))))
   BY <1>13
 <2>2. k \in 0..Len(hand) => Elems(SubSeq(hand, k + 1, Len(hand))) \subseteq Elems(hand)
   BY <1>t, CutElems
 <2> QED BY <1>n, <2>1, <2>2
<1>14. ASSUME NEW n \in Lengths, write(n) PROVE G
 <2>0. n \in Nat /\ accepted \in Nat /\ accepted + n <= MaxBytes /\ MaxBytes \in Nat
   BY <1>14, WriteAssumption DEF WriteInv, WriteTypes, CountTypes
 <2>1. staged' = staged /\ Elems(hand') = (accepted + 1)..(accepted + n) BY <1>14, <2>0, FreshBytes
 <2> QED BY <2>0, <2>1
<1>15. ASSUME mark_backpressure \/ close_writer \/ write_eof_writer \/ resume_writing \/
         connection_lost \/ eof_received \/ recv \/ worker_write_fails \/ worker_drained \/
         worker_resume \/ try_recv_empty \/ clear_backpressure PROVE G
 <2>1. UNCHANGED <<staged, hand>> BY <1>15
 <2> QED BY <2>1, Zenon
<1>16. ASSUME worker_eof \/ worker_close \/ worker_stop \/
         (\E k \in 1..MaxBytes : worker_write(k)) \/ peer_eof PROVE G
 <2>1. UNCHANGED <<staged, hand>> BY <1>16
 <2> QED BY <2>1
<1> QED BY <1>1, <1>2, <1>3, <1>4, <1>5, <1>6, <1>7, <1>8, <1>9, <1>10, <1>11, <1>12, <1>13,
    <1>14, <1>15, <1>16, Zenon DEF WriteNext, LoopStep, WorkerStep, Call

LEMMA FlushFirstKept == ASSUME WriteInv, WriteNext PROVE FlushFirst'
<1> DEFINE G == ended' \in {"close", "eof"} /\ ~faulty' =>
                    Settled' \/ (after' # "idle" /\ Told' = {} /\ receiver_alive' /\ ~closing')
<1>t. accepted \in Nat /\ covered \in Nat /\ covered <= accepted /\ ended \in {"open", "close",
"abort", "eof", "peer"}
  BY DEF WriteInv, WriteTypes, CountTypes, PointTypes
<1>f. FlushFirst BY DEF WriteInv
<1>e. EndShape BY DEF WriteInv
<1>l. (faulty => faulty') /\ (ended = "open" /\ ~faulty => Told = {} /\ receiver_alive /\ ~closing)
  BY <1>e, LossStays DEF WriteInv, EndShape
<1>s. covered' = covered /\ Settled => Settled' BY <1>t, HeldShrinks DEF Settled
<1>k. \A k \in Told' : k \in Told \/ closing' \/ (after = "eof" /\ after' = "idle") BY ToldFollows
<1>n. Elems(<<>>) = {} BY NothingIn
<1>h. after # "idle" => staged = <<>> BY DEF WriteInv, LoopShape
<1>i. loop_pc = "idle" => hand = <<>> BY DEF WriteInv, LoopShape
<1>1. ASSUME close_writer PROVE G
 <2>1. staged' = <<>> /\ hand' = <<>> BY <1>1, <1>h, <1>i
 <2> QED BY <1>n, <2>1 DEF Settled
<1>2. ASSUME write_eof_writer PROVE G
 <2>1. staged' = <<>> /\ hand' = <<>> BY <1>2, <1>h, <1>i
 <2> QED BY <1>n, <2>1 DEF Settled
<1>3. ASSUME direct_write_fails PROVE G BY <1>3
<1>4. ASSUME worker_start_fails PROVE G BY <1>4
<1>5. ASSUME worker_write_fails PROVE G BY <1>5
<1>6. ASSUME abort PROVE G BY <1>6
<1>7. ASSUME send_data_fails PROVE G
 <2>1. ~receiver_alive /\ UNCHANGED <<covered, ended>> BY <1>7
 <2> QED BY <1>f, <1>l, <1>s, <2>1 DEF FlushFirst
<1>8. ASSUME connection_lost PROVE G
 <2>1. after = "idle" /\ UNCHANGED <<covered, ended>> BY <1>8
 <2> QED BY <1>f, <1>l, <1>s, <2>1 DEF FlushFirst
<1>9. ASSUME eof_received PROVE G
 <2>1. after = "idle" /\ UNCHANGED covered /\ (ended' = ended \/ ended' = "peer") BY <1>9
 <2> QED BY <1>f, <1>l, <1>s, <2>1 DEF FlushFirst
<1>10. ASSUME worker_eof PROVE G
 <2>1. pending.kind \notin {"data", "none"} /\ UNCHANGED <<covered, ended>> BY <1>10
 <2>2. Told # {} BY <2>1 DEF Told
 <2> QED BY <1>f, <1>l, <1>s, <2>1, <2>2 DEF FlushFirst
<1>11. ASSUME worker_close PROVE G
 <2>1. pending.kind \notin {"data", "none"} /\ UNCHANGED <<covered, ended>> BY <1>11
 <2>2. Told # {} BY <2>1 DEF Told
 <2> QED BY <1>f, <1>l, <1>s, <2>1, <2>2 DEF FlushFirst
<1>12. ASSUME worker_stop PROVE G
 <2>1. pending.kind \notin {"data", "none"} /\ UNCHANGED <<covered, ended>> BY <1>12
 <2>2. Told # {} BY <2>1 DEF Told
 <2> QED BY <1>f, <1>l, <1>s, <2>1, <2>2 DEF FlushFirst
<1>13. ASSUME close PROVE G
 <2>1. CASE ended = "open"
  <3>1. (Told = {} /\ receiver_alive /\ ~closing) \/ faulty' BY <1>l, <2>1
  <3>2. after' # "idle" /\ UNCHANGED <<commands, pending, receiver_alive, closing>> BY <1>13
  <3> QED BY <3>1, <3>2 DEF Told
 <2>2. CASE ended # "open"
  <3>1. after = "idle" /\ ended = "eof" /\ covered' = covered BY <1>13, <2>2
  <3> QED BY <1>f, <1>l, <1>s, <3>1 DEF FlushFirst
 <2> QED BY <2>1, <2>2
<1>14. ASSUME write_eof PROVE G
 <2>0. ended = "open" BY <1>14
 <2>1. (Told = {} /\ receiver_alive /\ ~closing) \/ faulty' BY <1>l, <2>0
 <2>2. after' # "idle" /\ UNCHANGED <<commands, pending, receiver_alive, closing>> BY <1>14
 <2> QED BY <2>1, <2>2 DEF Told
<1>15. ASSUME stage_direct_write_buffer \/ mark_backpressure \/ record_enqueued \/ send_data \/
         flush_pending_direct_write \/ flush_drained \/ resume_writing \/
         (\E k \in 0..MaxBytes : direct_write(k)) \/ (\E k \in 0..MaxBytes : flush_write(k)) \/
         recv PROVE G
 <2>1. UNCHANGED <<ended, faulty, after, closing, receiver_alive, covered>> BY <1>15
 <2> QED BY <2>1, <1>f, <1>s, <1>k DEF FlushFirst
<1>16. ASSUME worker_drained \/ worker_resume \/ try_recv_empty \/ clear_backpressure \/
         (\E k \in 1..MaxBytes : worker_write(k)) \/ (\E n \in Lengths : write(n)) \/ peer_eof PROVE G
 <2>1. UNCHANGED <<ended, faulty, after, closing, receiver_alive, covered>> BY <1>16
 <2> QED BY <2>1, <1>f, <1>s, <1>k DEF FlushFirst
<1>g. G BY <1>1, <1>2, <1>3, <1>4, <1>5, <1>6, <1>7, <1>8, <1>9, <1>10, <1>11, <1>12, <1>13, <1>14,
    <1>15, <1>16 DEF WriteNext, LoopStep, WorkerStep, Call
<1> QED BY <1>g DEF FlushFirst

\* What was promised stays promised, and no more of the bytes accepted before.
LEMMA PromiseStays ==
    ASSUME WriteInv, WriteNext
    PROVE  /\ Excused => Excused'
           /\ ~Excused' => \A b \in 1..accepted : b \in Promised' => b \in Promised
<1> DEFINE G == /\ Excused => Excused'
                /\ ~Excused' => \A b \in 1..accepted : b \in Promised' => b \in Promised
<1>t. accepted \in Nat /\ covered \in Nat /\ covered <= accepted
      /\ ended \in {"open", "close", "abort", "eof", "peer"}
  BY DEF WriteInv, WriteTypes, CountTypes, PointTypes
<1>l. faulty => faulty' BY LossStays DEF WriteInv
<1>d. Direct' <=> Direct BY TransportFixed DEF Direct
<1> USE DEF Excused, Promised
<1>1. ASSUME NEW n \in Lengths, write(n) PROVE G
 <2>1. UNCHANGED <<ended, covered>> BY <1>1
 <2> QED BY <1>t, <1>l, <1>d, <2>1
<1>2. ASSUME close PROVE G
 <2>1. ended' = "close" /\ ((ended = "open" /\ covered' = accepted)
                              \/ (ended = "eof" /\ covered' = covered))
   BY <1>2
 <2> QED BY <1>t, <1>l, <1>d, <2>1
<1>3. ASSUME write_eof PROVE G
 <2>1. ended' = "eof" /\ ended = "open" /\ covered' = accepted BY <1>3
 <2> QED BY <1>t, <1>l, <1>d, <2>1
<1>4. ASSUME abort PROVE G
 <2>1. ended' = "abort" BY <1>4
 <2> QED BY <1>t, <1>l, <1>d, <2>1
<1>5. ASSUME eof_received PROVE G
 <2>1. UNCHANGED <<covered, accepted>>
       /\ (UNCHANGED ended \/ (ended = "open" /\ ended' = "peer"))
   BY <1>5
 <2> QED BY <1>t, <1>l, <1>d, <2>1
<1>6. ASSUME stage_direct_write_buffer \/ mark_backpressure \/ record_enqueued \/ send_data \/
         send_data_fails \/ flush_pending_direct_write \/ flush_drained \/ close_writer \/
         write_eof_writer PROVE G
 <2>1. UNCHANGED <<ended, covered, accepted>> BY <1>6
 <2> QED BY <2>1, <1>t, <1>l, <1>d
<1>7. ASSUME resume_writing \/ connection_lost \/ (\E k \in 0..MaxBytes : direct_write(k)) \/
         (\E k \in 0..MaxBytes : flush_write(k)) \/ direct_write_fails \/ recv \/
         worker_write_fails \/ worker_drained \/ worker_resume PROVE G
 <2>1. UNCHANGED <<ended, covered, accepted>> BY <1>7
 <2> QED BY <2>1, <1>t, <1>l, <1>d
<1>8. ASSUME try_recv_empty \/ clear_backpressure \/ worker_eof \/ worker_close \/ worker_stop \/
         (\E k \in 1..MaxBytes : worker_write(k)) \/ peer_eof \/ worker_start_fails PROVE G
 <2>1. UNCHANGED <<ended, covered, accepted>> BY <1>8
 <2> QED BY <2>1, <1>t, <1>l, <1>d
<1> QED BY <1>1, <1>2, <1>3, <1>4, <1>5, <1>6, <1>7, <1>8 DEF WriteNext, LoopStep, WorkerStep,
    Call

LEMMA DataFirstKept == ASSUME WriteInv, WriteNext PROVE DataFirst'
<1> DEFINE G == ~Excused' => \A b \in Promised' : b \notin Barred'
<1>t. commands \in Seq(Command) /\ hand \in Seq(Bytes)
      /\ ended \in {"open", "close", "abort", "eof", "peer"}
  BY DEF WriteInv, WriteTypes, ByteTypes, PointTypes
<1>p. /\ Excused => Excused'
      /\ ~Excused' => \A b \in 1..accepted : b \in Promised' => b \in Promised
  BY PromiseStays
<1>a. QueueBytes(commands) \subseteq 1..accepted /\ Elems(hand) \subseteq 1..accepted
  BY DEF WriteInv, Shared, Apart, EachOnce, Shares
<1>b. Barred \subseteq QueueBytes(commands) /\ BarredIn(commands) \subseteq QueueBytes(commands)
  BY BarredQueued DEF Barred
<1>f. ~Excused => \A b \in Promised : b \notin Barred BY DEF WriteInv, DataFirst
<1>k. Barred' \subseteq Barred => G BY <1>p, <1>a, <1>b, <1>f
<1> HIDE DEF G
<1>1. ASSUME close_writer PROVE G
 <2>1. commands' = commands \/ \E k \in Kinds \ {"data"} :
           commands' = (IF receiver_alive THEN Append(commands, Control(k)) ELSE commands)
   BY <1>1 DEF Kinds
 <2>2. QueueBytes(commands') = QueueBytes(commands) /\ BarredIn(commands') \subseteq BarredIn(commands)
   BY <2>1, <1>t, ControlSent
 <2>3. pending' = pending BY <1>1
 <2>4. Barred' \subseteq Barred BY <2>2, <2>3 DEF Barred
 <2> QED BY <1>k, <2>4
<1>2. ASSUME write_eof_writer PROVE G
 <2>1. commands' = commands \/ \E k \in Kinds \ {"data"} :
           commands' = (IF receiver_alive THEN Append(commands, Control(k)) ELSE commands)
   BY <1>2 DEF Kinds
 <2>2. QueueBytes(commands') = QueueBytes(commands) /\ BarredIn(commands') \subseteq BarredIn(commands)
   BY <2>1, <1>t, ControlSent
 <2>3. pending' = pending BY <1>2
 <2>4. Barred' \subseteq Barred BY <2>2, <2>3 DEF Barred
 <2> QED BY <1>k, <2>4
<1>3. ASSUME eof_received PROVE G
 <2>1. commands' = commands \/ \E k \in Kinds \ {"data"} :
           commands' = (IF receiver_alive THEN Append(commands, Control(k)) ELSE commands)
   BY <1>3 DEF Kinds
 <2>2. QueueBytes(commands') = QueueBytes(commands) /\ BarredIn(commands') \subseteq BarredIn(commands)
   BY <2>1, <1>t, ControlSent
 <2>3. pending' = pending BY <1>3
 <2>4. Barred' \subseteq Barred BY <2>2, <2>3 DEF Barred
 <2> QED BY <1>k, <2>4
<1>4. ASSUME abort PROVE G
 <2>1. commands' = commands \/ \E k \in Kinds \ {"data"} :
           commands' = (IF receiver_alive THEN Append(commands, Control(k)) ELSE commands)
   BY <1>4 DEF Kinds
 <2>2. QueueBytes(commands') = QueueBytes(commands) /\ BarredIn(commands') \subseteq BarredIn(commands)
   BY <2>1, <1>t, ControlSent
 <2>3. pending' = pending BY <1>4
 <2>4. Barred' \subseteq Barred BY <2>2, <2>3 DEF Barred
 <2> QED BY <1>k, <2>4
<1>5. ASSUME direct_write_fails PROVE G
 <2>1. commands' = commands \/ \E k \in Kinds \ {"data"} :
           commands' = (IF receiver_alive THEN Append(commands, Control(k)) ELSE commands)
   BY <1>5 DEF Kinds
 <2>2. QueueBytes(commands') = QueueBytes(commands) /\ BarredIn(commands') \subseteq BarredIn(commands)
   BY <2>1, <1>t, ControlSent
 <2>3. pending' = pending BY <1>5
 <2>4. Barred' \subseteq Barred BY <2>2, <2>3 DEF Barred
 <2> QED BY <1>k, <2>4
<1>6. ASSUME send_data_fails PROVE G
 <2>1. commands' = commands \/ \E k \in Kinds \ {"data"} :
           commands' = (IF receiver_alive THEN Append(commands, Control(k)) ELSE commands)
   BY <1>6 DEF Kinds
 <2>2. QueueBytes(commands') = QueueBytes(commands) /\ BarredIn(commands') \subseteq BarredIn(commands)
   BY <2>1, <1>t, ControlSent
 <2>3. pending' = pending BY <1>6
 <2>4. Barred' \subseteq Barred BY <2>2, <2>3 DEF Barred
 <2> QED BY <1>k, <2>4
<1>7. ASSUME worker_start_fails PROVE G
 <2>1. commands' = commands \/ \E k \in Kinds \ {"data"} :
           commands' = (IF receiver_alive THEN Append(commands, Control(k)) ELSE commands)
   BY <1>7 DEF Kinds
 <2>2. QueueBytes(commands') = QueueBytes(commands) /\ BarredIn(commands') \subseteq BarredIn(commands)
   BY <2>1, <1>t, ControlSent
 <2>3. pending' = pending BY <1>7
 <2>4. Barred' \subseteq Barred BY <2>2, <2>3 DEF Barred
 <2> QED BY <1>k, <2>4
<1>8. ASSUME send_data PROVE G
 <2>1. \E append \in {FALSE, MayAppend} : commands' = Enqueued(hand, append) BY <1>8
 <2>2. OnceIn(commands) /\ Distinct(hand) /\ \A b \in Elems(hand) : b \notin QueueBytes(commands)
   BY DEF WriteInv, Shared, Apart, EachOnce, Shares
 <2>3. /\ QueueBytes(commands') = QueueBytes(commands) \union Elems(hand)
       /\ BarredIn(commands') \subseteq BarredIn(commands) \union Elems(hand)
       /\ KindsIn(commands') = KindsIn(commands) \union {"data"}
   BY <1>t, <2>1, <2>2, DataSent
 <2>4. UNCHANGED <<pending, ended, covered, faulty>> /\ loop_pc = "send" BY <1>8
 <2>5. Barred' \subseteq Barred \union Elems(hand) BY <2>3, <2>4 DEF Barred
 <2>6. CASE Told = {}
  <3>1. pending'.kind = "none" /\ KindsIn(commands') \subseteq {"data"}
   <4>1. pending.kind # "data" BY DEF WriteInv, WriteTypes, ByteTypes
   <4>2. \A k \in KindsIn(commands) : k # "none" BY <1>t, CommandFields DEF KindsIn, Kinds
   <4> QED BY <2>3, <2>4, <2>6, <4>1, <4>2 DEF Told
  <3>2. Barred' = {} BY <3>1, NoneBarred DEF Barred
  <3> QED BY <3>2 DEF G
 <2>7. CASE Told # {} /\ ~Excused'
  <3>1. ~Excused /\ ended # "open" BY <1>p, <2>7 DEF WriteInv, EndShape, Excused
  <3>2. ended # "peer" BY <2>4, <2>7, <3>1 DEF WriteInv, LossShape, Mid, Excused
  <3>3. ended \in {"close", "eof"} BY <1>t, <3>1, <3>2 DEF Excused
  <3>4. Settled BY <2>7, <3>1, <3>3, Zenon DEF WriteInv, FlushFirst, Excused
  <3>5. \A b \in Promised : b \notin Elems(hand) BY <3>3, <3>4, Zenon DEF Settled, Promised
  <3> QED BY <1>p, <1>a, <1>b, <1>f, <2>5, <2>7, <3>1, <3>5 DEF G
 <2> QED BY <2>6, <2>7 DEF G
<1>9. ASSUME recv PROVE G
 <2>1. commands # <<>> /\ commands' = Tail(commands) /\ pending.kind = "none"
   BY <1>9 DEF WriteInv, WorkerShape
 <2>2. BarredIn(commands') \subseteq BarredIn(commands) BY <1>t, <2>1, TakeBarred
 <2>3. Head(commands).kind # "data" => QueueBytes(commands') \subseteq BarredIn(commands)
   BY <1>t, <2>1, TakeBarred
 <2>4. IF Head(commands).kind = "data" THEN pending' = pending ELSE pending' = Head(commands)
   BY <1>9
 <2>5. Barred' \subseteq Barred BY <2>1, <2>2, <2>3, <2>4 DEF Barred
 <2> QED BY <1>k, <2>5
<1>10. ASSUME worker_write_fails PROVE G
 <2>1. Exit BY <1>10
 <2>2. Barred' = {} BY <2>1, ExitMoves, Zenon DEF WriteInv, WriteTypes, Barred
 <2> QED BY <1>k, <2>2
<1>11. ASSUME worker_close PROVE G
 <2>1. Exit BY <1>11
 <2>2. Barred' = {} BY <2>1, ExitMoves, Zenon DEF WriteInv, WriteTypes, Barred
 <2> QED BY <1>k, <2>2
<1>12. ASSUME worker_stop PROVE G
 <2>1. Exit BY <1>12
 <2>2. Barred' = {} BY <2>1, ExitMoves DEF WriteInv, WriteTypes, Barred
 <2> QED BY <1>k, <2>2
<1>13. ASSUME worker_eof PROVE G
 <2>1. CASE CloseOnEof
  <3>1. Exit BY <1>13, <2>1
  <3>2. Barred' = {} BY <3>1, ExitMoves DEF WriteInv, WriteTypes, Barred
  <3> QED BY <1>k, <3>2
 <2>2. CASE ~CloseOnEof
  <3>1. commands' = commands /\ pending'.kind = "none" /\ pending.kind = "eof"
    BY <1>13, <2>2 DEF NoCommand, Control
  <3>2. Barred' \subseteq Barred BY <1>b, <3>1 DEF Barred
  <3> QED BY <1>k, <3>2
 <2> QED BY <2>1, <2>2, Zenon
<1>14. ASSUME stage_direct_write_buffer \/ mark_backpressure \/ record_enqueued \/
         flush_pending_direct_write \/ flush_drained \/ resume_writing \/ connection_lost \/
         (\E k \in 0..MaxBytes : direct_write(k)) \/ (\E k \in 0..MaxBytes : flush_write(k)) PROVE G
 <2>1. UNCHANGED <<commands, pending>> BY <1>14, Zenon
 <2> QED BY <2>1, <1>k, Zenon DEF Barred
<1>15. ASSUME worker_drained \/ worker_resume \/ try_recv_empty \/ clear_backpressure \/
         (\E k \in 1..MaxBytes : worker_write(k)) \/ (\E n \in Lengths : write(n)) \/ close \/
         write_eof \/ peer_eof PROVE G
 <2>1. UNCHANGED <<commands, pending>> BY <1>15
 <2> QED BY <2>1, <1>k DEF Barred
<1>g. G BY <1>1, <1>2, <1>3, <1>4, <1>5, <1>6, <1>7, <1>8, <1>9, <1>10, <1>11, <1>12, <1>13, <1>14,
    <1>15 DEF WriteNext, LoopStep, WorkerStep, Call
<1> QED BY <1>g DEF DataFirst, G

LEMMA DropsExcusedKept == ASSUME WriteInv, WriteNext PROVE DropsExcused'
<1> DEFINE G == ~Excused' => \A b \in Promised' : b \notin dropped'
<1>t. staged \in Seq(Bytes) /\ hand \in Seq(Bytes)
      /\ ended \in {"open", "close", "abort", "eof", "peer"}
      /\ transport \in {"socket", "pipe"}
  BY WriteAssumption DEF WriteInv, WriteTypes, ByteTypes, PointTypes
<1>p. /\ Excused => Excused'
      /\ ~Excused' => \A b \in 1..accepted : b \in Promised' => b \in Promised
  BY PromiseStays
<1>a. /\ QueueBytes(commands) \subseteq 1..accepted /\ Elems(hand) \subseteq 1..accepted
      /\ Elems(staged) \subseteq 1..accepted /\ dropped \subseteq 1..accepted
  BY DEF WriteInv, Shared, Apart, EachOnce, Shares
<1>f. ~Excused => \A b \in Promised : b \notin dropped BY DEF WriteInv, DropsExcused
<1>r. Range(staged) = Elems(staged) /\ Range(hand) = Elems(hand) BY <1>t, RangeElems
<1>k. dropped' \subseteq dropped => G BY <1>p, <1>a, <1>f
<1>e. Elems(<<>>) = {} BY NothingIn
<1>s. Settled /\ ended \in {"close", "eof"}
        => \A b \in Promised : b \notin Elems(staged) /\ b \notin Elems(hand)
  BY DEF Settled, Promised
<1> HIDE DEF G
<1>1. ASSUME direct_write_fails PROVE G BY <1>1 DEF Excused, G
<1>2. ASSUME worker_start_fails PROVE G BY <1>2 DEF Excused, G
<1>3. ASSUME worker_write_fails PROVE G BY <1>3 DEF Excused, G
<1>4. ASSUME abort PROVE G BY <1>4 DEF Excused, G
<1>5. ASSUME flush_pending_direct_write PROVE G
 <2>1. CASE ~(closing /\ staged # <<>>)
  <3>1. dropped' = dropped BY <1>5, <2>1
  <3> QED BY <1>k, <3>1
 <2>2. CASE closing /\ staged # <<>> /\ ~Excused'
  <3>1. dropped' = dropped \union Elems(staged) BY <1>5, <1>r, <2>2
  <3>2. ~Excused /\ ended # "open" BY <1>p, <2>2 DEF WriteInv, EndShape, Excused
  <3>3. ended # "peer" BY <1>t, <2>2, <3>2 DEF WriteInv, PipeShape, Excused, Direct, CloseOnEof
  <3>4. ended \in {"close", "eof"} BY <1>t, <3>2, <3>3 DEF Excused
  <3>5. Settled BY <2>2, <3>2, <3>4 DEF WriteInv, FlushFirst, Excused
  <3> QED BY <1>p, <1>a, <1>f, <1>s, <2>2, <3>1, <3>2, <3>4, <3>5 DEF G
 <2> QED BY <2>1, <2>2 DEF G
<1>6. ASSUME close PROVE G
 <2>1. CASE ~(closing /\ staged # <<>>)
  <3>1. dropped' = dropped BY <1>6, <2>1
  <3> QED BY <1>k, <3>1
 <2>2. CASE closing /\ staged # <<>> /\ ~Excused'
  <3>1. dropped' = dropped \union Elems(staged) BY <1>6, <1>r, <2>2, Zenon
  <3>2. ~Excused /\ ended # "open" BY <1>p, <2>2 DEF WriteInv, EndShape, Excused
  <3>3. ended # "peer" BY <1>t, <2>2, <3>2 DEF WriteInv, PipeShape, Excused, Direct, CloseOnEof
  <3>4. ended \in {"close", "eof"} BY <1>t, <3>2, <3>3 DEF Excused
  <3>5. Settled BY <2>2, <3>2, <3>4 DEF WriteInv, FlushFirst, Excused
  <3> QED BY <1>p, <1>a, <1>f, <1>s, <2>2, <3>1, <3>2, <3>4, <3>5 DEF G
 <2> QED BY <2>1, <2>2 DEF G
<1>7. ASSUME write_eof PROVE G
 <2>1. CASE ~(closing /\ staged # <<>>)
  <3>1. dropped' = dropped BY <1>7, <2>1
  <3> QED BY <1>k, <3>1
 <2>2. CASE closing /\ staged # <<>> /\ ~Excused'
  <3>1. dropped' = dropped \union Elems(staged) BY <1>7, <1>r, <2>2
  <3>2. ~Excused /\ ended # "open" BY <1>p, <2>2 DEF WriteInv, EndShape, Excused
  <3>3. ended # "peer" BY <1>t, <2>2, <3>2 DEF WriteInv, PipeShape, Excused, Direct, CloseOnEof
  <3>4. ended \in {"close", "eof"} BY <1>t, <3>2, <3>3 DEF Excused
  <3>5. Settled BY <2>2, <3>2, <3>4 DEF WriteInv, FlushFirst, Excused
  <3> QED BY <1>p, <1>a, <1>f, <1>s, <2>2, <3>1, <3>2, <3>4, <3>5 DEF G
 <2> QED BY <2>1, <2>2 DEF G
<1>8. ASSUME send_data_fails PROVE G
 <2>1. ~receiver_alive /\ loop_pc = "send" /\ UNCHANGED faulty BY <1>8
 <2>2. dropped' \subseteq dropped \union Elems(hand) \union Elems(staged) BY <1>8, <1>r
 <2>3. CASE Excused' BY <2>3 DEF G
 <2>4. CASE ~Excused'
  <3>1. ~Excused /\ ended # "open" /\ ~faulty BY <1>p, <2>1, <2>4 DEF WriteInv, EndShape, Excused
  <3>2. ~closing BY <2>1, <3>1 DEF WriteInv, LossShape, Mid
  <3>3. ended # "peer" BY <3>2 DEF WriteInv, LossShape
  <3>4. ended \in {"close", "eof"} BY <1>t, <3>1, <3>3 DEF Excused
  <3>5. Settled BY <2>1, <3>1, <3>4 DEF WriteInv, FlushFirst, Excused
  <3> QED BY <1>p, <1>a, <1>f, <1>s, <2>2, <2>4, <3>1, <3>4, <3>5 DEF G
 <2> QED BY <2>3, <2>4
<1>9. ASSUME worker_close PROVE G
 <2>1. Exit /\ worker_pc = "command" BY <1>9
 <2>2. dropped' = dropped \union QueueBytes(commands)
  <3>1. batch = <<>> BY <2>1 DEF WriteInv, WorkerShape
  <3>2. dropped' = dropped \union Elems(batch) \union QueueBytes(commands)
    BY <2>1, ExitMoves DEF WriteInv, WriteTypes
  <3> QED BY <1>e, <3>1, <3>2
 <2>3. Barred = QueueBytes(commands) BY <2>1 DEF WriteInv, WorkerShape, Barred
 <2>4. ~Excused => \A b \in Promised : b \notin QueueBytes(commands)
   BY <2>3 DEF WriteInv, DataFirst
 <2> QED BY <1>p, <1>a, <1>f, <2>2, <2>4 DEF G
<1>10. ASSUME worker_stop PROVE G
 <2>1. Exit /\ worker_pc = "command" BY <1>10, Zenon
 <2>2. dropped' = dropped \union QueueBytes(commands)
  <3>1. batch = <<>> BY <2>1 DEF WriteInv, WorkerShape
  <3>2. dropped' = dropped \union Elems(batch) \union QueueBytes(commands)
    BY <2>1, ExitMoves DEF WriteInv, WriteTypes
  <3> QED BY <1>e, <3>1, <3>2
 <2>3. Barred = QueueBytes(commands) BY <2>1 DEF WriteInv, WorkerShape, Barred
 <2>4. ~Excused => \A b \in Promised : b \notin QueueBytes(commands)
   BY <2>3 DEF WriteInv, DataFirst
 <2> QED BY <1>p, <1>a, <1>f, <2>2, <2>4 DEF G
<1>11. ASSUME worker_eof PROVE G
 <2>1. CASE CloseOnEof
  <3>1. Exit /\ worker_pc = "command" BY <1>11, <2>1
  <3>2. dropped' = dropped \union QueueBytes(commands)
   <4>1. batch = <<>> BY <3>1 DEF WriteInv, WorkerShape
   <4>2. dropped' = dropped \union Elems(batch) \union QueueBytes(commands)
     BY <3>1, ExitMoves DEF WriteInv, WriteTypes
   <4> QED BY <1>e, <4>1, <4>2
  <3>3. Barred = QueueBytes(commands) BY <3>1 DEF WriteInv, WorkerShape, Barred
  <3>4. ~Excused => \A b \in Promised : b \notin QueueBytes(commands)
    BY <3>3 DEF WriteInv, DataFirst
  <3> QED BY <1>p, <1>a, <1>f, <3>2, <3>4 DEF G
 <2>2. CASE ~CloseOnEof
  <3>1. dropped' = dropped BY <1>11, <2>2
  <3> QED BY <1>k, <3>1
 <2> QED BY <2>1, <2>2
<1>12. ASSUME stage_direct_write_buffer \/ mark_backpressure \/ record_enqueued \/ send_data \/
         flush_drained \/ close_writer \/ write_eof_writer \/ resume_writing \/ connection_lost PROVE G
 <2>1. UNCHANGED dropped BY <1>12
 <2> QED BY <2>1, <1>k
<1>13. ASSUME eof_received \/ (\E k \in 0..MaxBytes : direct_write(k)) \/
         (\E k \in 0..MaxBytes : flush_write(k)) \/ recv \/ worker_drained \/ worker_resume \/
         try_recv_empty \/ clear_backpressure \/ (\E k \in 1..MaxBytes : worker_write(k)) PROVE G
 <2>1. UNCHANGED dropped BY <1>13
 <2> QED BY <2>1, <1>k
<1>14. ASSUME (\E n \in Lengths : write(n)) \/ peer_eof PROVE G
 <2>1. UNCHANGED dropped BY <1>14
 <2> QED BY <2>1, <1>k
<1>g. G
  BY <1>1, <1>2, <1>3, <1>4, <1>5, <1>6, <1>7, <1>8, <1>9, <1>10, <1>11, <1>12, <1>13, <1>14,
    Zenon DEF WriteNext, LoopStep, WorkerStep, Call
<1> QED BY <1>g DEF DropsExcused, G

\* What the socket took and what was refused is never taken back.
LEMMA WireGrows ==
    ASSUME WriteInv, WriteNext
    PROVE  Elems(wire) \subseteq Elems(wire') /\ refused \subseteq refused'
<1>t. wire \in Seq(Bytes) /\ hand \in Seq(Bytes) /\ batch \in Seq(Bytes)
  BY DEF WriteInv, WriteTypes, ByteTypes
<1>1. ASSUME NEW k \in 0..MaxBytes,
direct_write(k) PROVE Elems(wire) \subseteq Elems(wire') /\ refused \subseteq refused'
 <2>1. wire' = wire \o SubSeq(hand, 1, k) /\ k \in 0..Len(hand) /\ UNCHANGED refused BY <1>1
 <2>2. SubSeq(hand, 1, k) \in Seq(Bytes) BY <1>t, <2>1, CutElems
 <2>3. Elems(wire \o SubSeq(hand, 1, k)) = Elems(wire) \union Elems(SubSeq(hand, 1, k))
   BY <1>t, <2>2, ConcatElems, ZenonT(30)
 <2> QED BY <2>1, <2>3
<1>2. ASSUME NEW k \in 0..MaxBytes,
flush_write(k) PROVE Elems(wire) \subseteq Elems(wire') /\ refused \subseteq refused'
 <2>1. wire' = wire \o SubSeq(hand, 1, k) /\ k \in 0..Len(hand) /\ UNCHANGED refused BY <1>2
 <2>2. SubSeq(hand, 1, k) \in Seq(Bytes) BY <1>t, <2>1, CutElems
 <2>3. Elems(wire \o SubSeq(hand, 1, k)) = Elems(wire) \union Elems(SubSeq(hand, 1, k))
   BY <1>t, <2>2, ConcatElems, ZenonT(30)
 <2> QED BY <2>1, <2>3
<1>3. ASSUME NEW k \in 1..MaxBytes,
worker_write(k) PROVE Elems(wire) \subseteq Elems(wire') /\ refused \subseteq refused'
 <2>1. wire' = wire \o SubSeq(batch, 1, k) /\ k \in 0..Len(batch) /\ UNCHANGED refused BY <1>3
 <2>2. SubSeq(batch, 1, k) \in Seq(Bytes) BY <1>t, <2>1, CutElems
 <2>3. Elems(wire \o SubSeq(batch, 1, k)) = Elems(wire) \union Elems(SubSeq(batch, 1, k))
   BY <1>t, <2>2, ConcatElems, ZenonT(30)
 <2> QED BY <2>1, <2>3
<1>4. CASE stage_direct_write_buffer BY <1>4
<1>5. CASE record_enqueued BY <1>5
<1>6. CASE mark_backpressure \/ send_data \/ send_data_fails \/ flush_pending_direct_write \/
         flush_drained \/ close_writer \/ write_eof_writer \/ resume_writing \/ connection_lost
 <2>1. UNCHANGED <<wire, refused>> BY <1>6
 <2> QED BY <2>1
<1>7. CASE eof_received \/ direct_write_fails \/ recv \/ worker_write_fails \/
         worker_drained \/ worker_resume \/ try_recv_empty \/ clear_backpressure \/ worker_eof
 <2>1. UNCHANGED <<wire, refused>> BY <1>7
 <2> QED BY <2>1
<1>8. CASE worker_close \/ worker_stop \/ (\E n \in Lengths : write(n)) \/ close \/
         write_eof \/ abort \/ peer_eof \/ worker_start_fails
 <2>1. UNCHANGED <<wire, refused>> BY <1>8
 <2> QED BY <2>1
<1> QED BY <1>1, <1>2, <1>3, <1>4, <1>5, <1>6, <1>7, <1>8 DEF WriteNext, LoopStep, WorkerStep,
    Call

LEMMA ShutLastKept == ASSUME WriteInv, WriteNext PROVE ShutLast'
<1> DEFINE G == shut' = "graceful" /\ ~faulty' /\ ended' \in {"close", "eof"} =>
                    \A b \in 1..covered' : b \in Elems(wire') \/ b \in refused'
<1>t. accepted \in Nat /\ covered \in Nat /\ covered <= accepted
  BY DEF WriteInv, WriteTypes, CountTypes
<1>f. ShutLast BY DEF WriteInv
<1>w. Elems(wire) \subseteq Elems(wire') /\ refused \subseteq refused' BY WireGrows
<1>l. faulty => faulty' BY LossStays DEF WriteInv
<1>e. Elems(<<>>) = {} BY NothingIn
<1>k. (~faulty /\ ended \in {"close",
"eof"} => \A b \in 1..covered : b \in Elems(wire) \/ b \in refused)
        /\ ended' = ended /\ covered' = covered => G
  BY <1>w, <1>l
<1>o. ASSUME ~faulty, ended \in {"close", "eof"}, Settled, Elems(batch) = {},
             \A b \in Promised : b \notin QueueBytes(commands)
      PROVE  \A b \in 1..covered : b \in Elems(wire) \/ b \in refused
 <2>1. \A b \in 1..covered : b \notin dropped /\ b \notin QueueBytes(commands)
   BY <1>o DEF WriteInv, DropsExcused, Excused, Promised
 <2>2. \A b \in 1..covered : b \in 1..accepted BY <1>t
 <2>3. 1..accepted = Elems(wire) \union Elems(staged) \union Elems(hand) \union Elems(batch)
                       \union QueueBytes(commands) \union refused \union dropped
   BY DEF WriteInv, Shared, Apart, EachOnce, Shares
 <2> QED BY <1>o, <2>1, <2>2, <2>3 DEF Settled
<1> HIDE DEF G
<1>1. ASSUME close_writer PROVE G
 <2>0. UNCHANGED <<ended, covered, wire, refused, faulty>> BY <1>1
 <2>1. CASE ~(Direct /\ WriterIsStillLazy)
  <3>1. shut' = shut BY <1>1, <2>1
  <3> QED BY <1>f, <2>0, <3>1 DEF ShutLast, G
 <2>2. CASE Direct /\ WriterIsStillLazy
  <3>1. Settled
   <4>1. staged = <<>> /\ hand = <<>> BY <1>1 DEF WriteInv, LoopShape
   <4> QED BY <1>e, <4>1 DEF Settled
  <3>2. Elems(batch) = {} /\ QueueBytes(commands) = {}
    BY <1>e, <2>2 DEF WriterIsStillLazy, WriteInv, WorkerShape
  <3> QED BY <1>k, <1>o, <2>0, <3>1, <3>2
 <2> QED BY <2>1, <2>2
<1>2. ASSUME write_eof_writer PROVE G
 <2>0. UNCHANGED <<ended, covered, wire, refused, faulty>> BY <1>2
 <2>1. CASE ~(Direct /\ WriterIsStillLazy)
  <3>1. shut' = shut BY <1>2, <2>1
  <3> QED BY <1>f, <2>0, <3>1 DEF ShutLast, G
 <2>2. CASE Direct /\ WriterIsStillLazy
  <3>1. Settled
   <4>1. staged = <<>> /\ hand = <<>> BY <1>2 DEF WriteInv, LoopShape
   <4> QED BY <1>e, <4>1 DEF Settled
  <3>2. Elems(batch) = {} /\ QueueBytes(commands) = {}
    BY <1>e, <2>2 DEF WriterIsStillLazy, WriteInv, WorkerShape
  <3> QED BY <1>k, <1>o, <2>0, <3>1, <3>2
 <2> QED BY <2>1, <2>2
<1>3. ASSUME worker_eof PROVE G
 <2>0. UNCHANGED <<ended, covered>> /\ worker_pc = "command" /\ pending.kind \notin {"data",
 "none"}
   BY <1>3
 <2>1. Told # {} BY <2>0 DEF Told
 <2>2. ~faulty /\ ended \in {"close", "eof"} => Settled BY <2>1 DEF WriteInv, FlushFirst
 <2>3. ~faulty /\ ended \in {"close", "eof"} => \A b \in Promised : b \notin QueueBytes(commands)
   BY <2>0 DEF WriteInv, DataFirst, Barred, Excused
 <2>4. Elems(batch) = {} BY <1>e, <2>0 DEF WriteInv, WorkerShape
 <2> QED BY <1>k, <1>o, <2>0, <2>2, <2>3, <2>4
<1>4. ASSUME worker_close PROVE G
 <2>0. UNCHANGED <<ended, covered>> /\ worker_pc = "command" /\ pending.kind \notin {"data",
 "none"}
   BY <1>4
 <2>1. Told # {} BY <2>0 DEF Told
 <2>2. ~faulty /\ ended \in {"close", "eof"} => Settled BY <2>1 DEF WriteInv, FlushFirst
 <2>3. ~faulty /\ ended \in {"close", "eof"} => \A b \in Promised : b \notin QueueBytes(commands)
   BY <2>0 DEF WriteInv, DataFirst, Barred, Excused
 <2>4. Elems(batch) = {} BY <1>e, <2>0 DEF WriteInv, WorkerShape
 <2> QED BY <1>k, <1>o, <2>0, <2>2, <2>3, <2>4
<1>5. ASSUME close PROVE G
 <2>1. (ended = "open" \/ (ended = "eof" /\ covered' = covered)) /\ UNCHANGED <<shut, faulty>>
   BY <1>5
 <2>2. ended = "open" => shut = "open" \/ faulty BY DEF WriteInv, EndShape
 <2> QED BY <1>f, <1>w, <2>1, <2>2 DEF ShutLast, G
<1>6. ASSUME write_eof PROVE G
 <2>1. (ended = "open" \/ (ended = "eof" /\ covered' = covered)) /\ UNCHANGED <<shut, faulty>>
   BY <1>6
 <2>2. ended = "open" => shut = "open" \/ faulty BY DEF WriteInv, EndShape
 <2> QED BY <1>f, <1>w, <2>1, <2>2 DEF ShutLast, G
<1>7. ASSUME abort PROVE G BY <1>7 DEF G
<1>8. ASSUME eof_received PROVE G
 <2>1. (UNCHANGED ended \/ ended' = "peer") /\ UNCHANGED <<shut, faulty, covered>> BY <1>8
 <2> QED BY <1>f, <1>w, <2>1 DEF ShutLast, G
<1>9. ASSUME stage_direct_write_buffer \/ mark_backpressure \/ record_enqueued \/ send_data \/
         send_data_fails \/ flush_pending_direct_write \/ flush_drained \/ resume_writing \/
         connection_lost PROVE G
 <2>1. UNCHANGED <<shut, ended, covered>> BY <1>9
 <2> QED BY <2>1, <1>f, <1>w, <1>l, Zenon DEF ShutLast, G
<1>10. ASSUME (\E k \in 0..MaxBytes : direct_write(k)) \/
         (\E k \in 0..MaxBytes : flush_write(k)) \/ direct_write_fails \/ recv \/
         worker_write_fails \/ worker_drained \/ worker_resume \/ try_recv_empty \/
         clear_backpressure PROVE G
 <2>1. UNCHANGED <<shut, ended, covered>> BY <1>10
 <2> QED BY <2>1, <1>f, <1>w, <1>l DEF ShutLast, G
<1>11. ASSUME worker_stop \/ (\E k \in 1..MaxBytes : worker_write(k)) \/
         (\E n \in Lengths : write(n)) \/ peer_eof \/ worker_start_fails PROVE G
 <2>1. UNCHANGED <<shut, ended, covered>> BY <1>11
 <2> QED BY <2>1, <1>f, <1>w, <1>l DEF ShutLast, G
<1>g. G
  BY <1>1, <1>2, <1>3, <1>4, <1>5, <1>6, <1>7, <1>8, <1>9, <1>10, <1>11 DEF WriteNext, LoopStep,
    WorkerStep, Call
<1> QED BY <1>g DEF ShutLast, G

LEMMA SizeCountsKept == ASSUME WriteInv, WriteNext PROVE SizeCounts'
<1> DEFINE N(q) == Cardinality(QueueBytes(q))
           G == ~IsLost' => size' = Len(staged') + N(commands') + InFlight' + LoopHolds'
<1>t. /\ staged \in Seq(Bytes) /\ hand \in Seq(Bytes) /\ commands \in Seq(Command)
      /\ Len(staged) \in Nat /\ Len(hand) \in Nat /\ size \in Nat /\ sent \in Nat /\ batch_len \in Nat
      /\ counted \in BOOLEAN
  BY DEF WriteInv, WriteTypes, ByteTypes, CountTypes, FlagTypes
<1>c. Len(staged) \in Nat /\ Len(hand) \in Nat /\ size \in Nat BY <1>t
<1>n. N(commands) \in Nat
 <2>1. QueueBytes(commands) \subseteq Bytes BY <1>t, QueueOfBytes
 <2>2. IsFiniteSet(QueueBytes(commands)) BY <2>1, BytesFinite, FS_Subset
 <2> QED BY <2>2, FS_CardinalityType DEF N
<1>i. InFlight \in Nat /\ LoopHolds \in Nat BY <1>t DEF InFlight, LoopHolds
<1>f. ~IsLost => size = Len(staged) + N(commands) + InFlight + LoopHolds BY DEF WriteInv, SizeCounts
<1>l. IsLost => IsLost' BY LossStays DEF WriteInv, IsLost
<1>s. LoopShape BY DEF WriteInv
<1>e. Len(<<>>) = 0 OBVIOUS
<1> HIDE DEF N
<1> USE DEF InFlight, LoopHolds, LoopShape
<1>1. ASSUME stage_direct_write_buffer PROVE G
 <2>u. UNCHANGED <<commands, worker_pc, batch_len>> BY <1>1
 <2>1. /\ loop_pc = "stage" /\ ~counted'
       /\ \/ size' = size /\ Len(staged') = Len(staged)
          \/ size' = size + Len(hand) /\ Len(staged') = Len(staged) + Len(hand)
   BY <1>1, <1>t DEF IsLost
 <2>2. InFlight' = InFlight BY <2>u
 <2>3. LoopHolds = 0 /\ LoopHolds' = 0 BY <1>s, <2>1
 <2>4. N(commands') = N(commands) BY <2>u
 <2> HIDE DEF InFlight, LoopHolds, LoopShape, G
 <2> DEFINE I == N(commands) + InFlight
            S == Len(staged)
            T == Len(staged')
            D == Len(hand)
 <2>5. I \in Nat /\ S \in Nat /\ D \in Nat /\ (~IsLost' => size = S + I)
   BY <1>c, <1>n, <1>i, <1>f, <1>l, <2>3
 <2>6. (size' = size /\ T = S) \/ (size' = size + D /\ T = S + D) BY <2>1
 <2> HIDE DEF I, S, T, D
 <2>7. ~IsLost' => size' = T + I BY <1>c, <2>5, <2>6
 <2>8. T \in Nat BY <2>5, <2>6
 <2>9. T + I = Len(staged') + N(commands') + InFlight' + LoopHolds'
   BY <1>c, <1>n, <1>i, <2>2, <2>3, <2>4, <2>8 DEF I, T
 <2> QED BY <2>7, <2>9 DEF G
<1>2. ASSUME mark_backpressure PROVE G
 <2>u. UNCHANGED <<commands, worker_pc, batch_len, size, staged, hand, counted, sent>> BY <1>2
 <2>1. UNCHANGED IsLost BY <1>2 DEF IsLost
 <2> QED BY <1>t, <1>n, <1>f, <1>l, <1>s, <1>e, <2>u, <2>1
<1>3. ASSUME record_enqueued PROVE G
 <2>u. UNCHANGED <<commands, worker_pc, batch_len, staged>> BY <1>3
 <2>1. /\ loop_pc = "record"
       /\ \/ ~counted' /\ UNCHANGED size
          \/ counted' /\ size' = size + Len(hand) /\ UNCHANGED <<hand, sent>>
   BY <1>3
 <2> QED BY <1>t, <1>n, <1>f, <1>l, <1>s, <1>e, <2>u, <2>1
<1>4. ASSUME send_data PROVE G
 <2>u. UNCHANGED <<size, staged, batch_len>> BY <1>4
 <2>1. /\ loop_pc = "send"
       /\ \/ ~counted' /\ sent = 0
          \/ counted' /\ sent' = sent /\ hand' = <<>>
  <3>1. counted /\ loop_pc = "send" BY <1>4, <1>s
  <3>2. sent > 0 => counted' /\ sent' = sent /\ hand' = <<>> BY <1>4, <3>1
  <3>3. ~(sent > 0) => ~counted' BY <1>4
  <3>4. ~(sent > 0) => sent = 0 BY <1>t
  <3> QED BY <3>1, <3>2, <3>3, <3>4
 <2>2. N(commands') = N(commands) + Len(hand)
  <3>1. \E append \in {FALSE, MayAppend} : commands' = Enqueued(hand, append) BY <1>4
  <3>2. OnceIn(commands) /\ Distinct(hand) /\ \A b \in Elems(hand) : b \notin QueueBytes(commands)
    BY DEF WriteInv, Shared, Apart, EachOnce, Shares
  <3>3. QueueBytes(commands') = QueueBytes(commands) \union Elems(hand)
    BY <1>t, <3>1, <3>2, DataSent
  <3>4. QueueBytes(commands) \subseteq Bytes /\ Elems(hand) \subseteq Bytes
    BY <1>t, QueueOfBytes, ElemsBytes
  <3>5. Cardinality(Elems(hand)) = Len(hand) BY <1>t, <3>2, CountElems
  <3> QED BY <3>2, <3>3, <3>4, <3>5, CountBoth DEF N
 <2>3. worker_pc' = worker_pc \/ (worker_pc = "lazy" /\ worker_pc' = "recv") BY <1>4
 <2>4. InFlight' = InFlight BY <2>u, <2>3
 <2>5. LoopHolds = Len(hand) + sent BY <1>s, <2>1
 <2>6. LoopHolds' = sent BY <1>t, <1>s, <1>e, <2>1
 <2>7. LoopHolds = LoopHolds' + Len(hand) /\ LoopHolds' \in Nat BY <1>t, <2>5, <2>6
 <2> HIDE DEF InFlight, LoopHolds, LoopShape, G
 <2> DEFINE I == InFlight
            H == LoopHolds'
            S == Len(staged)
            n == N(commands)
            D == Len(hand)
 <2>8. I \in Nat /\ H \in Nat /\ S \in Nat /\ n \in Nat /\ D \in Nat
       /\ (~IsLost' => size = S + n + I + (H + D))
   BY <1>c, <1>n, <1>i, <1>f, <1>l, <2>7, Zenon
 <2> HIDE DEF I, H, S, n, D
 <2>9. S + n + I + (H + D) = S + (n + D) + I + H BY <2>8
 <2> QED BY <2>u, <2>2, <2>4, <2>8, <2>9 DEF I, H, S, n, D, G
<1>5. ASSUME send_data_fails PROVE G
 <2>1. IsLost BY <1>5 DEF WriteInv, LossShape, IsLost
 <2> QED BY <1>l, <2>1
<1>6. ASSUME direct_write_fails PROVE G
 <2>1. fail_write(Range(hand)) /\ loop_pc \in Mid BY <1>6 DEF Mid
 <2>2. closing => IsLost BY <2>1 DEF WriteInv, LossShape, IsLost
 <2>3. ~closing => IsLost' BY <2>1, FailMoves DEF WriteInv, IsLost
 <2> QED BY <1>l, <2>2, <2>3
<1>7. ASSUME worker_start_fails PROVE G
 <2>1. fail_write({}) /\ loop_pc \in Mid BY <1>7 DEF Mid
 <2>2. closing => IsLost BY <2>1 DEF WriteInv, LossShape, IsLost
 <2>3. ~closing => IsLost' BY <2>1, FailMoves DEF WriteInv, IsLost
 <2> QED BY <1>l, <2>2, <2>3
<1>8. ASSUME flush_pending_direct_write PROVE G
 <2>1. closing /\ staged # <<>> => IsLost BY DEF WriteInv, LossShape
 <2>2. UNCHANGED <<commands, worker_pc, batch_len, size>> /\ staged' = <<>> /\ loop_pc = "idle"
   BY <1>8
 <2>3. ~(closing /\ staged # <<>>)
         => hand' = staged /\ sent' = sent /\ (counted' <=> staged # <<>>)
   BY <1>8
 <2>4. staged = <<>> => Len(staged) = 0 BY <1>e
 <2> QED BY <1>t, <1>n, <1>f, <1>l, <1>s, <1>e, <2>1, <2>2, <2>3, <2>4
<1>9. ASSUME close PROVE G
 <2>1. closing /\ staged # <<>> => IsLost BY DEF WriteInv, LossShape
 <2>2. UNCHANGED <<commands, worker_pc, batch_len, size>> /\ staged' = <<>> /\ loop_pc = "idle"
   BY <1>9
 <2>3. ~(closing /\ staged # <<>>)
         => hand' = staged /\ sent' = sent /\ (counted' <=> staged # <<>>)
   BY <1>9
 <2>4. staged = <<>> => Len(staged) = 0 BY <1>e
 <2> QED BY <1>t, <1>n, <1>f, <1>l, <1>s, <1>e, <2>1, <2>2, <2>3, <2>4
<1>10. ASSUME write_eof PROVE G
 <2>1. closing /\ staged # <<>> => IsLost BY DEF WriteInv, LossShape
 <2>2. UNCHANGED <<commands, worker_pc, batch_len, size>> /\ staged' = <<>> /\ loop_pc = "idle"
   BY <1>10
 <2>3. ~(closing /\ staged # <<>>)
         => hand' = staged /\ sent' = sent /\ (counted' <=> staged # <<>>)
   BY <1>10
 <2>4. staged = <<>> => Len(staged) = 0 BY <1>e
 <2> QED BY <1>t, <1>n, <1>f, <1>l, <1>s, <1>e, <2>1, <2>2, <2>3, <2>4
<1>11. ASSUME NEW k \in 0..MaxBytes, flush_write(k) PROVE G
 <2>u. UNCHANGED <<commands, worker_pc, batch_len, size, staged>> BY <1>11
 <2>1. k \in 0..Len(hand) BY <1>11
 <2>2. Len(Rest(hand, k)) = Len(hand) - k BY <1>t, <2>1, CutElems
 <2>3. loop_pc = "flush" /\ sent' = k /\ hand' = Rest(hand, k) /\ counted' = counted BY <1>11
 <2>4. InFlight' = InFlight BY <2>u
 <2>5. LoopHolds = Len(hand) + 0 /\ LoopHolds' = Len(hand) - k + k BY <1>t, <1>s, <2>2, <2>3
 <2>6. LoopHolds' = LoopHolds BY <1>t, <2>1, <2>5
 <2> HIDE DEF InFlight, LoopHolds, LoopShape
 <2> QED BY <1>c, <1>n, <1>i, <1>f, <1>l, <2>u, <2>4, <2>6
<1>12. ASSUME NEW k \in 0..MaxBytes, direct_write(k) PROVE G
 <2>u. UNCHANGED <<commands, worker_pc, batch_len, size, staged>> BY <1>12
 <2>1. k \in 0..Len(hand) BY <1>12
 <2>2. Len(Rest(hand, k)) = Len(hand) - k BY <1>t, <2>1, CutElems
 <2>3. loop_pc = "direct" /\ (counted' = FALSE \/ counted' = counted) BY <1>12
 <2> QED BY <1>t, <1>n, <1>f, <1>l, <1>s, <1>e, <2>u, <2>1, <2>2, <2>3
<1>13. ASSUME flush_drained PROVE G
 <2>u. UNCHANGED <<commands, worker_pc, batch_len, staged>> BY <1>13
 <2>1. loop_pc = "drained" /\ ~counted' /\ size' = IF sent > size THEN 0 ELSE size - sent BY <1>13
 <2> QED BY <1>t, <1>n, <1>f, <1>l, <1>s, <1>e, <2>u, <2>1
<1>14. ASSUME close_writer PROVE G
 <2>u. UNCHANGED <<worker_pc, batch_len, size, staged, hand, counted, sent>> BY <1>14
 <2>1. N(commands') = N(commands)
  <3>1. commands' = commands \/ \E k \in Kinds \ {"data"} :
          commands' = (IF receiver_alive THEN Append(commands, Control(k)) ELSE commands)
    BY <1>14 DEF Kinds
  <3>2. QueueBytes(commands') = QueueBytes(commands) BY <3>1, <1>t, ControlSent
  <3> QED BY <3>2 DEF N
 <2> QED BY <1>t, <1>n, <1>f, <1>l, <1>s, <1>e, <2>u, <2>1
<1>15. ASSUME write_eof_writer PROVE G
 <2>u. UNCHANGED <<worker_pc, batch_len, size, staged, hand, counted, sent>> BY <1>15
 <2>1. N(commands') = N(commands)
  <3>1. commands' = commands \/ \E k \in Kinds \ {"data"} :
          commands' = (IF receiver_alive THEN Append(commands, Control(k)) ELSE commands)
    BY <1>15 DEF Kinds
  <3>2. QueueBytes(commands') = QueueBytes(commands) BY <3>1, <1>t, ControlSent
  <3> QED BY <3>2 DEF N
 <2> QED BY <1>t, <1>n, <1>f, <1>l, <1>s, <1>e, <2>u, <2>1
<1>16. ASSUME abort PROVE G
 <2>u. UNCHANGED <<worker_pc, batch_len, hand, counted, sent>> BY <1>16
 <2>1. N(commands') = N(commands)
  <3>1. \E k \in Kinds \ {"data"} :
          commands' = (IF receiver_alive THEN Append(commands, Control(k)) ELSE commands)
    BY <1>16 DEF Kinds
  <3>2. QueueBytes(commands') = QueueBytes(commands) BY <3>1, <1>t, ControlSent
  <3> QED BY <3>2 DEF N
 <2>2. staged' = <<>> /\ size' = IF Len(staged) > size THEN 0 ELSE size - Len(staged) BY <1>16
 <2>3. InFlight' = InFlight /\ LoopHolds' = LoopHolds /\ Len(staged') = 0 BY <1>e, <2>u, <2>2
 <2>4. ~IsLost' => Len(staged) <= size BY <1>c, <1>n, <1>i, <1>f, <1>l
 <2>5. ~IsLost' => size' = size - Len(staged) BY <1>c, <2>2, <2>4
 <2> HIDE DEF InFlight, LoopHolds, LoopShape, G
 <2> DEFINE I == InFlight
            H == LoopHolds
            L == IsLost'
 <2>6. I \in Nat /\ H \in Nat /\ (~L => size = Len(staged) + N(commands) + I + H)
       /\ (~L => size' = size - Len(staged))
   BY <1>i, <1>f, <1>l, <2>5
 <2> HIDE DEF I, H, L
 <2>7. ~L => size' = 0 + N(commands) + I + H BY <1>c, <1>n, <2>6
 <2> QED BY <2>1, <2>3, <2>7 DEF I, H, L, G
<1>17. ASSUME connection_lost PROVE G
 <2>1. IsLost' BY <1>17, <1>l DEF IsLost
 <2> QED BY <2>1
<1>18. ASSUME eof_received PROVE G
 <2>1. IsLost' \/ UNCHANGED <<commands, size>> BY <1>18, <1>l DEF IsLost
 <2>2. UNCHANGED <<worker_pc, batch_len, staged, hand, counted, sent>> BY <1>18
 <2> QED BY <1>f, <1>l, <2>1, <2>2
<1>19. ASSUME recv PROVE G
 <2>0. commands # <<>> /\ commands' = Tail(commands) /\ worker_pc \notin {"write", "drained"}
       /\ UNCHANGED <<size, staged, hand, counted, sent>>
   BY <1>19
 <2>1. /\ commands' \in Seq(Command) /\ Head(commands) \in Command
       /\ QueueBytes(commands) = QueueBytes(commands') \union Elems(Head(commands).bytes)
   BY <1>t, <2>0, TakeQueue
 <2>2. /\ Distinct(Head(commands).bytes)
       /\ \A b \in Elems(Head(commands).bytes) : b \notin QueueBytes(commands')
   BY <1>t, <2>0, TakeOnce DEF WriteInv, Shared, Apart, EachOnce
 <2>3. /\ Head(commands).bytes \in Seq(Bytes)
       /\ Head(commands).kind # "data" => Head(commands).bytes = <<>>
   BY <2>1, CommandFields
 <2>4. N(commands) = N(commands') + Len(Head(commands).bytes) /\ N(commands') \in Nat
  <3>1. QueueBytes(commands') \subseteq Bytes /\ Elems(Head(commands).bytes) \subseteq Bytes
    BY <2>1, <2>3, QueueOfBytes, ElemsBytes
  <3>2. Cardinality(Elems(Head(commands).bytes)) = Len(Head(commands).bytes)
    BY <2>2, <2>3, CountElems
  <3> QED BY <2>1, <2>2, <3>1, <3>2, CountBoth, Zenon DEF N
 <2>5. CASE Head(commands).kind = "data"
  <3>1. worker_pc' = "write" /\ batch_len' = Len(Head(commands).bytes) BY <1>19, <2>5
  <3> QED BY <1>f, <1>l, <1>t, <2>0, <2>4, <3>1
 <2>6. CASE Head(commands).kind # "data"
  <3>1. worker_pc' = "command" /\ N(commands) = N(commands') BY <1>19, <2>3, <2>4, <2>6, <1>e
  <3> QED BY <1>f, <1>l, <1>t, <2>0, <3>1
 <2> QED BY <2>5, <2>6
<1>20. ASSUME NEW k \in 1..MaxBytes, worker_write(k) PROVE G
 <2>1. UNCHANGED <<size, staged, hand, counted, sent, commands, batch_len>>
       /\ worker_pc = "write" /\ worker_pc' \in {"write", "drained"}
   BY <1>20
 <2> QED BY <1>f, <1>l, <2>1, Zenon
<1>21. ASSUME worker_drained PROVE G
 <2>u. UNCHANGED <<commands, staged, hand, counted, sent>> BY <1>21
 <2>1. worker_pc = "drained" /\ worker_pc' \in {"resume", "try"}
       /\ size' = IF batch_len > size THEN 0 ELSE size - batch_len
   BY <1>21
 <2>2. InFlight = batch_len /\ InFlight' = 0 BY <2>1
 <2>3. LoopHolds' = LoopHolds BY <2>u
 <2> HIDE DEF InFlight, LoopHolds, LoopShape
 <2> QED BY <1>c, <1>n, <1>i, <1>f, <1>l, <2>u, <2>1, <2>2, <2>3
<1>22. ASSUME worker_resume PROVE G
 <2>1. UNCHANGED <<commands, size, staged, hand, counted, sent>>
       /\ worker_pc \notin {"write", "drained"} /\ worker_pc' \notin {"write", "drained"}
   BY <1>22
 <2> QED BY <1>f, <1>l, <2>1
<1>23. ASSUME try_recv_empty PROVE G
 <2>1. UNCHANGED <<commands, size, staged, hand, counted, sent>>
       /\ worker_pc \notin {"write", "drained"} /\ worker_pc' \notin {"write", "drained"}
   BY <1>23
 <2> QED BY <1>f, <1>l, <2>1
<1>24. ASSUME clear_backpressure PROVE G
 <2>1. UNCHANGED <<commands, size, staged, hand, counted, sent>>
       /\ worker_pc \notin {"write", "drained"} /\ worker_pc' \notin {"write", "drained"}
   BY <1>24
 <2> QED BY <1>f, <1>l, <2>1
<1>25. ASSUME worker_write_fails PROVE G
 <2>1. enqueue_pending_read_event("lost") BY <1>25
 <2>2. IsLost' BY <2>1, EventQueued DEF WriteInv, WriteTypes, EventTypes, IsLost
 <2> QED BY <2>2
<1>26. ASSUME worker_close PROVE G
 <2>1. enqueue_pending_read_event("lost") BY <1>26
 <2>2. IsLost' BY <2>1, EventQueued DEF WriteInv, WriteTypes, EventTypes, IsLost
 <2> QED BY <2>2
<1>27. ASSUME worker_stop PROVE G
 <2>1. "stop" \in Told BY <1>27 DEF Told
 <2>2. IsLost BY <2>1 DEF WriteInv, LossShape, IsLost
 <2> QED BY <1>l, <2>2
<1>28. ASSUME worker_eof PROVE G
 <2>1. CASE CloseOnEof
  <3>1. enqueue_pending_read_event("lost") BY <1>28, <2>1
  <3>2. IsLost' BY <3>1, EventQueued DEF WriteInv, WriteTypes, EventTypes, IsLost
  <3> QED BY <3>2
 <2>2. CASE ~CloseOnEof
  <3>1. UNCHANGED <<commands, size, staged, hand, counted, sent>>
        /\ worker_pc = "command" /\ worker_pc' = "recv"
    BY <1>28, <2>2
  <3> QED BY <1>f, <1>l, <3>1
 <2> QED BY <2>1, <2>2
<1>29. ASSUME NEW n \in Lengths, write(n) PROVE G
 <2>u. UNCHANGED <<commands, worker_pc, batch_len, size, staged, counted>> BY <1>29
 <2>1. loop_pc = "idle" BY <1>29
 <2> QED BY <1>t, <1>n, <1>f, <1>l, <1>s, <1>e, <2>u, <2>1
<1>30. ASSUME resume_writing \/ peer_eof PROVE G
 <2>1. UNCHANGED <<size, staged, hand, counted, sent, commands, batch_len, worker_pc>>
   BY <1>30, Zenon
 <2> QED BY <2>1, <1>f, <1>l
<1>g. G BY <1>1, <1>2, <1>3, <1>4, <1>5, <1>6, <1>7, <1>8, <1>9, <1>10, <1>11, <1>12, <1>13, <1>14,
    <1>15, <1>16, <1>17, <1>18, <1>19, <1>20, <1>21, <1>22, <1>23, <1>24, <1>25, <1>26, <1>27,
    <1>28, <1>29, <1>30 DEF WriteNext, LoopStep, WorkerStep, Call
<1> QED BY <1>g DEF SizeCounts, N

LEMMA PipeOrderKept == ASSUME WriteInv, WriteNext PROVE PipeOrder'
<1> DEFINE Line(w, b, q, h) ==
               /\ Ascending(w) /\ Ascending(b) /\ Ascending(h) /\ OrderedIn(q)
               /\ Below(Elems(w), Elems(b)) /\ Below(Elems(w), QueueBytes(q))
               /\ Below(Elems(w), Elems(h)) /\ Below(Elems(b), QueueBytes(q))
               /\ Below(Elems(b), Elems(h)) /\ Below(QueueBytes(q), Elems(h))
           G == CloseOnEof => Line(wire', batch', commands', hand')
<1>t. /\ wire \in Seq(Bytes) /\ batch \in Seq(Bytes) /\ hand \in Seq(Bytes)
      /\ commands \in Seq(Command)
  BY DEF WriteInv, WriteTypes, ByteTypes
<1>o. CloseOnEof => Line(wire, batch, commands, hand) BY DEF WriteInv, PipeOrder
<1>p. CloseOnEof => staged = <<>> /\ loop_pc \in {"idle", "record", "send"}
  BY DEF WriteInv, PipeShape
<1>n. /\ Elems(<<>>) = {} /\ Ascending(<<>>) /\ QueueBytes(<<>>) = {} /\ OrderedIn(<<>>)
      /\ \A X : Below(X, {}) /\ Below({}, X)
  BY NothingIn DEF Below
<1>1. ASSUME stage_direct_write_buffer PROVE G BY <1>1, <1>p
<1>2. ASSUME mark_backpressure PROVE G BY <1>2, <1>p
<1>3. ASSUME NEW k \in 0..MaxBytes, flush_write(k) PROVE G BY <1>3, <1>p
<1>4. ASSUME NEW k \in 0..MaxBytes, direct_write(k) PROVE G BY <1>4, <1>p
<1>5. ASSUME flush_drained PROVE G BY <1>5, <1>p
<1>6. ASSUME direct_write_fails PROVE G BY <1>6, <1>p
<1>7. ASSUME NEW n \in Lengths, write(n) PROVE G
 <2>0. n \in Nat /\ accepted \in Nat /\ MaxBytes \in Nat /\ accepted + n <= MaxBytes
   BY <1>7, WriteAssumption DEF WriteInv, WriteTypes, CountTypes
 <2>1. hand' = [i \in 1..n |-> accepted + i] /\ UNCHANGED <<wire, batch, commands>> BY <1>7
 <2>2. Elems(hand') = (accepted + 1)..(accepted + n) /\ Ascending(hand') BY <2>0, <2>1, FreshBytes
 <2>3. \A b \in Elems(wire) \union Elems(batch) \union QueueBytes(commands) : b \in 1..accepted
   BY DEF WriteInv, Shared, Apart, EachOnce, Shares
 <2>4. \A b \in 1..accepted, c \in (accepted + 1)..(accepted + n) : b < c BY <2>0
 <2>5. /\ Below(Elems(wire), Elems(hand')) /\ Below(Elems(batch), Elems(hand'))
       /\ Below(QueueBytes(commands), Elems(hand'))
   BY <2>2, <2>3, <2>4 DEF Below
 <2> QED BY <1>o, <2>1, <2>2, <2>5
<1>8. ASSUME record_enqueued PROVE G
 <2>1. (hand' = hand \/ hand' = <<>>) /\ UNCHANGED <<wire, batch, commands>> BY <1>8
 <2> QED BY <1>o, <1>n, <2>1
<1>9. ASSUME flush_pending_direct_write PROVE G
 <2>1. CloseOnEof => hand' = <<>> BY <1>9, <1>p
 <2>2. UNCHANGED <<wire, batch, commands>> BY <1>9
 <2> QED BY <1>o, <1>n, <2>1, <2>2
<1>10. ASSUME close PROVE G
 <2>1. CloseOnEof => hand' = <<>> BY <1>10, <1>p
 <2>2. UNCHANGED <<wire, batch, commands>> BY <1>10
 <2> QED BY <1>o, <1>n, <2>1, <2>2
<1>11. ASSUME write_eof PROVE G
 <2>1. CloseOnEof => hand' = <<>> BY <1>11, <1>p
 <2>2. UNCHANGED <<wire, batch, commands>> BY <1>11
 <2> QED BY <1>o, <1>n, <2>1, <2>2
<1>12. ASSUME send_data PROVE G
 <2>1. hand' = <<>> /\ UNCHANGED <<wire, batch>> BY <1>12
 <2>2. \E append \in {FALSE, MayAppend} : commands' = Enqueued(hand, append) BY <1>12
 <2>3. OnceIn(commands) /\ Distinct(hand) /\ \A b \in Elems(hand) : b \notin QueueBytes(commands)
   BY DEF WriteInv, Shared, Apart, EachOnce, Shares
 <2>4. /\ QueueBytes(commands') = QueueBytes(commands) \union Elems(hand)
       /\ OrderedIn(commands) /\ Ascending(hand) /\ Below(QueueBytes(commands), Elems(hand))
            => OrderedIn(commands')
   BY <1>t, <2>2, <2>3, DataSent
 <2>5. \A X : Below(X, QueueBytes(commands)) /\ Below(X, Elems(hand))
                => Below(X, QueueBytes(commands'))
   BY <2>4 DEF Below
 <2> QED BY <1>o, <1>n, <2>1, <2>4, <2>5
<1>13. ASSUME send_data_fails PROVE G
 <2>1. (hand' = hand \/ hand' = <<>>) /\ UNCHANGED <<wire, batch>> BY <1>13
 <2>2. commands' = commands \/ fail_write(Range(hand)) BY <1>13
 <2>3. QueueBytes(commands') = QueueBytes(commands) /\ (OrderedIn(commands) => OrderedIn(commands'))
   BY <2>2, FailMoves DEF WriteInv
 <2> QED BY <1>o, <1>n, <2>1, <2>3
<1>14. ASSUME worker_start_fails PROVE G
 <2>1. (hand' = hand \/ hand' = <<>>) /\ UNCHANGED <<wire, batch>> BY <1>14
 <2>2. commands' = commands \/ fail_write({}) BY <1>14
 <2>3. QueueBytes(commands') = QueueBytes(commands) /\ (OrderedIn(commands) => OrderedIn(commands'))
   BY <2>2, FailMoves DEF WriteInv
 <2> QED BY <1>o, <1>n, <2>1, <2>3
<1>15. ASSUME close_writer PROVE G
 <2>1. UNCHANGED <<wire, batch, hand>> BY <1>15
 <2>2. commands' = commands \/ \E k \in Kinds \ {"data"} :
           commands' = (IF receiver_alive THEN Append(commands, Control(k)) ELSE commands)
   BY <1>15 DEF Kinds
 <2>3. QueueBytes(commands') = QueueBytes(commands) /\ (OrderedIn(commands) => OrderedIn(commands'))
   BY <1>t, <2>2, ControlSent
 <2> QED BY <1>o, <2>1, <2>3
<1>16. ASSUME write_eof_writer PROVE G
 <2>1. UNCHANGED <<wire, batch, hand>> BY <1>16
 <2>2. commands' = commands \/ \E k \in Kinds \ {"data"} :
           commands' = (IF receiver_alive THEN Append(commands, Control(k)) ELSE commands)
   BY <1>16 DEF Kinds
 <2>3. QueueBytes(commands') = QueueBytes(commands) /\ (OrderedIn(commands) => OrderedIn(commands'))
   BY <1>t, <2>2, ControlSent
 <2> QED BY <1>o, <2>1, <2>3
<1>17. ASSUME abort PROVE G
 <2>1. UNCHANGED <<wire, batch, hand>> BY <1>17
 <2>2. commands' = commands \/ \E k \in Kinds \ {"data"} :
           commands' = (IF receiver_alive THEN Append(commands, Control(k)) ELSE commands)
   BY <1>17 DEF Kinds
 <2>3. QueueBytes(commands') = QueueBytes(commands) /\ (OrderedIn(commands) => OrderedIn(commands'))
   BY <1>t, <2>2, ControlSent
 <2> QED BY <1>o, <2>1, <2>3
<1>18. ASSUME eof_received PROVE G
 <2>1. UNCHANGED <<wire, batch, hand>> BY <1>18
 <2>2. commands' = commands \/ \E k \in Kinds \ {"data"} :
           commands' = (IF receiver_alive THEN Append(commands, Control(k)) ELSE commands)
   BY <1>18 DEF Kinds
 <2>3. QueueBytes(commands') = QueueBytes(commands) /\ (OrderedIn(commands) => OrderedIn(commands'))
   BY <1>t, <2>2, ControlSent
 <2> QED BY <1>o, <2>1, <2>3
<1>19. ASSUME recv PROVE G
 <2>0. commands # <<>> /\ commands' = Tail(commands) /\ batch = <<>> /\ UNCHANGED <<wire, hand>>
       /\ (batch' = Head(commands).bytes \/ batch' = batch)
   BY <1>19 DEF WriteInv, WorkerShape
 <2>1. QueueBytes(commands) = QueueBytes(commands') \union Elems(Head(commands).bytes)
   BY <1>t, <2>0, TakeQueue
 <2>2. OrderedIn(commands) => /\ OrderedIn(commands') /\ Ascending(Head(commands).bytes)
                              /\ Below(Elems(Head(commands).bytes), QueueBytes(commands'))
   BY <1>t, <2>0, TakeOrdered
 <2>3. \A X : /\ Below(X, QueueBytes(commands)) =>
                   Below(X, QueueBytes(commands')) /\ Below(X, Elems(Head(commands).bytes))
              /\ Below(QueueBytes(commands), X) =>
                   Below(QueueBytes(commands'), X) /\ Below(Elems(Head(commands).bytes), X)
   BY <2>1 DEF Below
 <2> QED BY <1>o, <1>n, <2>0, <2>2, <2>3
<1>20. ASSUME NEW k \in 1..MaxBytes, worker_write(k) PROVE G
  <2> DEFINE s == SubSeq(batch, 1, k)
 <2>1. k \in 0..Len(batch) /\ wire' = wire \o s /\ batch' = SubSeq(batch, k + 1, Len(batch))
       /\ UNCHANGED <<commands, hand>>
   BY <1>20
 <2>2. s \in Seq(Bytes) /\ Elems(batch) = Elems(s) \union Elems(batch') BY <1>t, <2>1, CutElems
 <2>3. Ascending(batch) => /\ Ascending(s) /\ Ascending(batch')
                           /\ Below(Elems(s), Elems(batch'))
   BY <1>t, <2>1, CutAscending
 <2> HIDE DEF s
 <2>4. Elems(wire') = Elems(wire) \union Elems(s) BY <1>t, <2>1, <2>2, ConcatElems
 <2>5. Below(Elems(wire), Elems(batch)) => Below(Elems(wire), Elems(s)) /\ Below(Elems(wire),
 Elems(batch'))
   BY <2>2 DEF Below
 <2>6. \A X : Below(Elems(batch), X) => Below(Elems(s), X) /\ Below(Elems(batch'), X)
   BY <2>2 DEF Below
 <2>7. \A X : Below(Elems(wire), X) /\ Below(Elems(s), X) => Below(Elems(wire'), X)
   BY <2>4 DEF Below
 <2>8. Ascending(wire) /\ Ascending(s) /\ Below(Elems(wire), Elems(s)) => Ascending(wire')
   BY <1>t, <2>1, <2>2, ConcatAscending
 <2> QED BY <1>o, <2>1, <2>3, <2>5, <2>6, <2>7, <2>8
<1>21. ASSUME worker_write_fails PROVE G
 <2>1. Exit /\ UNCHANGED <<wire, hand>> BY <1>21
 <2>2. commands' = <<>> /\ batch' = <<>> BY <2>1
 <2> QED BY <1>o, <1>n, <2>1, <2>2
<1>22. ASSUME worker_close PROVE G
 <2>1. Exit /\ UNCHANGED <<wire, hand>> BY <1>22
 <2>2. commands' = <<>> /\ batch' = <<>> BY <2>1
 <2> QED BY <1>o, <1>n, <2>1, <2>2
<1>23. ASSUME worker_stop PROVE G
 <2>1. Exit /\ UNCHANGED <<wire, hand>> BY <1>23
 <2>2. commands' = <<>> /\ batch' = <<>> BY <2>1
 <2> QED BY <1>o, <1>n, <2>1, <2>2
<1>24. ASSUME worker_eof PROVE G
 <2>1. UNCHANGED <<wire, hand>> BY <1>24
 <2>2. CASE CloseOnEof
  <3>1. commands' = <<>> /\ batch' = <<>> BY <1>24, <2>2
  <3> QED BY <1>o, <1>n, <2>1, <3>1
 <2> QED BY <2>2
<1>25. ASSUME resume_writing \/ connection_lost \/ worker_drained \/ worker_resume \/
         try_recv_empty \/ clear_backpressure \/ peer_eof PROVE G
 <2>1. UNCHANGED <<wire, batch, commands, hand>> BY <1>25
 <2> QED BY <2>1, <1>o
<1>g. G BY <1>1, <1>2, <1>3, <1>4, <1>5, <1>6, <1>7, <1>8, <1>9, <1>10, <1>11, <1>12, <1>13, <1>14,
    <1>15, <1>16, <1>17, <1>18, <1>19, <1>20, <1>21, <1>22, <1>23, <1>24, <1>25 DEF WriteNext,
    LoopStep, WorkerStep, Call
<1> QED BY <1>g, TransportFixed DEF PipeOrder, CloseOnEof

-----------------------------------------------------------------------------
(* The invariant holds in every state.                                     *)

LEMMA WriteInvStarts == ASSUME WriteInit PROVE WriteInv
<1> USE DEF WriteInit
<1>n. /\ Elems(<<>>) = {} /\ Distinct(<<>>) /\ Ascending(<<>>) /\ Len(<<>>) = 0
      /\ <<>> \in Seq(Bytes) /\ <<>> \in Seq(Command)
      /\ QueueBytes(<<>>) = {} /\ KindsIn(<<>>) = {} /\ BarredIn(<<>>) = {}
      /\ OnceIn(<<>>) /\ OrderedIn(<<>>)
  BY NothingIn
<1>1. FlagTypes BY DEF FlagTypes
<1>2. PointTypes BY DEF PointTypes
<1>3. CountTypes BY WriteAssumption DEF CountTypes
<1>4. pending \in [kind : (Kinds \ {"data"}) \union {"none"}, bytes : {<<>>}]
      /\ pending.kind = "none"
  BY DEF NoCommand, Control
<1>5. ByteTypes BY <1>4, <1>n DEF ByteTypes
<1>6. EventTypes
 <2>1. <<>> \in Seq({"resume", "eof", "lost"}) OBVIOUS
 <2> QED BY <2>1 DEF EventTypes
<1>7. Shared
 <2>1. 1..0 = {} OBVIOUS
 <2> QED BY <2>1, <1>n DEF Shared, Apart, EachOnce, Shares
<1>8. LoopShape BY DEF LoopShape
<1>9. WorkerShape BY <1>4, <1>n DEF WorkerShape
<1>10. Told = {} BY <1>4, <1>n DEF Told
<1>11. LossShape BY <1>10, <1>n DEF LossShape, Mid
<1>12. PipeShape BY DEF PipeShape
<1>13. EndShape BY <1>10 DEF EndShape, IsLost
<1>14. FlushFirst /\ ShutLast BY DEF FlushFirst, ShutLast
<1>15. Barred = {} BY <1>4, <1>n DEF Barred
<1>16. DataFirst /\ DropsExcused BY <1>15 DEF DataFirst, DropsExcused
<1>17. PipeOrder BY <1>n DEF PipeOrder, Below
<1>18. SizeCounts
 <2>1. Cardinality(QueueBytes(commands)) = 0 BY <1>n, FS_EmptySet
 <2>2. InFlight = 0 /\ LoopHolds = 0 BY DEF InFlight, LoopHolds
 <2> QED BY <2>1, <2>2, <1>n DEF SizeCounts
<1> QED BY <1>1, <1>2, <1>3, <1>5, <1>6, <1>7, <1>8, <1>9, <1>11, <1>12, <1>13, <1>14, <1>16,
    <1>17, <1>18 DEF WriteInv, WriteTypes

LEMMA WriteInvKept == ASSUME WriteInv, WriteNext PROVE WriteInv'
<1>1. WriteTypes' /\ Shared'
  BY FlagsKept, PointsKept, CountsKept, EventsKept, BytesKept DEF WriteInv, WriteTypes
<1> QED BY <1>1, LoopShapeKept, WorkerShapeKept, LossShapeKept, PipeShapeKept, EndShapeKept,
    FlushFirstKept, DataFirstKept, DropsExcusedKept, ShutLastKept, PipeOrderKept, SizeCountsKept
    DEF WriteInv

LEMMA WriteInvStutters == ASSUME WriteInv, UNCHANGED writeVars PROVE WriteInv'
<1>1. UNCHANGED <<transport, closing, lost_called, backpressure, size, protocol_paused, staged,
                  scheduled, commands, receiver_alive, events, read_event_state, loop_pc, hand,
                  counted, should_pause, sent, after, worker_pc, batch, batch_len, pending, wire,
                  shut, accepted, refused, dropped, faulty, ended, covered>>
  BY DEF writeVars
<1>2. FlagTypes' /\ PointTypes' /\ CountTypes' /\ ByteTypes' /\ EventTypes'
  BY <1>1 DEF WriteInv, WriteTypes, FlagTypes, PointTypes, CountTypes, ByteTypes, EventTypes
<1>3. Shared' /\ LoopShape' /\ PipeShape' /\ PipeOrder' /\ ShutLast'
  BY <1>1 DEF WriteInv, Shared, Apart, EachOnce, LoopShape, IsLost, PipeShape, CloseOnEof,
    PipeOrder, ShutLast
<1>4. Told' = Told /\ Barred' = Barred /\ Excused' = Excused /\ Promised' = Promised
  BY <1>1 DEF Told, Barred, Excused, Promised, Direct
<1>5. WorkerShape' /\ LossShape' /\ EndShape' /\ FlushFirst'
  BY <1>1, <1>4 DEF WriteInv, WorkerShape, Direct, LossShape, IsLost, CloseOnEof, EndShape,
    FlushFirst, Settled
<1>6. DataFirst' /\ DropsExcused' /\ SizeCounts'
  BY <1>1, <1>4 DEF WriteInv, DataFirst, DropsExcused, SizeCounts, IsLost, InFlight, LoopHolds
<1> QED BY <1>2, <1>3, <1>5, <1>6 DEF WriteInv, WriteTypes

-----------------------------------------------------------------------------
(* What the invariant says.                                                *)

LEMMA InvTypes == ASSUME WriteInv PROVE WriteTypeOK
<1>1. \A i \in 1..Len(commands) : commands[i].kind \in Kinds /\ commands[i].bytes \in Seq(Bytes)
 <2>1. \A i \in 1..Len(commands) : commands[i] \in Command BY DEF WriteInv, WriteTypes, ByteTypes
 <2> QED BY <2>1, CommandFields
<1>2. {closing, lost_called, backpressure, protocol_paused, scheduled,
       receiver_alive, counted, should_pause, faulty} \subseteq BOOLEAN
  BY DEF WriteInv, WriteTypes, FlagTypes
<1>3. {staged, hand, batch, wire} \subseteq Seq(Bytes) BY DEF WriteInv, WriteTypes, ByteTypes
<1> QED BY <1>1, <1>2, <1>3 DEF WriteTypeOK, WriteInv, WriteTypes, PointTypes, CountTypes,
    ByteTypes, EventTypes

LEMMA QueuedIsQueue == ASSUME WriteInv PROVE Queued = QueueBytes(commands)
  BY QueuedBytes DEF Queued, WriteInv, WriteTypes, ByteTypes

LEMMA InvConserves == ASSUME WriteInv PROVE BytesConserved
<1>t. /\ wire \in Seq(Bytes) /\ staged \in Seq(Bytes) /\ hand \in Seq(Bytes)
      /\ batch \in Seq(Bytes) /\ commands \in Seq(Command)
  BY DEF WriteInv, WriteTypes, ByteTypes
<1>r. /\ Range(wire) = Elems(wire) /\ Range(staged) = Elems(staged) /\ Range(hand) = Elems(hand)
      /\ Range(batch) = Elems(batch) /\ Queued = QueueBytes(commands)
  BY <1>t, RangeElems, QueuedIsQueue, Zenon
<1>1. ASSUME NEW b \in 1..accepted PROVE Cardinality({i \in 1..Len(Places) : b \in Places[i]}) = 1
 <2>1. Len(Places) = 7 /\ 1..7 = {1, 2, 3, 4, 5, 6, 7}
       /\ Places[1] = Elems(wire) /\ Places[2] = Elems(staged) /\ Places[3] = Elems(hand)
       /\ Places[4] = Elems(batch) /\ Places[5] = QueueBytes(commands)
       /\ Places[6] = refused /\ Places[7] = dropped
   BY <1>r DEF Places
 <2>2. \E i \in 1..7 : b \in Places[i] BY <2>1 DEF WriteInv, Shared, Apart, EachOnce, Shares
 <2>3. \A i, j \in 1..7 : b \in Places[i] /\ b \in Places[j] => i = j
   BY <2>1 DEF WriteInv, Shared, Apart, EachOnce, Shares
 <2>4. PICK i \in 1..7 : {j \in 1..Len(Places) : b \in Places[j]} = {i} BY <2>1, <2>2, <2>3
 <2> QED BY <2>4, FS_Singleton
<1>2. IsInjective(wire) BY <1>t, InjectiveDistinct DEF WriteInv, Shared, Apart, EachOnce
<1>3. QueuedOnce
 <2> SUFFICES ASSUME NEW i \in 1..Len(commands), NEW j \in 1..Len(commands)
              PROVE  IF i = j THEN IsInjective(commands[i].bytes)
                     ELSE Range(commands[i].bytes) \intersect Range(commands[j].bytes) = {}
   BY DEF QueuedOnce
 <2>1. commands[i] \in Command /\ commands[j] \in Command BY <1>t
 <2>2. commands[i].bytes \in Seq(Bytes) /\ commands[j].bytes \in Seq(Bytes) BY <2>1, CommandFields
 <2>3. Range(commands[i].bytes) = Elems(commands[i].bytes)
       /\ Range(commands[j].bytes) = Elems(commands[j].bytes)
       /\ (IsInjective(commands[i].bytes) <=> Distinct(commands[i].bytes))
   BY <2>2, RangeElems, InjectiveDistinct, Zenon
 <2> QED BY <2>3 DEF WriteInv, Shared, Apart, EachOnce, OnceIn
<1> QED BY <1>1, <1>2, <1>3 DEF BytesConserved

LEMMA InvOrder == ASSUME WriteInv PROVE PipeWriteOrder
  BY DEF WriteInv, PipeOrder, CloseOnEof, Ascending, PipeWriteOrder, WriteOrder

LEMMA InvSize == ASSUME WriteInv PROVE SizeExact
  BY QueuedIsQueue DEF WriteInv, SizeCounts, SizeExact, IsLost

LEMMA InvShutdown == ASSUME WriteInv PROVE ShutdownFollowsData
<1>1. wire \in Seq(Bytes) BY DEF WriteInv, WriteTypes, ByteTypes
<1>2. Range(wire) = Elems(wire) BY <1>1, RangeElems
<1> QED BY <1>2 DEF WriteInv, ShutLast, ShutdownFollowsData, Promised

LEMMA InvKeeps == ASSUME WriteInv PROVE CloseKeepsBytes
  BY DEF WriteInv, DropsExcused, Excused, CloseKeepsBytes, AcceptedBytesKept

=============================================================================
