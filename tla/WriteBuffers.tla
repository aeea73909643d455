---------------------------- MODULE WriteBuffers ----------------------------
(*********************************************************************************)
(* What a write becomes on its way out (transport/stream/core_write.rs,          *)
(* buffers.rs, write_queue.rs): writelines hands its segments to one             *)
(* vectored system call, and what that leaves is either queued segment by        *)
(* segment or joined in a buffer of the transport's pool; small writes are       *)
(* staged, the queue joins neighbours, and every buffer goes back to the         *)
(* pool it came from.                                                            *)
(*                                                                               *)
(* StreamWrite has the races between the loop thread and the writer; here        *)
(* a call of the loop thread and a system call of the writer are steps,          *)
(* and the bytes and buffers are followed one by one.  SegmentBytes are numbered *)
(* in the order they are given to the transport.                                 *)
(*********************************************************************************)
EXTENDS Integers, Sequences, SequencesExt, FiniteSetsExt

CONSTANTS ByteBound,    \* bytes written in all
          SegmentSizes, \* sizes of a segment
          MaxSegments,  \* segments of one writelines
          VectorMax,    \* slices of one vectored write (16)
          CoalesceMin, CoalesceMax,  \* SMALL_WRITE_COALESCE_MIN_BYTES, _MAX_BYTES
          JoinLimit,    \* DEFAULT_WRITE_BUFFER_HIGH_WATER, for joining and for keeping storage
          PoolSlots,    \* WRITE_BUFFER_POOL_LIMIT
          MinCapacity   \* MIN_WRITE_BUFFER_CAPACITY

ASSUME WriteBuffersAssumption ==
    /\ ByteBound \in Nat /\ SegmentSizes \subseteq Nat \ {0} /\ MaxSegments \in Nat /\ VectorMax \in Nat
    /\ CoalesceMin <= CoalesceMax /\ CoalesceMax <= JoinLimit /\ PoolSlots \in Nat /\ MinCapacity \in Nat

VARIABLES onWire,   \* bytes the socket took
          queued,   \* writer_tx: data commands
          writing,  \* the writer's current buffer, as a sequence of at most one
          staging,  \* pending_direct_write, as a sequence of at most one
          pressure, \* write backpressure is active
          pool,     \* WriteBufferPoolState
          buf_given     \* bytes given to the transport

bufferVars == <<onWire, queued, writing, staging, pressure, pool, buf_given>>

\* An OwnedWriteBuffer: the bytes that remain, whether some were written, whether it still
\* borrows the Python object, whether its storage is the pool's and how large that is.
PyBuffer(bytes, part) == [rem |-> bytes, part |-> part, py |-> TRUE, pooled |-> FALSE, cap |-> 0]

WriteBuffersInit ==
    /\ onWire = <<>> /\ queued = <<>> /\ writing = <<>> /\ staging = <<>> /\ pressure = FALSE
    /\ pool = [stored |-> <<>>, allocated |-> 0] /\ buf_given = 0

(* --------------------------------- pool --------------------------------- *)

Grown(cap, need) == IF need <= cap THEN cap ELSE Max({2 * cap, need})

\* acquire: a stored buffer, a new one while there are slots, or one outside the pool.
acquire(p, need) ==
    IF p.stored # <<>>
    THEN [pool |-> [p EXCEPT !.stored = Front(@)], pooled |-> TRUE, cap |-> Grown(Last(p.stored), need)]
    ELSE IF p.allocated < PoolSlots
    THEN [pool |-> [p EXCEPT !.allocated = @ + 1], pooled |-> TRUE, cap |-> Max({need, MinCapacity})]
    ELSE [pool |-> p, pooled |-> FALSE, cap |-> need]

\* release: storage that grew too large is given up together with its slot.
release(p, cap) ==
    IF cap <= JoinLimit /\ Len(p.stored) < PoolSlots THEN [p EXCEPT !.stored = Append(@, cap)]
    ELSE [p EXCEPT !.allocated = Max({0, @ - 1})]

\* Drop for OwnedWriteBuffer
BufDropped(p, buf) == IF buf.pooled THEN release(p, buf.cap) ELSE p

\* extend_from_slice: a buffer that borrows takes a copy of what remains.
Extended(buf, bytes) ==
    [buf EXCEPT !.rem = @ \o bytes, !.py = FALSE, !.part = @ /\ ~buf.py,
                !.cap = Grown(@, Len(buf.rem) + Len(bytes))]

\* extend_from_slice_pooled: the same, the copy being in the pool's storage.
ExtendedPooled(p, buf, bytes) ==
    IF ~buf.py THEN [pool |-> p, buf |-> Extended(buf, bytes)]
    ELSE LET a == acquire(p, Len(buf.rem) + Len(bytes)) IN
         [pool |-> a.pool,
          buf |-> [rem |-> buf.rem \o bytes, part |-> FALSE, py |-> FALSE, pooled |-> a.pooled, cap |-> a.cap]]

(* --------------------------------- queue -------------------------------- *)

\* can_append
MayJoin(back, buf) == ~back.part /\ Len(back.rem) + Len(buf.rem) <= JoinLimit

\* QueueState::enqueue
AddSegment(p, q, buf) ==
    IF q # <<>> /\ MayJoin(Last(q), buf)
    THEN [pool |-> BufDropped(p, buf), q |-> Append(Front(q), Extended(Last(q), buf.rem))]
    ELSE [pool |-> p, q |-> Append(q, buf)]

queue_write(p, buf) ==
    LET e == AddSegment(p, queued, buf) IN
    queued' = e.q /\ pool' = e.pool /\ pressure' = TRUE /\ UNCHANGED <<writing, staging>>

\* stage_owned_buffer
stage(p, buf) ==
    /\ IF staging = <<>> THEN staging' = <<buf>> /\ pool' = p
       ELSE LET x == ExtendedPooled(p, staging[1], buf.rem) IN
            staging' = <<x.buf>> /\ pool' = BufDropped(x.pool, buf)
    /\ UNCHANGED <<onWire, queued, writing, pressure>>

(* --------------------------------- writes ------------------------------- *)

Candidate(n) == n > CoalesceMin /\ n <= CoalesceMax

\* try_write_bytes_with_status and try_write_buffer: stage, or write and queue the rest.  The
\* count of small writes in this turn of the loop decides whether one is staged.
RestOf(buf, n) == [buf EXCEPT !.rem = SubSeq(@, n + 1, Len(@)), !.part = @ \/ n > 0]

write_buffer(p, buf) ==
    IF pressure THEN UNCHANGED onWire /\ queue_write(p, buf)
    ELSE \/ (staging # <<>> \/ Candidate(Len(buf.rem))) /\ stage(p, buf)
         \/ /\ staging = <<>>
            /\ \E n \in 0..Len(buf.rem) :
                 /\ onWire' = onWire \o SubSeq(buf.rem, 1, n)
                 /\ IF n = Len(buf.rem)
                    THEN pool' = BufDropped(p, buf) /\ UNCHANGED <<queued, writing, staging, pressure>>
                    ELSE queue_write(p, RestOf(buf, n))

TotalOf(sizes) == FoldLeft(LAMBDA a, b : a + b, 0, sizes)
SegmentBytes(from, n) == [i \in 1..n |-> from + i]

write_one(n) ==
    /\ buf_given + n <= ByteBound /\ buf_given' = buf_given + n
    /\ write_buffer(pool, PyBuffer(SegmentBytes(buf_given, n), FALSE))

\* The segments of a writelines, and what is left of them after n bytes.
Segments(sizes) == [i \in DOMAIN sizes |-> SegmentBytes(buf_given + TotalOf(SubSeq(sizes, 1, i - 1)), sizes[i])]
RestAfter(sizes, n) ==
    [i \in DOMAIN sizes |->
        LET before == TotalOf(SubSeq(sizes, 1, i - 1))
            skip == Max({0, Min({sizes[i], n - before})})
        IN [rem |-> SubSeq(Segments(sizes)[i], skip + 1, sizes[i]), skip |-> skip]]

\* Batch of buffers, in the queue as they are (send_batch).
BatchOf(sizes, n) ==
    LET left == SelectSeq(RestAfter(sizes, n), LAMBDA s : s.rem # <<>>) IN
    [i \in DOMAIN left |-> PyBuffer(left[i].rem, left[i].skip > 0)]

\* The joined rest, in a buffer of the pool.
Joined(sizes, n) ==
    LET bytes == FlattenSeq([i \in DOMAIN sizes |-> RestAfter(sizes, n)[i].rem])
        a == acquire(pool, Len(bytes))
    IN [pool |-> a.pool,
        buf |-> [rem |-> bytes, part |-> FALSE, py |-> FALSE, pooled |-> a.pooled, cap |-> a.cap]]

Vectored(len) == len > CoalesceMax /\ ~pressure /\ staging = <<>>

\* try_write_segments with two segments or more
writelines(sizes) ==
    LET len == TotalOf(sizes)
        slices == TotalOf(SubSeq(sizes, 1, VectorMax))
    IN
    /\ buf_given + len <= ByteBound /\ buf_given' = buf_given + len
    /\ \E n \in IF Vectored(len) THEN 0..slices ELSE {0} :
         LET direct == onWire \o SubSeq(FlattenSeq(Segments(sizes)), 1, n)
             batch == len - n > JoinLimit /\ Len(sizes) <= VectorMax /\ staging = <<>>
             j == Joined(sizes, n)
         IN IF n = len
            THEN onWire' = direct /\ UNCHANGED <<queued, writing, staging, pressure, pool>>
            ELSE IF batch
            THEN /\ onWire' = direct /\ pressure' = TRUE /\ queued' = queued \o BatchOf(sizes, n)
                 /\ UNCHANGED <<writing, staging, pool>>
            ELSE IF Vectored(len) THEN onWire' = direct /\ queue_write(j.pool, j.buf)
            ELSE write_buffer(j.pool, j.buf)

\* flush_pending_direct_write
flush ==
    /\ staging # <<>>
    /\ \E n \in 0..Len(staging[1].rem) :
         /\ onWire' = onWire \o SubSeq(staging[1].rem, 1, n)
         /\ IF n = Len(staging[1].rem)
            THEN pool' = BufDropped(pool, staging[1]) /\ UNCHANGED <<queued, pressure>>
            ELSE LET e == AddSegment(pool, queued, RestOf(staging[1], n)) IN
                 queued' = e.q /\ pool' = e.pool /\ pressure' = TRUE
    /\ staging' = <<>> /\ UNCHANGED <<writing, buf_given>>

(* --------------------------------- writer ------------------------------- *)

\* recv or try_recv, and the write of one buffer to its end.  The pressure is cleared with
\* its last byte; the gap before that (writer.rs:163) is a step of StreamWrite.
writer_takes_segments ==
    /\ writing = <<>> /\ queued # <<>> /\ writing' = <<Head(queued)>> /\ queued' = Tail(queued)
    /\ UNCHANGED <<onWire, staging, pressure, pool, buf_given>>

writer_writes ==
    /\ writing # <<>>
    /\ \E n \in 1..Len(writing[1].rem) :
         /\ onWire' = onWire \o SubSeq(writing[1].rem, 1, n)
         /\ IF n < Len(writing[1].rem)
            THEN writing' = <<[writing[1] EXCEPT !.rem = SubSeq(@, n + 1, Len(@)), !.part = TRUE]>>
                 /\ UNCHANGED <<pool, pressure>>
            ELSE writing' = <<>> /\ pool' = BufDropped(pool, writing[1]) /\ pressure' = (queued # <<>>)
    /\ UNCHANGED <<queued, staging, buf_given>>

WriteBuffersNext ==
    \/ \E n \in SegmentSizes : write_one(n)
    \/ \E k \in 2..MaxSegments : \E sizes \in [1..k -> SegmentSizes] : writelines(sizes)
    \/ flush \/ writer_takes_segments \/ writer_writes

WriteBuffersSpec == WriteBuffersInit /\ [][WriteBuffersNext]_bufferVars

(* ------------------------------ properties ------------------------------ *)

Held == writing \o queued \o staging

\* Every byte given to the transport is on the wire or in one buffer, in the order given,
\* wherever the system calls and the segments' ends fell.
EveryByteInOrder ==
    onWire \o FlattenSeq([i \in DOMAIN Held |-> Held[i].rem]) = SegmentBytes(0, buf_given)

\* A slot of the pool is a stored buffer or one in use; storage kept in the pool is bounded.
SlotsExact ==
    /\ pool.allocated = Len(pool.stored) + Len(SelectSeq(Held, LAMBDA buf : buf.pooled))
    /\ pool.allocated <= PoolSlots
    /\ \A i \in DOMAIN pool.stored : pool.stored[i] <= JoinLimit

\* A buffer's storage holds what remains of it unless it borrows the Python object.
StorageHolds == \A i \in DOMAIN Held : Held[i].rem # <<>> /\ (Held[i].py \/ Held[i].cap >= Len(Held[i].rem))

\* What the buffers of the write side promise.
WriteBuffersSafe == EveryByteInOrder /\ SlotsExact /\ StorageHolds
=============================================================================
