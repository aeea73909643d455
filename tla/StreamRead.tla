----------------------------- MODULE StreamRead -----------------------------
(****************************************************************************)
(* The read side of a stream transport (src/src/transport/stream): the      *)
(* reader, a task of the runtime or a worker thread (reader_task.rs,        *)
(* reader.rs), which takes buffers from a small pool (buffers.rs) and       *)
(* queues events (core_events.rs); the loop, which drains them into the     *)
(* protocol (core_events.rs, core_protocol.rs, protocol.rs); and the ways   *)
(* reading is paused, resumed and ended (core_state.rs, py_transport.rs).   *)
(*                                                                          *)
(* Each buffer carries one byte; bytes are numbered in the order of the     *)
(* stream.  A step is a critical section, an atomic access or a callback; a *)
(* task is aborted at its await points.  A released slot and the            *)
(* notification that follows it are one step: a waiter rechecks after it    *)
(* registers.  Two protocols are told apart: one with data_received,        *)
(* which is given coalesced data, and the native stream reader, which       *)
(* keeps the first buffer it is fed.                                        *)
(****************************************************************************)
EXTENDS Integers, Sequences, FiniteSets, SequencesExt

CONSTANTS
    ReadCases,        \* readers ("task", "thread") with their protocols
                      \* ("slow", "native"), and the bytes the peer sends (a bound)
    PoolLimit,        \* READ_BUFFER_POOL_LIMIT
    ReadLow,          \* PENDING_READ_LOW_WATER, in buffers
    ReadHigh,         \* PENDING_READ_HIGH_WATER, in buffers
    EventBudget,      \* MAX_READ_EVENTS_PER_DRAIN
    CoalesceLimit     \* MAX_PENDING_READ_COALESCE_BYTES

\* tuning.rs: four buffers of at most 64 KiB are the low mark, 256 KiB.
ASSUME ReadAssumption ==
    /\ ReadCases \subseteq {"task", "thread"} \X {"slow", "native"} \X Nat
    /\ {PoolLimit, ReadLow, ReadHigh, EventBudget, CoalesceLimit} \subseteq Nat \ {0}
    /\ PoolLimit <= ReadLow /\ ReadLow < ReadHigh

VARIABLES
    rkind, rproto,               \* fixed when the transport is made
    rpc, ract, rev, rafter,              \* the reader: step, and what follows
    rlisten, rparked,                    \* its AsyncEvent listener, its waker
    rstop,                               \* it was told to stop
    rqueue, rdrained, rstate, rsched,    \* pending_read_events and its flags
    rbytes,                              \* pending_read_bytes
    rpaused, rbackp, rreading,           \* the reading flags
    rclosing, rlost, rdetached,
    pfree, palloc, pclosed,              \* ReadBufferPool
    dpc, dafter, dcur, dcount, dnotify,  \* the loop's drain
    dcoal, dpooled,                      \* pending_data, and if it has a slot
    rcmds,                               \* StreamRead commands on their way
    nunread, nslot,                      \* the native reader's buffer
    wpc,                                 \* the writer reporting the loss
    peer, peer_ended,                      \* the socket: bytes unread, peer closed
    taken, given, eofs, losts   \* history

rReader == <<rpc, ract, rev, rafter>>
rWaits == <<rlisten, rparked>>
rEvents == <<rqueue, rdrained, rstate, rsched, rbytes, rcmds>>
rFlags == <<rpaused, rbackp, rreading, rclosing, rlost, rdetached, rstop>>
rPool == <<pfree, palloc, pclosed>>
rDrain == <<dpc, dafter, dcur, dcount, dnotify, dcoal, dpooled, nunread, nslot>>
rSocket == <<peer, peer_ended, taken>>
rHistory == <<given, eofs, losts>>
readVars == <<rkind, rproto, rReader, rWaits, rEvents, rFlags, rPool, rDrain,
              rSocket, rHistory, wpc>>

REvent(k, n) == [kind |-> k, byte |-> n]
NoREvent == REvent("none", 0)

ReadInit ==
    /\ \E c \in ReadCases : rkind = c[1] /\ rproto = c[2] /\ peer = c[3]
    /\ rpc = "acquire" /\ ract = "check" /\ rev = NoREvent /\ rafter = "done"
    /\ rlisten = "none" /\ rparked = "no" /\ rstop = FALSE
    /\ rqueue = <<>> /\ rdrained = <<>> /\ rstate = "open" /\ rsched = FALSE
    /\ rbytes = 0 /\ rcmds = 0
    /\ rpaused = FALSE /\ rbackp = FALSE /\ rreading = TRUE
    /\ rclosing = FALSE /\ rlost = FALSE /\ rdetached = FALSE
    /\ pfree = 0 /\ palloc = 0 /\ pclosed = FALSE
    /\ dpc = "idle" /\ dafter = "idle" /\ dcur = 0 /\ dcount = 0 /\ dnotify = FALSE
    /\ dcoal = <<>> /\ dpooled = FALSE /\ nunread = 0 /\ nslot = FALSE
    /\ wpc = "open"
    /\ peer_ended = FALSE
    /\ taken = 0 /\ given = <<>> /\ eofs = 0 /\ losts = 0

-----------------------------------------------------------------------------
\* The pool.

HasAvailable == pfree > 0 \/ palloc < PoolLimit

\* ReadBufferPool::notify_all, the waker of the parked reader.
PoolNotify == rparked' = IF rparked = "yes" THEN "woken" ELSE rparked

\* release n slots, waking a waiter if the pool was exhausted.  No buffer
\* outgrows MAX_STREAM_READ_BUFFER_SIZE, so each one is stored.
PoolRelease(n) ==
    /\ pfree' = pfree + n
    /\ IF n > 0 /\ ~HasAvailable THEN PoolNotify ELSE UNCHANGED rparked
    /\ UNCHANGED <<palloc, pclosed>>

\* try_acquire: a stored buffer, or a new one within the limit.
TakeSlot ==
    \/ pfree > 0 /\ pfree' = pfree - 1 /\ UNCHANGED palloc
    \/ pfree = 0 /\ palloc < PoolLimit /\ palloc' = palloc + 1 /\ UNCHANGED pfree

RGoto(p) == rpc' = p /\ UNCHANGED <<ract, rev, rafter>>

\* acquire_read_buffer_async / _blocking: give up when the transport closes or
\* the thread is stopped, take a slot, or wait for one.
acquire_read_buffer ==
    /\ rpc = "acquire"
    /\ UNCHANGED <<rlisten, pclosed>>
    /\ \/ /\ rclosing \/ (rkind = "thread" /\ rstop)
          /\ RGoto("done") /\ UNCHANGED <<pfree, palloc, rparked>>
       \/ /\ ~rclosing /\ ~(rkind = "thread" /\ rstop)
          /\ \/ TakeSlot /\ RGoto(ract)
             \/ /\ ~HasAvailable
                /\ RGoto(IF rkind = "task" THEN "register" ELSE "poolwait")
                /\ UNCHANGED <<pfree, palloc>>
          /\ UNCHANGED rparked

\* wait_async: the waker is registered, then the pool is checked again.
wait_async_register ==
    /\ rpc = "register"
    /\ rparked' = "yes" /\ RGoto("recheck")
    /\ UNCHANGED <<rlisten, rPool>>

wait_async_recheck ==
    /\ rpc = "recheck"
    /\ RGoto(IF pclosed \/ HasAvailable THEN "acquire" ELSE "parked")
    /\ UNCHANGED <<rWaits, rPool>>

wait_async_woken ==
    /\ rpc = "parked" /\ rparked = "woken"
    /\ rparked' = "no" /\ RGoto("acquire")
    /\ UNCHANGED <<rlisten, rPool>>

\* wait_timeout: 50 ms at most.
wait_timeout ==
    /\ rpc = "poolwait" /\ (HasAvailable \/ rclosing \/ rstop)
    /\ RGoto("acquire") /\ UNCHANGED <<rWaits, rPool>>

AcquireStep ==
    /\ acquire_read_buffer \/ wait_async_register \/ wait_async_recheck
       \/ wait_async_woken \/ wait_timeout
    /\ UNCHANGED <<rEvents, rFlags, rDrain, rSocket, rHistory, wpc>>

-----------------------------------------------------------------------------
\* The reader.

\* enqueue_pending_read_event(e), then go on at p.
Enqueue(e, p) == rpc' = "enqueue" /\ rev' = e /\ rafter' = p /\ UNCHANGED ract
EnqueueLost == Enqueue(REvent("lost", 0), "done")

\* Mutant: the reader waits without testing again after it registered.
Proceeds_NotRechecked == rpc = "check" /\ (rclosing \/ rreading)

\* What ends the wait; wait_until_readable of a thread looks at the state.
Proceeds ==
    rclosing \/ IF rkind = "thread" THEN ~rpaused /\ ~rbackp ELSE rreading

ReadUnlessClosing == IF rclosing THEN EnqueueLost ELSE RGoto("read")

\* The head of each reader's loop: a thread looks at its stop flag, a closing
\* transport is reported lost, and a paused reader waits.  A thread waits at
\* most 50 ms at a time; wait_until_async_readable tests, listens, tests again.
reader_check ==
    /\ rpc = "check"
    /\ \/ /\ rkind = "thread" /\ rstop
          /\ RGoto("done") /\ UNCHANGED rlisten
       \/ /\ ~(rkind = "thread" /\ rstop) /\ Proceeds
          /\ ReadUnlessClosing /\ UNCHANGED rlisten
       \/ /\ rkind = "task" /\ ~Proceeds
          /\ RGoto("listen") /\ UNCHANGED rlisten
    /\ UNCHANGED <<rparked, rPool, rSocket>>

\* AsyncEvent::listen.
listen ==
    /\ rpc = "listen"
    /\ rlisten' = "registered" /\ RGoto("listening")
    /\ UNCHANGED <<rparked, rPool, rSocket>>

listening ==
    /\ rpc = "listening"
    /\ IF Proceeds THEN rlisten' = "none" /\ ReadUnlessClosing
                   ELSE RGoto("waiting") /\ UNCHANGED rlisten
    /\ UNCHANGED <<rparked, rPool, rSocket>>

waiting ==
    /\ rpc = "waiting" /\ rlisten = "fired"
    /\ rlisten' = "none" /\ RGoto("check")
    /\ UNCHANGED <<rparked, rPool, rSocket>>

\* The read: a byte or the end of the stream; it may also fail.  After a byte a
\* thread spins: it reads again before it looks at the transport's state.
read_some ==
    /\ rpc \in {"read", "spin"}
    /\ \/ /\ peer > 0
          /\ peer' = peer - 1 /\ taken' = taken + 1
          /\ rpc' = "enqueue" /\ rev' = REvent("data", taken + 1)
          /\ rafter' = "acquire"
          /\ ract' = CASE rkind = "task" -> "check"
                       [] rpc = "read" -> "spin"
                       [] OTHER -> "spun"
          /\ UNCHANGED peer_ended
       \/ /\ peer = 0 /\ peer_ended
          /\ Enqueue(REvent("eof", 0), "done")
          /\ UNCHANGED rSocket
    /\ UNCHANGED <<rWaits, rPool>>

read_fails ==
    /\ rpc \in {"read", "spin"} /\ peer = 0 /\ ~peer_ended
    /\ EnqueueLost
    /\ UNCHANGED <<rWaits, rPool, rSocket, rEvents, rFlags, rDrain, rHistory,
                   wpc>>

\* poll_fd or the spin window ends without data: back to the loop's head.
read_nothing ==
    /\ rkind = "thread" /\ rpc \in {"read", "spin"} /\ peer = 0 /\ ~peer_ended
    /\ RGoto("check") /\ UNCHANGED <<rWaits, rPool, rSocket>>

\* spin_read_stream: after a byte it goes on while the transport reads.
spun ==
    /\ rpc = "spun"
    /\ RGoto(IF rclosing \/ ~rreading THEN "check" ELSE "spin")
    /\ UNCHANGED <<rWaits, rPool, rSocket>>

\* stop_io_task aborts the task where it awaits.
reader_stopped ==
    /\ rkind = "task" /\ rstop
    /\ rpc \in {"waiting", "parked", "read", "acquire"}
    /\ RGoto("done") /\ UNCHANGED <<rWaits, rPool, rSocket>>

ReaderMove ==
    /\ reader_check \/ listen \/ listening \/ waiting \/ read_some \/ read_nothing
       \/ spun \/ reader_stopped
    /\ UNCHANGED <<rEvents, rFlags, rDrain, rHistory, wpc>>

-----------------------------------------------------------------------------
\* enqueue_pending_read_event, by the reader and by the writer.

\* transition_read_event_state: data while open, one end, one loss.
Admits(e) ==
    CASE e.kind = "data" -> rstate = "open"
      [] e.kind = "eof"  -> rstate = "open"
      [] OTHER           -> rstate # "lost"

NextReadState(e) == IF e.kind = "data" THEN rstate ELSE e.kind

\* Under the queue lock.
Push(e) ==
    /\ rqueue' = Append(rqueue, e) /\ rstate' = NextReadState(e)
    /\ rbytes' = rbytes + (IF e.kind = "data" THEN 1 ELSE 0)

\* A refused or detached byte gives its buffer back.
Refuse(e) ==
    PoolRelease(IF e.kind = "data" THEN 1 ELSE 0)

\* apply_pending_read_backpressure reads the bytes before it takes the lock, so
\* they may be stale when the flag is set.
BackpressureLoad == rev.kind = "data" /\ rbytes' >= ReadHigh

enqueue_read_event ==
    /\ rpc = "enqueue"
    /\ \/ /\ ~rdetached /\ Admits(rev)
          /\ Push(rev)
          /\ RGoto(IF BackpressureLoad THEN "backpressure" ELSE "schedule")
          /\ UNCHANGED <<rPool, rparked>>
       \/ /\ rdetached \/ ~Admits(rev)
          /\ Refuse(rev) /\ RGoto(rafter)
          /\ UNCHANGED <<rqueue, rstate, rbytes>>
    /\ UNCHANGED <<rlisten, rdrained, rsched, rcmds, rFlags, given, eofs, losts>>

backpressure_set ==
    /\ rpc = "backpressure"
    /\ IF rbackp \/ rclosing THEN UNCHANGED <<rbackp, rreading>>
       ELSE rbackp' = TRUE /\ rreading' = FALSE
    /\ RGoto("schedule")
    /\ UNCHANGED <<rWaits, rPool, rEvents, rpaused, rclosing, rlost, rdetached,
                   rstop, rHistory>>

\* read_events_scheduled.swap(true), and StreamRead if it was clear.
ScheduleRead ==
    /\ rsched' = TRUE
    /\ rcmds' = IF rsched THEN rcmds ELSE rcmds + 1

reader_schedule ==
    /\ rpc = "schedule"
    /\ ScheduleRead /\ RGoto(rafter)
    /\ UNCHANGED <<rWaits, rPool, rqueue, rdrained, rstate, rbytes, rFlags,
                   rHistory>>

EnqueueStep ==
    /\ enqueue_read_event \/ backpressure_set \/ reader_schedule
    /\ UNCHANGED <<rDrain, rSocket, wpc>>

ReaderStep == AcquireStep \/ ReaderMove \/ EnqueueStep

\* The writer reports the loss after close() or abort(); a failed write is
\* reported first, and then closes the transport.
writer_reports ==
    /\ wpc \in {"report", "fail"}
    /\ IF ~rdetached /\ Admits(REvent("lost", 0))
       THEN /\ Push(REvent("lost", 0))
            /\ wpc' = IF wpc = "fail" THEN "fail_schedule" ELSE "schedule"
       ELSE /\ wpc' = IF wpc = "fail" THEN "fail_close" ELSE "done"
            /\ UNCHANGED <<rqueue, rstate, rbytes>>
    /\ UNCHANGED <<rdrained, rsched, rcmds, rWaits, rclosing, pclosed>>

writer_schedules ==
    /\ wpc \in {"schedule", "fail_schedule"}
    /\ ScheduleRead
    /\ wpc' = IF wpc = "schedule" THEN "done" ELSE "fail_close"
    /\ UNCHANGED <<rqueue, rdrained, rstate, rbytes, rWaits, rclosing, pclosed>>

\* fail_write: set_closing comes after the event.
fail_write_closes ==
    /\ wpc = "fail_close" /\ wpc' = "done"
    /\ rclosing' = TRUE /\ pclosed' = TRUE /\ PoolNotify
    /\ rlisten' = IF rlisten = "registered" THEN "fired" ELSE rlisten
    /\ UNCHANGED rEvents

WriterStep ==
    /\ writer_reports \/ writer_schedules \/ fail_write_closes
    /\ UNCHANGED <<rReader, rpaused, rbackp, rreading, rlost, rdetached, rstop,
                   pfree, palloc, rDrain, rSocket, rHistory>>

-----------------------------------------------------------------------------
\* The loop.

\* AsyncEvent::notify_all: the waiters are taken, and then each is sent to; a
\* listener that registers in between belongs to the next notification.
NotifyReaders ==
    /\ rlisten' = IF rlisten = "registered" THEN "taken" ELSE rlisten
    /\ dnotify' = (rlisten = "registered")

notify_all_send ==
    /\ dnotify /\ dnotify' = FALSE
    /\ rlisten' = IF rlisten = "taken" THEN "fired" ELSE rlisten
    /\ UNCHANGED <<rReader, rparked, rEvents, rFlags, rPool, dpc, dafter, dcur,
                   dcount, dcoal, dpooled, nunread, nslot, rSocket, rHistory,
                   wpc>>

\* set_closing.
SetClosing ==
    /\ rclosing' = TRUE /\ pclosed' = TRUE
    /\ NotifyReaders /\ PoolNotify

\* connection_lost_with_py: once, and not for a detached transport.
ConnectionLostOnce ==
    /\ rlost' = TRUE
    /\ losts' = IF rdetached \/ rlost THEN losts ELSE losts + 1
ClosedByLoss == rclosing' = (rclosing \/ ~(rdetached \/ rlost))

\* The drain ends: read_events_scheduled is cleared.
EndDrain ==
    /\ dpc' = "idle" /\ dafter' = "idle" /\ dcur' = 0 /\ dcount' = 0
    /\ rsched' = FALSE

\* connection_lost out of the drain, which ends there.
LoseInDrain ==
    /\ ConnectionLostOnce /\ ClosedByLoss /\ NotifyReaders /\ EndDrain

drain_start ==
    /\ dpc = "idle" /\ rcmds > 0
    /\ rcmds' = rcmds - 1 /\ dpc' = "swap"
    /\ UNCHANGED <<rqueue, rdrained, rstate, rsched, rbytes, dafter, dcur, dcount, dnotify,
                   dcoal, dpooled, nunread, nslot, rWaits, rFlags, rPool, rHistory>>

\* The flag is cleared under the queue lock.
drain_swap ==
    /\ dpc = "swap"
    /\ \/ /\ rqueue = <<>>
          /\ rsched' = FALSE /\ dpc' = "idle" /\ dcount' = 0
          /\ UNCHANGED <<rqueue, rdrained>>
       \/ /\ rqueue # <<>>
          /\ rdrained' = rqueue /\ rqueue' = rdrained /\ dpc' = "event"
          /\ UNCHANGED <<rsched, dcount>>
    /\ UNCHANGED <<rstate, rbytes, rcmds, dafter, dcur, dnotify, dcoal,
                   dpooled, nunread, nslot, rWaits, rFlags, rPool, rHistory>>

\* record_pending_read_drained: at the low mark reading resumes.
RecordDrained ==
    /\ rbytes' = rbytes - 1
    /\ IF rbytes - 1 <= ReadLow /\ rbackp
       THEN /\ rbackp' = FALSE /\ rreading' = (~rpaused /\ ~rclosing)
            /\ IF rreading' THEN NotifyReaders ELSE UNCHANGED <<rlisten, dnotify>>
       ELSE UNCHANGED <<rbackp, rreading, rlisten, dnotify>>

NextIsData == rdrained # <<>> /\ Head(rdrained).kind = "data"

\* reschedule_pending_read_events.
Requeued(rest) == rest \o rqueue

\* After data, with rest left to drain and n events drained: when the budget is
\* spent what is left is queued again and another drain is sent for.
AfterData(rest, n) ==
    \/ /\ n >= EventBudget /\ Requeued(rest) # <<>>
       /\ rqueue' = Requeued(rest) /\ rdrained' = <<>> /\ rcmds' = rcmds + 1
       /\ dpc' = "flush" /\ dafter' = "idle" /\ dcount' = 0
    \/ /\ n < EventBudget \/ Requeued(rest) = <<>>
       /\ rdrained' = rest /\ dpc' = "event" /\ dcount' = n
       /\ UNCHANGED <<rqueue, rcmds, dafter>>

\* The native reader adopts the buffer if it holds nothing, else copies it.
feed_owned_data(b) ==
    /\ given' = Append(given, b) /\ nunread' = nunread + 1
    /\ nslot' = (nslot \/ nunread = 0)
    /\ PoolRelease(IF nunread = 0 THEN 0 ELSE 1)
    /\ UNCHANGED <<dcoal, dpooled>>

\* can_coalesce_read_data.
Coalesces == Len(dcoal) + 1 <= CoalesceLimit

\* The data is kept, or joined to what is kept.
coalesce(b) ==
    /\ dcoal' = Append(dcoal, b) /\ dpooled' = (dcoal = <<>>)
    /\ PoolRelease(IF dcoal = <<>> THEN 0 ELSE IF dpooled THEN 2 ELSE 1)
    /\ UNCHANGED <<given, nunread, nslot>>

Native == rproto = "native" /\ ~rlost

\* The reader raises once it holds the data: the drain ends in the loss.
FeedRaises ==
    /\ rdrained' = Tail(rdrained) /\ dcount' = dcount + 1 /\ dpc' = "raised"
    /\ UNCHANGED <<rqueue, rcmds, dafter>>

\* A data event with byte b: fed, kept, or, if it cannot be joined, what is kept goes
\* first.
DataFed(b) ==
    /\ Native /\ feed_owned_data(b)
    /\ AfterData(Tail(rdrained), dcount + 1) \/ FeedRaises
    /\ UNCHANGED dcur

DataJoined(b) ==
    /\ ~Native /\ (dcoal = <<>> \/ Coalesces) /\ coalesce(b)
    /\ AfterData(Tail(rdrained), dcount + 1) /\ UNCHANGED dcur

DataHeld(b) ==
    /\ ~Native /\ dcoal # <<>> /\ ~Coalesces
    /\ rdrained' = Tail(rdrained) /\ dcur' = b /\ dcount' = dcount + 1
    /\ dpc' = "flush" /\ dafter' = "feed"
    /\ UNCHANGED <<rqueue, rcmds, rparked, rPool, dcoal, dpooled, given, nunread, nslot>>

drain_data ==
    /\ dpc = "event" /\ NextIsData
    /\ RecordDrained
    /\ LET b == Head(rdrained).byte IN DataFed(b) \/ DataJoined(b) \/ DataHeld(b)
    /\ UNCHANGED <<rstate, rsched, rpaused, rclosing, rlost, rdetached, rstop, eofs,
                   losts>>

drain_feed ==
    /\ dpc = "feed"
    /\ coalesce(dcur) /\ dcur' = 0
    /\ AfterData(rdrained, dcount)
    /\ UNCHANGED <<rstate, rsched, rbytes, rFlags, rlisten, dnotify, eofs, losts>>

\* The end, the loss, or no event left: pending data is flushed first.
drain_other ==
    /\ dpc = "event" /\ ~NextIsData
    /\ LET next == IF rdrained = <<>> THEN "swap" ELSE Head(rdrained).kind IN
       IF dcoal = <<>> THEN dpc' = next /\ UNCHANGED dafter
                       ELSE dpc' = "flush" /\ dafter' = next
    /\ rdrained' = IF rdrained = <<>> THEN <<>> ELSE Tail(rdrained)
    /\ UNCHANGED <<rqueue, rstate, rsched, rbytes, rcmds, rWaits, rFlags, rPool,
                   dcur, dcount, dnotify, dcoal, dpooled, nunread, nslot, rHistory>>

\* flush_pending_data_with_py, data_received_slow_path.
FlushData ==
    /\ dpc = "flush" /\ dcoal # <<>> /\ ~rclosing /\ ~rlost
    /\ given' = given \o dcoal /\ dcoal' = <<>> /\ dpooled' = FALSE
    /\ PoolRelease(IF dpooled THEN 1 ELSE 0)

flush_called ==
    /\ FlushData /\ dpc' = "called"
    /\ UNCHANGED <<rEvents, rFlags, rlisten, dafter, dcur, dcount, dnotify, nunread,
                   nslot, eofs, losts>>

\* data_received raises.  After a reschedule the error only propagates.
flush_raises ==
    /\ FlushData
    /\ IF dafter = "idle"
       THEN /\ dpc' = "idle"
            /\ UNCHANGED <<rsched, rclosing, rlost, losts, rlisten, dnotify, dafter,
                           dcur, dcount>>
       ELSE LoseInDrain
    /\ UNCHANGED <<rqueue, rdrained, rstate, rbytes, rcmds, rpaused, rbackp,
                   rreading, rdetached, rstop, nunread, nslot, eofs>>

\* Nothing to flush, or nobody to give it to.
flush_nothing ==
    /\ dpc = "flush" /\ (dcoal = <<>> \/ rclosing \/ rlost)
    /\ dcoal' = <<>> /\ dpooled' = FALSE
    /\ PoolRelease(IF dpooled THEN 1 ELSE 0)
    /\ dpc' = dafter /\ dafter' = "idle"
    /\ UNCHANGED <<rEvents, rFlags, rlisten, dcur, dcount, dnotify, nunread,
                   nslot, given, eofs, losts>>

callback_returns ==
    /\ dpc = "called" /\ dpc' = dafter /\ dafter' = "idle"
    /\ UNCHANGED <<rEvents, rWaits, rFlags, rPool, dcur, dcount, dnotify,
                   dcoal, dpooled, nunread, nslot, rHistory>>

\* eof_received keeps the transport open, closes it, or raises.
eof_keeps ==
    /\ dpc = "eof" /\ eofs' = eofs + 1
    /\ dpc' = "called" /\ dafter' = "event"
    /\ UNCHANGED <<rEvents, rWaits, rFlags, rPool, dcur, dcount, dnotify, dcoal,
                   dpooled, nunread, nslot, given, losts>>

eof_closes ==
    /\ dpc = "eof" /\ eofs' = eofs + 1
    /\ ConnectionLostOnce /\ EndDrain /\ SetClosing
    /\ wpc' = IF wpc = "open" THEN "report" ELSE wpc
    /\ UNCHANGED <<rqueue, rdrained, rstate, rbytes, rcmds, rpaused, rbackp,
                   rreading, rdetached, rstop, pfree, palloc, dcoal,
                   dpooled, nunread, nslot, given>>

eof_raises ==
    /\ dpc = "eof" /\ eofs' = eofs + 1
    /\ LoseInDrain
    /\ UNCHANGED <<rqueue, rdrained, rstate, rbytes, rcmds, rpaused, rbackp,
                   rreading, rdetached, rstop, rparked, rPool, dcoal,
                   dpooled, nunread, nslot, given>>

drain_lost ==
    /\ dpc \in {"lost", "raised"}
    /\ LoseInDrain
    /\ UNCHANGED <<rqueue, rdrained, rstate, rbytes, rcmds, rpaused, rbackp,
                   rreading, rdetached, rstop, rparked, rPool, dcoal,
                   dpooled, nunread, nslot, given, eofs>>

DrainMove ==
    \/ drain_start \/ drain_swap \/ drain_data \/ drain_feed \/ drain_other
    \/ flush_called \/ flush_raises \/ flush_nothing \/ callback_returns
    \/ eof_keeps \/ eof_raises \/ drain_lost

DrainStep ==
    /\ ~dnotify
    /\ (DrainMove /\ UNCHANGED wpc) \/ eof_closes
    /\ UNCHANGED <<rReader, rSocket>>

-----------------------------------------------------------------------------
\* What the application does, between drains or in a callback.

AppMay == dpc \in {"idle", "called"} /\ ~dnotify

pause_reading ==
    /\ rpaused' = TRUE /\ rreading' = FALSE
    /\ UNCHANGED <<rbackp, rclosing, rlost, rdetached, rstop, rWaits, dnotify,
                   rPool, nunread, nslot, losts, wpc>>

resume_reading ==
    /\ rpaused' = FALSE /\ rreading' = (~rbackp /\ ~rclosing)
    /\ IF rreading' THEN NotifyReaders ELSE UNCHANGED <<rlisten, dnotify>>
    /\ UNCHANGED <<rbackp, rclosing, rlost, rdetached, rstop, rparked, rPool,
                   nunread, nslot, losts, wpc>>

\* close, abort: the reader task is stopped; the loss is queued, by the writer or,
\* without one, by close itself.
close_transport ==
    /\ wpc = "open" /\ ~rclosing
    /\ SetClosing
    /\ rstop' = (rkind = "task")
    /\ wpc' = "report"
    /\ UNCHANGED <<rlost, losts, rpaused, rbackp, rreading, rdetached, pfree, palloc, nunread,
                   nslot>>

\* The socket is reclaimed for TLS: detach_underlying_stream, and the reader
\* is stopped.
reclaim ==
    /\ wpc = "open" /\ ~rclosing
    /\ rdetached' = TRUE /\ rreading' = FALSE /\ rstop' = TRUE
    /\ SetClosing /\ wpc' = "done"
    /\ UNCHANGED <<rpaused, rbackp, rlost, pfree, palloc, nunread, nslot, losts>>

\* The application takes all the native reader holds; a pooled buffer goes back.
consume ==
    /\ nunread > 0 /\ nunread' = 0 /\ nslot' = FALSE
    /\ PoolRelease(IF nslot THEN 1 ELSE 0)
    /\ UNCHANGED <<rFlags, rlisten, dnotify, losts, wpc>>

AppStep ==
    /\ AppMay
    /\ pause_reading \/ resume_reading \/ reclaim \/ consume
       \/ close_transport
    /\ UNCHANGED <<rReader, rEvents, dpc, dafter, dcur, dcount, dcoal, dpooled,
                   rSocket, given, eofs>>

\* fail_write, by the loop or the writer, unless the transport closes already.
write_fails ==
    /\ wpc = "open" /\ ~rclosing /\ wpc' = "fail"
    /\ UNCHANGED <<rReader, rWaits, rEvents, rFlags, rPool, rDrain, rSocket,
                   rHistory>>

\* The peer has sent its bytes; it closes its side when it likes.
peer_closes ==
    /\ ~peer_ended /\ peer_ended' = TRUE
    /\ UNCHANGED <<peer, taken, rReader, rWaits, rEvents, rFlags, rPool, rDrain,
                   rHistory, wpc>>

ReadNext ==
    /\ \/ ReaderStep \/ read_fails \/ WriterStep \/ notify_all_send
       \/ DrainStep \/ AppStep \/ write_fails \/ peer_closes
    /\ UNCHANGED <<rkind, rproto>>

ReadSpec == ReadInit /\ [][ReadNext]_readVars

\* The runtime polls its tasks and threads run.  The loop takes its queue in
\* order, so a drain comes to its turn whatever callbacks do in between.
ReadFairSpec ==
    /\ ReadSpec
    /\ WF_readVars(ReaderStep /\ UNCHANGED <<rkind, rproto>>)
    /\ WF_readVars(WriterStep /\ UNCHANGED <<rkind, rproto>>)
    /\ WF_readVars(notify_all_send /\ UNCHANGED <<rkind, rproto>>)
    /\ SF_readVars(DrainStep /\ UNCHANGED <<rkind, rproto>>)

-----------------------------------------------------------------------------
\* Properties.

ReadTypeOK ==
    /\ {rstop, rsched, rpaused, rbackp, rreading, rclosing, rlost, rdetached,
        pclosed, dnotify, dpooled, nslot, peer_ended} \subseteq BOOLEAN
    /\ {rbytes, rcmds, pfree, palloc, dcount, nunread, peer, taken, eofs, losts}
           \subseteq Nat
    /\ rlisten \in {"none", "registered", "taken", "fired"}
    /\ rparked \in {"no", "yes", "woken"}
    /\ rstate \in {"open", "eof", "lost"}

\* The events queued and not yet drained, in order, and how many are of one kind.
Backlog == rdrained \o rqueue
KindCount(q, k) == Cardinality({i \in 1..Len(q) : q[i].kind = k})

\* Where a byte read from the socket is, in order: given to the protocol, kept to be
\* joined, at hand, in the backlog, or with the reader.
InReader == IF rpc = "enqueue" /\ rev.kind = "data" THEN 1 ELSE 0
Current == IF dcur = 0 THEN 0 ELSE 1
Kept == Len(given) + Len(dcoal) + Current

\* Until the transport closes or is reported lost no byte is lost, doubled or
\* reordered between the socket and the protocol, through coalescing and rescheduled drains; and what
\* the protocol was given is at all times a run of the stream from its start.
NothingLostInOrder ==
    /\ ~rclosing /\ rstate # "lost" =>
         /\ dcoal = [i \in 1..Len(dcoal) |-> Len(given) + i] /\ dcur \in {0, Kept}
         /\ \A i \in 1..KindCount(Backlog, "data") : Backlog[i] = REvent("data", Kept + i)
         /\ InReader = 1 => rev.byte = taken
         /\ Kept + KindCount(Backlog, "data") + InReader = taken
    /\ given = [i \in 1..Len(given) |-> i]

\* connection_lost is called once, and after it nothing is delivered; the end of
\* the stream is delivered once and after every byte read before it.
LostIsLast ==
    /\ losts <= 1 /\ eofs <= 1
    /\ eofs = 1 /\ ~rclosing => Len(given) = taken

\* Slots are conserved until connection_lost (a chunk at hand when data_received
\* raises is dropped with its slot), so the bytes queued never pass the pool's
\* size: the high mark is out of reach, and the stale test in
\* apply_pending_read_backpressure can leave no reader paused with nothing left to
\* drain.
HasBuffer ==
    rpc \in {"check", "listen", "listening", "waiting", "read", "spin", "spun"}
    \/ (rpc = "enqueue" /\ rev.kind = "data")
SlotsInUse ==
    (IF HasBuffer THEN 1 ELSE 0) + KindCount(Backlog, "data")
    + Current + (IF dpooled THEN 1 ELSE 0) + (IF nslot THEN 1 ELSE 0)
PoolBoundsReading ==
    /\ palloc <= PoolLimit /\ rbytes <= PoolLimit /\ ~rbackp
    /\ rpc # "done" /\ rev.kind # "lost" /\ rev.kind # "eof" /\ ~rlost
           => palloc - pfree = SlotsInUse
    /\ rbytes = KindCount(Backlog, "data")

\* A queued event has a drain coming: a command on its way, a drain under way,
\* or a producer about to send one.  Only the loss leaves events behind.
NoEventStranded ==
    rqueue # <<>> \/ rdrained # <<>> =>
        \/ rcmds > 0 \/ dpc # "idle" \/ rlost
        \/ rpc \in {"backpressure", "schedule"} \/ wpc \in {"schedule", "fail_schedule"}

\* A reader that waits has something to wait for: reading is paused and the
\* transport open, or the pool is exhausted.
NoReaderStranded ==
    /\ rpc = "waiting" /\ rlisten = "registered" => ~rreading /\ ~rclosing
    /\ rpc = "waiting" => rlisten # "none"
    /\ rlisten = "taken" => dnotify
    /\ rpc = "parked" /\ rparked = "yes" => ~HasAvailable /\ ~pclosed

ReadSafe ==
    /\ ReadTypeOK /\ NothingLostInOrder /\ LostIsLast /\ PoolBoundsReading
    /\ NoEventStranded /\ NoReaderStranded

\* What is owed: bytes of the peer, while the transport is open and not paused;
\* bytes read, to the protocol of an open transport; the loss, to a closing one;
\* the end of a reader that was stopped, a thread's also once the transport
\* closes.  (A task that awaits the socket when a write or a callback fails
\* stays until the socket is readable.)
ReadOwed ==
    \/ peer > 0 /\ ~rclosing /\ ~rpaused /\ rpc # "done"
    \/ Len(given) < taken /\ ~rclosing
    \/ rclosing /\ ~rlost /\ ~rdetached
    \/ (rstop \/ (rkind = "thread" /\ rclosing)) /\ rpc # "done"

\* Nothing stays owed for ever.
ReadServed == []<>~ReadOwed

=============================================================================
