---------------------------- MODULE StreamWrite ----------------------------
(***************************************************************************)
(* The write side of a stream transport (src/src/transport/stream): the    *)
(* loop thread that writes directly, stages or queues (core_write.rs,      *)
(* py_transport.rs), the writer worker and its command queue (writer.rs,   *)
(* write_queue.rs), buffer accounting with pause_writing/resume_writing,   *)
(* and the loss of the connection (core_events.rs, core_protocol.rs).      *)
(*                                                                         *)
(* Bytes are numbered in the order write() accepts them; the wire is the   *)
(* sequence of bytes the socket took.  A step is a critical section or a   *)
(* call of the socket; fail_write, after which no write is accepted, is    *)
(* one step.  Protocol callbacks do not call back into the transport, and  *)
(* a transport is closed, aborted or half-closed once.                     *)
(***************************************************************************)
EXTENDS Integers, Sequences, FiniteSets, SequencesExt

CONSTANTS
    Transports,    \* the transports made: "socket", "pipe"
    Lengths,       \* lengths of the writes
    MaxBytes,      \* bound: bytes accepted
    low_water, high_water, cap,
    SocketFails,   \* the socket, or starting the worker, may fail
    PeerEof        \* the peer may half-close

ASSUME WriteAssumption ==
    /\ Transports \subseteq {"socket", "pipe"}
    /\ SocketFails \in BOOLEAN /\ PeerEof \in BOOLEAN
    /\ Lengths \subseteq Nat \ {0} /\ MaxBytes \in Nat
    /\ low_water \in Nat /\ high_water \in Nat /\ cap \in Nat
    /\ low_water <= high_water

VARIABLES
    transport,                              \* fixed when it is made
    closing, lost_called, backpressure,     \* StreamTransportState
    size, protocol_paused,                  \* StreamWriteBufferState
    staged, scheduled,                      \* pending_direct_write
    commands, receiver_alive,               \* the writer queue
    events, read_event_state,               \* pending_read_events
    loop_pc, hand, counted, should_pause,   \* the loop thread's write
    sent, after,
    worker_pc, batch, batch_len, pending,   \* the writer worker
    wire, shut,                             \* the socket
    accepted, refused, dropped, faulty,     \* history: bytes and faults
    pauses, resumes,                        \* history: protocol calls
    ended, covered                          \* history: how it ended, after what

state_vars == <<closing, lost_called, backpressure>>
size_vars == <<size, protocol_paused>>
stage_vars == <<staged, scheduled>>
queue_vars == <<commands, receiver_alive>>
event_vars == <<events, read_event_state>>
loop_vars == <<loop_pc, hand, counted, should_pause, sent, after>>
worker_vars == <<worker_pc, batch, batch_len, pending>>
socket_vars == <<wire, shut>>
history_vars == <<accepted, refused, dropped, faulty, pauses, resumes, ended,
                  covered>>
writeVars == <<transport, state_vars, size_vars, stage_vars, queue_vars, event_vars,
          loop_vars, worker_vars, socket_vars, history_vars>>

\* A socket has a direct writer; the worker alone writes to a pipe.
Direct == transport = "socket"

\* close_on_write_eof.
CloseOnEof == transport = "pipe"

Bytes == 1..MaxBytes
Data(s) == [kind |-> "data", bytes |-> s]
Control(k) == [kind |-> k, bytes |-> <<>>]
Kinds == {"data", "eof", "close", "abort", "stop"}
NoCommand == Control("none")

\* Every variable has its type, and the buffered size is a usize.
WriteTypeOK ==
    /\ transport \in Transports
    /\ {closing, lost_called, backpressure, protocol_paused, scheduled,
        receiver_alive, counted, should_pause, faulty} \subseteq BOOLEAN
    /\ size \in Nat
    /\ {staged, hand, batch, wire} \subseteq Seq(Bytes)
    /\ \A i \in 1..Len(commands) :
           commands[i].kind \in Kinds /\ commands[i].bytes \in Seq(Bytes)
    /\ events \in Seq({"resume", "eof", "lost"})
    /\ read_event_state \in {"open", "eof", "lost"}
    /\ loop_pc \in {"idle", "direct", "stage", "mark", "record", "send",
                    "flush", "drained"}
    /\ after \in {"idle", "close", "eof"}
    /\ worker_pc \in {"lazy", "recv", "write", "drained", "resume", "try",
                      "empty", "clear", "command", "exited"}
    /\ batch_len \in Nat /\ sent \in Nat
    /\ shut \in {"open", "graceful", "aborted"}
    /\ refused \subseteq Bytes /\ dropped \subseteq Bytes
    /\ ended \in {"open", "close", "abort", "eof", "peer"} /\ covered \in Nat

WriteInit ==
    /\ transport \in Transports
    /\ closing = FALSE /\ lost_called = FALSE /\ backpressure = FALSE
    /\ size = 0 /\ protocol_paused = FALSE
    /\ staged = <<>> /\ scheduled = FALSE
    /\ commands = <<>> /\ receiver_alive = TRUE
    /\ events = <<>> /\ read_event_state = "open"
    /\ loop_pc = "idle" /\ hand = <<>> /\ counted = FALSE /\ should_pause = FALSE
    /\ sent = 0 /\ after = "idle"
    /\ worker_pc = (IF Direct THEN "lazy" ELSE "recv")
    /\ batch = <<>> /\ batch_len = 0 /\ pending = NoCommand
    /\ wire = <<>> /\ shut = "open"
    /\ accepted = 0 /\ refused = {} /\ dropped = {} /\ faulty = FALSE
    /\ pauses = 0 /\ resumes = 0 /\ ended = "open" /\ covered = 0

-----------------------------------------------------------------------------
\* Accounting, under the state lock.

\* drain_write_buffer: the size afterwards, and whether it crosses low water.
SizeDrained(n) == IF n > size THEN 0 ELSE size - n
Resumes(n) == n > 0 /\ protocol_paused /\ SizeDrained(n) <= low_water

\* record_write_buffer_drained, without the notification.
Drain(n) ==
    /\ size' = SizeDrained(n)
    /\ protocol_paused' = (protocol_paused /\ ~Resumes(n))

\* record_write_buffer_drained on the loop thread: resume_writing is called.
DrainOnLoop(n) ==
    /\ Drain(n)
    /\ resumes' = IF Resumes(n) THEN resumes + 1 ELSE resumes

\* enqueue_write_buffer: pause_writing is due.
Pauses(n) == size + n > high_water /\ ~protocol_paused

\* clear_write_buffer(false).
ClearSize == size' = 0 /\ protocol_paused' = FALSE

\* transition_read_event_state: the events the gate lets through.
Passes(event) ==
    IF event = "eof" THEN read_event_state = "open" ELSE read_event_state # "lost"

\* enqueue_pending_read_event.
enqueue_pending_read_event(event) ==
    /\ events' = IF Passes(event) THEN Append(events, event) ELSE events
    /\ read_event_state' = IF Passes(event) /\ event \in {"eof", "lost"}
                           THEN event ELSE read_event_state

\* fail_write: the loss is queued, staged bytes go, the worker is stopped.
\* lost is what the caller held.
fail_write(lost) ==
    IF closing
    THEN /\ dropped' = dropped \union lost
         /\ UNCHANGED <<closing, backpressure, size_vars, stage_vars, events,
                        read_event_state, commands>>
    ELSE /\ enqueue_pending_read_event("lost")
         /\ closing' = TRUE /\ backpressure' = FALSE
         /\ dropped' = dropped \union lost \union Range(staged)
         /\ staged' = <<>> /\ scheduled' = FALSE
         /\ ClearSize
         /\ commands' = IF receiver_alive THEN Append(commands, Control("stop"))
                        ELSE commands

\* The loop thread is done with this part of the call.
Return ==
    /\ loop_pc' = "idle" /\ hand' = <<>> /\ counted' = FALSE
    /\ should_pause' = FALSE /\ sent' = 0
    /\ UNCHANGED after

-----------------------------------------------------------------------------
\* write() on the loop thread.

\* write_data and try_write_bytes_with_status: the status is read once; a
\* repeated small write, or one behind a staged write, is staged.
write(n) ==
    /\ loop_pc = "idle" /\ after = "idle" /\ ~closing
    /\ accepted + n <= MaxBytes
    /\ accepted' = accepted + n
    /\ hand' = [i \in 1..n |-> accepted + i]
    /\ \E coalesce \in BOOLEAN :
           loop_pc' = IF ~Direct \/ backpressure THEN "record"
                      ELSE IF scheduled \/ coalesce THEN "stage"
                      ELSE "direct"
    /\ UNCHANGED <<state_vars, size_vars, stage_vars, queue_vars, event_vars,
                   counted, should_pause, sent, after, worker_vars, socket_vars,
                   refused, dropped, faulty, pauses, resumes, ended, covered>>

\* The write raises: transport write buffer exceeds the cap.
OverCap == Len(hand) > cap - size

\* stage_direct_write_buffer and finish_staged_write.
stage_direct_write_buffer ==
    /\ loop_pc = "stage"
    /\ IF OverCap
       THEN /\ refused' = refused \union Range(hand)
            /\ UNCHANGED <<size_vars, stage_vars, pauses>>
       ELSE /\ size' = size + Len(hand)
            /\ protocol_paused' = (protocol_paused \/ Pauses(Len(hand)))
            /\ pauses' = IF Pauses(Len(hand)) THEN pauses + 1 ELSE pauses
            /\ staged' = staged \o hand
            /\ scheduled' = TRUE
            /\ UNCHANGED refused
    /\ Return
    /\ UNCHANGED <<state_vars, queue_vars, event_vars, worker_vars, socket_vars,
                   accepted, dropped, faulty, resumes, ended, covered>>

\* The socket takes k bytes of s; taking none is EWOULDBLOCK or ENOBUFS.
Takes(s, k) == shut = "open" /\ k \in 0..Len(s) /\ wire' = wire \o SubSeq(s, 1, k)

\* Mutant: the bytes the socket took stay in the buffer.
Rest_NotAdvanced(s, k) == s

\* OwnedWriteBuffer::advance.
Rest(s, k) == SubSeq(s, k + 1, Len(s))

\* try_direct_tasked_write from write(): done, or the rest is queued.
direct_write(k) ==
    /\ loop_pc = "direct"
    /\ Takes(hand, k)
    /\ IF k = Len(hand)
       THEN Return
       ELSE /\ hand' = Rest(hand, k) /\ loop_pc' = "mark"
            /\ UNCHANGED <<counted, should_pause, sent, after>>
    /\ UNCHANGED <<state_vars, size_vars, stage_vars, queue_vars, event_vars,
                   worker_vars, shut, history_vars>>

\* try_direct_tasked_write failed, in write() or in a flush.
direct_write_fails ==
    /\ loop_pc \in {"direct", "flush"}
    /\ SocketFails \/ shut # "open"
    /\ faulty' = TRUE
    /\ fail_write(Range(hand))
    /\ Return
    /\ UNCHANGED <<lost_called, receiver_alive, worker_vars, socket_vars,
                   accepted, refused, pauses, resumes, ended, covered>>

\* set_write_backpressure_active(true): later writes are queued.
mark_backpressure ==
    /\ loop_pc = "mark"
    /\ backpressure' = TRUE
    /\ loop_pc' = IF counted THEN "send" ELSE "record"
    /\ UNCHANGED <<closing, lost_called, size_vars, stage_vars, queue_vars,
                   event_vars, hand, counted, should_pause, sent, after,
                   worker_vars, socket_vars, history_vars>>

\* queue_write: record_write_buffer_enqueued.
record_enqueued ==
    /\ loop_pc = "record"
    /\ IF OverCap
       THEN /\ refused' = refused \union Range(hand)
            /\ Return
            /\ UNCHANGED size_vars
       ELSE /\ size' = size + Len(hand)
            /\ protocol_paused' = (protocol_paused \/ Pauses(Len(hand)))
            /\ should_pause' = Pauses(Len(hand))
            /\ counted' = TRUE /\ loop_pc' = "send"
            /\ UNCHANGED <<hand, sent, after, refused>>
    /\ UNCHANGED <<state_vars, stage_vars, queue_vars, event_vars, worker_vars,
                   socket_vars, accepted, dropped, faulty, pauses, resumes, ended, covered>>

\* QueueState::enqueue: behind the last command, or joined to it.
Enqueued(d, append) ==
    IF append THEN Front(commands) \o <<Data(Last(commands).bytes \o d)>>
    ELSE Append(commands, Data(d))

\* OwnedWriteBuffer::try_append: the last command is data with room left.
MayAppend == commands # <<>> /\ Last(commands).kind = "data"

\* ensure_writer_worker and the send of queue_write and queue_recorded_write;
\* pause_writing is called once the bytes are queued.
\* A flush goes on to account for the bytes the socket took.
send_data ==
    /\ loop_pc = "send" /\ receiver_alive
    /\ \E append \in {FALSE, MayAppend} : commands' = Enqueued(hand, append)
    /\ worker_pc' = IF worker_pc = "lazy" THEN "recv" ELSE worker_pc
    /\ IF sent > 0
       THEN /\ loop_pc' = "drained" /\ hand' = <<>>
            /\ UNCHANGED <<counted, should_pause, sent, after>>
       ELSE Return
    /\ pauses' = IF should_pause THEN pauses + 1 ELSE pauses
    /\ UNCHANGED <<state_vars, size_vars, stage_vars, receiver_alive, event_vars,
                   batch, batch_len, pending, socket_vars, accepted, refused,
                   dropped, faulty, resumes, ended, covered>>

\* The send found the worker gone.
send_data_fails ==
    /\ loop_pc = "send" /\ ~receiver_alive
    /\ IF closing
       THEN /\ dropped' = dropped \union Range(hand) /\ ClearSize
            /\ UNCHANGED <<closing, backpressure, stage_vars, commands, event_vars>>
       ELSE fail_write(Range(hand))
    /\ Return
    /\ UNCHANGED <<lost_called, receiver_alive, worker_vars, socket_vars,
                   accepted, refused, faulty, pauses, resumes, ended, covered>>

\* ensure_writer_worker could not start the thread; its receiver is dropped.
worker_start_fails ==
    /\ loop_pc = "send" /\ worker_pc = "lazy" /\ SocketFails
    /\ worker_pc' = "exited" /\ receiver_alive' = FALSE
    /\ faulty' = TRUE
    /\ fail_write({})
    /\ UNCHANGED <<lost_called, loop_vars, batch, batch_len, pending,
                   socket_vars, accepted, refused, pauses, resumes, ended, covered>>

-----------------------------------------------------------------------------
\* flush_pending_direct_write: at the end of the turn, or first in close() and
\* write_eof().

Flush ==
    /\ scheduled' = FALSE
    /\ staged' = <<>>
    /\ IF closing /\ staged # <<>>
       THEN /\ loop_pc' = "drained" /\ sent' = Len(staged)
            /\ dropped' = dropped \union Range(staged)
            /\ UNCHANGED <<hand, counted>>
       ELSE /\ loop_pc' = IF staged = <<>> THEN "idle" ELSE "flush"
            /\ hand' = staged /\ counted' = (staged # <<>>)
            /\ UNCHANGED <<sent, dropped>>
    /\ UNCHANGED <<should_pause, state_vars, size_vars, queue_vars, event_vars,
                   worker_vars, socket_vars, accepted, refused, faulty, pauses,
                   resumes>>

\* The StreamWrite item in the ready queue.
flush_pending_direct_write ==
    /\ loop_pc = "idle" /\ after = "idle" /\ scheduled
    /\ Flush
    /\ UNCHANGED <<after, ended, covered>>

\* The staged bytes go to the socket; what it does not take is queued.
flush_write(k) ==
    /\ loop_pc = "flush"
    /\ Takes(hand, k)
    /\ sent' = k
    /\ hand' = Rest(hand, k)
    /\ loop_pc' = IF k = Len(hand) THEN "drained" ELSE "mark"
    /\ UNCHANGED <<state_vars, size_vars, stage_vars, queue_vars, event_vars,
                   counted, should_pause, after, worker_vars, shut, history_vars>>

\* The bytes of the flush that are no longer buffered.
FlushedBytes == sent

flush_drained ==
    /\ loop_pc = "drained"
    /\ DrainOnLoop(FlushedBytes)
    /\ Return
    /\ UNCHANGED <<state_vars, stage_vars, queue_vars, event_vars, worker_vars,
                   socket_vars, accepted, refused, dropped, faulty, pauses, ended,
                   covered>>

-----------------------------------------------------------------------------
\* close(), write_eof(), abort() and the peer's EOF.

\* close() and write_eof() flush first.
close ==
    /\ loop_pc = "idle" /\ after = "idle" /\ ended \in {"open", "eof"}
    /\ ended' = "close" /\ after' = "close"
    /\ covered' = IF ended = "open" THEN accepted ELSE covered
    /\ Flush

write_eof ==
    /\ loop_pc = "idle" /\ after = "idle" /\ ended = "open"
    /\ ended' = "eof" /\ after' = "eof" /\ covered' = accepted
    /\ Flush

\* Mutant: the fast-path hint stands for a worker that has not started.
WriterIsStillLazy_Hint == ~backpressure

\* writer_is_still_lazy: no worker was started.
WriterIsStillLazy == worker_pc = "lazy"

\* Mutant: a control command goes ahead of the queued data.
SendControl_Front(k) ==
    commands' = IF receiver_alive THEN <<Control(k)>> \o commands ELSE commands

\* WriterSender::send of a control command; its failure is ignored.
SendControl(k) ==
    commands' = IF receiver_alive THEN Append(commands, Control(k)) ELSE commands

Shutdown(how) == shut' = IF shut = "aborted" THEN shut ELSE how

\* close(), after the flush: directly while no worker exists, else behind the
\* queued data.
close_writer ==
    /\ loop_pc = "idle" /\ after = "close"
    /\ closing' = TRUE
    /\ IF Direct /\ WriterIsStillLazy
       THEN /\ Shutdown("graceful")
            /\ SendControl("stop")
            /\ enqueue_pending_read_event("lost")
       ELSE SendControl("close") /\ UNCHANGED <<shut, event_vars>>
    /\ after' = "idle"
    /\ UNCHANGED <<lost_called, backpressure, size_vars, stage_vars,
                   receiver_alive, loop_pc, hand, counted, should_pause, sent,
                   worker_vars, wire, history_vars>>

\* write_eof(), after the flush.
write_eof_writer ==
    /\ loop_pc = "idle" /\ after = "eof"
    /\ IF Direct /\ WriterIsStillLazy
       THEN /\ Shutdown("graceful")
            /\ IF CloseOnEof
               THEN enqueue_pending_read_event("lost")
               ELSE UNCHANGED event_vars
            /\ UNCHANGED commands
       ELSE SendControl("eof") /\ UNCHANGED <<shut, event_vars>>
    /\ after' = "idle"
    /\ UNCHANGED <<state_vars, size_vars, stage_vars, receiver_alive, loop_pc,
                   hand, counted, should_pause, sent, worker_vars, wire,
                   history_vars>>

\* abort(): staged bytes are discarded.
abort ==
    /\ loop_pc = "idle" /\ after = "idle" /\ ended \in {"open", "close", "eof"}
    /\ ended' = "abort"
    /\ scheduled' = FALSE /\ staged' = <<>>
    /\ dropped' = dropped \union Range(staged)
    /\ DrainOnLoop(Len(staged))
    /\ closing' = TRUE
    /\ SendControl("abort")
    /\ IF Direct
       THEN shut' = "aborted" /\ enqueue_pending_read_event("lost")
       ELSE UNCHANGED <<shut, event_vars>>
    /\ UNCHANGED <<lost_called, backpressure, receiver_alive, loop_vars,
                   worker_vars, wire, accepted, refused, faulty, pauses,
                   covered>>

\* connection_lost_with_py: the protocol is told once.
ConnectionLost ==
    /\ lost_called' = TRUE /\ closing' = TRUE
    /\ ClearSize

\* The reader queues the peer's EOF.
peer_eof ==
    /\ PeerEof /\ Passes("eof")
    /\ enqueue_pending_read_event("eof")
    /\ UNCHANGED <<state_vars, size_vars, stage_vars, queue_vars, loop_vars,
                   worker_vars, socket_vars, history_vars>>

\* drain_pending_read_events_with_py: one event of the queue.
DrainEvent(event) ==
    /\ loop_pc = "idle" /\ after = "idle"
    /\ events # <<>> /\ Head(events) = event
    /\ events' = Tail(events)
    /\ UNCHANGED <<backpressure, stage_vars, receiver_alive, read_event_state,
                   loop_vars, worker_vars, socket_vars, accepted, refused,
                   dropped, faulty, pauses, covered>>

resume_writing ==
    /\ DrainEvent("resume")
    /\ resumes' = IF lost_called THEN resumes ELSE resumes + 1
    /\ UNCHANGED <<closing, lost_called, size_vars, commands, ended>>

\* Once, whoever reports the loss first.
connection_lost ==
    /\ DrainEvent("lost")
    /\ IF lost_called THEN UNCHANGED <<closing, lost_called, size_vars>>
       ELSE ConnectionLost
    /\ UNCHANGED <<commands, resumes, ended, covered>>

\* eof_received(): the protocol keeps the write half open; or the transport
\* closes behind the queued data; or it raises and only the loss is reported.
eof_received ==
    /\ DrainEvent("eof")
    /\ \/ UNCHANGED <<closing, lost_called, size_vars, commands, ended>>
       \/ /\ SendControl("close") \/ UNCHANGED commands
          /\ IF lost_called THEN UNCHANGED <<closing, lost_called, size_vars>>
             ELSE ConnectionLost
          /\ ended' = IF ended = "open" THEN "peer" ELSE ended
    /\ UNCHANGED resumes

-----------------------------------------------------------------------------
\* The writer worker.

\* The bytes in the writer queue.
Queued == UNION {Range(commands[i].bytes) : i \in 1..Len(commands)}

\* The worker leaves: its receiver goes, and with it what is queued.
Exit ==
    /\ worker_pc' = "exited" /\ receiver_alive' = FALSE
    /\ dropped' = dropped \union Range(batch) \union Queued
    /\ commands' = <<>> /\ batch' = <<>> /\ batch_len' = 0
    /\ pending' = NoCommand

\* The next command: the one set aside, else recv() or try_recv().
recv ==
    /\ worker_pc \in {"recv", "try"} /\ commands # <<>>
    /\ LET c == Head(commands) IN
       IF c.kind = "data"
       THEN /\ batch' = c.bytes /\ batch_len' = Len(c.bytes)
            /\ worker_pc' = "write" /\ UNCHANGED pending
       ELSE /\ pending' = c /\ worker_pc' = "command"
            /\ UNCHANGED <<batch, batch_len>>
    /\ commands' = Tail(commands)
    /\ UNCHANGED <<state_vars, size_vars, stage_vars, receiver_alive, event_vars,
                   loop_vars, socket_vars, history_vars>>

\* write_all_owned: one write; the rest waits for the socket.
worker_write(k) ==
    /\ worker_pc = "write"
    /\ k > 0 /\ Takes(batch, k)
    /\ batch' = Rest(batch, k)
    /\ worker_pc' = IF k = Len(batch) THEN "drained" ELSE "write"
    /\ UNCHANGED <<state_vars, size_vars, stage_vars, queue_vars, event_vars,
                   loop_vars, batch_len, pending, shut, history_vars>>

\* write_all_owned, or shutdown_write for WriteEof, failed: report_writer_io_error.
worker_write_fails ==
    /\ worker_pc = "write" \/ (worker_pc = "command" /\ pending.kind = "eof")
    /\ SocketFails \/ shut # "open"
    /\ faulty' = TRUE
    /\ enqueue_pending_read_event("lost")
    /\ Exit
    /\ UNCHANGED <<state_vars, size_vars, stage_vars, loop_vars, socket_vars,
                   accepted, refused, pauses, resumes, ended, covered>>

\* write_one_stream_buffer: record_write_buffer_drained.
worker_drained ==
    /\ worker_pc = "drained"
    /\ Drain(batch_len)
    /\ worker_pc' = IF Resumes(batch_len) THEN "resume" ELSE "try"
    /\ batch_len' = 0
    /\ UNCHANGED <<state_vars, stage_vars, queue_vars, event_vars, loop_vars,
                   batch, pending, socket_vars, history_vars>>

\* notify_resume_writing off the loop thread: an event.
notify_resume_writing == enqueue_pending_read_event("resume")

worker_resume ==
    /\ worker_pc = "resume"
    /\ notify_resume_writing
    /\ worker_pc' = "try"
    /\ UNCHANGED <<state_vars, size_vars, stage_vars, queue_vars, loop_vars,
                   batch, batch_len, pending, socket_vars, history_vars>>

\* try_recv() found the queue empty.
try_recv_empty ==
    /\ worker_pc = "try" /\ commands = <<>>
    /\ worker_pc' = "empty"
    /\ UNCHANGED <<state_vars, size_vars, stage_vars, queue_vars, event_vars,
                   loop_vars, batch, batch_len, pending, socket_vars,
                   history_vars>>

\* set_write_backpressure_active(false), in the match and again behind it.
clear_backpressure ==
    /\ worker_pc \in {"empty", "clear"}
    /\ backpressure' = FALSE
    /\ worker_pc' = IF worker_pc = "empty" THEN "clear" ELSE "recv"
    /\ UNCHANGED <<closing, lost_called, size_vars, stage_vars, queue_vars,
                   event_vars, loop_vars, batch, batch_len, pending,
                   socket_vars, history_vars>>

\* handle_stream_write_eof.
worker_eof ==
    /\ worker_pc = "command" /\ pending.kind = "eof"
    /\ Shutdown("graceful")
    /\ IF CloseOnEof
       THEN enqueue_pending_read_event("lost") /\ Exit
       ELSE /\ worker_pc' = "recv" /\ pending' = NoCommand
            /\ UNCHANGED <<event_vars, queue_vars, batch, batch_len, dropped>>
    /\ UNCHANGED <<state_vars, size_vars, stage_vars, loop_vars, wire, accepted,
                   refused, faulty, pauses, resumes, ended, covered>>

\* handle_stream_writer_command: Close and Abort.
worker_close ==
    /\ worker_pc = "command" /\ pending.kind \in {"close", "abort"}
    /\ Shutdown(IF pending.kind = "close" THEN "graceful" ELSE "aborted")
    /\ enqueue_pending_read_event("lost")
    /\ Exit
    /\ UNCHANGED <<state_vars, size_vars, stage_vars, loop_vars, wire, accepted,
                   refused, faulty, pauses, resumes, ended, covered>>

\* handle_stream_writer_command: Stop.
worker_stop ==
    /\ worker_pc = "command" /\ pending.kind = "stop"
    /\ Exit
    /\ UNCHANGED <<state_vars, size_vars, stage_vars, event_vars, loop_vars,
                   socket_vars, accepted, refused, faulty, pauses, resumes, ended, covered>>

-----------------------------------------------------------------------------
\* The rest of a call the loop thread has begun, and the items in its queue.
LoopStep ==
    /\ UNCHANGED transport
    /\ \/ stage_direct_write_buffer \/ mark_backpressure \/ record_enqueued
       \/ send_data \/ send_data_fails \/ flush_pending_direct_write
       \/ flush_drained \/ close_writer \/ write_eof_writer
       \/ resume_writing \/ connection_lost \/ eof_received
       \/ \E k \in 0..MaxBytes : direct_write(k) \/ flush_write(k)
       \/ direct_write_fails

WorkerStep ==
    /\ UNCHANGED transport
    /\ \/ recv \/ worker_write_fails \/ worker_drained \/ worker_resume
       \/ try_recv_empty \/ clear_backpressure \/ worker_eof \/ worker_close
       \/ worker_stop
       \/ \E k \in 1..MaxBytes : worker_write(k)

Call ==
    /\ UNCHANGED transport
    /\ \/ \E n \in Lengths : write(n)
       \/ close \/ write_eof \/ abort \/ peer_eof

WriteNext ==
    \/ LoopStep \/ WorkerStep \/ Call
    \/ UNCHANGED transport /\ worker_start_fails

WriteSpec == WriteInit /\ [][WriteNext]_writeVars

\* Both threads run and the peer reads; calls may not come.
WriteFairSpec == WriteSpec /\ WF_writeVars(LoopStep) /\ WF_writeVars(WorkerStep)

-----------------------------------------------------------------------------
\* Properties.

Places ==
    <<Range(wire), Range(staged), Range(hand), Range(batch),
      Queued, refused, dropped>>

\* No byte is queued twice.
QueuedOnce ==
    \A i, j \in 1..Len(commands) :
        IF i = j THEN IsInjective(commands[i].bytes)
        ELSE Range(commands[i].bytes) \intersect Range(commands[j].bytes) = {}

\* Each accepted byte is in one place: none is lost and none is sent twice when
\* a partial write moves between the loop thread, the staging buffer, the queue
\* and the worker (core_write.rs:252-258, 335-343).
BytesConserved ==
    /\ \A b \in 1..accepted :
           Cardinality({i \in 1..Len(Places) : b \in Places[i]}) = 1
    /\ IsInjective(wire) /\ QueuedOnce

InFlight == IF worker_pc \in {"write", "drained"} THEN batch_len ELSE 0
LoopHolds == IF counted THEN Len(hand) + sent ELSE 0

\* get_write_buffer_size() counts exactly the bytes staged, queued, in the
\* worker's hands or in those of a flush, until the connection is lost
\* (core_write.rs:11, "Buffered bytes are tracked").
SizeExact ==
    read_event_state # "lost" /\ ~lost_called =>
        size = Len(staged) + Cardinality(Queued) + InFlight + LoopHolds

\* The bytes accepted, before close() or write_eof() where it was called.
Promised == IF ended \in {"close", "eof"} THEN 1..covered ELSE 1..accepted

\* When close() or write_eof() shuts the socket down, every byte accepted before
\* is on the wire (core_events.rs:250-251, "all close/EOF commands must follow
\* queued data through that worker").
ShutdownFollowsData ==
    shut = "graceful" /\ ~faulty /\ ended \in {"close", "eof"} =>
        Promised \subseteq Range(wire) \union refused

\* Bytes accepted before the end are dropped only by abort() or an error
\* (writer.rs:373-374, "truncates data that was already accepted by asyncio's
\* write contract").
AcceptedBytesKept == dropped \intersect Promised # {} => faulty \/ ended = "abort"

\* AcceptedBytesKept for a connection that its peer did not end, and for a pipe
\* in any case: close() and write_eof() flush what is staged before the worker
\* is told, and no end of the connection drops what is queued to it.
CloseKeepsBytes == (ended = "peer" /\ Direct) \/ AcceptedBytesKept

\* Bytes reach the wire in the order write() accepted them, whether written
\* directly, staged or queued (writer.rs:3-6, the worker "owns the write side of
\* the connection" once a write could not complete inline).
WriteOrder == \A i, j \in 1..Len(wire) : i < j => wire[i] < wire[j]

\* WriteOrder for a pipe, whose worker alone owns the write side from the start:
\* neither the appending of data to the queue's last command nor the resumption
\* of a partial write reorders bytes.
PipeWriteOrder == transport = "pipe" => WriteOrder

\* The protocol sees pause_writing and resume_writing in turn (mod.rs:190-191,
\* "the loop thread drains them and invokes the Python protocol in order").
PauseResumeAlternate == resumes <= pauses /\ pauses <= resumes + 1

\* A paused protocol is owed its resume_writing(), and a transport that was
\* closed or aborted its connection_lost(), which settles both.
WriteOwed == ~lost_called /\ (pauses > resumes \/ ended \in {"close", "abort"})

\* Neither stays owed for ever.
WriteServed == []<>~WriteOwed
=============================================================================
