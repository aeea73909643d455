------------------------------ MODULE Datagram ------------------------------
(***************************************************************************)
(* The datagram transport of the Python layer (_loop_compat.py): its read  *)
(* and flush tasks, the write buffer with its marks, close and abort.  All *)
(* of it runs on the loop's thread; tasks interleave where they await, and *)
(* the protocol's callbacks may call the transport back.  Every datagram   *)
(* has length one.                                                         *)
(***************************************************************************)
EXTENDS Integers, Sequences, SequencesExt

CONSTANTS
    SendBound,      \* calls of sendto
    ArriveBound,    \* datagrams that arrive
    HighWater, LowWater

ASSUME DatagramAssumption ==
    {SendBound, ArriveBound, HighWater, LowWater} \subseteq Nat /\ LowWater <= HighWater

VARIABLES
    dbuf,           \* _buffer: the numbers of the datagrams
    dpaused,        \* _protocol_paused
    dclosing,       \* _closing
    connLost,       \* _conn_lost
    writerTask,     \* _writer_task: "none", or "start", "run", "blocked", "cancelled", "dead"
    readerTask,     \* _reader_task: "start", "waiting", "cancelled", "done"
    lostSoon,       \* _call_connection_lost scheduled by close
    lostOnDone,     \* ... or by the reader's end
    made,           \* connection_made was called
    inbox, arrived, \* datagrams in the socket, and all that came
    sentTo,         \* calls of sendto
    wire, dropped,  \* what was sent, and what an error or abort lost
    closedAt,       \* sendto calls before close
    errorSince,     \* a queued datagram failed since the protocol was paused
    aborted,        \* abort was called
    flushRaised     \* a callback of the protocol raised in the flush task

datagramVars == <<dbuf, dpaused, dclosing, connLost, writerTask, readerTask, lostSoon,
                  lostOnDone, made, inbox, arrived, sentTo, wire, dropped, closedAt, errorSince,
                  aborted, flushRaised>>

\* __init__: the reader's task is created before connection_made is scheduled.
DatagramInit ==
    /\ dbuf = <<>> /\ dpaused = FALSE /\ dclosing = FALSE /\ connLost = 0
    /\ writerTask = "none" /\ readerTask = "start" /\ lostSoon = FALSE /\ lostOnDone = FALSE
    /\ made = FALSE /\ inbox = 0 /\ arrived = 0 /\ sentTo = 0 /\ wire = <<>> /\ dropped = {}
    /\ closedAt = SendBound /\ errorSince = FALSE /\ aborted = FALSE /\ flushRaised = FALSE

datagram_made ==
    /\ ~made /\ readerTask # "start" /\ made' = TRUE
    /\ UNCHANGED <<dbuf, dpaused, dclosing, connLost, writerTask, readerTask, lostSoon, lostOnDone,
                   inbox, arrived, sentTo, wire, dropped, closedAt, errorSince, aborted, flushRaised>>

(* -------------------------------- writing ------------------------------- *)

PausedAfter(size) == dpaused \/ size > HighWater
PausedStill(size) == dpaused /\ size > LowWater

\* sendto: straight to the socket while nothing is queued.
SendsDirectly == dbuf = <<>>

\* The program has the transport once connection_made was called.  A task that is not gone
\* from _writer_task, a cancelled one included, keeps a new one from being made.
sendto ==
    /\ made /\ sentTo < SendBound /\ sentTo' = sentTo + 1
    /\ \/ \* sent
          /\ SendsDirectly /\ connLost = 0 /\ wire' = Append(wire, sentTo + 1)
          /\ UNCHANGED <<dbuf, dpaused, writerTask, dropped, errorSince>>
       \/ \* error_received
          /\ SendsDirectly /\ dropped' = dropped \cup {sentTo + 1}
          /\ UNCHANGED <<dbuf, dpaused, writerTask, wire, errorSince>>
       \/ \* would block, or others are queued
          /\ dbuf # <<>> \/ connLost = 0
          /\ writerTask' = IF SendsDirectly /\ writerTask = "none" THEN "start" ELSE writerTask
          /\ dbuf' = Append(dbuf, sentTo + 1)
          /\ dpaused' = PausedAfter(Len(dbuf) + 1)
          /\ errorSince' = (errorSince /\ dpaused)
          /\ UNCHANGED <<wire, dropped>>
    /\ UNCHANGED <<dclosing, connLost, readerTask, lostSoon, lostOnDone, made, inbox, arrived,
                   closedAt, aborted, flushRaised>>

\* _call_connection_lost: once, and not before the reader has ended.
CallConnectionLost ==
    IF connLost > 0 THEN UNCHANGED <<connLost, lostOnDone>>
    ELSE IF readerTask # "done" THEN lostOnDone' = TRUE /\ UNCHANGED connLost
    ELSE connLost' = 1 /\ UNCHANGED lostOnDone

\* The finally block of _flush_write_buffer, with what the queue then is: a transport closed
\* meanwhile reports the loss once nothing is queued.
FlushReportsLost(queue) == dclosing /\ queue = <<>>
Finally(queue) ==
    /\ writerTask' = "none"
    /\ IF FlushReportsLost(queue) THEN CallConnectionLost ELSE UNCHANGED <<connLost, lostOnDone>>

\* A callback of the protocol returns, or its exception ends the flush task.
FlushCallback ==
    \/ writerTask' = "run" /\ UNCHANGED <<connLost, lostOnDone, flushRaised>>
    \/ Finally(Tail(dbuf)) /\ flushRaised' = TRUE

\* _flush_write_buffer: one datagram; an error drops it without a look at the marks.
flush_one ==
    /\ writerTask \in {"start", "run"} /\ dbuf # <<>>
    /\ \/ /\ connLost = 0 /\ wire' = Append(wire, Head(dbuf)) /\ dbuf' = Tail(dbuf)
          /\ dpaused' = PausedStill(Len(dbuf) - 1)
          /\ IF dpaused' = dpaused
             THEN writerTask' = "run" /\ UNCHANGED <<connLost, lostOnDone, flushRaised>>
             ELSE FlushCallback
          /\ UNCHANGED <<dropped, errorSince>>
       \/ /\ dropped' = dropped \cup {Head(dbuf)} /\ dbuf' = Tail(dbuf) /\ FlushCallback
          /\ errorSince' = TRUE /\ UNCHANGED <<dpaused, wire>>
       \/ /\ connLost = 0 /\ writerTask' = "blocked"
          /\ UNCHANGED <<dbuf, dpaused, wire, dropped, errorSince, connLost, lostOnDone, flushRaised>>
    /\ UNCHANGED <<dclosing, readerTask, lostSoon, made, inbox, arrived, sentTo, closedAt, aborted>>

socket_writable ==
    /\ writerTask = "blocked" /\ writerTask' = "run"
    /\ UNCHANGED <<dbuf, dpaused, dclosing, connLost, readerTask, lostSoon, lostOnDone, made, inbox,
                   arrived, sentTo, wire, dropped, closedAt, errorSince, aborted, flushRaised>>

\* The loop over the queue is done, or the wait for the socket was cancelled.
flush_ends ==
    /\ \/ writerTask \in {"start", "run"} /\ dbuf = <<>>
       \/ writerTask = "cancelled"
    /\ Finally(dbuf)
    /\ UNCHANGED <<dbuf, dpaused, dclosing, readerTask, lostSoon, made, inbox, arrived, sentTo,
                   wire, dropped, closedAt, errorSince, aborted, flushRaised>>

(* -------------------------------- reading ------------------------------- *)

datagram_arrives ==
    /\ arrived < ArriveBound /\ arrived' = arrived + 1 /\ inbox' = inbox + 1
    /\ UNCHANGED <<dbuf, dpaused, dclosing, connLost, writerTask, readerTask, lostSoon, lostOnDone,
                   made, sentTo, wire, dropped, closedAt, errorSince, aborted, flushRaised>>

\* _read_loop: one datagram_received, or the wait for the next.  A callback that raises ends
\* the task; an error of the socket is reported and the loop goes on.
read_loop ==
    /\ readerTask \in {"start", "waiting"}
    /\ \/ inbox > 0 /\ inbox' = inbox - 1 /\ readerTask' \in {"waiting", "done"}
       \/ readerTask = "start" /\ inbox = 0 /\ UNCHANGED inbox /\ readerTask' = "waiting"
       \/ UNCHANGED inbox /\ readerTask' = "done"
    /\ UNCHANGED <<dbuf, dpaused, dclosing, connLost, writerTask, lostSoon, lostOnDone, made,
                   arrived, sentTo, wire, dropped, closedAt, errorSince, aborted, flushRaised>>

\* The cancelled task ends; its callback was added by _call_connection_lost.
reader_ends ==
    /\ readerTask = "cancelled" /\ readerTask' = "done"
    /\ lostSoon' = (lostSoon \/ lostOnDone) /\ lostOnDone' = FALSE
    /\ UNCHANGED <<dbuf, dpaused, dclosing, connLost, writerTask, made, inbox, arrived, sentTo,
                   wire, dropped, closedAt, errorSince, aborted, flushRaised>>

(* -------------------------------- closing ------------------------------- *)

ReaderCancelled == IF readerTask = "done" THEN "done" ELSE "cancelled"

\* close: a queue that is not empty is left to the flush task.
CloseSchedulesLost == dbuf = <<>>

close_datagram ==
    /\ made /\ ~dclosing /\ dclosing' = TRUE /\ readerTask' = ReaderCancelled
    /\ lostSoon' = (lostSoon \/ CloseSchedulesLost) /\ closedAt' = sentTo
    /\ UNCHANGED <<dbuf, dpaused, connLost, writerTask, lostOnDone, made, inbox, arrived, sentTo,
                   wire, dropped, errorSince, aborted, flushRaised>>

\* The callback that close, or the reader's end, scheduled.
datagram_lost ==
    /\ lostSoon /\ lostSoon' = FALSE /\ CallConnectionLost
    /\ UNCHANGED <<dbuf, dpaused, dclosing, writerTask, readerTask, made, inbox, arrived, sentTo,
                   wire, dropped, closedAt, errorSince, aborted, flushRaised>>

\* A task cancelled before its first step never reaches its finally block, so it stays in
\* _writer_task; one that has begun ends with it.
WriterCancelled ==
    CASE writerTask = "start" -> "dead"
      [] writerTask \in {"run", "blocked"} -> "cancelled"
      [] OTHER -> writerTask

\* abort, _force_close: what is queued is dropped, both tasks are cancelled.
abort_datagram ==
    /\ connLost = 0 /\ made /\ dclosing' = TRUE /\ readerTask' = ReaderCancelled
    /\ dropped' = dropped \cup Range(dbuf) /\ dbuf' = <<>> /\ writerTask' = WriterCancelled
    /\ CallConnectionLost
    /\ closedAt' = IF dclosing THEN closedAt ELSE sentTo
    /\ errorSince' = TRUE /\ aborted' = TRUE
    /\ UNCHANGED <<dpaused, lostSoon, made, inbox, arrived, sentTo, wire, flushRaised>>

FlushTask == flush_one \/ flush_ends
DatagramNext ==
    \/ datagram_made \/ sendto \/ FlushTask \/ socket_writable \/ datagram_arrives \/ read_loop
    \/ reader_ends \/ close_datagram \/ datagram_lost \/ abort_datagram

\* Datagrams leave in the order of the calls, and each one is sent, queued or lost, never
\* two of these.
WireInOrder ==
    /\ \A i, j \in 1..Len(wire) : i < j => wire[i] < wire[j]
    /\ Range(wire) \cup Range(dbuf) \cup dropped = 1..sentTo
    /\ Range(wire) \cap (Range(dbuf) \cup dropped) = {} /\ Range(dbuf) \cap dropped = {}

\* A queue has a task to empty it, until abort() cancels the task or a callback of the
\* protocol that raises ends it.
QueueHasWriter ==
    dbuf # <<>> => writerTask \in {"start", "run", "blocked"} \/ aborted \/ flushRaised

\* The protocol is paused above the high mark, and stays so at the low mark only when the
\* datagram that would have brought the size there was lost to an error or to abort().
PauseFollowsMarks ==
    /\ Len(dbuf) > HighWater => dpaused
    /\ dpaused /\ Len(dbuf) <= LowWater => errorSince

\* connection_lost comes after connection_made and after the reader's end, and close keeps
\* what was accepted before it: all of that was sent or lost to an error by then.
LostIsLast ==
    connLost = 1 => /\ made /\ readerTask = "done"
                    /\ \A k \in 1..closedAt : k \notin Range(dbuf)

DatagramSafe == WireInOrder /\ QueueHasWriter /\ PauseFollowsMarks /\ LostIsLast

\* A transport that was closed reports connection_lost, unless its flush task ended in an
\* exception and left a queue that nobody empties; abort() reports it even then.
DatagramOwed == dclosing /\ connLost # 1 /\ (aborted \/ ~flushRaised)
=============================================================================
