--------------------------- MODULE StreamProtocols ---------------------------
(***************************************************************************)
(* The two protocols under Python's streams that the transport serves      *)
(* natively, on the loop thread, interleaved between callbacks.            *)
(*                                                                         *)
(* The native protocol and writer of transport/stream/fast.rs: the drain   *)
(* waiters, the client callback's task, the upgrade to TLS                 *)
(* (python/rsloop/_stream_tls.py drives it) and the loss of the            *)
(* connection.  Transports are numbered: 1 is the one the connection       *)
(* started with, 2 the one a TLS upgrade puts in its place, 0 is None.     *)
(*                                                                         *)
(* The generic fast path of transport/stream/protocol.rs: a transport      *)
(* whose protocol is asyncio's StreamReaderProtocol, or carries such a     *)
(* reader, does not call the protocol's methods.  It works on the          *)
(* attributes of the Python objects itself: the reader's buffer, waiter,   *)
(* end-of-file and pause marks, the protocol's closed future and the       *)
(* drains that wait on it.  The coroutines on the other side are asyncio's *)
(* own and are modelled as external.                                       *)
(***************************************************************************)
EXTENDS Integers, FiniteSets, Sequences, SequencesExt

CONSTANT Drainers   \* the coroutines that await writer.drain()

VARIABLES fpTransport, \* protocol.transport
          fpWriter,    \* writer.transport
          fpOpen,      \* the transports that exist and are not closing
          fpMade,      \* the transports that exist
          fpPaused,    \* protocol.paused: pause_writing() without resume_writing()
          fpLost,      \* protocol.connection_lost
          fpExc,       \* the reader holds an exception
          fpClosed,    \* the future wait_closed() returns
          fpWaiters,   \* protocol.drain_waiters
          fpDrain,     \* the state of each drainer's awaitable
          fpTask,      \* the client callback's task
          fpUpgrade    \* the TLS upgrade

fpVars == <<fpTransport, fpWriter, fpOpen, fpMade, fpPaused, fpLost, fpExc, fpClosed,
            fpWaiters, fpDrain, fpTask, fpUpgrade>>
fpConn == <<fpTransport, fpWriter, fpOpen, fpMade, fpTask, fpUpgrade>>
fpFlow == <<fpPaused, fpLost, fpExc, fpClosed, fpWaiters, fpDrain>>

FastProtocolInit ==
    /\ fpTransport = 0 /\ fpWriter = 0 /\ fpOpen = {} /\ fpMade = {}
    /\ fpPaused = FALSE /\ fpLost = FALSE /\ fpExc = FALSE /\ fpClosed = "pending"
    /\ fpWaiters = <<>> /\ fpDrain = [d \in Drainers |-> "idle"]
    /\ fpTask = "none" /\ fpUpgrade = "none"

-----------------------------------------------------------------------------
(* Drain waiters.                                                           *)

\* Every waiter still pending gets the outcome; the list is emptied.
Resolved(outcome) ==
    [d \in Drainers |-> IF Contains(fpWaiters, d) /\ fpDrain[d] = "waiting"
                        THEN outcome ELSE fpDrain[d]]

pause_writing ==
    /\ fpTransport # 0 /\ ~fpPaused /\ fpPaused' = TRUE
    /\ UNCHANGED <<fpConn, fpLost, fpExc, fpClosed, fpWaiters, fpDrain>>

WokenByResume == Resolved("ok")

fast_resume_writing ==
    /\ fpTransport # 0 /\ fpPaused /\ fpPaused' = FALSE
    /\ fpDrain' = WokenByResume /\ fpWaiters' = <<>>
    /\ UNCHANGED <<fpConn, fpLost, fpExc, fpClosed>>

\* build_drain_future(): an error, the ready future, or a waiter in the list.
BuildDrain(d, failed) ==
    CASE failed \/ fpLost ->
           fpDrain' = [fpDrain EXCEPT ![d] = "error"] /\ UNCHANGED fpWaiters
      [] ~failed /\ ~fpLost /\ ~fpPaused ->
           fpDrain' = [fpDrain EXCEPT ![d] = "ok"] /\ UNCHANGED fpWaiters
      [] ~failed /\ ~fpLost /\ fpPaused ->
           fpDrain' = [fpDrain EXCEPT ![d] = "waiting"] /\ fpWaiters' = Append(fpWaiters, d)

\* writer.drain(): a closing transport gives the loop a turn first.
drain(d) ==
    /\ fpWriter # 0 /\ fpDrain[d] \in {"idle", "ok", "error"}
    /\ IF ~fpExc /\ fpWriter \notin fpOpen
       THEN fpDrain' = [fpDrain EXCEPT ![d] = "yielded"] /\ UNCHANGED fpWaiters
       ELSE BuildDrain(d, fpExc)
    /\ UNCHANGED <<fpConn, fpPaused, fpLost, fpExc, fpClosed>>

\* drain_closing(): after the turn, _drain_helper().
fast_drain_helper(d) ==
    /\ fpDrain[d] = "yielded" /\ BuildDrain(d, FALSE)
    /\ UNCHANGED <<fpConn, fpPaused, fpLost, fpExc, fpClosed>>

\* The draining coroutine is cancelled; the future stays listed for a turn.
cancel_drain(d) ==
    /\ fpDrain[d] = "waiting" /\ fpDrain' = [fpDrain EXCEPT ![d] = "cancelled"]
    /\ UNCHANGED <<fpConn, fpPaused, fpLost, fpExc, fpClosed, fpWaiters>>

\* PyDrainWaiterDone takes the cancelled future out of the list.
drain_waiter_done(d) ==
    /\ fpDrain[d] = "cancelled"
    /\ fpDrain' = [fpDrain EXCEPT ![d] = "idle"]
    /\ fpWaiters' = SelectSeq(fpWaiters, LAMBDA o : o # d)
    /\ UNCHANGED <<fpConn, fpPaused, fpLost, fpExc, fpClosed>>

-----------------------------------------------------------------------------
(* The connection.                                                          *)

\* handle_connection_lost(): the reader, closed and every drain() learn of it.
HandleConnectionLost(failed) ==
    /\ fpLost' = TRUE
    /\ fpExc' = (fpExc \/ failed)
    /\ fpClosed' = IF fpClosed # "pending" THEN fpClosed
                   ELSE IF failed THEN "error" ELSE "ok"
    /\ fpDrain' = Resolved(IF failed THEN "error" ELSE "ok") /\ fpWaiters' = <<>>
    /\ fpTransport' = 0
    /\ UNCHANGED fpPaused

\* A transport that is made after the connection was lost is aborted.
RefusesLate == fpLost

\* handle_connection_made(): the client callback, if there is one, runs for the first
\* transport, and a task when it returns a coroutine.
HandleConnectionMade(t) ==
    /\ fpMade' = fpMade \cup {t}
    /\ IF RefusesLate
       THEN UNCHANGED <<fpTransport, fpTask, fpOpen>>
       ELSE /\ fpTransport' = t /\ fpOpen' = fpOpen \cup {t}
            /\ fpTask' \in IF fpTransport = 0 THEN {"running", "none"} ELSE {fpTask}

connection_made ==
    /\ fpMade = {} /\ HandleConnectionMade(1)
    /\ fpWriter' = 1
    /\ UNCHANGED <<fpFlow, fpUpgrade>>

\* The transport in use goes: by itself, or because it was closed.
connection_lost_by(failed) ==
    /\ fpTransport # 0 /\ fpUpgrade # "running"
    /\ HandleConnectionLost(failed)
    /\ fpOpen' = fpOpen \ {fpTransport}
    /\ fpTask' = "none"
    /\ UNCHANGED <<fpWriter, fpMade, fpUpgrade>>

\* writer.close() or transport.close() by the application.
fast_close_writer ==
    /\ fpWriter \in fpOpen /\ fpOpen' = fpOpen \ {fpWriter}
    /\ UNCHANGED <<fpFlow, fpTransport, fpWriter, fpMade, fpTask, fpUpgrade>>

\* PyFastClientDoneCallback closes the transport in use, which may be newer.
ClosedByClient == IF fpTransport = 0 THEN 1 ELSE fpTransport

\* The client callback's task ends; a failed or cancelled one closes.  It is
\* the task that awaits start_tls(), so it does not end during an upgrade.
client_done(failed) ==
    /\ fpTask = "running"
    /\ fpUpgrade \notin {"running", "attached"}
    /\ fpTask' = IF failed THEN "failed" ELSE "done"
    /\ fpOpen' = IF failed THEN fpOpen \ {ClosedByClient} ELSE fpOpen
    /\ UNCHANGED <<fpFlow, fpTransport, fpWriter, fpMade, fpUpgrade>>

-----------------------------------------------------------------------------
(* The upgrade: writer.start_tls() awaits loop.start_tls().                 *)

\* upgrade_stream() retires transport 1 and keeps its socket.
fast_start_tls ==
    /\ fpUpgrade = "none" /\ fpWriter = 1 /\ fpWriter \in fpOpen /\ fpTransport = 1
    /\ fpTask # "failed"
    /\ fpUpgrade' = "running"
    /\ fpOpen' = fpOpen \ {1}
    /\ UNCHANGED <<fpFlow, fpTransport, fpWriter, fpMade, fpTask>>

\* The handshake succeeds: the loop announces transport 2 to the protocol.
\* A late success, after the coroutine gave up, is announced all the same.
upgrade_made ==
    /\ fpUpgrade \in {"running", "abandoned"} /\ HandleConnectionMade(2)
    /\ fpUpgrade' = IF fpUpgrade = "running" THEN "attached" ELSE "late"
    /\ UNCHANGED <<fpFlow, fpWriter>>

\* _replace_transport(): the coroutine resumes and gives the writer, and once
\* more the protocol, the new transport, even one that is already gone again.
replace_transport ==
    /\ fpUpgrade = "attached" /\ fpUpgrade' = "done"
    /\ fpWriter' = 2
    /\ fpTransport' = 2
    /\ UNCHANGED <<fpFlow, fpOpen, fpMade, fpTask>>

\* The handshake fails, or the coroutine is cancelled while it waits: the
\* transport is aborted and the protocol is told the connection is lost.
start_tls_fails(failed) ==
    /\ fpUpgrade \in {"running", "attached"}
    /\ fpUpgrade = "attached" => ~failed
    /\ HandleConnectionLost(failed)
    /\ fpOpen' = fpOpen \ {fpWriter}
    /\ fpUpgrade' = CASE fpUpgrade = "attached" -> "late"
                      [] fpUpgrade = "running" -> IF failed THEN "done" ELSE "abandoned"
    /\ fpTask' = "none"
    /\ UNCHANGED <<fpWriter, fpMade>>

\* _abort_upgrade(): the done callback of an upgrade nobody awaits any more.
abort_upgrade ==
    /\ fpUpgrade = "late" /\ fpUpgrade' = "done"
    /\ fpOpen' = fpOpen \ {2}
    /\ UNCHANGED <<fpFlow, fpTransport, fpWriter, fpMade, fpTask>>

FastProtocolNext ==
    \/ pause_writing \/ fast_resume_writing
    \/ \E d \in Drainers : drain(d) \/ fast_drain_helper(d) \/ cancel_drain(d) \/ drain_waiter_done(d)
    \/ connection_made \/ fast_close_writer
    \/ \E failed \in BOOLEAN : connection_lost_by(failed) \/ client_done(failed)
                               \/ start_tls_fails(failed)
    \/ fast_start_tls \/ upgrade_made \/ replace_transport \/ abort_upgrade

FastProtocolSpec == FastProtocolInit /\ [][FastProtocolNext]_fpVars

-----------------------------------------------------------------------------
(* Properties.                                                              *)

\* A drain() waits only while somebody still owes it an answer: it is listed,
\* writing is paused and the connection is not lost.  It survives neither a
\* resume_writing() nor a connection_lost(), whoever was cancelled before it.
NoDrainStranded ==
    \A d \in Drainers : fpDrain[d] = "waiting" => Contains(fpWaiters, d) /\ fpPaused /\ ~fpLost

\* The list holds each future once, and no future that has been answered.
DrainListExact ==
    /\ IsInjective(fpWaiters)
    /\ \A d \in ToSet(fpWaiters) : fpDrain[d] \in {"waiting", "cancelled"}

\* A lost connection holds no open transport, however late its TLS upgrade
\* completes, and nothing stays open once that upgrade is settled.
NoTransportOutlivesLoss ==
    fpLost => /\ fpTransport \notin fpOpen
              /\ fpUpgrade \in {"none", "done"} => fpOpen = {}

\* A client callback that failed has closed the transport then in use.
ClientFailureCloses == fpTask = "failed" => fpTransport \notin fpOpen

FastProtocolSafe ==
    NoDrainStranded /\ DrainListExact /\ NoTransportOutlivesLoss /\ ClientFailureCloses

-----------------------------------------------------------------------------
(* asyncio's StreamReaderProtocol. *)
CONSTANTS ArLimit,      \* the reader's limit
          ArChunk,      \* largest chunk fed
          ArBytes,      \* bound: bytes the peer sends
          ArDrainers    \* coroutines that may drain

ASSUME AsyncioReaderAssumption == ArLimit \in Nat \ {0} /\ ArChunk \in Nat \ {0} /\ ArBytes \in Nat

VARIABLES arReader,     \* StreamReader: [buf, eof, exc, waiter, paused, linked]
          arProto,      \* StreamReaderProtocol: [lost, paused, closed, linked]
          arPaused,     \* the transport has stopped reading
          arCoro,       \* the reading coroutine: [pc, need, fut]
          arDrain,      \* arDrain[d]: "idle", "waiting", "ok" or "failed"
          arFed,        \* bytes fed
          arTaken       \* bytes the coroutine has taken

readerVars == <<arReader, arProto, arPaused, arCoro, arDrain, arFed, arTaken>>

AsyncioReaderInit ==
  /\ arReader = [buf |-> 0, eof |-> FALSE, exc |-> FALSE, waiter |-> FALSE, paused |-> FALSE, linked |-> FALSE]
  /\ arProto = [lost |-> FALSE, paused |-> FALSE, closed |-> "pending", linked |-> FALSE]
  /\ arPaused = FALSE
  /\ arCoro = [pc |-> "idle", need |-> 0, fut |-> "none"]
  /\ arDrain = [d \in ArDrainers |-> "idle"]
  /\ arFed = 0 /\ arTaken = 0

-----------------------------------------------------------------------------
(* protocol.rs, the Generic variant *)

\* The transport is given to the reader and to the protocol, here or, with a
\* client_connected_cb, by the protocol's own connection_made.
connection_made_generic ==
  /\ ~arReader.linked /\ ~arProto.lost
  /\ arReader' = [arReader EXCEPT !.linked = TRUE]
  /\ arProto' = [arProto EXCEPT !.linked = TRUE]
  /\ UNCHANGED <<arPaused, arCoro, arDrain, arFed, arTaken>>

\* The waiter is taken off the reader and, unless it is cancelled, answered.
WakeReader(how) ==
  arCoro' = IF arReader.waiter /\ arCoro.fut = "pending" THEN [arCoro EXCEPT !.fut = how] ELSE arCoro

OverMark(end) == ~arReader.paused /\ end > 2 * ArLimit

\* feed_data: bytes to the buffer, then the waiter, then the high mark; what was
\* read before a pause is fed all the same.  (The
\* branch for a transport that cannot pause is not taken: this one can.)
feed_data(n) ==
  /\ arReader.linked /\ ~arProto.lost /\ ~arReader.eof /\ arFed + n <= ArBytes
  /\ LET end == arReader.buf + n IN
       /\ arReader' = [arReader EXCEPT !.buf = end, !.waiter = FALSE, !.paused = @ \/ OverMark(end)]
       /\ arPaused' = (arPaused \/ OverMark(end))
  /\ WakeReader("result")
  /\ arFed' = arFed + n
  /\ UNCHANGED <<arProto, arDrain, arTaken>>

EofWakes == WakeReader("result")
FeedEof == arReader' = [arReader EXCEPT !.eof = TRUE, !.waiter = FALSE] /\ EofWakes

\* eof_received: the transport stays open for writing.
eof_received_generic ==
  /\ arReader.linked /\ ~arProto.lost /\ ~arReader.eof
  /\ FeedEof
  /\ UNCHANGED <<arProto, arPaused, arDrain, arFed, arTaken>>

\* With an error: it is kept for the next read, and given to the waiter, the
\* closed future and every drain; without: an end of file and plain results.
connection_lost_generic(failed) ==
  /\ arReader.linked /\ ~arProto.lost
  /\ IF failed THEN /\ arReader' = [arReader EXCEPT !.exc = TRUE, !.waiter = FALSE]
                    /\ WakeReader("exception")
               ELSE FeedEof
  /\ arProto' = [arProto EXCEPT !.lost = TRUE, !.linked = FALSE,
                   !.closed = IF @ # "pending" THEN @ ELSE IF failed THEN "exception" ELSE "result"]
  /\ arDrain' = [d \in ArDrainers |->
                   IF arProto.paused /\ arDrain[d] = "waiting"
                     THEN IF failed THEN "failed" ELSE "ok" ELSE arDrain[d]]
  /\ UNCHANGED <<arPaused, arFed, arTaken>>

-----------------------------------------------------------------------------
(* asyncio.StreamReader and FlowControlMixin (external) *)

\* read(n) and readexactly(n): what is missing is waited for; the wait itself
\* lets the transport read again.
reader_wants(n) ==
  /\ arCoro.pc = "idle"
  /\ arCoro' = [pc |-> "reading", need |-> n, fut |-> "none"]
  /\ UNCHANGED <<arReader, arProto, arPaused, arDrain, arFed, arTaken>>
wait_for_data ==
  /\ arCoro.pc = "reading" /\ ~arReader.exc /\ ~arReader.eof /\ arReader.buf < arCoro.need
  /\ arReader' = [arReader EXCEPT !.waiter = TRUE, !.paused = FALSE]
  /\ arPaused' = (arPaused /\ ~arReader.paused)
  /\ arCoro' = [arCoro EXCEPT !.pc = "waiting", !.fut = "pending"]
  /\ UNCHANGED <<arProto, arDrain, arFed, arTaken>>
\* The await ends, in whichever way, and `finally` clears the waiter.
wait_ends ==
  /\ arCoro.pc = "waiting" /\ arCoro.fut # "pending"
  /\ arCoro' = [arCoro EXCEPT !.pc = IF arCoro.fut = "result" THEN "reading" ELSE "idle", !.fut = "none"]
  /\ arReader' = [arReader EXCEPT !.waiter = FALSE]
  /\ UNCHANGED <<arProto, arPaused, arDrain, arFed, arTaken>>
cancel_reader ==
  /\ arCoro.fut = "pending"
  /\ arCoro' = [arCoro EXCEPT !.fut = "cancelled"]
  /\ UNCHANGED <<arReader, arProto, arPaused, arDrain, arFed, arTaken>>
\* Enough data, or no more to come: take it and perhaps resume.
reader_takes ==
  /\ arCoro.pc = "reading" /\ (arReader.exc \/ arReader.eof \/ arReader.buf >= arCoro.need)
  /\ LET n == IF arReader.exc THEN 0 ELSE IF arReader.buf < arCoro.need THEN arReader.buf ELSE arCoro.need
         back == arReader.paused /\ ~arReader.exc /\ arReader.buf - n <= ArLimit
     IN /\ arReader' = [arReader EXCEPT !.buf = @ - n, !.paused = @ /\ ~back]
        /\ arPaused' = (arPaused /\ ~back)
        /\ arTaken' = arTaken + n
  /\ arCoro' = [arCoro EXCEPT !.pc = "idle"]
  /\ UNCHANGED <<arProto, arDrain, arFed>>

\* The transport's write side crosses its marks.
pause_writing_generic ==
  /\ arReader.linked /\ ~arProto.lost /\ ~arProto.paused
  /\ arProto' = [arProto EXCEPT !.paused = TRUE]
  /\ UNCHANGED <<arReader, arPaused, arCoro, arDrain, arFed, arTaken>>
resume_writing_generic ==
  /\ arProto.paused /\ ~arProto.lost
  /\ arProto' = [arProto EXCEPT !.paused = FALSE]
  /\ arDrain' = [d \in ArDrainers |-> IF arDrain[d] = "waiting" THEN "ok" ELSE arDrain[d]]
  /\ UNCHANGED <<arReader, arPaused, arCoro, arFed, arTaken>>
drain_helper(d) ==
  /\ arDrain[d] # "waiting"
  /\ arDrain' = [arDrain EXCEPT ![d] = IF arProto.lost THEN "failed" ELSE IF arProto.paused THEN "waiting" ELSE "ok"]
  /\ UNCHANGED <<arReader, arProto, arPaused, arCoro, arFed, arTaken>>

AsyncioReaderNext ==
  \/ connection_made_generic \/ eof_received_generic
  \/ \E n \in 1..ArChunk : feed_data(n)
  \/ \E failed \in BOOLEAN : connection_lost_generic(failed)
  \/ \E n \in 1..(ArBytes + 1) : reader_wants(n)
  \/ wait_for_data \/ wait_ends \/ cancel_reader \/ reader_takes
  \/ pause_writing_generic \/ resume_writing_generic
  \/ \E d \in ArDrainers : drain_helper(d)

AsyncioReaderSpec == AsyncioReaderInit /\ [][AsyncioReaderNext]_readerVars

-----------------------------------------------------------------------------
AsyncioReaderTypeOK ==
  /\ arReader.buf \in 0..ArBytes /\ arCoro.fut \in {"none", "pending", "result", "exception", "cancelled"}
  /\ arProto.closed \in {"pending", "result", "exception"}

\* A coroutine that waits is the one the reader knows of, and nothing it
\* could be given has come in since: no byte it needs, no end, no error, and
\* the transport is reading.
NoReadStranded ==
  arCoro.fut = "pending" =>
    /\ arReader.waiter /\ ~arReader.eof /\ ~arReader.exc
    /\ arReader.buf < arCoro.need /\ ~arPaused

\* The reader's pause mark and the transport's state agree at every moment:
\* neither side waits for the other to resume.
PauseMarksAgree == arReader.paused <=> arPaused

\* No byte is dropped or counted twice between the transport and the coroutine.
ReaderBytesKept == arFed = arTaken + arReader.buf

\* Losing the connection settles everything that waits on it, once.
LostSettlesAll ==
  /\ arProto.lost <=> arProto.closed # "pending"
  /\ arProto.lost => \A d \in ArDrainers : arDrain[d] # "waiting"
  /\ \A d \in ArDrainers : arDrain[d] = "waiting" => arProto.paused

\* What the generic fast path promises asyncio's streams.
AsyncioReaderSafe ==
  AsyncioReaderTypeOK /\ NoReadStranded /\ PauseMarksAgree /\ ReaderBytesKept /\ LostSettlesAll

=============================================================================
