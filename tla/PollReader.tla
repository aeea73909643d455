----------------------------- MODULE PollReader -----------------------------
(***************************************************************************)
(* The Windows server reader's change from overlapped receives to          *)
(* readiness polling (transport/stream: reader_task.rs, core_events.rs,    *)
(* core_write.rs).  The reader task runs on the dispatcher's thread and    *)
(* starts with a blocking socket; a large write or start_tls on the loop   *)
(* thread asks it to rebind, cancels the receive it may be waiting in, and *)
(* stages its data, or waits, until the reader says it is ready.           *)
(***************************************************************************)
EXTENDS Naturals

CONSTANT PrWrites       \* bound: writes

ASSUME PollReaderAssumption == PrWrites \in Nat

VARIABLES prPc,         \* the reader task
          prBlocking,   \* the shared socket is in blocking mode
          prReq,        \* poll_reader_requested
          prReady,      \* poll_reader_ready
          prSched,      \* direct_write_scheduled
          prStaged,     \* writes in pending_direct_write
          prCmds,       \* StreamWrite commands on their way
          prAborted,    \* CancelIoEx has met the outstanding receive
          prMissed,     \* ... or came before it: the request is not seen until it ends
          prPaused,     \* reading is paused
          prEof,        \* the peer ended its side while the reader was in completion mode
          prTls,        \* start_tls: "none", "waiting", "reclaimed" or "timedout"
          prLost,       \* a ConnectionLost event is queued
          prClosing,    \* the transport closes
          prDone,       \* history: writes done
          prParked      \* history: a large write went through a blocking socket

pollVars == <<prPc, prBlocking, prReq, prReady, prSched, prStaged, prCmds, prAborted,
              prMissed, prPaused, prEof, prTls, prLost, prClosing, prDone, prParked>>
\* What the reader task leaves alone, and what the loop thread does.
loopSide == <<prSched, prStaged, prPaused, prTls, prClosing, prDone, prParked>>
readerSide == <<prPc, prBlocking, prReady, prEof, prLost>>

PollReaderInit ==
  /\ prPc = "top" /\ prBlocking = TRUE /\ prReq = FALSE /\ prReady = FALSE
  /\ prSched = FALSE /\ prStaged = 0 /\ prCmds = 0 /\ prAborted = FALSE /\ prMissed = FALSE
  /\ prPaused = FALSE /\ prEof = FALSE /\ prTls = "none"
  /\ prLost = FALSE /\ prClosing = FALSE /\ prDone = 0 /\ prParked = FALSE

-----------------------------------------------------------------------------
(* run_tcp_socket_reader_task, server side *)

\* wait_until_async_readable, then: closing ends the task, and a request is honoured
\* before the next receive ...
reader_checks ==
  /\ prPc = "top" /\ (prClosing \/ ~prPaused)
  /\ prPc' = IF prClosing THEN "ended" ELSE IF prReq THEN "rebinding" ELSE "armed"
  /\ UNCHANGED <<prBlocking, prReq, prReady, prCmds, prAborted, prMissed, prEof, prLost, loopSide>>
\* ... which is posted in a step of its own.
reader_receives ==
  /\ prPc = "armed" /\ prPc' = "recv" /\ prAborted' = FALSE /\ prMissed' = prReq
  /\ UNCHANGED <<prBlocking, prReq, prReady, prCmds, prEof, prLost, loopSide>>

\* Data: a full buffer or a tiny command asks for the rebind by itself.
recv_data(trigger) ==
  /\ prPc = "recv" /\ ~prAborted
  /\ prPc' = IF trigger THEN "rebinding" ELSE "top"
  /\ prReq' = (prReq \/ trigger)
  /\ UNCHANGED <<prBlocking, prReady, prCmds, prAborted, prMissed, prEof, prLost, loopSide>>
\* The peer's end: mark_poll_reader_ready(false) when a request stands.
recv_eof ==
  /\ prPc = "recv" /\ prPc' = "ended" /\ prReady' = (prReady \/ prReq) /\ prEof' = TRUE
  /\ UNCHANGED <<prBlocking, prReq, prCmds, prAborted, prMissed, prLost, loopSide>>
\* ERROR_OPERATION_ABORTED while a request stands.
recv_aborted ==
  /\ prPc = "recv" /\ prAborted /\ prReq /\ prPc' = "rebinding"
  /\ UNCHANGED <<prBlocking, prReq, prReady, prCmds, prAborted, prMissed, prEof, prLost, loopSide>>
\* Any other error, or a failed rebind: ready, so that nobody waits, and lost.
ReaderFails ==
  /\ prPc' = "ended" /\ prReady' = TRUE /\ prLost' = TRUE
  /\ UNCHANGED <<prBlocking, prReq, prCmds, prAborted, prMissed, prEof, loopSide>>
recv_fails == prPc = "recv" /\ ReaderFails

\* into_poll makes the socket nonblocking; then the flag is set.
reader_into_poll ==
  /\ prPc = "rebinding"
  /\ \/ /\ prPc' = "marked" /\ prBlocking' = FALSE /\ prReady' = TRUE
        /\ UNCHANGED <<prReq, prCmds, prAborted, prMissed, prEof, prLost, loopSide>>
     \/ ReaderFails

\* Mutant: a write staged during the change is not sent for again.
Resubmits_Never == FALSE
Resubmits == prSched
\* mark_poll_reader_ready(true), after the flag.
mark_poll_reader_ready ==
  /\ prPc = "marked" /\ prPc' = "polling"
  /\ prCmds' = IF Resubmits THEN prCmds + 1 ELSE prCmds
  /\ UNCHANGED <<prBlocking, prReq, prReady, prAborted, prMissed, prEof, prLost, loopSide>>

\* run_windows_poll_tcp_reader ends by itself or with an error.
poll_reader_ends(failed) ==
  /\ prPc = "polling" /\ prPc' = "ended" /\ prLost' = (prLost \/ failed)
  /\ UNCHANGED <<prBlocking, prReq, prReady, prCmds, prAborted, prMissed, prEof, loopSide>>

-----------------------------------------------------------------------------
(* The loop thread, which stands still while start_tls waits. *)
OnLoop == prTls # "waiting"

\* request_poll_reader: the first request cancels the outstanding receive, if there is one.
request_poll_reader ==
  prReq' = TRUE /\ prAborted' = (prAborted \/ (~prReq /\ prPc = "recv")) /\ UNCHANGED prMissed

\* stage_direct_write_buffer and finish_staged_write.
StageWrite ==
  /\ prStaged' = prStaged + 1 /\ prSched' = TRUE
  /\ prCmds' = IF prSched THEN prCmds ELSE prCmds + 1
  /\ UNCHANGED <<prDone, prParked>>
WriteNow(large) ==
  /\ prDone' = prDone + 1 /\ prParked' = (prParked \/ (large /\ prBlocking))
  /\ UNCHANGED <<prStaged, prSched, prCmds>>

\* try_write_bytes_with_status and try_write_buffer.
write_large ==
  /\ OnLoop /\ ~prClosing /\ prTls = "none" /\ prStaged + prDone < PrWrites
  /\ request_poll_reader
  /\ IF ~prReady \/ prSched THEN StageWrite ELSE WriteNow(TRUE)
  /\ UNCHANGED <<readerSide, prPaused, prTls, prClosing>>
write_small ==
  /\ OnLoop /\ ~prClosing /\ prTls = "none" /\ prStaged + prDone < PrWrites
  /\ IF prSched THEN StageWrite ELSE WriteNow(FALSE)
  /\ UNCHANGED <<readerSide, prReq, prAborted, prMissed, prPaused, prTls, prClosing>>

\* The StreamWrite command.
flush_staged ==
  /\ OnLoop /\ prCmds > 0 /\ prCmds' = prCmds - 1
  /\ IF prReq /\ ~prReady THEN UNCHANGED <<prSched, prStaged, prDone, prParked>>
     ELSE /\ prSched' = FALSE /\ prStaged' = 0 /\ prDone' = prDone + prStaged
          /\ prParked' = (prParked \/ (prReq /\ prStaged > 0 /\ prBlocking /\ ~prClosing))
  /\ UNCHANGED <<readerSide, prReq, prAborted, prMissed, prPaused, prTls, prClosing>>

\* pause_reading and resume_reading: no request wakes a paused reader.
pause_or_resume_reading ==
  /\ OnLoop /\ ~prClosing /\ prPaused' = ~prPaused
  /\ UNCHANGED <<readerSide, prReq, prSched, prStaged, prCmds, prAborted, prMissed, prTls,
                 prClosing, prDone, prParked>>

\* start_tls reclaims the socket: wait_for_poll_reader, up to five seconds.
start_tls_requests ==
  /\ OnLoop /\ prTls = "none" /\ ~prClosing
  /\ request_poll_reader /\ prTls' = "waiting"
  /\ UNCHANGED <<readerSide, prSched, prStaged, prCmds, prPaused, prClosing, prDone, prParked>>
wait_for_poll_reader ==
  /\ prTls = "waiting"
  /\ prTls' = IF prReady THEN "reclaimed" ELSE "timedout"
  /\ UNCHANGED <<readerSide, prReq, prSched, prStaged, prCmds, prAborted, prMissed, prPaused,
                 prClosing, prDone, prParked>>

\* close hands what is staged to the writer thread; a lost connection drops it.
poll_close_transport ==
  /\ OnLoop /\ ~prClosing /\ prClosing' = TRUE
  /\ prSched' = FALSE /\ prStaged' = 0 /\ prDone' = IF prLost THEN prDone ELSE prDone + prStaged
  /\ UNCHANGED <<readerSide, prReq, prCmds, prAborted, prMissed, prPaused, prTls, prParked>>

ReaderTask ==
  \/ reader_checks \/ reader_receives \/ recv_eof \/ recv_aborted \/ recv_fails \/ reader_into_poll
  \/ mark_poll_reader_ready
  \/ \E b \in BOOLEAN : recv_data(b) \/ poll_reader_ends(b)
PollReaderNext ==
  \/ ReaderTask
  \/ write_large \/ write_small \/ flush_staged \/ pause_or_resume_reading
  \/ start_tls_requests \/ wait_for_poll_reader \/ poll_close_transport

PollReaderSpec == PollReaderInit /\ [][PollReaderNext]_pollVars

-----------------------------------------------------------------------------
PollReaderTypeOK ==
  /\ prPc \in {"top", "armed", "recv", "rebinding", "marked", "polling", "ended"}
  /\ prTls \in {"none", "waiting", "reclaimed", "timedout"} /\ prCmds \in Nat

\* Writes staged "while any transition completes" (core_write.rs) are on
\* their way: a command will flush them, the reader is about to look at the
\* request and to send one, or the connection is known to be lost.  Three
\* writes wait for somebody else: one whose request came between the reader's
\* check and its receive for the peer's next bytes, one behind a paused reader
\* for resume_reading, and one after the peer's end for a close (README).
StagedHasFlusher ==
  prStaged > 0 /\ ~prLost /\ ~prEof =>
    \/ prCmds > 0
    \/ prPc \in {"top", "armed", "rebinding", "marked"}
    \/ prPc = "recv" /\ (prAborted \/ prMissed)

\* "Never write synchronously through that shared handle on the loop thread"
\* (core_write.rs): a large write finds the socket nonblocking, unless the
\* connection is already lost or the peer's end left the reader's receive
\* blocking.
LargeWritesNonblocking == prParked => prLost \/ prEof

\* start_tls takes the socket over only when no overlapped receive can be
\* outstanding on it.
ReclaimAfterReceive == prTls = "reclaimed" => prPc \notin {"top", "armed", "recv", "rebinding"}

\* What the change of mode promises the writer.
PollReaderSafe == PollReaderTypeOK /\ StagedHasFlusher /\ LargeWritesNonblocking /\ ReclaimAfterReceive
=============================================================================
