----------------------------- MODULE TlsSession -----------------------------
(***************************************************************************)
(* One TLS connection: the blocking handshake, then a reader and a writer  *)
(* thread that share the rustls session and its socket under one lock      *)
(* (transport/stream/tls_session.rs, reader.rs, writer.rs).  The session   *)
(* itself (rustls) and the peer are external: records arrive in order, a   *)
(* read may bring several, close_notify tells an end from a truncation.    *)
(***************************************************************************)
EXTENDS Integers, Sequences, SequencesExt

CONSTANTS
    PeerSends,      \* the peer sends up to this many application records
    Writes,         \* number of write commands queued for the writer
    SocketRoom,     \* records the kernel buffers in each direction
    SessionRoom,    \* records of plaintext rustls takes before it wants a flush
    ChunkSize,      \* capacity of one pooled read buffer
    PeerReads       \* "always", or "afterwriting": only once its own writes are accepted

ASSUME TlsAssumption ==
    /\ {PeerSends, Writes} \subseteq Nat
    /\ {SocketRoom, SessionRoom, ChunkSize} \subseteq Nat \ {0}
    /\ PeerReads \in {"always", "afterwriting"}

\* Application records are 1, 2, ...; everything else a queue holds is negative.
Notify == -1    \* a close_notify alert, and the Close command that sends it
Flight == -2    \* a handshake flight
Abort  == -3    \* the Abort command
EndOfFile == -4 \* the Eof read event
LostEvent == -5 \* the ConnectionLost read event
IsData(r) == r > 0

VARIABLES
    phase,          \* "handshake", "open" or "failed"
    flights,        \* handshake flights still to do: even is ours, odd the peer's
    peerOut,        \* what the peer has still to send
    peerEnd,        \* how the peer ends its stream: "notify" or "truncate"
    peerGot,        \* what the peer has read
    wireIn, wireOut, \* the two socket buffers
    sessIn, sessOut, \* decrypted plaintext, records rustls wants to write
    endSeen,        \* what rustls knows of the end: "none", "notify" or "truncate"
    lock,           \* holder of the session lock
    rd,             \* the reader thread
    wr,             \* the writer thread
    delivered,      \* read events handed to the transport
    tls_commands,       \* writer commands
    isClosing,      \* StreamTransportState.closing
    tls_shut,           \* the socket was shut down
    lostWith        \* how the writer reported connection_lost

peerVars == <<peerOut, peerEnd, peerGot>>
tlsVars == <<phase, flights, peerOut, peerEnd, peerGot, wireIn, wireOut, sessIn, sessOut,
             endSeen, lock, rd, wr, delivered, tls_commands, isClosing, tls_shut, lostWith>>

Fresh == [at |-> "top", saw |-> FALSE, got |-> FALSE]

TlsInit ==
    /\ phase = "handshake" /\ flights = 3
    /\ peerEnd \in {"notify", "truncate"}
    /\ \E n \in 0..PeerSends : peerOut = [i \in 1..n |-> i]
    /\ peerGot = <<>> /\ wireIn = <<>> /\ wireOut = <<>>
    /\ sessIn = <<>> /\ sessOut = <<>> /\ endSeen = "none"
    /\ lock = "none" /\ rd = Fresh /\ wr = "off"
    /\ delivered = <<>> /\ tls_commands = [i \in 1..Writes |-> i]
    /\ isClosing = FALSE /\ tls_shut = FALSE /\ lostWith = "none"

(* ------------------------------- handshake ------------------------------ *)

\* Records up to and including the one the session acts on; application data behind
\* the last flight is decrypted into the session along with it.
Taken(n) == SubSeq(wireIn, 1, n)
Decrypt(n) ==
    /\ wireIn' = SubSeq(wireIn, n + 1, Len(wireIn))
    /\ sessIn' = sessIn \o SelectSeq(Taken(n), IsData)
    /\ endSeen' = IF Contains(Taken(n), Notify) THEN "notify" ELSE endSeen

\* tls_handshake_step: our flight is flushed, or the socket is read once it is ready.
tls_handshake_step ==
    /\ phase = "handshake"
    /\ \/ /\ flights \in {1, 3} /\ Len(wireOut) < SocketRoom
          /\ wireOut' = Append(wireOut, Flight)
          /\ UNCHANGED <<wireIn, sessIn, endSeen>>
       \/ /\ flights = 2 /\ Contains(wireIn, Flight)
          /\ \E n \in 1..Len(wireIn) : Decrypt(n)
          /\ UNCHANGED wireOut
    /\ flights' = flights - 1
    /\ phase' = IF flights = 1 THEN "open" ELSE phase
    /\ wr' = IF flights = 1 THEN "idle" ELSE wr
    /\ UNCHANGED <<peerVars, sessOut, lock, rd, delivered, tls_commands, isClosing, tls_shut, lostWith>>

\* The deadline passed, the server was closed, or the peer went away.
handshake_fails ==
    /\ phase = "handshake" /\ phase' = "failed" /\ tls_shut' = TRUE
    /\ UNCHANGED <<peerVars, flights, wireIn, wireOut, sessIn, sessOut, endSeen, lock, rd, wr,
                   delivered, tls_commands, isClosing, lostWith>>

(* -------------------------------- the peer ------------------------------ *)

\* The peer answers our first flight, then sends its data whenever the socket takes it.
peer_writes ==
    /\ ~tls_shut /\ Len(wireIn) < SocketRoom
    /\ \/ /\ flights = 2 /\ ~Contains(wireIn, Flight)
          /\ Contains(peerGot, Flight) /\ wireIn' = Append(wireIn, Flight)
          /\ UNCHANGED peerOut
       \/ /\ flights = 0 \/ Contains(wireIn, Flight)
          /\ peerOut # <<>>
          /\ wireIn' = Append(wireIn, Head(peerOut)) /\ peerOut' = Tail(peerOut)
    /\ UNCHANGED <<phase, flights, peerEnd, peerGot, wireOut, sessIn, sessOut, endSeen, lock,
                   rd, wr, delivered, tls_commands, isClosing, tls_shut, lostWith>>

\* The peer may end its stream, with close_notify or without.
peer_ends ==
    /\ ~tls_shut /\ Len(wireIn) < SocketRoom /\ flights = 0 /\ peerOut = <<>>
    /\ peerEnd \in {"notify", "truncate"}
    /\ wireIn' = IF peerEnd = "notify" THEN Append(wireIn, Notify) ELSE wireIn
    /\ peerEnd' = IF peerEnd = "notify" THEN "notified" ELSE "truncated"
    /\ UNCHANGED <<phase, flights, peerOut, peerGot, wireOut, sessIn, sessOut, endSeen, lock,
                   rd, wr, delivered, tls_commands, isClosing, tls_shut, lostWith>>

peer_reads ==
    /\ wireOut # <<>> /\ (flights > 0 \/ PeerReads = "always" \/ peerOut = <<>>)
    /\ peerGot' = Append(peerGot, Head(wireOut)) /\ wireOut' = Tail(wireOut)
    /\ UNCHANGED <<phase, flights, peerOut, peerEnd, wireIn, sessIn, sessOut, endSeen, lock,
                   rd, wr, delivered, tls_commands, isClosing, tls_shut, lostWith>>

(* ------------------------------- the reader ----------------------------- *)

Fin == wireIn = <<>> /\ (tls_shut \/ peerEnd \in {"notified", "truncated"})
readerStays == <<phase, flights, peerVars, wireOut, sessOut, wr, tls_commands, isClosing, tls_shut,
                 lostWith>>

Emit(event) == delivered' = Append(delivered, event)
ReaderEnds == rd' = [rd EXCEPT !.at = "ended"]

\* run_tls_reader: plaintext left by the handshake is drained before the socket is polled.
\* Mutant: the reader polls the socket first.
AfterTop_Poll == "poll"
AfterTop == "drain"

reader_top ==
    /\ phase = "open" /\ rd.at = "top"
    /\ IF isClosing THEN Emit(LostEvent) /\ ReaderEnds
       ELSE rd' = [Fresh EXCEPT !.at = AfterTop] /\ UNCHANGED delivered
    /\ UNCHANGED <<readerStays, wireIn, sessIn, endSeen, lock>>

\* Mutant: the end is reported although plaintext is still buffered.
Drained_Early(s) == TRUE
Drained(s) == s = <<>>

\* reader_drain under the lock: a chunk of plaintext; a terminal error waits until the
\* plaintext before it has been handed over.
reader_drain ==
    /\ rd.at \in {"drain", "drainRead"} /\ lock = "none"
    /\ \/ /\ sessIn # <<>>
          /\ LET n == IF Len(sessIn) < ChunkSize THEN Len(sessIn) ELSE ChunkSize IN
               /\ delivered' = delivered \o SubSeq(sessIn, 1, n)
               /\ sessIn' = SubSeq(sessIn, n + 1, Len(sessIn))
          /\ rd' = [rd EXCEPT !.saw = TRUE]
       \/ /\ Drained(sessIn) /\ endSeen = "truncate" /\ ~rd.saw
          /\ Emit(LostEvent) /\ ReaderEnds /\ UNCHANGED sessIn
       \/ /\ Drained(sessIn) /\ ~(endSeen = "truncate" /\ ~rd.saw)
          /\ \/ /\ rd.at = "drainRead" /\ ~rd.got /\ ~rd.saw
                /\ Emit(EndOfFile) /\ ReaderEnds
             \/ /\ ~(rd.at = "drainRead" /\ ~rd.got /\ ~rd.saw)
                /\ rd' = [rd EXCEPT !.at = IF rd.at = "drain" /\ ~rd.saw THEN "poll" ELSE "top"]
                /\ UNCHANGED delivered
          /\ UNCHANGED sessIn
    /\ UNCHANGED <<readerStays, wireIn, endSeen, lock>>

reader_poll ==
    /\ rd.at = "poll" /\ (wireIn # <<>> \/ Fin)
    /\ rd' = [rd EXCEPT !.at = "read"]
    /\ UNCHANGED <<readerStays, wireIn, sessIn, endSeen, lock, delivered>>

\* read_tls_records: one read under the lock, then rustls' own records are flushed with
\* the lock still held.  A read of nothing is the end; without close_notify a truncation.
reader_reads ==
    /\ rd.at = "read" /\ lock = "none"
    /\ \/ /\ wireIn # <<>> /\ \E n \in 1..Len(wireIn) : Decrypt(n)
          /\ lock' = "reader"
          /\ rd' = [at |-> "flush", saw |-> FALSE, got |-> TRUE]
       \/ /\ Fin /\ endSeen' = (IF endSeen = "none" THEN "truncate" ELSE endSeen)
          /\ rd' = [at |-> "drainRead", saw |-> FALSE, got |-> FALSE]
          /\ UNCHANGED <<wireIn, sessIn, lock>>
    /\ UNCHANGED <<readerStays, delivered>>

\* flush_tls_io_locked: write while the socket takes it, else wait for it without a limit.
FlushOne ==
    /\ sessOut # <<>> /\ Len(wireOut) < SocketRoom
    /\ wireOut' = Append(wireOut, Head(sessOut)) /\ sessOut' = Tail(sessOut)

reader_flush ==
    /\ rd.at = "flush"
    /\ \/ FlushOne /\ UNCHANGED <<rd, lock>>
       \/ /\ sessOut = <<>> /\ lock' = "none" /\ rd' = [rd EXCEPT !.at = "drainRead"]
          /\ UNCHANGED <<wireOut, sessOut>>
    /\ UNCHANGED <<phase, flights, peerVars, wireIn, sessIn, endSeen, wr, delivered, tls_commands,
                   isClosing, tls_shut, lostWith>>

\* wait_socket_ready, read_tls or the flush fails: the lock goes with the outcome.
reader_fails ==
    /\ rd.at \in {"poll", "flush"} \/ (rd.at = "read" /\ lock = "none")
    /\ Emit(LostEvent) /\ ReaderEnds
    /\ lock' = IF rd.at = "flush" THEN "none" ELSE lock
    /\ UNCHANGED <<readerStays, wireIn, sessIn, endSeen>>

(* ------------------------------- the writer ----------------------------- *)

writerStays == <<phase, flights, peerVars, wireIn, sessIn, endSeen, rd, delivered, isClosing>>

\* handle_tls_writer_command
writer_takes ==
    /\ wr = "idle" /\ tls_commands # <<>> /\ tls_commands' = Tail(tls_commands)
    /\ LET c == Head(tls_commands) IN
         \/ IsData(c) /\ lock = "none" /\ lock' = "writer" /\ wr' = "batch"
            /\ sessOut' = Append(sessOut, c) /\ UNCHANGED <<tls_shut, lostWith>>
         \/ c = Notify /\ lock = "none" /\ lock' = "writer" /\ wr' = "closing"
            /\ sessOut' = Append(sessOut, Notify) /\ UNCHANGED <<tls_shut, lostWith>>
         \/ c = Abort /\ lock = "none" /\ wr' = "ended" /\ tls_shut' = TRUE /\ lostWith' = "ok"
            /\ UNCHANGED <<lock, sessOut>>
    /\ UNCHANGED <<writerStays, wireOut>>

\* write_tls_data_batch: further data joins the batch; what the session does not take is
\* flushed first; any other command ends the batch.
MoreData == tls_commands # <<>> /\ IsData(Head(tls_commands))

writer_batch ==
    /\ wr \in {"batch", "full"}
    /\ \/ /\ wr = "batch" /\ MoreData
          /\ \/ /\ Len(sessOut) < SessionRoom /\ sessOut' = Append(sessOut, Head(tls_commands))
                /\ tls_commands' = Tail(tls_commands) /\ UNCHANGED wr
             \/ /\ Len(sessOut) >= SessionRoom /\ wr' = "full" /\ UNCHANGED <<sessOut, tls_commands>>
          /\ UNCHANGED wireOut
       \/ /\ wr = "batch" /\ ~MoreData /\ wr' = "flush"
          /\ UNCHANGED <<sessOut, tls_commands, wireOut>>
       \/ /\ wr = "full" /\ FlushOne /\ UNCHANGED <<wr, tls_commands>>
       \/ /\ wr = "full" /\ sessOut = <<>> /\ wr' = "batch"
          /\ UNCHANGED <<sessOut, tls_commands, wireOut>>
    /\ UNCHANGED <<writerStays, lock, tls_shut, lostWith>>

writer_flush ==
    /\ wr = "flush"
    /\ \/ FlushOne /\ UNCHANGED <<wr, lock>>
       \/ sessOut = <<>> /\ wr' = "idle" /\ lock' = "none" /\ UNCHANGED <<sessOut, wireOut>>
    /\ UNCHANGED <<writerStays, tls_commands, tls_shut, lostWith>>

\* close_tls_writer, flush_tls_close_io_locked: this flush has a deadline; either way the
\* socket is shut down and the lock released.
CloseResult(flushed) == IF flushed THEN "ok" ELSE "timeout"

writer_closes ==
    /\ wr = "closing"
    /\ \/ FlushOne /\ UNCHANGED <<wr, lock, tls_shut, lostWith>>
       \/ /\ sessOut = <<>> \/ Len(wireOut) = SocketRoom
          /\ wr' = "ended" /\ lock' = "none" /\ tls_shut' = TRUE
          /\ lostWith' = CloseResult(sessOut = <<>>)
          /\ UNCHANGED <<sessOut, wireOut>>
    /\ UNCHANGED <<writerStays, tls_commands>>

\* report_writer_io_error, out of the batch, its flush or the flush of a close, which
\* shuts the socket down all the same.
writer_fails ==
    /\ wr \in {"batch", "full", "flush", "closing"}
    /\ wr' = "ended" /\ lock' = "none" /\ lostWith' = "error"
    /\ tls_shut' = (tls_shut \/ wr = "closing")
    /\ UNCHANGED <<writerStays, tls_commands, sessOut, wireOut>>

\* The loop drains the loss that the reader or the writer queued.
connection_lost_drained ==
    /\ ~isClosing /\ (lostWith # "none" \/ Contains(delivered, LostEvent))
    /\ isClosing' = TRUE
    /\ UNCHANGED <<phase, flights, peerVars, wireIn, wireOut, sessIn, sessOut, endSeen, lock,
                   rd, wr, delivered, tls_commands, tls_shut, lostWith>>

\* PyStreamTransport::close and abort: the flag first, then the command.
close_or_abort ==
    /\ phase = "open" /\ ~isClosing /\ isClosing' = TRUE
    /\ \E c \in {Notify, Abort} : tls_commands' = Append(tls_commands, c)
    /\ UNCHANGED <<phase, flights, peerVars, wireIn, wireOut, sessIn, sessOut, endSeen, lock,
                   rd, wr, delivered, tls_shut, lostWith>>

(* ------------------------------------------------------------------------ *)

ReaderThread == reader_top \/ reader_drain \/ reader_poll \/ reader_reads \/ reader_flush
WriterThread == writer_takes \/ writer_batch \/ writer_flush \/ writer_closes

TlsNext ==
    \/ tls_handshake_step \/ handshake_fails \/ peer_writes \/ peer_reads \/ peer_ends
    \/ ReaderThread \/ WriterThread \/ close_or_abort \/ connection_lost_drained
    \/ reader_fails \/ writer_fails

\* Both threads are scheduled and the mutex is eventually handed to each; the peer does
\* what its kind says.
TlsFairSpec ==
    /\ TlsInit /\ [][TlsNext]_tlsVars
    /\ SF_tlsVars(ReaderThread) /\ SF_tlsVars(WriterThread)
    /\ WF_tlsVars(peer_writes) /\ WF_tlsVars(peer_reads)

(* ------------------------------ properties ------------------------------ *)

Plain(s) == SelectSeq(s, IsData)

\* What the transport is given is the peer's plaintext in order; end of file comes after
\* all of it and only if the peer announced it: a truncated stream is an error.
PlaintextInOrder ==
    /\ Plain(delivered) = [i \in 1..Len(Plain(delivered)) |-> i]
    /\ Contains(delivered, EndOfFile) =>
         /\ Plain(sessIn \o wireIn \o peerOut) = <<>> /\ peerEnd = "notified"
         /\ Last(delivered) = EndOfFile

\* What the peer can read is the written data in order, and close_notify is last; the
\* writer reports a clean close only when all of it reached the socket.
RecordsInOrder ==
    LET out == Plain(peerGot \o wireOut \o sessOut) IN
    /\ out = [i \in 1..Len(out) |-> i]
    /\ Contains(peerGot \o wireOut, Notify) =>
         Last(peerGot \o wireOut) = Notify /\ Len(out) = Writes
    /\ (lostWith = "ok" /\ Contains(peerGot \o wireOut, Notify)) => sessOut = <<>>

\* The lock is with the thread that is flushing, and with nobody else.
LockDiscipline ==
    /\ (rd.at = "flush") = (lock = "reader")
    /\ (wr \in {"batch", "full", "flush", "closing"}) = (lock = "writer")

TlsSafe == PlaintextInOrder /\ RecordsInOrder /\ LockDiscipline

\* Plaintext that has arrived reaches the transport, and the writer takes its commands,
\* finishes its batches and ends with a close or an abort, unless either has failed.
TlsOwed ==
    \/ phase = "open" /\ rd.at # "ended" /\ (sessIn # <<>> \/ wireIn # <<>>)
    \/ phase = "open" /\ wr # "ended" /\ (tls_commands # <<>> \/ wr # "idle")
TlsProgress == []<>~TlsOwed
=============================================================================
