--------------------------- MODULE TransportProofs ---------------------------
(***************************************************************************)
(* What the invariants of the read side (ReadProofs) and of the write side *)
(* (WriteProofs) say of a transport.  The two sides are parts of one model *)
(* here: a step is a step of a part and leaves the others alone.           *)
(***************************************************************************)
EXTENDS MCTransport, ReadProofs, WriteProofs

LEMMA WriteSteps ==
    ASSUME WriteInv, [TransportNext]_transportVars
    PROVE  WriteInv'
<1>1. CASE WriteNext
  BY <1>1, WriteInvKept
<1>2. CASE UNCHANGED writeVars
  BY <1>2, WriteInvStutters
<1> QED BY <1>1, <1>2 DEF TransportNext, transportVars

LEMMA WriteInvariant == TransportSpec => []WriteInv
<1>1. TransportInit => WriteInv
  BY WriteInvStarts DEF TransportInit
<1>2. WriteInv /\ [TransportNext]_transportVars => WriteInv'
  BY WriteSteps
<1> QED BY <1>1, <1>2, PTL DEF TransportSpec

LEMMA ReadSteps ==
    ASSUME ReadInv, [TransportNext]_transportVars
    PROVE  ReadInv'
<1>1. CASE ReadNext
  BY <1>1, ReadInvKept
<1>2. CASE UNCHANGED readVars
  BY <1>2, ReadInvStutters
<1> QED BY <1>1, <1>2 DEF TransportNext, transportVars

LEMMA ReadInvariant == TransportSpec => []ReadInv
<1>1. TransportInit => ReadInv
  BY ReadInvStarts DEF TransportInit
<1>2. ReadInv /\ [TransportNext]_transportVars => ReadInv'
  BY ReadSteps
<1> QED BY <1>1, <1>2, PTL DEF TransportSpec

-----------------------------------------------------------------------------
\* The read side of a transport, at every step of the reader, the writer, the loop's drain and
\* the application: until the transport closes or its loss is queued no byte read from the
\* socket is lost, doubled or reordered on its way to the protocol, through coalescing, the
\* event budget and rescheduled drains; what the protocol was given is always a run of the
\* stream from its start; eof_received and connection_lost come once, the end after every byte;
\* buffers are conserved, so the bytes queued stay within the pool and backpressure is never
\* set; and no queued event and no waiting reader is left without something that will wake it.
THEOREM ReadSidesAreSafe == TransportSpec => []ReadSideSafe
<1>1. ReadInv => ReadSideSafe
  BY InvReadSafe DEF ReadSideSafe
<1> QED BY <1>1, ReadInvariant, PTL

\* The write side of a transport, at every step of the loop thread and the worker: every
\* accepted byte is in exactly one place and queued and written once (partial writes, staging,
\* appending to the last command and the worker's batches move bytes without losing or repeating
\* any), get_write_buffer_size() is exact until the connection is lost, and the bytes of a pipe
\* reach it in the order write() accepted them.
THEOREM WriteSidesAreSafe == TransportSpec => []WriteSideSafe
<1>1. WriteInv => WriteSideSafe
  BY InvTypes, InvConserves, InvSize, InvOrder DEF WriteSideSafe
<1> QED BY <1>1, WriteInvariant, PTL

\* close() and write_eof() shut the socket down only behind the data: whoever does it, the loop
\* thread while no worker was started or the worker when it takes the command from its queue,
\* every byte accepted before the call is on the wire by then, unless the write was refused.
THEOREM ShutdownIsLast == TransportSpec => []ShutdownFollowsData
<1>1. WriteInv => ShutdownFollowsData
  BY InvShutdown
<1> QED BY <1>1, WriteInvariant, PTL

\* No accepted byte is dropped unless the socket failed or abort() was called, whichever of
\* the loop thread, the staging buffer, the queue and the worker holds it when close(),
\* write_eof() or, for a pipe, the end of the peer's stream stops the transport.
THEOREM CloseKeepsAccepted == TransportSpec => []CloseKeepsBytes
<1>1. WriteInv => CloseKeepsBytes
  BY InvKeeps
<1> QED BY <1>1, WriteInvariant, PTL

=============================================================================
