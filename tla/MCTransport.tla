------------------------------ MODULE MCTransport ------------------------------
(*****************************************************************************)
(* The read and the write side of the stream transports and TLS sessions.  A *)
(* behaviour exercises one part; the others stay in their initial states.    *)
(*****************************************************************************)
EXTENDS StreamRead, StreamWrite, TlsSession

VARIABLE part

transportVars == <<part, readVars, writeVars, tlsVars>>

\* A reader task under a slow protocol, and a reader thread under a native one.
TransportReadCases == {<<"task", "slow", 3>>, <<"thread", "native", 2>>}

\* A part that is not exercised starts, and stays, in one of its initial states.
TransportInit ==
    /\ part \in {"read", "write", "tls"}
    /\ ReadInit /\ (part # "read" => rkind = "task")
    /\ WriteInit /\ (part # "write" => transport = "socket")
    /\ TlsInit /\ (part # "tls" => peerOut = <<>> /\ peerEnd = "notify")

TransportNext ==
    /\ UNCHANGED part
    /\ \/ /\ part = "read" /\ ReadNext
          /\ UNCHANGED <<writeVars, tlsVars>>
       \/ /\ part = "write" /\ WriteNext
          /\ UNCHANGED <<readVars, tlsVars>>
       \/ /\ part = "tls" /\ TlsNext
          /\ UNCHANGED <<readVars, writeVars>>

\* The fairness of each part, while it is the one exercised.
TransportFairness ==
    /\ WF_readVars(part = "read" /\ ReaderStep /\ UNCHANGED <<rkind, rproto>>)
    /\ WF_readVars(part = "read" /\ WriterStep /\ UNCHANGED <<rkind, rproto>>)
    /\ WF_readVars(part = "read" /\ notify_all_send /\ UNCHANGED <<rkind, rproto>>)
    /\ SF_readVars(part = "read" /\ DrainStep /\ UNCHANGED <<rkind, rproto>>)
    /\ WF_writeVars(part = "write" /\ LoopStep) /\ WF_writeVars(part = "write" /\ WorkerStep)
    /\ SF_tlsVars(part = "tls" /\ ReaderThread) /\ SF_tlsVars(part = "tls" /\ WriterThread)
    /\ WF_tlsVars(part = "tls" /\ peer_writes) /\ WF_tlsVars(part = "tls" /\ peer_reads)

TransportSpec == TransportInit /\ [][TransportNext]_transportVars /\ TransportFairness

-----------------------------------------------------------------------------
\* Every byte read reaches the protocol in order, before the end of the stream,
\* and no reader or waiter is left asleep.
ReadSideSafe == part = "read" => ReadSafe

\* Every accepted byte is written once and in order, whichever of the staged
\* buffer, the queue and the writer holds it, and counted by the water marks.
WriteSideSafe ==
    part = "write" => WriteTypeOK /\ BytesConserved /\ SizeExact /\ PipeWriteOrder

\* Plaintext is delivered whole and before the end, and nothing follows the
\* close notification.
TlsSessionSafe == part = "tls" => TlsSafe

\* Reading goes on while the transport lets it, a paused protocol is resumed,
\* close() is answered and a TLS session makes progress: nothing of this stays
\* owed for ever.
TransportOwes ==
    \/ part = "read" /\ ReadOwed
    \/ part = "write" /\ WriteOwed
    \/ part = "tls" /\ TlsOwed
TransportServed == []<>~TransportOwes

=============================================================================
