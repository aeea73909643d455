------------------------------ MODULE MCSafetyParts ------------------------------
(*****************************************************************************)
(* The components whose properties are safety properties only: the timer     *)
(* heap, the kqueue driver, sockets, files, directories, pipes and the poll  *)
(* wrapper of the runtime, the ready merge, the context of a callback and    *)
(* the shutdown of the loop, the write buffers, the Windows poll reader, the *)
(* stream readers and the registry of readers of the transports.  A          *)
(* behaviour exercises one part; the others stay in their initial states.    *)
(*****************************************************************************)
EXTENDS TimerHeap, KqueueDriver, NetSockets, Files, Pipes,
        ReadyMerge, CallbackContext, LoopShutdown, WriteBuffers, PollReader, FastReader,
        StreamProtocols, IoRegistry

VARIABLE part

partsVars == <<part, heapVars, kqVars, netVars, fileVars, treeVars, copyVars, wrapVars,
               mergeVars, contextVars, shutdownVars, bufferVars, pollVars, fastVars,
               fpVars, readerVars, registryVars>>

\* Registrations that fail and are reused, or pushes of two remote threads, whose sends
\* may fail.
PartsBudgets ==
    {[regs |-> 3, fails |-> 2, pushes |-> 0], [regs |-> 1, fails |-> 0, pushes |-> 2],
     [regs |-> 0, fails |-> 1, pushes |-> 3]}

\* Every way of reading with every way of writing at least once.
PartsRoutes ==
    {<<"pool", "pool">>, <<"async", "pool">>, <<"stdio", "async">>, <<"pool", "foreign">>,
     <<"foreign", "stdio">>, <<"direct", "direct">>}

\* Input whose separators overlap, straddle two chunks and end the stream.
PartsStreams == {<<"a", "a", "n", "a", "n", "a">>, <<"a", "n", "a", "a", "a", "n">>}
PartsSeparators == {{<<"n">>, <<"a", "n", "a">>}, {<<"a", "n">>}}

\* A part that is not exercised starts, and stays, in one of its initial states.
PartsInit ==
    /\ part \in {"heap", "kqueue", "sockets", "files", "dirs", "copy", "wrap", "merge",
                 "context", "shutdown", "asyncgens", "buffers", "poll_reader", "fast_reader",
                 "fast_protocol", "asyncio_reader", "registry"}
    /\ TimerHeapInit
    /\ KqueueInit /\ (part # "kqueue" => kqBudget.regs = 1)
    /\ NetSocketsInit /\ (part # "sockets" => drv = "completion")
    /\ FileIoInit /\ (part # "files" => route = "pool" /\ size = 0)
    /\ DirTreeInit /\ (part # "dirs" => base = "cwd" /\ serves = "pool" /\ \A i \in Names : tree[i] = "none")
    /\ PipeCopyInit /\ (part # "copy" => croute = [src |-> "pool", dst |-> "pool"])
    /\ AsyncWrapInit
    /\ MergeInit
    /\ CallbackContextInit /\ (part # "context" => beneath = <<BaseCtx>> /\ \A c \in 1..MaxCtx : ~vals[c])
    /\ LoopShutdownInit /\ (part \notin {"shutdown", "asyncgens"} => userExec = "none")
    /\ WriteBuffersInit
    /\ PollReaderInit
    /\ FastReaderInit /\ (part # "fast_reader" => fstream[2] = "a")
    /\ FastProtocolInit
    /\ AsyncioReaderInit
    /\ RegistryInit /\ (part # "registry" => running)

PartsNext ==
    /\ UNCHANGED part
    /\ \/ /\ part = "heap" /\ TimerHeapNext
          /\ UNCHANGED <<kqVars, netVars, fileVars, treeVars, copyVars, wrapVars,
                         mergeVars, contextVars, shutdownVars, bufferVars, pollVars,
                         fastVars, fpVars, readerVars, registryVars>>
       \/ /\ part = "kqueue" /\ KqueueNext
          /\ UNCHANGED <<heapVars, netVars, fileVars, treeVars, copyVars, wrapVars,
                         mergeVars, contextVars, shutdownVars, bufferVars, pollVars,
                         fastVars, fpVars, readerVars, registryVars>>
       \/ /\ part = "sockets" /\ NetSocketsNext
          /\ UNCHANGED <<heapVars, kqVars, fileVars, treeVars, copyVars, wrapVars,
                         mergeVars, contextVars, shutdownVars, bufferVars, pollVars,
                         fastVars, fpVars, readerVars, registryVars>>
       \/ /\ part = "files" /\ FileIoNext
          /\ UNCHANGED <<heapVars, kqVars, netVars, treeVars, copyVars, wrapVars,
                         mergeVars, contextVars, shutdownVars, bufferVars, pollVars,
                         fastVars, fpVars, readerVars, registryVars>>
       \/ /\ part = "dirs" /\ DirTreeNext
          /\ UNCHANGED <<heapVars, kqVars, netVars, fileVars, copyVars, wrapVars,
                         mergeVars, contextVars, shutdownVars, bufferVars, pollVars,
                         fastVars, fpVars, readerVars, registryVars>>
       \/ /\ part = "copy" /\ PipeCopyNext
          /\ UNCHANGED <<heapVars, kqVars, netVars, fileVars, treeVars, wrapVars,
                         mergeVars, contextVars, shutdownVars, bufferVars, pollVars,
                         fastVars, fpVars, readerVars, registryVars>>
       \/ /\ part = "wrap" /\ AsyncWrapNext
          /\ UNCHANGED <<heapVars, kqVars, netVars, fileVars, treeVars, copyVars,
                         mergeVars, contextVars, shutdownVars, bufferVars, pollVars,
                         fastVars, fpVars, readerVars, registryVars>>
       \/ /\ part = "merge" /\ MergeNext
          /\ UNCHANGED <<heapVars, kqVars, netVars, fileVars, treeVars, copyVars,
                         wrapVars, contextVars, shutdownVars, bufferVars, pollVars,
                         fastVars, fpVars, readerVars, registryVars>>
       \/ /\ part = "context" /\ CallbackContextNext
          /\ UNCHANGED <<heapVars, kqVars, netVars, fileVars, treeVars, copyVars,
                         wrapVars, mergeVars, shutdownVars, bufferVars, pollVars,
                         fastVars, fpVars, readerVars, registryVars>>
       \/ /\ \/ part = "shutdown" /\ LoopShutdownNext /\ UNCHANGED <<gen, gensCalled>>
             \/ part = "asyncgens" /\ LoopShutdownNext /\ UNCHANGED job
          /\ UNCHANGED <<heapVars, kqVars, netVars, fileVars, treeVars, copyVars,
                         wrapVars, mergeVars, contextVars, bufferVars, pollVars,
                         fastVars, fpVars, readerVars, registryVars>>
       \/ /\ part = "buffers" /\ WriteBuffersNext
          /\ UNCHANGED <<heapVars, kqVars, netVars, fileVars, treeVars, copyVars,
                         wrapVars, mergeVars, contextVars, shutdownVars, pollVars,
                         fastVars, fpVars, readerVars, registryVars>>
       \/ /\ part = "poll_reader" /\ PollReaderNext
          /\ UNCHANGED <<heapVars, kqVars, netVars, fileVars, treeVars, copyVars,
                         wrapVars, mergeVars, contextVars, shutdownVars, bufferVars,
                         fastVars, fpVars, readerVars, registryVars>>
       \/ /\ part = "fast_reader" /\ FastReaderNext
          /\ UNCHANGED <<heapVars, kqVars, netVars, fileVars, treeVars, copyVars,
                         wrapVars, mergeVars, contextVars, shutdownVars, bufferVars,
                         pollVars, fpVars, readerVars, registryVars>>
       \/ /\ part = "fast_protocol" /\ FastProtocolNext
          /\ UNCHANGED <<heapVars, kqVars, netVars, fileVars, treeVars, copyVars,
                         wrapVars, mergeVars, contextVars, shutdownVars, bufferVars,
                         pollVars, fastVars, readerVars, registryVars>>
       \/ /\ part = "asyncio_reader" /\ AsyncioReaderNext
          /\ UNCHANGED <<heapVars, kqVars, netVars, fileVars, treeVars, copyVars,
                         wrapVars, mergeVars, contextVars, shutdownVars, bufferVars,
                         pollVars, fastVars, fpVars, registryVars>>
       \/ /\ part = "registry" /\ RegistryNext
          /\ UNCHANGED <<heapVars, kqVars, netVars, fileVars, treeVars, copyVars,
                         wrapVars, mergeVars, contextVars, shutdownVars, bufferVars,
                         pollVars, fastVars, fpVars, readerVars>>

PartsSpec == PartsInit /\ [][PartsNext]_partsVars

-----------------------------------------------------------------------------
\* Files and directories end up as the calls on them say: every byte at its
\* offset once, and a directory made whoever else makes or removes it.
FilesSafe == (part = "files" => FileIoSafe) /\ (part = "dirs" => DirTreeSafe)

\* Bytes keep their order and their number through a copy between pipes and
\* through a wrapped transport, also when a future is dropped or a write fails.
PipesSafe == (part = "copy" => PipeCopySafe) /\ (part = "wrap" => AsyncWrapSafe)

\* The merged generation runs the callbacks of the two ready queues in the
\* order they were scheduled (engine/loop_core.rs), none left out and none twice.
ReadyMergeSafe ==
    part = "merge" => SegmentsStandForMarks /\ MergeComputesGeneration /\ SchedulingOrderOfMerge

\* An entry of the timer's heap, a kqueue registration, a socket and a
\* transport's reader stay what their handles say, however slots and
\* descriptors are reused; a socket in the mode its type names, unless its
\* duplicates were put in different modes.
RegistrationsSafe ==
    /\ part = "heap" => HeapSafe
    /\ part = "kqueue" => KqueueSafe
    /\ part = "sockets" => NetSocketsSafe
    /\ part = "registry" => RegistrySafe

\* What a stream reader returns is what was fed, cut where the caller asked,
\* and a drain ends when the transport resumes or is lost.
StreamReadersSafe ==
    /\ part = "fast_reader" => FastReaderSafe
    /\ part = "fast_protocol" => FastProtocolSafe
    /\ part = "asyncio_reader" => AsyncioReaderSafe

\* Every accepted byte is on the wire or in one buffer, in order but for the gap of
\* writer.rs:163, which StreamWrite has (WriteOrder); and a write staged while a
\* Windows reader changes the socket's mode has a flusher, but for the three waits
\* that StagedHasFlusher names.
WriteBuffersKept ==
    (part = "buffers" => WriteBuffersSafe) /\ (part = "poll_reader" => PollReaderSafe)

\* Of the loop: the context a callback runs in, and what a shutdown waits for.
LoopRulesSafe == (part = "context" => ContextSafe) /\ (part \in {"shutdown", "asyncgens"} => ShutdownSafe)

=============================================================================
