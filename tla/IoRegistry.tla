----------------------------- MODULE IoRegistry -----------------------------
(****************************************************************************)
(* Which reader task serves which descriptor.  Tasks started by an active   *)
(* run live in IO_TASKS of the loop thread, the others in the dispatcher's  *)
(* reader_tasks, both keyed by the descriptor's NUMBER, which the kernel    *)
(* hands out again as soon as the last owner of the socket is dropped       *)
(* (engine/loop_core.rs, engine/dispatcher.rs, transport/stream/reader.rs). *)
(****************************************************************************)
EXTENDS Integers, Sequences, FiniteSets, FiniteSetsExt, SequencesExt

CONSTANTS
    RegTransports,     \* the transports opened in a behaviour
    Fds,            \* descriptor numbers
    NoTransport,
    LateClose       \* close() or abort() may also reach a transport already lost

ASSUME RegistryAssumption ==
    /\ Fds \subseteq Nat /\ IsFiniteSet(Fds) /\ Fds # {}
    /\ NoTransport \notin RegTransports /\ LateClose \in BOOLEAN

VARIABLES
    running,        \* a run is active: starts go to its ready queue
    fdOf,           \* StreamTransportState.io_fd, never cleared
    life,           \* "unused", "open", "closing", "lost"
    reader,         \* the reader task: "none", "queued", "live", "ended", "cancelled",
                    \* or "late": started for a transport that is closed, where the
                    \* task finds the closing flag and ends by itself
    io_tasks,       \* IO_TASKS of the loop thread
    reader_tasks,   \* the dispatcher's map
    ready,          \* StartSocketReader items
    reg_commands        \* commands on their way to the dispatcher

registryVars == <<running, fdOf, life, reader, io_tasks, reader_tasks, ready, reg_commands>>

NoRegFd == 0 - 1

RegistryInit ==
    /\ running \in BOOLEAN
    /\ fdOf = [t \in RegTransports |-> NoRegFd] /\ life = [t \in RegTransports |-> "unused"]
    /\ reader = [t \in RegTransports |-> "none"]
    /\ io_tasks = [f \in Fds |-> NoTransport] /\ reader_tasks = [f \in Fds |-> NoTransport]
    /\ ready = <<>> /\ reg_commands = <<>>

\* The socket is owned by the transport's direct writer until connection_lost and by
\* the reader task, or its queued start, until that ends.
OwnsFd(t) == life[t] \in {"open", "closing"} \/ reader[t] \in {"queued", "live", "late"}
FreeFds == Fds \ {fdOf[t] : t \in {u \in RegTransports : OwnsFd(u)}}

\* spawn_tcp_transport, spawn_socket_reader: the lowest free number, as the kernel picks.
open_transport(t) ==
    /\ life[t] = "unused" /\ FreeFds # {}
    /\ fdOf' = [fdOf EXCEPT ![t] = Min(FreeFds)] /\ life' = [life EXCEPT ![t] = "open"]
    /\ reader' = [reader EXCEPT ![t] = "queued"]
    /\ IF running THEN ready' = Append(ready, t) /\ UNCHANGED reg_commands
       ELSE reg_commands' = Append(reg_commands, [op |-> "start", t |-> t, fd |-> Min(FreeFds)])
            /\ UNCHANGED ready
    /\ UNCHANGED <<running, io_tasks, reader_tasks>>

Cancelled(old) ==
    [t \in RegTransports |-> IF t = old /\ reader[t] \in {"live", "late"} THEN "cancelled" ELSE reader[t]]

Started(t) == IF life[t] = "open" THEN "live" ELSE "late"

\* spawn_io_tracked: the new task takes the entry and the one it replaces is cancelled.
start_local ==
    /\ running /\ ready # <<>>
    /\ LET t == Head(ready) f == fdOf[t] IN
         /\ reader' = [Cancelled(io_tasks[f]) EXCEPT ![t] = Started(t)]
         /\ io_tasks' = [io_tasks EXCEPT ![f] = t]
    /\ ready' = Tail(ready)
    /\ UNCHANGED <<running, fdOf, life, reader_tasks, reg_commands>>

\* LoopDispatcher on StartSocketReader and StopSocketReader.
dispatch_command ==
    /\ reg_commands # <<>>
    /\ LET c == Head(reg_commands) old == reader_tasks[c.fd] IN
         IF c.op = "start"
         THEN /\ reader' = [Cancelled(old) EXCEPT ![c.t] = Started(c.t)]
              /\ reader_tasks' = [reader_tasks EXCEPT ![c.fd] = c.t]
         ELSE /\ reader' = Cancelled(old)
              /\ reader_tasks' = [reader_tasks EXCEPT ![c.fd] = NoTransport]
    /\ reg_commands' = Tail(reg_commands)
    /\ UNCHANGED <<running, fdOf, life, io_tasks, ready>>

\* End of file, an error or a closed transport ends the task; its entry stays.
reader_ends(t) ==
    /\ reader[t] \in {"live", "late"} /\ reader' = [reader EXCEPT ![t] = "ended"]
    /\ UNCHANGED <<running, fdOf, life, io_tasks, reader_tasks, ready, reg_commands>>

\* connection_lost: release_direct_writer; io_fd keeps its value.
connection_gone(t) ==
    /\ life[t] \in {"open", "closing"} /\ life' = [life EXCEPT ![t] = "lost"]
    /\ UNCHANGED <<running, fdOf, reader, io_tasks, reader_tasks, ready, reg_commands>>

\* stop_io_task finds an entry under this number.
LocalEntry(f) == io_tasks[f] # NoTransport

\* PyStreamTransport::close / abort, stop_socket_reader_nowait.
registry_close(t) ==
    /\ life[t] = "open" \/ (LateClose /\ life[t] = "lost")
    /\ life' = [life EXCEPT ![t] = IF @ = "open" THEN "closing" ELSE @]
    /\ LET f == fdOf[t] IN
         IF LocalEntry(f)
         THEN /\ reader' = Cancelled(io_tasks[f])
              /\ io_tasks' = [io_tasks EXCEPT ![f] = NoTransport]
              /\ UNCHANGED reg_commands
         ELSE /\ reg_commands' = Append(reg_commands, [op |-> "stop", t |-> t, fd |-> f])
              /\ UNCHANGED <<reader, io_tasks>>
    /\ UNCHANGED <<running, fdOf, reader_tasks, ready>>

run_begins_or_ends ==
    /\ running' = ~running
    /\ UNCHANGED <<fdOf, life, reader, io_tasks, reader_tasks, ready, reg_commands>>

RegistryNext ==
    \/ \E t \in RegTransports : open_transport(t) \/ reader_ends(t) \/ connection_gone(t)
                             \/ registry_close(t)
    \/ start_local \/ dispatch_command \/ run_begins_or_ends

RegistrySpec == RegistryInit /\ [][RegistryNext]_registryVars

\* A reader is cancelled only on behalf of its own transport: reader.rs, "Both stop
\* helpers check loop-thread task ownership before sending a dispatcher command".
ReadersKept == \A t \in RegTransports : reader[t] = "cancelled" => life[t] # "open"

\* A live reader is the entry of its descriptor in one of the two maps, never in both,
\* so that close() can find it.
LiveReadersRegistered ==
    \A t \in RegTransports : reader[t] \in {"live", "late"} =>
        (io_tasks[fdOf[t]] = t) # (reader_tasks[fdOf[t]] = t)

\* close() stops a reader of the loop thread at once.  A reader of the dispatcher is
\* stopped by the queued command, unless a stale IO_TASKS entry of an earlier transport
\* under the same number answered for it: then only end of file or an error ends it.
ClosedReadersStop ==
    \A t \in RegTransports :
        life[t] = "closing" /\ reader[t] = "live" => reader_tasks[fdOf[t]] = t

RegistrySafe == ReadersKept /\ LiveReadersRegistered /\ ClosedReadersStop
=============================================================================
