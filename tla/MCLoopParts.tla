------------------------------ MODULE MCLoopParts ------------------------------
(***************************************************************************)
(* What the loop serves besides its queues and its timers: watched         *)
(* descriptors, signals and their handlers, child processes, sock_ calls,  *)
(* connects, datagrams and servers.  A behaviour exercises one part; the   *)
(* others stay in their initial states.                                    *)
(***************************************************************************)
EXTENDS LoopWatches, Signals, Reaper, Processes, SocketCalls, Datagram, ServerAccept

VARIABLE part

loopVars == <<part, watchVars, signalVars, handlerVars, reaperVars, processVars,
              spawnVars, socketVars, connectVars, datagramVars, serverVars>>

\* What subprocess_exec is asked for: a base, and one variation at a time.
LoopBase ==
    [stdin |-> "pipe", stdout |-> "pipe", stderr |-> "stdout", session |-> FALSE,
     group0 |-> FALSE, known |-> TRUE, umaskOK |-> TRUE, groups |-> "keep", gid |-> "keep",
     uid |-> "keep"]
LoopConfigs ==
    {LoopBase,
     [LoopBase EXCEPT !.stderr = "pipe", !.session = TRUE, !.group0 = TRUE],
     [LoopBase EXCEPT !.groups = "user", !.gid = "user", !.uid = "user", !.stdin = "devnull"],
     [LoopBase EXCEPT !.stdin = "stdout"],
     [LoopBase EXCEPT !.known = FALSE],
     [LoopBase EXCEPT !.stdout = "inherit", !.group0 = TRUE]}

\* A part that is not exercised starts, and stays, in one of its initial states.
LoopInit ==
    /\ part \in {"watch", "signals", "handlers", "reaper", "process", "spawn", "sock",
                 "connect", "datagram", "server"}
    /\ WatchInit /\ (part # "watch" => fdReady /\ inRun)
    /\ SignalInit
    /\ HandlersInit
    /\ ReaperInit /\ (part # "reaper" => flavour = "pidfd")
    /\ ProcessInit /\ (part # "process" => piped = {})
    /\ SpawnInit /\ (part # "spawn" => gil /\ \A p \in Procs : conf[p] = LoopBase)
    /\ SocketOpsInit /\ (part # "sock" => used = {Sender})
    /\ ConnectWatchInit /\ (part # "connect" => path = "fast")
    /\ DatagramInit
    /\ ServerInit /\ (part # "server" => ~stls)

LoopNext ==
    /\ UNCHANGED part
    /\ \/ /\ part = "watch" /\ WatchNext
          /\ UNCHANGED <<signalVars, handlerVars, reaperVars, processVars, spawnVars,
                         socketVars, connectVars, datagramVars, serverVars>>
       \/ /\ part = "signals" /\ SignalNext
          /\ UNCHANGED <<watchVars, handlerVars, reaperVars, processVars, spawnVars,
                         socketVars, connectVars, datagramVars, serverVars>>
       \/ /\ part = "handlers" /\ HandlersNext
          /\ UNCHANGED <<watchVars, signalVars, reaperVars, processVars, spawnVars,
                         socketVars, connectVars, datagramVars, serverVars>>
       \/ /\ part = "reaper" /\ ReaperNext
          /\ UNCHANGED <<watchVars, signalVars, handlerVars, processVars, spawnVars,
                         socketVars, connectVars, datagramVars, serverVars>>
       \/ /\ part = "process" /\ ProcessNext
          /\ UNCHANGED <<watchVars, signalVars, handlerVars, reaperVars, spawnVars,
                         socketVars, connectVars, datagramVars, serverVars>>
       \/ /\ part = "spawn" /\ SpawnNext
          /\ UNCHANGED <<watchVars, signalVars, handlerVars, reaperVars, processVars,
                         socketVars, connectVars, datagramVars, serverVars>>
       \/ /\ part = "sock" /\ SocketOpsNext
          /\ UNCHANGED <<watchVars, signalVars, handlerVars, reaperVars, processVars,
                         spawnVars, connectVars, datagramVars, serverVars>>
       \/ /\ part = "connect" /\ ConnectWatchNext
          /\ UNCHANGED <<watchVars, signalVars, handlerVars, reaperVars, processVars,
                         spawnVars, socketVars, datagramVars, serverVars>>
       \/ /\ part = "datagram" /\ DatagramNext
          /\ UNCHANGED <<watchVars, signalVars, handlerVars, reaperVars, processVars,
                         spawnVars, socketVars, connectVars, serverVars>>
       \/ /\ part = "server" /\ ServerNext
          /\ UNCHANGED <<watchVars, signalVars, handlerVars, reaperVars, processVars,
                         spawnVars, socketVars, connectVars, datagramVars>>

\* The fairness of each part, while it is the one exercised.
LoopFairness ==
    /\ WF_watchVars(part = "watch" /\ local_fires) /\ WF_watchVars(part = "watch" /\ remote_fires)
    /\ WF_watchVars(part = "watch" /\ dispatch_watch_command)
    /\ WF_watchVars(part = "watch" /\ execute_callback)
    /\ WF_watchVars(part = "watch" /\ rearm_fd_watch)
    /\ WF_signalVars(part = "signals" /\ write_notification)
    /\ WF_signalVars(part = "signals" /\ DispatchStep)
    /\ \A s \in Streams :
         WF_signalVars(part = "signals" /\ (signal_poll_recv(s) \/ install_waker(s)))
    /\ WF_handlerVars(part = "handlers" /\ watcher_sends)
    /\ WF_handlerVars(part = "handlers" /\ SignalCommand)
    /\ WF_handlerVars(part = "handlers" /\ run_signal_callback)
    /\ WF_reaperVars(part = "reaper" /\ reaper_takes)
    /\ WF_reaperVars(part = "reaper" /\ reaper_signal)
    /\ \A k \in Kids : /\ WF_reaperVars(part = "reaper" /\ pidfd_ready(k))
                       /\ WF_reaperVars(part = "reaper" /\ thread_waits(k))
                       /\ WF_reaperVars(part = "reaper" /\ stdin_write_done(k))
                       /\ WF_reaperVars(part = "reaper" /\ k \in EofKids /\ child_exits(k))
    /\ WF_processVars(part = "process" /\ DrainProcess)
    /\ WF_processVars(part = "process" /\ WaiterThread)
    /\ WF_processVars(part = "process" /\ WaitStep)
    /\ WF_processVars(part = "process" /\ stdin_connection_lost)
    /\ \A a \in Actors : WF_processVars(part = "process" /\ ActorStep(a))
    /\ \A fd \in Outputs :
         WF_processVars(part = "process" /\ (reader_data(fd) \/ pipe_reader_ends(fd)))
    /\ \A o \in Operations : /\ WF_socketVars(part = "sock" /\ SocketStep(o) /\ UNCHANGED used)
                             /\ WF_socketVars(part = "sock" /\ WaiterTask(o) /\ UNCHANGED used)
    /\ WF_socketVars(part = "sock" /\ used = {Sender} /\ peer_drains /\ UNCHANGED used)
    /\ WF_connectVars(part = "connect" /\ run_connect_watch_task)
    /\ WF_connectVars(part = "connect" /\ LoopCallback)
    /\ \A a \in Tries : /\ WF_connectVars(part = "connect" /\ connect_resolves(a) /\ att'[a].net # "inprogress")
                        /\ WF_connectVars(part = "connect" /\ SmolTask(a))
    /\ WF_datagramVars(part = "datagram" /\ FlushTask)
    /\ SF_datagramVars(part = "datagram" /\ FlushTask /\ dbuf' # dbuf)
    /\ WF_datagramVars(part = "datagram" /\ socket_writable)
    /\ WF_datagramVars(part = "datagram" /\ read_loop)
    /\ WF_datagramVars(part = "datagram" /\ reader_ends)
    /\ WF_datagramVars(part = "datagram" /\ datagram_made)
    /\ WF_datagramVars(part = "datagram" /\ datagram_lost)
    /\ WF_serverVars(part = "server" /\ AcceptorStep)
    /\ WF_serverVars(part = "server" /\ CloseStep)
    /\ WF_serverVars(part = "server" /\ ConnStep)
    /\ WF_serverVars(part = "server" /\ WaiterStep)
    /\ WF_serverVars(part = "server" /\ connection_lost_check)
    /\ WF_serverVars(part = "server" /\ notify_all)

LoopSpec == LoopInit /\ [][LoopNext]_loopVars /\ LoopFairness

-----------------------------------------------------------------------------
\* A watch stays armed while its callback is registered and never calls one
\* that was removed; a datagram endpoint keeps its order and its marks, and a
\* queue has a flush unless abort() or a raising callback ended it.
DescriptorsSafe == (part = "watch" => WatchSafe) /\ (part = "datagram" => DatagramSafe)

\* A signal that was caught is counted for every stream, and reaches the
\* handler of its number that is registered.
SignalsSafe == (part = "signals" => SignalSafe) /\ (part = "handlers" => HandlersSafe)

\* A child is made as asked and is reaped once, under its own pid; no write end
\* of its outputs stays behind in the parent, nor in a sibling where the GIL
\* keeps spawns apart; its transport reports the data of the pipes and the exit
\* before the loss, unless waiting failed or the loop is closed.
ChildrenSafe ==
    /\ part = "reaper" => ReaperSafe
    /\ part = "process" => ProcessSafe
    /\ part = "spawn" => SpawnSafe

\* A sock_ call takes nothing for a caller that is gone; a connect tells its
\* caller the truth about its own socket, and a wait on the loop's own reactor
\* keeps its registration (one on async-io's may lose it).
SocketCallsSafe == (part = "sock" => SocketOpsSafe) /\ (part = "connect" => ConnectSafe)

\* Handshakes and connections are counted while they last, whichever way each
\* ends: the one miscount is a plain transport lost after connection_made raised,
\* which lowers a counter it never raised.
ServersSafe == part = "server" => ServerSafe

\* A ready descriptor's callback runs, a signal is received and reaches its
\* handler, a child's end is reported, a ready sock_ call and a connect end, a
\* closed endpoint reports connection_lost, and waiters of a server return: none
\* of it stays owed, but for the ways out each Owed predicate names.
LoopOwes ==
    \/ part = "watch" /\ WatchOwed
    \/ part = "signals" /\ SignalOwed
    \/ part = "handlers" /\ HandlersOwed
    \/ part = "reaper" /\ ReaperOwed
    \/ part = "process" /\ ProcessOwed
    \/ part = "sock" /\ SocketOwed
    \/ part = "connect" /\ ConnectOwed
    \/ part = "datagram" /\ DatagramOwed
    \/ part = "server" /\ WaiterOwed
LoopServed == []<>~LoopOwes

=============================================================================
