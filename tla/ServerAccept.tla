---------------------------- MODULE ServerAccept ----------------------------
(***************************************************************************)
(* A listening server: its accept task, the connections it hands out and   *)
(* the counters wait_closed() reads (transport/stream/server_core.rs,      *)
(* accept.rs, py_server.rs, mod.rs).  The accept task runs on the loop     *)
(* thread (plain sockets) or on a worker thread (TLS), TLS handshakes on   *)
(* blocking threads, wait_closed() and serve_forever() on the futures      *)
(* executor's thread: every atomic load, decrement and notification is a   *)
(* step of its own.                                                        *)
(***************************************************************************)
EXTENDS Integers, FiniteSets, FiniteSetsExt

CONSTANTS
    Conns,          \* the peers that connect
    TlsLimit,       \* max_pending_tls_handshakes
    CountWidth      \* values of an AtomicUsize: 0 .. CountWidth - 1

ASSUME ServerAssumption ==
    /\ IsFiniteSet(Conns) /\ TlsLimit \in Nat \ {0}
    /\ CountWidth \in Nat /\ CountWidth > Cardinality(Conns) + 1

Waiters == {"wait_closed", "serve_forever"}

VARIABLES
    stls,           \* the server has TLS settings
    closed, serving, \* ServerState
    spawning,       \* spawn_accept_tasks has taken the listener and not queued it yet
    acceptor,       \* the accept task
    stopQueued,     \* a StopServerAccept item is queued
    server_closing,        \* how far close() has come
    conn,           \* where each connection is
    acceptTasks, activeConns, pendingTls,  \* the three counters
    overload,       \* tls_overload_reported
    checking,       \* threads in connection_lost between fetch_sub and is_closed
    notifying,      \* threads about to call closed_notify.notify_all
    server_waiter          \* the two waiting futures

serverVars == <<stls, closed, serving, spawning, acceptor, stopQueued, server_closing, conn,
                acceptTasks, activeConns, pendingTls, overload, checking, notifying, server_waiter>>
acceptVars == <<serving, spawning, acceptor, stopQueued, acceptTasks>>
closeVars  == <<stls, closed, server_closing>>

Dec(n) == (n - 1) % CountWidth
Inc(n) == (n + 1) % CountWidth

ServerInit ==
    /\ stls \in BOOLEAN /\ closed = FALSE /\ serving = FALSE
    /\ spawning = FALSE /\ acceptor = "none" /\ stopQueued = FALSE /\ server_closing = "no"
    /\ conn = [c \in Conns |-> "new"]
    /\ acceptTasks = 0 /\ activeConns = 0 /\ pendingTls = 0 /\ overload = FALSE
    /\ checking = 0 /\ notifying = 0
    /\ server_waiter = [w \in Waiters |-> [at |-> "idle", second |-> FALSE, heard |-> FALSE]]

(* ------------------------- the accept task ------------------------------ *)

spawn_accept_take ==
    /\ ~closed /\ ~serving /\ serving' = TRUE /\ spawning' = TRUE
    /\ UNCHANGED <<acceptor, stopQueued, acceptTasks, conn, activeConns, pendingTls,
                   overload, checking, notifying, server_waiter, closeVars>>

\* ServerAcceptTaskGuard::new: the task is counted before it is queued.
spawn_accept_queue ==
    /\ spawning /\ spawning' = FALSE
    /\ acceptTasks' = Inc(acceptTasks)
    /\ acceptor' = IF stls THEN "check" ELSE "queued"
    /\ UNCHANGED <<serving, stopQueued, conn, activeConns, pendingTls, overload,
                   checking, notifying, server_waiter, closeVars>>

\* Drop for ServerAcceptTaskGuard: the count goes down, then everyone is told.
AcceptorEnds ==
    /\ acceptor' = "gone" /\ acceptTasks' = Dec(acceptTasks)
    /\ notifying' = notifying + 1

\* The loop drops the start of a closed server; the dispatcher starts the task anyway.
start_server_accept ==
    /\ acceptor = "queued"
    /\ \/ closed /\ AcceptorEnds
       \/ acceptor' = "check" /\ UNCHANGED <<acceptTasks, notifying>>
    /\ UNCHANGED <<serving, spawning, stopQueued, conn, activeConns, pendingTls,
                   overload, checking, server_waiter, closeVars>>

accept_check ==
    /\ acceptor = "check"
    /\ IF closed THEN AcceptorEnds
       ELSE acceptor' = "accepting" /\ UNCHANGED <<acceptTasks, notifying>>
    /\ UNCHANGED <<serving, spawning, stopQueued, conn, activeConns, pendingTls,
                   overload, checking, server_waiter, closeVars>>

\* The blocking TLS loop accepts until the backlog is empty before it looks again.
accept_would_block ==
    /\ acceptor = "accepting" /\ stls /\ acceptor' = "check"
    /\ UNCHANGED <<serving, spawning, stopQueued, acceptTasks, conn, activeConns,
                   pendingTls, overload, checking, notifying, server_waiter, closeVars>>

\* An accept error, or a task that could not be started, ends it for good, closed or not.
accept_error ==
    /\ acceptor \in {"queued", "check", "accepting"} /\ AcceptorEnds
    /\ UNCHANGED <<serving, spawning, stopQueued, conn, activeConns, pendingTls,
                   overload, checking, server_waiter, closeVars>>

\* configure_accepted_tcp_stream, schedule_accepted_transport: a connection that cannot be
\* set up or handed on is dropped.  reserve_tls_handshake looks whether the server is closed ...
accept(c) ==
    /\ acceptor = "accepting" /\ conn[c] = "new"
    /\ \/ /\ conn' = [conn EXCEPT ![c] = "gone"]
          /\ acceptor' = IF stls THEN "accepting" ELSE "check"
       \/ ~stls /\ conn' = [conn EXCEPT ![c] = "queued"] /\ acceptor' = "check"
       \/ stls /\ ~closed /\ conn' = [conn EXCEPT ![c] = "picked"] /\ acceptor' = "reserving"
    /\ UNCHANGED <<serving, spawning, stopQueued, acceptTasks, activeConns, pendingTls,
                   overload, checking, notifying, server_waiter, closeVars>>

\* ... and then takes a slot unless the limit is reached.
SlotFree(n) == n < TlsLimit

reserve_tls_slot(c) ==
    /\ acceptor = "reserving" /\ conn[c] = "picked" /\ acceptor' = "accepting"
    /\ \/ /\ SlotFree(pendingTls) /\ conn' = [conn EXCEPT ![c] = "queued"]
          /\ pendingTls' = Inc(pendingTls) /\ UNCHANGED overload
       \/ /\ ~SlotFree(pendingTls) /\ conn' = [conn EXCEPT ![c] = "gone"]
          /\ overload' = (overload \/ ~closed) /\ UNCHANGED pendingTls
    /\ UNCHANGED <<serving, spawning, stopQueued, acceptTasks, activeConns, checking,
                   notifying, server_waiter, closeVars>>

(* --------------------------- connections -------------------------------- *)

\* connection_lost: fetch_sub; only the last connection looks at the closed flag.
LoseConnection ==
    /\ activeConns' = Dec(activeConns)
    /\ checking' = IF activeConns = 1 THEN checking + 1 ELSE checking

connection_lost_check ==
    /\ checking > 0 /\ checking' = checking - 1
    /\ notifying' = IF closed THEN notifying + 1 ELSE notifying
    /\ UNCHANGED <<conn, activeConns, pendingTls, overload, server_waiter, acceptVars, closeVars>>

\* spawn_tcp_transport / spawn_unix_transport: connection_made comes before
\* connection_opened, and a ServerAccepted item is served whether closed or not.  The
\* factory may fail, and connection_made may raise: its transport is not counted then, but
\* the protocol has it.
plain_connection_made(c) ==
    /\ ~stls /\ conn[c] = "queued"
    /\ \E next \in {"made", "gone", "rejected"} : conn' = [conn EXCEPT ![c] = next]
    /\ UNCHANGED <<activeConns, pendingTls, overload, checking, notifying, server_waiter,
                   acceptVars, closeVars>>

plain_connection_opened(c) ==
    /\ conn[c] = "made" /\ conn' = [conn EXCEPT ![c] = "open"]
    /\ activeConns' = Inc(activeConns)
    /\ UNCHANGED <<pendingTls, overload, checking, notifying, server_waiter, acceptVars, closeVars>>

\* Drop for PendingTlsHandshake.
ReleaseSlot ==
    /\ pendingTls' = Dec(pendingTls) /\ notifying' = notifying + 1
    /\ overload' = (overload /\ Dec(pendingTls) >= TlsLimit \div 2)

\* The blocking job starts, shakes hands, fails, times out or sees the server closed.
tls_handshake(c) ==
    /\ stls /\ conn[c] = "queued"
    /\ \/ ~closed /\ conn' = [conn EXCEPT ![c] = "shaken"]
          /\ UNCHANGED <<pendingTls, overload, notifying>>
       \/ conn' = [conn EXCEPT ![c] = "gone"] /\ ReleaseSlot
    /\ UNCHANGED <<activeConns, checking, server_waiter, acceptVars, closeVars>>

\* spawn_tls_transport after its last look at the server: connection_opened comes
\* first here, then connection_made.
tls_connection_opened(c) ==
    /\ conn[c] = "shaken" /\ conn' = [conn EXCEPT ![c] = "opened"]
    /\ activeConns' = Inc(activeConns)
    /\ UNCHANGED <<pendingTls, overload, checking, notifying, server_waiter, acceptVars, closeVars>>

\* connection_made returns or raises, the job ends and drops its slot; the loss of a
\* transport that was closed in the callback may have been reported by then.
tls_connection_made(c) ==
    /\ conn[c] \in {"opened", "over"} /\ ReleaseSlot
    /\ conn' = [conn EXCEPT ![c] = IF conn[c] = "opened" THEN "open" ELSE "gone"]
    /\ UNCHANGED <<activeConns, checking, server_waiter, acceptVars, closeVars>>

\* connection_lost_with_py, for a loss that was queued.  A transport whose connection_made
\* raised takes part in it when its protocol closes it.
LossLeaves(c) ==
    CASE conn[c] = "open" -> "gone" [] conn[c] = "opened" -> "over" [] OTHER -> "uncounted"

server_connection_lost(c) ==
    /\ conn[c] \in {"open", "opened", "rejected"}
    /\ conn' = [conn EXCEPT ![c] = LossLeaves(c)] /\ LoseConnection
    /\ UNCHANGED <<pendingTls, overload, notifying, server_waiter, acceptVars, closeVars>>

\* upgrade_stream moves the connection into a lease ...
start_tls(c) ==
    /\ ~stls /\ conn[c] = "open" /\ conn' = [conn EXCEPT ![c] = "leased"]
    /\ UNCHANGED <<activeConns, pendingTls, overload, checking, notifying, server_waiter,
                   acceptVars, closeVars>>

\* ... which the new transport takes over, or whose drop counts the loss.
\* Mutant: the lease is also dropped when the new transport takes over.
LeaseDropped_Always(upgraded) == LoseConnection
LeaseDropped(upgraded) ==
    IF upgraded THEN UNCHANGED <<activeConns, checking>> ELSE LoseConnection

finish_start_tls(c) ==
    /\ conn[c] = "leased"
    /\ \E upgraded \in BOOLEAN :
         /\ conn' = [conn EXCEPT ![c] = IF upgraded THEN "open" ELSE "gone"]
         /\ LeaseDropped(upgraded)
    /\ UNCHANGED <<pendingTls, overload, notifying, server_waiter, acceptVars, closeVars>>

(* ------------------------------ close() --------------------------------- *)

close_flags ==
    /\ ~closed /\ closed' = TRUE /\ serving' = FALSE /\ server_closing' = "drain"
    /\ UNCHANGED <<stls, spawning, acceptor, stopQueued, conn, acceptTasks, activeConns,
                   pendingTls, overload, checking, notifying, server_waiter>>

\* The worker thread is told to stop and woken, and sees it at its next look; a task of the loop thread is
\* cancelled, or a StopServerAccept is queued behind its start.
close_drain ==
    /\ server_closing = "drain" /\ server_closing' = "notify"
    /\ \/ stls /\ UNCHANGED <<acceptor, stopQueued, acceptTasks, notifying>>
       \/ /\ ~stls /\ acceptor \in {"check", "accepting"} /\ AcceptorEnds /\ UNCHANGED stopQueued
       \/ /\ ~stls /\ acceptor \notin {"check", "accepting"}
          /\ stopQueued' = (acceptor = "queued")
          /\ UNCHANGED <<acceptor, acceptTasks, notifying>>
    /\ UNCHANGED <<stls, closed, serving, spawning, conn, activeConns, pendingTls,
                   overload, checking, server_waiter>>

stop_server_accept ==
    /\ stopQueued /\ acceptor # "queued" /\ stopQueued' = FALSE
    /\ IF acceptor \in {"check", "accepting"} THEN AcceptorEnds
       ELSE UNCHANGED <<acceptor, acceptTasks, notifying>>
    /\ UNCHANGED <<serving, spawning, conn, activeConns, pendingTls, overload, checking,
                   server_waiter, closeVars>>

close_notify ==
    /\ server_closing = "notify" /\ server_closing' = "done" /\ notifying' = notifying + 1
    /\ UNCHANGED <<stls, closed, conn, activeConns, pendingTls, overload, checking, server_waiter,
                   acceptVars>>

(* --------------------- wait_closed, serve_forever ------------------------ *)

notify_all ==
    /\ notifying > 0 /\ notifying' = notifying - 1
    /\ server_waiter' = [w \in Waiters |-> [server_waiter[w] EXCEPT !.heard = TRUE]]
    /\ UNCHANGED <<conn, activeConns, pendingTls, overload, checking, acceptVars, closeVars>>

waiterStays == <<stls, closed, serving, spawning, acceptor, stopQueued, server_closing, conn,
                 acceptTasks, activeConns, pendingTls, overload, checking, notifying>>

call_waiter(w) ==
    /\ server_waiter[w].at = "idle" /\ server_waiter' = [server_waiter EXCEPT ![w].at = "closed"]
    /\ UNCHANGED waiterStays

\* One load of the condition; a load that fails sends the future on to listen or to sleep.
Loaded(w) ==
    LET here == server_waiter[w].at IN
    CASE here = "closed"  -> <<closed, IF w = "serve_forever" THEN "done" ELSE "tasks">>
      [] here = "tasks"   -> <<acceptTasks = 0, "conns">>
      [] here = "conns"   -> <<activeConns = 0, "pending">>
      [] here = "pending" -> <<pendingTls = 0, "done">>

waiter_load(w) ==
    /\ server_waiter[w].at \in {"closed", "tasks", "conns", "pending"}
    /\ server_waiter' = [server_waiter EXCEPT ![w].at =
                    IF Loaded(w)[1] THEN Loaded(w)[2]
                    ELSE IF server_waiter[w].second THEN "asleep" ELSE "listen"]
    /\ UNCHANGED waiterStays

waiter_listen(w) ==
    /\ server_waiter[w].at = "listen" /\ server_waiter' = [server_waiter EXCEPT ![w] =
                                      [at |-> "closed", second |-> TRUE, heard |-> FALSE]]
    /\ UNCHANGED waiterStays

waiter_wakes(w) ==
    /\ server_waiter[w].at = "asleep" /\ server_waiter[w].heard
    /\ server_waiter' = [server_waiter EXCEPT ![w] = [at |-> "closed", second |-> FALSE, heard |-> FALSE]]
    /\ UNCHANGED waiterStays

(* ------------------------------------------------------------------------ *)

AcceptorStep ==
    \/ spawn_accept_queue \/ start_server_accept \/ accept_check \/ accept_would_block
    \/ stop_server_accept \/ \E c \in Conns : reserve_tls_slot(c)
CloseStep == close_drain \/ close_notify
ConnStep == \E c \in Conns :
    \/ plain_connection_made(c) \/ tls_connection_made(c)
    \/ plain_connection_opened(c) \/ tls_handshake(c) \/ tls_connection_opened(c)
    \/ finish_start_tls(c)
WaiterStep == \E w \in Waiters : waiter_load(w) \/ waiter_listen(w) \/ waiter_wakes(w)

ServerNext ==
    \/ AcceptorStep \/ CloseStep \/ ConnStep \/ WaiterStep
    \/ connection_lost_check \/ notify_all
    \/ spawn_accept_take \/ accept_error \/ close_flags
    \/ \E c \in Conns : accept(c) \/ server_connection_lost(c) \/ start_tls(c)
    \/ \E w \in Waiters : call_waiter(w)

(* ------------------------------ properties ------------------------------ *)

InState(S) == Cardinality({c \in Conns : conn[c] \in S})

Accepting == {"queued", "check", "accepting", "reserving"}
Counted == {"open", "leased", "opened"}
Uncounted == {c \in Conns : conn[c] = "uncounted"}
Wrapped(n) == IF n < 0 THEN n + CountWidth ELSE n

\* Each counter is what it stands for: tasks with a guard, transports that count as
\* connections (a lease included), handshakes that hold a slot, never above the limit.  The
\* count of connections misses one for every transport that was lost after its
\* connection_made had raised, and then wraps around below zero.
CountersExact ==
    /\ acceptTasks = (IF acceptor \in Accepting THEN 1 ELSE 0)
    /\ activeConns = Wrapped(InState(Counted) - Cardinality(Uncounted))
    /\ pendingTls = IF stls THEN InState({"queued", "shaken", "opened", "over"}) ELSE 0
    /\ pendingTls <= TlsLimit

\* Once wait_closed() has returned no accept task is past its check and no handshake is
\* pending: nothing more is accepted and no slot is held.
WaitClosedEndsAccepting ==
    server_waiter["wait_closed"].at = "done" =>
        acceptor \notin {"accepting", "reserving"} /\ pendingTls = 0

\* What a waiting future waits for.
Satisfied(w) ==
    closed /\ (w = "serve_forever" \/ (acceptTasks = 0 /\ activeConns = 0 /\ pendingTls = 0))

\* A future sleeps un-notified although what it waits for holds only while the thread that
\* made it so is still on its way to notify_all, unless a connection was lost uncounted.
NoWaiterStranded ==
    \A w \in Waiters :
        Satisfied(w) /\ server_waiter[w].at = "asleep" /\ ~server_waiter[w].heard
            => \/ notifying > 0 \/ checking > 0 \/ server_closing \in {"drain", "notify"}
               \/ Uncounted # {}

ServerSafe == CountersExact /\ WaitClosedEndsAccepting /\ NoWaiterStranded

\* Nothing that wait_closed() waits for is left; a transport whose connection_made raised is
\* not waited for.
ServerIdle ==
    /\ closed /\ acceptor \notin Accepting /\ ~spawning
    /\ \A c \in Conns : conn[c] \in {"new", "gone", "rejected"}

\* wait_closed() on an idle server, and serve_forever() on a closed one, return.
WaiterOwed ==
    \/ ServerIdle /\ server_waiter["wait_closed"].at \notin {"idle", "done"}
    \/ closed /\ server_waiter["serve_forever"].at \notin {"idle", "done"}

\* mod.rs: wait_closed() additionally waits for accept workers and active connections
\* to finish, so none is open, or still to be opened, once it has returned.
WaitClosedHonest ==
    server_waiter["wait_closed"].at = "done" =>
        \A c \in Conns : conn[c] \in {"new", "gone", "rejected"}
=============================================================================
