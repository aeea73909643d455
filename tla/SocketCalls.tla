---------------------------- MODULE SocketCalls -----------------------------
(***************************************************************************)
(* loop.sock_recv, sock_recv_into, sock_sendall and sock_accept            *)
(* (bindings/loop_api/sock_ops.rs, socket_operation.rs).  A call tries the *)
(* Python socket at once; when that would block, an operation object waits *)
(* for readiness with a task of its own, which hands a callback to the     *)
(* loop for every new attempt.  The future may be cancelled at any time;   *)
(* the task hears of it from a done callback.                              *)
(*                                                                         *)
(* Receiving operations take one item each from the socket (a chunk of     *)
(* data, a connection); sending ones put SendLength bytes into it.         *)
(***************************************************************************)
EXTENDS Integers, Sequences, FiniteSets, FiniteSetsExt, SequencesExt, Functions

CONSTANTS Receivers, Sender,  \* operations
          SockItems,              \* items that arrive
          SendLength,         \* bytes of a sock_sendall
          SendTurn            \* send calls of one attempt (16)

ASSUME SocketOpsAssumption ==
    /\ IsFiniteSet(Receivers) /\ Sender \notin Receivers
    /\ SockItems \in Nat /\ SendLength \in Nat \ {0} /\ SendTurn \in Nat \ {0}

Operations == Receivers \cup {Sender}

VARIABLES future,    \* operation -> "none", "pending", "result", "error", "cancelled"
          doneCall,  \* operation -> the future's CancelWait is scheduled
          doneFlag,  \* operation -> WakeState.done
          request,   \* operation -> WakeState.request holds a callback
          started,   \* operation -> service_started
          sock_waiter,    \* operation -> wait_socket: "none", "request", "readiness", "ended"
          sock_ready,     \* operation -> callbacks of the operation in the loop's queue
          failure,   \* operation -> WakeState.error
          offset,    \* bytes the sender has sent
          inbound,   \* items waiting in the socket
          coming,    \* items yet to arrive
          taken,     \* items taken from the socket
          room,      \* bytes the socket accepts now
          used       \* the operations the program uses: two receiving, or one sending

socketVars == <<future, doneCall, doneFlag, request, started, sock_waiter, sock_ready, failure, offset, inbound,
                coming, taken, room, used>>

SocketOpsInit ==
    /\ future = [o \in Operations |-> "none"] /\ doneCall = [o \in Operations |-> FALSE]
    /\ doneFlag = [o \in Operations |-> FALSE] /\ request = [o \in Operations |-> FALSE]
    /\ started = [o \in Operations |-> FALSE] /\ sock_waiter = [o \in Operations |-> "none"]
    /\ sock_ready = [o \in Operations |-> 0] /\ failure = [o \in Operations |-> FALSE]
    /\ offset = 0 /\ inbound = 0 /\ coming = SockItems /\ taken = 0 /\ room = 0
    /\ used \in {Receivers, {Sender}}

SocketOpsTypeOK ==
    /\ future \in [Operations -> {"none", "pending", "result", "error", "cancelled"}]
    /\ doneCall \in [Operations -> BOOLEAN] /\ doneFlag \in [Operations -> BOOLEAN]
    /\ request \in [Operations -> BOOLEAN] /\ started \in [Operations -> BOOLEAN]
    /\ sock_waiter \in [Operations -> {"none", "request", "readiness", "ended"}]
    /\ sock_ready \in [Operations -> Nat] /\ failure \in [Operations -> BOOLEAN]
    /\ offset \in 0..SendLength /\ inbound \in Nat /\ coming \in Nat /\ taken \in Nat /\ room \in Nat
    /\ used \in {Receivers, {Sender}}

Peer == <<coming>>

\* SocketAction::attempt: a result, an error, or None to try again when the socket is ready.
attempt(o, outcome) ==
    IF o = Sender
    THEN \E n \in 0..Min({room, SendLength - offset}) :
           /\ offset' = offset + n /\ room' = room - n
           /\ outcome = IF offset + n = SendLength THEN "result" ELSE "again"
           /\ offset + n < SendLength => n = room \/ n >= SendTurn
           /\ UNCHANGED <<inbound, taken>>
    ELSE \/ /\ outcome = "result" /\ inbound > 0 /\ inbound' = inbound - 1 /\ taken' = taken + 1
            /\ UNCHANGED <<offset, room>>
         \/ outcome = "again" /\ inbound = 0 /\ UNCHANGED <<inbound, taken, offset, room>>

\* A socket method may also raise (the socket was closed, the peer reset).
attempt_raises == UNCHANGED <<inbound, taken, offset, room>>

\* The future is done: its callbacks are scheduled.
Complete(o, how) ==
    /\ future' = [future EXCEPT ![o] = how] /\ doneCall' = [doneCall EXCEPT ![o] = TRUE]

\* arm_wait: the descriptor is duplicated once, a callback is put in the request and the task
\* woken, or started the first time.
arm_wait(o) ==
    /\ request' = [request EXCEPT ![o] = TRUE] /\ started' = [started EXCEPT ![o] = TRUE]
    /\ sock_waiter' = [sock_waiter EXCEPT ![o] = IF started[o] THEN sock_waiter[o] ELSE "request"]

\* start, on the loop thread.  A future that is done at once has no CancelWait.
start(o) ==
    /\ future[o] = "none"
    /\ \/ \E outcome \in {"result", "again"} :
            /\ attempt(o, outcome)
            /\ future' = [future EXCEPT ![o] = IF outcome = "again" THEN "pending" ELSE outcome]
            /\ IF outcome = "again" THEN arm_wait(o) ELSE UNCHANGED <<request, started, sock_waiter>>
       \/ /\ attempt_raises \/ attempt(o, "again") \* the descriptor cannot be duplicated
          /\ future' = [future EXCEPT ![o] = "error"]
          /\ UNCHANGED <<request, started, sock_waiter>>
    /\ UNCHANGED <<doneCall, doneFlag, sock_ready, failure, Peer>>

\* start from another thread: the operation's first attempt is a callback.
start_elsewhere(o) ==
    /\ future[o] = "none" /\ attempt(o, "again")
    /\ future' = [future EXCEPT ![o] = "pending"] /\ sock_ready' = [sock_ready EXCEPT ![o] = @ + 1]
    /\ UNCHANGED <<doneCall, doneFlag, request, started, sock_waiter, failure, Peer>>

\* poll_operation: nothing once the future is done.
\* Mutant: the future is not looked at before the socket is tried.
StillWanted_Always(o) == TRUE
StillWanted(o) == future[o] = "pending"

poll_operation(o) ==
    /\ sock_ready[o] > 0 /\ sock_ready' = [sock_ready EXCEPT ![o] = @ - 1]
    /\ IF ~StillWanted(o)
       THEN UNCHANGED <<future, doneCall, request, started, sock_waiter, failure, offset, inbound, taken, room>>
       ELSE IF failure[o]
       THEN /\ failure' = [failure EXCEPT ![o] = FALSE] /\ Complete(o, "error")
            /\ UNCHANGED <<request, started, sock_waiter, offset, inbound, taken, room>>
       ELSE /\ UNCHANGED failure
            /\ \/ /\ attempt(o, "result") /\ UNCHANGED <<request, started, sock_waiter>>
                  /\ IF future[o] = "pending" THEN Complete(o, "result") ELSE UNCHANGED <<future, doneCall>>
               \/ attempt(o, "again") /\ arm_wait(o) /\ UNCHANGED <<future, doneCall>>
               \/ /\ attempt_raises \/ (~started[o] /\ attempt(o, "again"))
                  /\ Complete(o, "error") /\ UNCHANGED <<request, started, sock_waiter>>
    /\ UNCHANGED <<doneFlag, Peer>>

\* The program gives the future up.
cancel_operation(o) ==
    /\ future[o] = "pending" /\ Complete(o, "cancelled")
    /\ UNCHANGED <<doneFlag, request, started, sock_waiter, sock_ready, failure, offset, inbound, taken, room, Peer>>

\* CancelWait
cancel_sock_wait(o) ==
    /\ doneCall[o] /\ doneCall' = [doneCall EXCEPT ![o] = FALSE] /\ doneFlag' = [doneFlag EXCEPT ![o] = TRUE]
    /\ UNCHANGED <<future, request, started, sock_waiter, sock_ready, failure, offset, inbound, taken, room, Peer>>

(* --------------------------- the waiting task --------------------------- *)

Readable(o) == IF o = Sender THEN room > 0 ELSE inbound > 0

\* wait_socket polls for a request; with one it registers for readiness in the same poll.
waiter_polls(o) ==
    /\ sock_waiter[o] = "request" /\ (doneFlag[o] \/ request[o])
    /\ IF doneFlag[o]
       THEN sock_waiter' = [sock_waiter EXCEPT ![o] = "ended"] /\ request' = [request EXCEPT ![o] = FALSE]
       ELSE sock_waiter' = [sock_waiter EXCEPT ![o] = "readiness"] /\ request' = [request EXCEPT ![o] = FALSE]
    /\ UNCHANGED <<future, doneCall, doneFlag, started, sock_ready, failure, offset, inbound, coming, taken, room>>

\* The readiness, or an error of the registration, is delivered: one callback for the loop.
waiter_ready(o, fails) ==
    /\ sock_waiter[o] = "readiness" /\ ~doneFlag[o] /\ (Readable(o) \/ fails)
    /\ sock_ready' = [sock_ready EXCEPT ![o] = @ + 1] /\ failure' = [failure EXCEPT ![o] = fails]
    /\ sock_waiter' = [sock_waiter EXCEPT ![o] = IF fails THEN "ended" ELSE "request"]
    /\ UNCHANGED <<future, doneCall, doneFlag, request, started, offset, inbound, coming, taken, room>>

\* The done callback wakes the task, which looks at the flag.
Told(o) == doneFlag[o]

waiter_told(o) ==
    /\ sock_waiter[o] = "readiness" /\ Told(o) /\ sock_waiter' = [sock_waiter EXCEPT ![o] = "ended"]
    /\ UNCHANGED <<future, doneCall, doneFlag, request, started, sock_ready, failure, offset, inbound, coming,
                   taken, room>>

(* ------------------------------- the socket ----------------------------- *)

item_arrives ==
    /\ coming > 0 /\ coming' = coming - 1 /\ inbound' = inbound + 1
    /\ UNCHANGED <<future, doneCall, doneFlag, request, started, sock_waiter, sock_ready, failure, offset, taken, room>>

peer_drains ==
    /\ room = 0 /\ room' \in 1..2
    /\ UNCHANGED <<future, doneCall, doneFlag, request, started, sock_waiter, sock_ready, failure, offset, inbound,
                   coming, taken>>

WaiterTask(o) == waiter_polls(o) \/ (\E fails \in BOOLEAN : waiter_ready(o, fails)) \/ waiter_told(o)
SocketStep(o) == poll_operation(o) \/ cancel_sock_wait(o)

SocketOpsStep ==
    \/ \E o \in used : start(o) \/ start_elsewhere(o) \/ cancel_operation(o) \/ SocketStep(o) \/ WaiterTask(o)
    \/ used = Receivers /\ item_arrives
    \/ used = {Sender} /\ peer_drains

SocketOpsNext == SocketOpsStep /\ UNCHANGED used

\* The loop runs its callbacks and the runtime its tasks; the peer reads.
SocketOpsFairSpec ==
    /\ SocketOpsInit /\ [][SocketOpsNext]_socketVars
    /\ \A o \in Operations : 
          WF_socketVars(SocketStep(o) /\ UNCHANGED used) /\ WF_socketVars(WaiterTask(o) /\ UNCHANGED used)
    /\ WF_socketVars(used = {Sender} /\ peer_drains /\ UNCHANGED used)

(* ------------------------------ properties ------------------------------ *)

\* An operation waits in one place only: a queued callback, a request or a registration.
OneWait ==
    \A o \in Operations :
        sock_ready[o] + (IF request[o] THEN 1 ELSE 0) + (IF sock_waiter[o] = "readiness" THEN 1 ELSE 0) <= 1

\* A pending future has something that will come back to it.
NoneForgotten ==
    \A o \in Operations : future[o] = "pending" =>
        sock_ready[o] > 0 \/ (request[o] /\ sock_waiter[o] = "request") \/ sock_waiter[o] = "readiness"

\* What is taken from the socket reaches a future that was not cancelled before: as many items
\* were taken as receiving futures have a result.
NothingTakenForNobody == taken = Cardinality({o \in Receivers : future[o] = "result"})

\* sock_sendall ends with every byte sent.
SentWhole == future[Sender] = "result" <=> offset = SendLength

\* A task runs once an operation has armed it; it ends under a pending future only with an
\* error for it, and hears of the end only of a future that is done.
WaiterInStep ==
    \A o \in Operations :
        /\ sock_waiter[o] = "none" <=> ~started[o]
        /\ request[o] => started[o]
        /\ sock_waiter[o] = "ended" /\ future[o] = "pending" => failure[o]
        /\ doneCall[o] \/ doneFlag[o] => future[o] \notin {"none", "pending"}
        /\ future[o] = "none" => sock_ready[o] = 0 /\ ~request[o] /\ ~started[o]

\* What the sock_ operations promise.
SocketOpsSafe ==
    SocketOpsTypeOK /\ OneWait /\ NoneForgotten /\ WaiterInStep /\ NothingTakenForNobody /\ SentWhole

\* An operation whose socket stays ready ends, and a waiting task does not outlive its future.
SocketOwed ==
    \/ future[Sender] = "pending"
    \/ \E o \in Operations :
         \/ future[o] = "pending" /\ Readable(o)
         \/ future[o] \notin {"none", "pending"} /\ sock_waiter[o] \notin {"none", "ended"}

-----------------------------------------------------------------------------
(***************************************************************************)
(* Outgoing connections.  create_connection tries the resolved addresses   *)
(* one after the other; each attempt is a socket, a connect(2) that is     *)
(* mostly still in progress when it returns, a wait for writability and    *)
(* the reading of SO_ERROR.  Two paths do the waiting:                     *)
(*   fast    fast_sock_connect connects on the loop thread and leaves the  *)
(*           wait to run_connect_watch_task on the loop's own reactor;     *)
(*   native  sock_connect bridges a Rust future that connects and waits on *)
(*           smol's threads and async-io's reactor.                        *)
(* A reactor knows a socket by its descriptor number.  Closing a socket    *)
(* removes it from the reactor's epoll set and frees the number, which the *)
(* next socket takes.  The loop runs its callbacks in order and polls its  *)
(* own tasks in order; smol's threads are not ordered with either.         *)
(***************************************************************************)

CONSTANTS Clients,      \* coroutines that connect
          ConnFds,      \* descriptor numbers, of which a socket takes the least free
          Attempts,     \* bound on the attempts of a behaviour: a prefix of 1, 2, ...
          Addresses,    \* addresses a host resolves to
          Paths         \* subset of {"fast", "native"}

ASSUME ConnectWatchAssumption ==
  /\ Attempts \in Nat \ {0} /\ Addresses \in Nat \ {0} /\ Paths \subseteq {"fast", "native"}
  /\ ConnFds \subseteq Nat \ {0}

VARIABLES path,         \* the path every attempt takes
          client,       \* client[c]: [pc, left], left addresses still to be tried
          att,          \* att[a]: an attempt
          sockAt,       \* sockAt[f]: the attempt whose socket has number f, 0 when free
          epoll,        \* epoll[f]: the attempt the reactor watches f for, 0 for none
          callbacks,    \* the loop's queue
          tasks         \* watch tasks to be polled, in order (fast)

connectVars == <<path, client, att, sockAt, epoll, callbacks, tasks>>

Tries == 1..Attempts
Unused == [st |-> "unused", fd |-> 0, owner |-> 0, net |-> "none", wait |-> "none", done |-> FALSE]

ConnectWatchInit ==
  /\ path \in Paths
  /\ client = [c \in Clients |-> [pc |-> "idle", left |-> 0]]
  /\ att = [a \in Tries |-> Unused]
  /\ sockAt = [f \in ConnFds |-> 0] /\ epoll = [f \in ConnFds |-> 0]
  /\ callbacks = <<>> /\ tasks = <<>>

Fresh == {a \in Tries : att[a].st = "unused"}
FreeFds == {f \in ConnFds : sockAt[f] = 0}
Entry(kind, a, errno) == [kind |-> kind, a |-> a, errno |-> errno]

\* A future becomes done: its callbacks are queued in the order they were
\* added, the watch's own first.
Notified(q, a) == q \o <<Entry("done", a, "none"), Entry("wakeup", a, "none")>>

\* close(2): the number is free again and the kernel forgets the registration.
Closed(f) == /\ sockAt' = [sockAt EXCEPT ![f] = 0]
             /\ epoll' = [epoll EXCEPT ![f] = 0]

NextAddress(c) ==
  client' = [client EXCEPT ![c] = IF @.left = 1 THEN [pc |-> "failed", left |-> 0]
                                  ELSE [pc |-> "trying", left |-> @.left - 1]]

-----------------------------------------------------------------------------
create_connection(c) ==
  /\ client[c].pc \in {"idle", "failed", "cancelled"} /\ Fresh # {}
  /\ client' = [client EXCEPT ![c] = [pc |-> "trying", left |-> Addresses]]
  /\ UNCHANGED <<path, att, sockAt, epoll, callbacks, tasks>>

\* fast_sock_connect: the outcome of connect(2) decides.
fast_sock_connect(c) ==
  /\ path = "fast" /\ client[c].pc = "trying" /\ Fresh # {} /\ FreeFds # {}
  /\ LET a == Min(Fresh)  f == Min(FreeFds)
         New(st, net, wait) == [st |-> st, fd |-> f, owner |-> c, net |-> net, wait |-> wait, done |-> FALSE]
     IN \/ /\ att' = [att EXCEPT ![a] = New("ok", "connected", "none")]
           /\ client' = [client EXCEPT ![c].pc = "ok"]
           /\ sockAt' = [sockAt EXCEPT ![f] = a]
           /\ UNCHANGED <<epoll, tasks>>
        \/ /\ att' = [att EXCEPT ![a] = New("failed", "refused", "none")]
           /\ NextAddress(c)
           /\ UNCHANGED <<sockAt, epoll, tasks>>
        \/ /\ att' = [att EXCEPT ![a] = New("pending", "inprogress", "queued")]
           /\ client' = [client EXCEPT ![c].pc = "awaiting"]
           /\ sockAt' = [sockAt EXCEPT ![f] = a]
           /\ tasks' = Append(tasks, a)
           /\ UNCHANGED epoll
  /\ UNCHANGED <<path, callbacks>>

\* sock_connect: the future is spawned; connect(2) happens when it is polled.
sock_connect(c) ==
  /\ path = "native" /\ client[c].pc = "trying" /\ Fresh # {} /\ FreeFds # {}
  /\ LET a == Min(Fresh)  f == Min(FreeFds) IN
       /\ att' = [att EXCEPT ![a] = [st |-> "pending", fd |-> f, owner |-> c, net |-> "none",
                                     wait |-> "queued", done |-> FALSE]]
       /\ sockAt' = [sockAt EXCEPT ![f] = a]
  /\ client' = [client EXCEPT ![c].pc = "awaiting"]
  /\ UNCHANGED <<path, epoll, callbacks, tasks>>

\* The kernel ends a connect in progress, and an armed wait becomes runnable; or the wait
\* is told of a socket that can be written although the connect goes on.
connect_resolves(a) ==
  /\ att[a].net = "inprogress" /\ sockAt[att[a].fd] = a
  /\ LET woken == epoll[att[a].fd] = a /\ att[a].wait = "armed" IN
       /\ \E net \in {"connected", "refused", "inprogress"} :
            /\ net = "inprogress" => woken
            /\ att' = [att EXCEPT ![a].net = net, ![a].wait = IF woken THEN "woken" ELSE @]
       /\ tasks' = IF woken /\ path = "fast" THEN Append(tasks, a) ELSE tasks
  /\ UNCHANGED <<path, client, sockAt, epoll, callbacks>>

\* The coroutine that awaits attempt a is cancelled, and the future with it.
cancel_client(c) ==
  /\ client[c].pc = "awaiting"
  /\ \E a \in Tries :
       /\ att[a].owner = c /\ att[a].st = "pending"
       /\ att' = [att EXCEPT ![a].st = "cancelled"]
       /\ callbacks' = Notified(callbacks, a)
  /\ UNCHANGED <<path, client, sockAt, epoll, tasks>>

-----------------------------------------------------------------------------
(* run_connect_watch_task, polled by the loop's executor in order. *)

Writable(f) == sockAt[f] # 0 /\ att[sockAt[f]].net # "inprogress"

\* The handle goes, and with it whatever the reactor has under the number;
\* the completion is reported unless the future is done.
WatchEnds(a, errno) ==
  /\ att' = [att EXCEPT ![a].wait = "gone"]
  /\ epoll' = [epoll EXCEPT ![att[a].fd] = 0]
  /\ callbacks' = IF att[a].done THEN callbacks ELSE Append(callbacks, Entry("completed", a, errno))

run_connect_watch_task ==
  /\ tasks # <<>>
  /\ LET a == Head(tasks)  f == att[a].fd  first == att[a].wait = "queued" IN
       \/ /\ first /\ (sockAt[f] = 0 \/ epoll[f] # 0)      \* the registration fails
          /\ att' = [att EXCEPT ![a].wait = "gone"]
          /\ callbacks' = IF att[a].done THEN callbacks ELSE Append(callbacks, Entry("completed", a, "EBADF"))
          /\ UNCHANGED epoll
       \/ /\ first /\ sockAt[f] # 0 /\ epoll[f] = 0 /\ ~att[a].done /\ ~Writable(f)
          /\ att' = [att EXCEPT ![a].wait = "armed"]
          /\ epoll' = [epoll EXCEPT ![f] = a]
          /\ UNCHANGED callbacks
       \/ /\ first => sockAt[f] # 0 /\ epoll[f] = 0 /\ (att[a].done \/ Writable(f))
          /\ WatchEnds(a, "none")
  /\ tasks' = Tail(tasks)
  /\ UNCHANGED <<path, client, sockAt>>

-----------------------------------------------------------------------------
(* connect_socket_to_address, polled on any of smol's threads. *)

\* SO_ERROR of whatever socket the number names.
SoError(f) == CASE sockAt[f] = 0 -> "EBADF"
                [] sockAt[f] # 0 /\ att[sockAt[f]].net = "refused" -> "ECONNREFUSED"
                [] sockAt[f] # 0 /\ att[sockAt[f]].net = "inprogress" -> "EINPROGRESS"
                [] OTHER -> "none"

connect_socket_to_address(a) ==
  /\ path = "native" /\ att[a].wait = "queued" /\ ~att[a].done
  /\ \/ \E net \in {"connected", "refused"} :
          /\ att' = [att EXCEPT ![a].wait = "gone", ![a].net = net]
          /\ callbacks' = Append(callbacks, Entry("completed", a, IF net = "refused" THEN "ECONNREFUSED" ELSE "none"))
          /\ UNCHANGED epoll
     \/ /\ sockAt[att[a].fd] = a /\ epoll[att[a].fd] = 0
        /\ att' = [att EXCEPT ![a].wait = "armed", ![a].net = "inprogress"]
        /\ epoll' = [epoll EXCEPT ![att[a].fd] = a]
        /\ UNCHANGED callbacks
  /\ UNCHANGED <<path, client, sockAt, tasks>>

\* wait_writable returned: the connect has ended, or there is another wait.
wait_writable_ends(a) ==
  /\ path = "native" /\ att[a].wait = "woken" /\ ~att[a].done
  /\ LET so == SoError(att[a].fd) IN
       \/ so # "EINPROGRESS" /\ WatchEnds(a, so)
       \/ /\ so = "EINPROGRESS" /\ att' = [att EXCEPT ![a].wait = "armed"]
          /\ epoll' = [epoll EXCEPT ![att[a].fd] = a] /\ UNCHANGED callbacks
  /\ UNCHANGED <<path, client, sockAt, tasks>>

\* The bridge drops the future some time after it was told of the cancel.
bridge_drops(a) ==
  /\ path = "native" /\ att[a].done /\ att[a].wait \in {"queued", "armed", "woken"}
  /\ att' = [att EXCEPT ![a].wait = "gone"]
  /\ epoll' = IF att[a].wait = "queued" THEN epoll ELSE [epoll EXCEPT ![att[a].fd] = 0]
  /\ UNCHANGED <<path, client, sockAt, callbacks, tasks>>

-----------------------------------------------------------------------------
(* The loop's callbacks, in order. *)

Next1(kind) == callbacks # <<>> /\ Head(callbacks).kind = kind

\* ConnectDone.__call__: the flag, then the waker an armed watch has left.
Awakens(a) == path = "fast" /\ att[a].wait = "armed"
connect_done ==
  /\ Next1("done")
  /\ LET a == Head(callbacks).a IN
       /\ att' = [att EXCEPT ![a].done = TRUE, ![a].wait = IF Awakens(a) THEN "woken" ELSE @]
       /\ tasks' = IF Awakens(a) THEN Append(tasks, a) ELSE tasks
  /\ callbacks' = Tail(callbacks)
  /\ UNCHANGED <<path, client, sockAt, epoll>>

\* resolve_connect_completed; the bridge's call is the same but for SO_ERROR,
\* which the future has read already.  A connect still in progress is waited for again,
\* by a watch on the dispatcher's reactor.
resolve_connect_completed ==
  /\ Next1("completed")
  /\ LET e == Head(callbacks)  a == e.a
         so == IF path = "fast" THEN SoError(att[a].fd) ELSE "none"
         errno == IF so # "none" THEN so ELSE e.errno
     IN IF att[a].st # "pending"
          THEN att' = att /\ callbacks' = Tail(callbacks)
          ELSE IF errno = "EINPROGRESS"
          THEN att' = [att EXCEPT ![a].wait = "again"] /\ callbacks' = Tail(callbacks)
          ELSE /\ att' = [att EXCEPT ![a].st = IF errno = "none" THEN "ok" ELSE "failed"]
               /\ callbacks' = Notified(Tail(callbacks), a)
  /\ UNCHANGED <<path, client, sockAt, epoll, tasks>>

\* That watch ends: at the end of the connect, at a false report of it, or for a future that
\* is done, of which it may not have been told yet.
rearmed_watch_ends(a) ==
  /\ att[a].wait = "again" /\ att' = [att EXCEPT ![a].wait = "gone"]
  /\ \/ callbacks' = Append(callbacks, Entry("completed", a, IF sockAt[att[a].fd] = 0 THEN "EBADF" ELSE "none"))
     \/ att[a].st # "pending" /\ UNCHANGED callbacks
  /\ UNCHANGED <<path, client, sockAt, epoll, tasks>>

\* The coroutine goes on: it has a socket, or closes the one that failed.
client_wakes ==
  /\ Next1("wakeup")
  /\ LET a == Head(callbacks).a  c == att[a].owner IN
       CASE att[a].st = "ok" -> client' = [client EXCEPT ![c].pc = "ok"] /\ UNCHANGED <<sockAt, epoll>>
         [] att[a].st = "failed" -> NextAddress(c) /\ Closed(att[a].fd)
         [] att[a].st = "cancelled" ->
              client' = [client EXCEPT ![c] = [pc |-> "cancelled", left |-> 0]] /\ Closed(att[a].fd)
  /\ callbacks' = Tail(callbacks)
  /\ UNCHANGED <<path, att, tasks>>

LoopCallback == connect_done \/ resolve_connect_completed \/ client_wakes
SmolTask(a) == connect_socket_to_address(a) \/ wait_writable_ends(a) \/ bridge_drops(a)

ConnectWatchNext ==
  \/ \E c \in Clients : create_connection(c) \/ fast_sock_connect(c) \/ sock_connect(c) \/ cancel_client(c)
  \/ \E a \in Tries : connect_resolves(a) \/ SmolTask(a) \/ rearmed_watch_ends(a)
  \/ run_connect_watch_task \/ LoopCallback

ConnectWatchSpec == ConnectWatchInit /\ [][ConnectWatchNext]_connectVars

-----------------------------------------------------------------------------
ConnectTypeOK ==
  /\ path \in Paths
  /\ client \in [Clients -> [pc : {"idle", "trying", "awaiting", "ok", "failed", "cancelled"}, left : Int]]
  /\ att \in [Tries -> [st : {"unused", "pending", "ok", "failed", "cancelled"},
                        fd : ConnFds \cup {0}, owner : Clients \cup {0},
                        net : {"none", "inprogress", "connected", "refused"},
                        wait : {"none", "queued", "armed", "woken", "gone", "again"}, done : BOOLEAN]]
  /\ sockAt \in [ConnFds -> 0..Attempts] /\ epoll \in [ConnFds -> 0..Attempts]
  /\ callbacks \in Seq([kind : {"done", "completed", "wakeup"}, a : Tries,
                         errno : {"none", "EBADF", "ECONNREFUSED"}])
  /\ tasks \in Seq(Tries)
  /\ \A a \in Tries : IF att[a].st = "unused" THEN att[a] = Unused
                       ELSE att[a].fd \in ConnFds /\ att[a].owner \in Clients

\* The future tells the truth about its own socket, although SO_ERROR is read
\* from a number, in a callback that runs long after the wait ended.
FutureTellsTruth ==
  \A a \in Tries : /\ att[a].st = "ok" => att[a].net = "connected"
                   /\ att[a].st = "failed" => att[a].net = "refused"

\* A wait on the loop's reactor that has not been told to end is registered:
\* no older watch of the same number takes its registration along.
LiveWaitsRegistered ==
  \A a \in Tries : att[a].wait = "armed" /\ ~att[a].done => epoll[att[a].fd] = a

Live(a) == att[a].wait \in {"queued", "armed", "woken"}

\* A pending attempt's socket is open, and so is that of a wait that was not
\* told to end; once the coroutine has given up every socket it tried is closed.
SocketsAccounted ==
  /\ \A a \in Tries : att[a].st = "pending" \/ (Live(a) /\ ~att[a].done) => sockAt[att[a].fd] = a
  /\ \A f \in ConnFds : sockAt[f] # 0 =>
       LET a == sockAt[f] IN
         /\ att[a].st # "unused" /\ att[a].fd = f
         /\ client[att[a].owner].pc \notin {"idle", "failed", "cancelled", "trying"}
         /\ \A g \in ConnFds : sockAt[g] # 0 /\ att[sockAt[g]].owner = att[a].owner => g = f
  /\ \A f \in ConnFds : epoll[f] # 0 => sockAt[f] = epoll[f] /\ att[epoll[f]].wait \in {"armed", "woken"}

\* A number goes to a later attempt only when the earlier one's socket is closed.
NumbersReused ==
  \A a, b \in Tries : a < b /\ att[b].st # "unused" =>
     att[a].st # "unused" /\ (att[a].fd = att[b].fd => sockAt[att[a].fd] # a)

Queued(kind, a, S) == \E j \in S : callbacks[j].kind = kind /\ callbacks[j].a = a

\* A coroutine is resumed once, for a future that is done, with its socket
\* still open and after the watch was told of the end.
WakeupsDue ==
  \A i \in DOMAIN callbacks : LET a == callbacks[i].a IN
    callbacks[i].kind = "wakeup" =>
      /\ att[a].st \in {"ok", "failed", "cancelled"} /\ sockAt[att[a].fd] = a
      /\ att[a].done \/ Queued("done", a, 1..(i - 1))
      /\ \A j \in DOMAIN callbacks : callbacks[j].kind = "wakeup" /\ callbacks[j].a = a => j = i

\* A watch is told of the end before the coroutine is resumed for it.
DonesFollowed ==
  \A i \in DOMAIN callbacks : callbacks[i].kind = "done" =>
    Queued("wakeup", callbacks[i].a, (i + 1)..Len(callbacks))

\* A completion that finds its future pending is the only one, of a wait that is over, and
\* says what became of the connect; on the loop's reactor SO_ERROR says it.
CompletionsTrue ==
  \A i \in DOMAIN callbacks : LET a == callbacks[i].a IN
    callbacks[i].kind = "completed" =>
      /\ att[a].st # "unused"
      /\ att[a].st = "pending" =>
           /\ att[a].wait = "gone"
           /\ \A j \in DOMAIN callbacks : callbacks[j].kind = "completed" /\ callbacks[j].a = a => j = i
           /\ att[a].net \in {"connected", "refused"} \/ (path = "fast" /\ att[a].net = "inprogress")
           /\ callbacks[i].errno = IF path = "native" /\ att[a].net = "refused" THEN "ECONNREFUSED" ELSE "none"

ResumedInOrder ==
  /\ WakeupsDue /\ DonesFollowed /\ CompletionsTrue
  /\ \A a \in Tries : att[a].done => att[a].st \notin {"unused", "pending"}

\* A watch of the loop's own reactor is to be polled exactly when it is new or
\* was woken, and then once; smol polls the others, which start to connect then.
WatchesPolled ==
  /\ path = "native" =>
       tasks = <<>> /\ \A a \in Tries : att[a].wait = "queued" => att[a].net = "none"
  /\ path = "fast" => \A a \in Tries :
       /\ att[a].wait \in {"queued", "woken"} <=> \E i \in DOMAIN tasks : tasks[i] = a
       /\ att[a].st # "unused" => att[a].net # "none"
  /\ \A i, j \in DOMAIN tasks : tasks[i] = tasks[j] => i = j
  /\ \A a \in Tries : att[a].wait = "again" => path = "fast"
  /\ \A a \in Tries : att[a].wait \in {"armed", "woken"} => att[a].net # "none"

\* The watches of one number are polled in the order of their attempts: an old
\* one is over before a new one is armed.
OldWatchesFirst ==
  \A i \in DOMAIN tasks : \A b \in Tries :
    tasks[i] < b /\ att[b].fd = att[tasks[i]].fd /\ Live(b) =>
      att[b].wait = "queued" /\ \E j \in (i + 1)..Len(tasks) : tasks[j] = b

WatchesInOrder == WatchesPolled /\ OldWatchesFirst

\* What connecting promises; only on the loop's own reactor does a wait keep its
\* registration, since on smol's threads an older wait of the number may take it along
\* (see BorrowedFdOpen).
ConnectSafe ==
  /\ ConnectTypeOK /\ FutureTellsTruth /\ SocketsAccounted /\ NumbersReused
  /\ ResumedInOrder /\ WatchesInOrder
  /\ path = "fast" => LiveWaitsRegistered

\* platform/fd/mod.rs, wait_for_interest: the descriptor a wait has borrowed
\* stays open, and the same socket, for the duration of the wait.
BorrowedFdOpen ==
  \A a \in Tries : att[a].wait = "armed" => sockAt[att[a].fd] = a

\* A coroutine that awaits a connect is resumed, unless its wait was moved to the
\* dispatcher's reactor or lost its registration on async-io's.
ConnectOwed ==
  \E a \in Tries : /\ att[a].st # "unused" /\ client[att[a].owner].pc = "awaiting"
                   /\ sockAt[att[a].fd] = a /\ att[a].wait # "again"
                   /\ att[a].wait = "armed" => epoll[att[a].fd] = a
=============================================================================
