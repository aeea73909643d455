----------------------------- MODULE NetSockets -----------------------------
(***************************************************************************)
(* The runtime's socket and pipe wrappers (vibeio/net, vibeio/io/pipe.rs)  *)
(* over InnerRawHandle (fd_inner.rs).  A wrapper owns a descriptor and its *)
(* registration with the driver; an adaptive type uses completions where   *)
(* the driver has them, a Poll type always readiness.  The O_NONBLOCK flag *)
(* belongs to the open file description, which duplicates share: readiness *)
(* I/O needs it set, completion I/O needs it clear.                        *)
(***************************************************************************)
EXTENDS Naturals, FiniteSets

CONSTANTS Wraps, NetFds,
          Drivers,        \* subset of {"completion", "readiness"}
          Addresses,      \* addresses a host name resolves to
          NoWrap, NoFd

ASSUME NetSocketsAssumption ==
  /\ Drivers \subseteq {"completion", "readiness"} /\ Addresses \in Nat \ {0}
  /\ NoFd \notin NetFds

VARIABLES drv,
          wrap,       \* wrapper -> NoWrap or [api, mode, fd, left, ready]
          slab,       \* the driver's registrations: wrapper -> descriptor or NoFd
          desc,       \* descriptor -> open file description, NoFd when closed
          nonblocking,\* O_NONBLOCK of each description
          held,       \* descriptors the caller holds outside any wrapper
          incoming,   \* descriptions with data to read
          task,       \* the task using a wrapper: "idle", "parked" or "ready"
          mixed,      \* history: descriptions whose duplicates were put in different modes
          seen        \* history: outcomes of attempts that no operation may have, on others

netVars == <<drv, wrap, slab, desc, nonblocking, held, incoming, task, mixed, seen>>

NetSocketsInit ==
  /\ drv \in Drivers
  /\ wrap = [w \in Wraps |-> NoWrap] /\ slab = [w \in Wraps |-> NoFd]
  /\ desc = [f \in NetFds |-> NoFd] /\ nonblocking = [f \in NetFds |-> FALSE]
  /\ held = {} /\ incoming = {} /\ task = [w \in Wraps |-> "idle"]
  /\ mixed = {} /\ seen = {}

Free(f) == desc[f] = NoFd /\ \A g \in NetFds : desc[g] # f
Live == {w \in Wraps : wrap[w] # NoWrap}
Flag(f) == nonblocking[desc[f]]

\* A descriptor given away is in no wrapper; one shared as an Arc is wrapped once here.
Alone(f) == \A v \in Live : wrap[v].fd # f

\* A wrapper in this mode is put on d while those in others are on it: the first one alone
\* sets the flag for itself, the last one for all.
Mixing(d, mode, others) ==
  LET onto == {v \in others : desc[wrap[v].fd] = d} IN
  IF onto = {} THEN mixed \ {d}
  ELSE IF \E v \in onto : wrap[v].mode # mode THEN mixed \cup {d} ELSE mixed

-----------------------------------------------------------------------------
(* InnerRawHandle. *)

\* new_with_driver_and_mode: completion falls back where the driver has none.
Effective(mode) == IF mode = "completion" /\ drv # "completion" THEN "poll" ELSE mode

\* epoll takes a descriptor once; io_uring registers it any number of times.
Registers(f) == drv = "completion" \/ f \notin {slab[w] : w \in Live}

\* Drop: the registration goes first, then the descriptor unless it is shared.
Dropped(w, f) ==
  /\ wrap' = [wrap EXCEPT ![w] = NoWrap] /\ slab' = [slab EXCEPT ![w] = NoFd]
  /\ desc' = IF f \in held THEN desc ELSE [desc EXCEPT ![f] = NoFd]
  /\ task' = [task EXCEPT ![w] = "idle"]
  /\ UNCHANGED <<drv, nonblocking, held, incoming, mixed, seen>>

New(api, mode, f, left) == [api |-> api, mode |-> mode, fd |-> f, left |-> left, ready |-> FALSE]

\* from_std_with_mode, from_shared_with_mode: register, then set the flag to
\* match the mode; a failure of either drops what there is.
Wrapped(w, f, d, api, mode, left, keep) ==
  /\ wrap[w] = NoWrap /\ UNCHANGED <<drv, incoming, task, seen>>
  /\ \/ /\ Registers(f)
        /\ wrap' = [wrap EXCEPT ![w] = New(api, Effective(mode), f, left)]
        /\ slab' = [slab EXCEPT ![w] = f]
        /\ desc' = [desc EXCEPT ![f] = d]
        /\ nonblocking' = [nonblocking EXCEPT ![d] = Effective(mode) = "poll"]
        /\ held' = IF keep THEN held ELSE held \ {f}
        /\ mixed' = Mixing(d, Effective(mode), Live)
     \/ /\ desc' = IF keep THEN desc ELSE [desc EXCEPT ![f] = NoFd]
        /\ held' = IF keep THEN held ELSE held \ {f}
        /\ UNCHANGED <<wrap, slab, nonblocking, mixed>>

\* A constructor that makes its socket, and one that is given it.
Made(w, api, mode, left) ==
  \E f \in NetFds : Free(f) /\ Wrapped(w, f, f, api, mode, left, FALSE)
Given(w, api, mode) ==
  \E f \in held :
    /\ Alone(f)
    /\ Wrapped(w, f, desc[f], api, mode, 0, FALSE)
Shared(w, api, mode) ==
  \E f \in held :
    /\ Alone(f)
    /\ Wrapped(w, f, desc[f], api, mode, 0, TRUE)

UdpSocket_bind(w) == Made(w, "adaptive", "completion", 0)
UdpSocket_from_std(w) == Given(w, "adaptive", "completion")
PollUdpSocket_bind(w) == Made(w, "poll", "poll", 0)
TcpStream_from_shared(w) == \E m \in {"completion", "poll"} : Shared(w, "adaptive", m)
PollTcpStream_from_shared(w) == Shared(w, "poll", "poll")
UnixStream_from_std(w) == Given(w, "adaptive", "completion")
PollUnixStream_from_std(w) == Given(w, "poll", "poll")
TcpListener_from_std(w) == Given(w, "adaptive", "completion")
pipe(w) == Made(w, "adaptive", "completion", 0)

\* from_shared_nonblocking registers and leaves the flag as the caller set it.
from_shared_nonblocking(w) ==
  \E f \in held :
    /\ Flag(f) /\ Alone(f)
    /\ wrap[w] = NoWrap /\ Registers(f)
    /\ wrap' = [wrap EXCEPT ![w] = New("poll", "poll", f, 0)]
    /\ slab' = [slab EXCEPT ![w] = f] /\ mixed' = Mixing(desc[f], "poll", Live)
    /\ UNCHANGED <<drv, desc, nonblocking, held, incoming, task, seen>>

\* TcpListener::accept: the kernel's new descriptor becomes a stream.
accept(w) == (\E l \in Live : l # w /\ wrap[l].left = 0) /\ Made(w, "adaptive", "completion", 0)

\* try_clone: the duplicate is registered as an adaptive socket is, that of a
\* PollUdpSocket too, and the flag the two share is set for it.
CloneMode(w) == "completion"

try_clone(v, w) ==
  /\ v \in Live /\ wrap[v].left = 0 /\ v # w
  /\ \E f \in NetFds :
       Free(f) /\ Wrapped(w, f, desc[wrap[v].fd], wrap[v].api, CloneMode(v), 0, FALSE)

-----------------------------------------------------------------------------
(* Conversions.  Each consumes the wrapper, so no operation is under way. *)

\* rebind_mode with the flag set after it.  A registration that fails leaves
\* nothing registered, a flag that fails leaves it registered; both drop.
Rebound(w, api, mode) ==
  LET s == wrap[w] IN
  /\ w \in Live /\ s.left = 0 /\ task[w] = "idle"
  /\ \/ /\ wrap' = [wrap EXCEPT ![w] = New(api, Effective(mode), s.fd, 0)]
        /\ nonblocking' = [nonblocking EXCEPT ![desc[s.fd]] = Effective(mode) = "poll"]
        /\ slab' = [slab EXCEPT ![w] = s.fd]
        /\ mixed' = Mixing(desc[s.fd], Effective(mode), Live \ {w})
        /\ UNCHANGED <<drv, desc, held, incoming, task, seen>>
     \/ s.mode # Effective(mode) /\ Dropped(w, s.fd)

into_poll(w) == wrap[w] # NoWrap /\ wrap[w].api = "adaptive" /\ Rebound(w, "poll", "poll")
into_completion(w) == wrap[w] # NoWrap /\ wrap[w].api = "poll" /\ Rebound(w, "adaptive", "completion")
into_adaptive(w) ==
  /\ w \in Live /\ wrap[w].api = "poll" /\ task[w] = "idle"
  /\ wrap' = [wrap EXCEPT ![w].api = "adaptive"]
  /\ UNCHANGED <<drv, slab, desc, nonblocking, held, incoming, task, mixed, seen>>

\* into_std, into_raw_fd: the registration is dropped, the descriptor handed
\* over; a shared one is duplicated.
into_raw_fd(w) ==
  LET f == wrap[w].fd IN
  /\ w \in Live /\ wrap[w].left = 0 /\ task[w] = "idle"
  /\ wrap' = [wrap EXCEPT ![w] = NoWrap] /\ slab' = [slab EXCEPT ![w] = NoFd]
  /\ IF f \in held
     THEN \E g \in NetFds : Free(g) /\ desc' = [desc EXCEPT ![g] = desc[f]] /\ held' = held \cup {g}
     ELSE held' = held \cup {f} /\ UNCHANGED desc
  /\ UNCHANGED <<drv, nonblocking, incoming, task, mixed, seen>>

drop_socket(w) == w \in Live /\ Dropped(w, wrap[w].fd)

\* The caller closes a descriptor it holds (an Arc lives on in its wrapper),
\* or opens one of its own.
close_held ==
  \E f \in held :
    /\ held' = held \ {f}
    /\ desc' = IF \E w \in Live : wrap[w].fd = f THEN desc ELSE [desc EXCEPT ![f] = NoFd]
    /\ UNCHANGED <<drv, wrap, slab, nonblocking, incoming, task, mixed, seen>>
open_held ==
  \E f \in NetFds, flag \in BOOLEAN :
    /\ Free(f) /\ held' = held \cup {f} /\ desc' = [desc EXCEPT ![f] = f]
    /\ nonblocking' = [nonblocking EXCEPT ![f] = flag] /\ incoming' = incoming \ {f}
    /\ UNCHANGED <<drv, wrap, slab, task, mixed, seen>>

-----------------------------------------------------------------------------
(* Connecting tries the addresses in turn, each with a socket of its own. *)

TcpStream_connect(w) == Made(w, "adaptive", "completion", Addresses)
PollTcpStream_connect(w) == Made(w, "poll", "poll", Addresses)

connect_one(w, ok) ==
  LET s == wrap[w] IN
  /\ w \in Live /\ s.left > 0
  /\ IF ok THEN /\ wrap' = [wrap EXCEPT ![w].left = 0]
                /\ UNCHANGED <<drv, slab, desc, nonblocking, held, incoming, task, mixed, seen>>
     ELSE Dropped(w, s.fd)

\* The next address, on a new socket registered as the last one was.
connect_next(w, left, api) ==
  left \in 1..(Addresses - 1) /\ Made(w, api, IF api = "poll" THEN "poll" ELSE "completion", left)

-----------------------------------------------------------------------------
(* Operations. *)

data_arrives ==
  \E f \in NetFds :
    /\ desc[f] # NoFd /\ desc[f] \notin incoming /\ incoming' = incoming \cup {desc[f]}
    /\ UNCHANGED <<drv, wrap, slab, desc, nonblocking, held, task, mixed, seen>>

\* What one attempt on w meets: a readiness attempt that finds no data blocks
\* the thread unless the description is non-blocking, a completion that finds
\* none fails at once if it is.
Outcome(w) ==
  LET s == wrap[w] IN
  IF desc[s.fd] \in incoming THEN "data"
  ELSE IF s.mode = "poll" THEN (IF Flag(s.fd) THEN "wait" ELSE "blocks")
  ELSE (IF Flag(s.fd) THEN "would block" ELSE "wait")

Misfit(w, outcome) ==
  IF outcome \in {"data", "wait"} \/ desc[wrap[w].fd] \in mixed THEN {} ELSE {outcome}

Attempt(w, outcome, takes) ==
  /\ incoming' = IF takes /\ outcome = "data" THEN incoming \ {desc[wrap[w].fd]} ELSE incoming
  /\ task' = [task EXCEPT ![w] = IF outcome = "wait" THEN "parked" ELSE "idle"]
  /\ seen' = seen \cup Misfit(w, outcome)
  /\ UNCHANGED <<drv, wrap, slab, desc, nonblocking, held, mixed>>

\* poll_op: in the mode of the handle.
Operates(w, takes) ==
  w \in Live /\ wrap[w].left = 0 /\ wrap[w].api = "adaptive" /\ Attempt(w, Outcome(w), takes)
recv(w) == Operates(w, TRUE)
peek(w) == Operates(w, FALSE)
read(w) == Operates(w, TRUE)

\* poll_op_poll: refused on a handle that completes.
OperatesPolled(w, takes) ==
  /\ w \in Live /\ wrap[w].left = 0 /\ wrap[w].api = "poll"
  /\ Attempt(w, IF wrap[w].mode = "completion" THEN "unsupported" ELSE Outcome(w), takes)
poll_recv(w) == OperatesPolled(w, TRUE)
poll_peek(w) == OperatesPolled(w, FALSE)
poll_read(w) == OperatesPolled(w, TRUE)

\* Readiness or a completion wakes the task; a future may also be dropped.
wake_task(w) ==
  /\ task[w] = "parked" /\ desc[wrap[w].fd] \in incoming
  /\ task' = [task EXCEPT ![w] = "idle"]
  /\ UNCHANGED <<drv, wrap, slab, desc, nonblocking, held, incoming, mixed, seen>>
drop_future(w) ==
  /\ task[w] = "parked" /\ task' = [task EXCEPT ![w] = "idle"]
  /\ UNCHANGED <<drv, wrap, slab, desc, nonblocking, held, incoming, mixed, seen>>

\* poll_readable: the flag says the last readiness is not used up.  The first
\* poll sets it and waits, the poll after the wake reports it.
poll_readable(w) ==
  /\ w \in Live /\ wrap[w].left = 0 /\ wrap[w].api = "poll" /\ wrap[w].mode = "poll"
  /\ wrap' = [wrap EXCEPT ![w].ready = TRUE]
  /\ task' = [task EXCEPT ![w] = IF wrap[w].ready THEN "ready" ELSE "parked"]
  /\ UNCHANGED <<drv, slab, desc, nonblocking, held, incoming, mixed, seen>>

\* try_io_ready: only WouldBlock clears the flag.
try_io(w) ==
  /\ w \in Live /\ wrap[w].api = "poll" /\ wrap[w].ready /\ task[w] \in {"idle", "ready"}
  /\ LET outcome == Outcome(w) IN
     /\ wrap' = [wrap EXCEPT ![w].ready = outcome # "wait"]
     /\ incoming' = IF outcome = "data" THEN incoming \ {desc[wrap[w].fd]} ELSE incoming
     /\ seen' = seen \cup Misfit(w, outcome)
  /\ task' = [task EXCEPT ![w] = "idle"]
  /\ UNCHANGED <<drv, slab, desc, nonblocking, held, mixed>>

NetSocketsNext ==
  \/ \E w \in Wraps :
       \/ UdpSocket_bind(w) \/ UdpSocket_from_std(w) \/ PollUdpSocket_bind(w)
       \/ TcpStream_from_shared(w) \/ PollTcpStream_from_shared(w) \/ from_shared_nonblocking(w)
       \/ UnixStream_from_std(w) \/ PollUnixStream_from_std(w) \/ TcpListener_from_std(w)
       \/ pipe(w) \/ accept(w) \/ TcpStream_connect(w) \/ PollTcpStream_connect(w)
       \/ into_poll(w) \/ into_completion(w) \/ into_adaptive(w) \/ into_raw_fd(w) \/ drop_socket(w)
       \/ recv(w) \/ peek(w) \/ read(w) \/ poll_recv(w) \/ poll_peek(w) \/ poll_read(w)
       \/ wake_task(w) \/ drop_future(w) \/ poll_readable(w) \/ try_io(w)
       \/ \E v \in Wraps : try_clone(v, w)
       \/ \E ok \in BOOLEAN : connect_one(w, ok)
       \/ \E left \in 1..Addresses, api \in {"adaptive", "poll"} : connect_next(w, left, api)
  \/ close_held \/ open_held \/ data_arrives

NetSocketsSpec == NetSocketsInit /\ [][NetSocketsNext]_netVars

-----------------------------------------------------------------------------
NetSocketsTypeOK ==
  /\ drv \in Drivers /\ held \subseteq NetFds /\ incoming \subseteq NetFds
  /\ wrap \in [Wraps -> [api : {"adaptive", "poll"}, mode : {"completion", "poll"}, fd : NetFds,
                         left : 0..Addresses, ready : BOOLEAN] \cup {NoWrap}]
  /\ slab \in [Wraps -> NetFds \cup {NoFd}] /\ desc \in [NetFds -> NetFds \cup {NoFd}]
  /\ nonblocking \in [NetFds -> BOOLEAN] /\ mixed \subseteq NetFds /\ task \in [Wraps -> {"idle", "parked", "ready"}]
  /\ seen \subseteq {"blocks", "would block", "unsupported"}

\* Over every construction, conversion, clone and failure the driver holds
\* exactly the registrations of live wrappers, each naming its wrapper's open
\* descriptor, and no descriptor is open that nobody owns.
RegistrationsExact ==
  /\ \A w \in Wraps : slab[w] = IF wrap[w] = NoWrap THEN NoFd ELSE wrap[w].fd
  /\ \A w \in Live : desc[wrap[w].fd] # NoFd
  /\ {f \in NetFds : desc[f] # NoFd} = held \cup {wrap[w].fd : w \in Live}

\* O_NONBLOCK is what the mode of every wrapper on the description needs, so that
\* no attempt blocks the runtime thread and no completion fails for want of data,
\* and a Poll type "uses readiness-based (poll) I/O" (net/udp.rs): of every
\* socket whose duplicates were not put in different modes.  Callers may do that
\* by conversions, and PollUdpSocket::try_clone does it by itself; never where
\* the driver has no completions.
AttemptsFitMode ==
  /\ seen = {} /\ (drv = "readiness" => mixed = {})
  /\ \A w \in Live : desc[wrap[w].fd] \notin mixed =>
       /\ Flag(wrap[w].fd) = (wrap[w].mode = "poll")
       /\ wrap[w].api = "poll" => wrap[w].mode = "poll"

NetSocketsSafe == NetSocketsTypeOK /\ RegistrationsExact /\ AttemptsFitMode
=============================================================================
