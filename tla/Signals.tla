------------------------------ MODULE Signals ------------------------------
(***************************************************************************)
(* The runtime's Unix signal streams (vibeio/signal/unix.rs), for one      *)
(* signal number: the handler that runs in signal context, the self-pipe,  *)
(* the dispatch thread, the registry entry shared by all streams, and the  *)
(* streams themselves with the counter they compare and the waker they     *)
(* leave behind.                                                           *)
(***************************************************************************)
EXTENDS Integers, FiniteSets

CONSTANTS
    Streams,        \* the Signal objects
    PipeRoom,       \* notifications the self-pipe holds
    SignalBound,    \* signals raised in a behaviour
    EntryBound      \* registry entries created in a behaviour

ASSUME SignalAssumption ==
    /\ IsFiniteSet(Streams) /\ {PipeRoom, SignalBound, EntryBound} \subseteq Nat \ {0}

VARIABLES
    raised,         \* signals raised so far
    action,         \* the installed disposition: "previous" or "ours"
    inHandler,      \* handlers between setting the flag and writing the pipe
    flag,           \* PENDING_SIGNALS[signum]
    self_pipe,           \* unread notifications
    dispatch,       \* the dispatch thread
    entries,        \* registry entries created so far; an entry is its SignalState
    entry, refs,    \* the registry's entry for the signal (0: none) and its references
    counter,        \* SignalState.counter of each entry
    stream          \* the Signal objects

signalVars == <<raised, action, inHandler, flag, self_pipe, dispatch, entries, entry, refs,
                counter, stream>>

Unborn == [at |-> "none", of |-> 0, seen |-> 0, waker |-> FALSE]
Entries == 1..EntryBound

SignalInit ==
    /\ raised = 0 /\ action = "previous" /\ inHandler = 0 /\ flag = FALSE /\ self_pipe = 0
    /\ dispatch = [at |-> "read", of |-> 0]
    /\ entries = 0 /\ entry = 0 /\ refs = 0
    /\ counter = [e \in Entries |-> 0]
    /\ stream = [s \in Streams |-> Unborn]

(* -------------------- signal context and dispatch thread ---------------- *)

\* signal_handler, PendingSignals::notify: the flag first, then the pipe.
signal_arrives ==
    /\ raised < SignalBound /\ raised' = raised + 1
    /\ IF action = "ours" THEN inHandler' = inHandler + 1 /\ flag' = TRUE
       ELSE UNCHANGED <<inHandler, flag>>
    /\ UNCHANGED <<action, self_pipe, dispatch, entries, entry, refs, counter, stream>>

\* write_signal_notification: the write end does not block; a full pipe drops the bytes.
write_notification ==
    /\ inHandler > 0 /\ inHandler' = inHandler - 1
    /\ self_pipe' = IF self_pipe < PipeRoom THEN self_pipe + 1 ELSE self_pipe
    /\ UNCHANGED <<raised, action, flag, dispatch, entries, entry, refs, counter, stream>>

\* dispatch_loop: one read takes some of the notifications, then every flag is looked at.
dispatch_read ==
    /\ dispatch.at = "read" /\ self_pipe > 0
    /\ \E n \in 1..self_pipe : self_pipe' = self_pipe - n
    /\ dispatch' = [dispatch EXCEPT !.at = "scan"]
    /\ UNCHANGED <<raised, action, inHandler, flag, entries, entry, refs, counter, stream>>

\* PendingSignals::take and dispatch_signal's look at the registry.
\* Mutant: the flag is read without being taken.
FlagAfterScan_Kept == flag
FlagAfterScan == FALSE

dispatch_scan ==
    /\ dispatch.at = "scan" /\ flag' = FlagAfterScan
    /\ dispatch' = IF flag /\ entry # 0 THEN [at |-> "count", of |-> entry]
                   ELSE [at |-> "read", of |-> 0]
    /\ UNCHANGED <<raised, action, inHandler, self_pipe, entries, entry, refs, counter, stream>>

dispatch_count ==
    /\ dispatch.at = "count" /\ dispatch' = [dispatch EXCEPT !.at = "wake"]
    /\ counter' = [counter EXCEPT ![dispatch.of] = @ + 1]
    /\ UNCHANGED <<raised, action, inHandler, flag, self_pipe, entries, entry, refs, stream>>

\* Every waker of the entry is taken and woken.
dispatch_wake ==
    /\ dispatch.at = "wake" /\ dispatch' = [at |-> "read", of |-> 0]
    /\ stream' = [s \in Streams |->
                    IF stream[s].of = dispatch.of /\ stream[s].waker
                    THEN [stream[s] EXCEPT !.waker = FALSE, !.at = "poll"]
                    ELSE stream[s]]
    /\ UNCHANGED <<raised, action, inHandler, flag, self_pipe, entries, entry, refs, counter>>

(* ------------------------------- streams -------------------------------- *)

\* Signal::new, register_signal: share the entry or install the handler.
new_signal(s) ==
    /\ stream[s].at = "none"
    /\ IF entry # 0
       THEN /\ refs' = refs + 1 /\ UNCHANGED <<entries, entry, action>>
            /\ stream' = [stream EXCEPT ![s] = [at |-> "poll", of |-> entry,
                                               seen |-> counter[entry], waker |-> FALSE]]
       ELSE /\ entries < EntryBound /\ entries' = entries + 1 /\ entry' = entries + 1
            /\ refs' = 1 /\ action' = "ours"
            /\ stream' = [stream EXCEPT ![s] = [at |-> "poll", of |-> entries + 1,
                                               seen |-> 0, waker |-> FALSE]]
    /\ UNCHANGED <<raised, inHandler, flag, self_pipe, dispatch, counter>>

Unseen(s) == counter[stream[s].of] # stream[s].seen
Received(s) == [stream[s] EXCEPT !.at = "got", !.seen = counter[stream[s].of], !.waker = FALSE]

\* poll_recv, first look: a signal, the same waker still in place, or go and clone one.
signal_poll_recv(s) ==
    /\ stream[s].at = "poll"
    /\ stream' = [stream EXCEPT ![s] =
                    IF Unseen(s) THEN Received(s)
                    ELSE IF stream[s].waker THEN [stream[s] EXCEPT !.at = "pending"]
                    ELSE [stream[s] EXCEPT !.at = "cloned"]]
    /\ UNCHANGED <<raised, action, inHandler, flag, self_pipe, dispatch, entries, entry, refs, counter>>

\* The clone was made outside the lock, so the counter is compared again before the
\* waker is left behind.
\* Mutant: the waker is left behind without a second look.
AfterClone_NoRecheck(s) == [stream[s] EXCEPT !.at = "pending", !.waker = TRUE]
AfterClone(s) ==
    IF Unseen(s) THEN Received(s) ELSE [stream[s] EXCEPT !.at = "pending", !.waker = TRUE]

install_waker(s) ==
    /\ stream[s].at = "cloned" /\ stream' = [stream EXCEPT ![s] = AfterClone(s)]
    /\ UNCHANGED <<raised, action, inHandler, flag, self_pipe, dispatch, entries, entry, refs, counter>>

\* The task polls again: after a signal, or spuriously.
recv_again(s) ==
    /\ stream[s].at \in {"got", "pending"} /\ stream' = [stream EXCEPT ![s].at = "poll"]
    /\ UNCHANGED <<raised, action, inHandler, flag, self_pipe, dispatch, entries, entry, refs, counter>>

\* Drop for Signal, unregister_signal: the last reference restores the previous
\* disposition; when that fails the entry stays with no reference.
drop_signal(s) ==
    /\ stream[s].at # "none" /\ stream' = [stream EXCEPT ![s] = Unborn]
    /\ \/ refs > 1 /\ refs' = refs - 1 /\ UNCHANGED <<entry, action>>
       \/ refs = 1 /\ refs' = 0 /\ entry' = 0 /\ action' = "previous"
       \/ refs = 1 /\ refs' = 0 /\ UNCHANGED <<entry, action>>
    /\ UNCHANGED <<raised, inHandler, flag, self_pipe, dispatch, entries, counter>>

DispatchStep == dispatch_read \/ dispatch_scan \/ dispatch_count \/ dispatch_wake
StreamStep == \E s \in Streams : signal_poll_recv(s) \/ install_waker(s)

SignalNext ==
    \/ signal_arrives \/ write_notification \/ DispatchStep \/ StreamStep
    \/ \E s \in Streams : new_signal(s) \/ recv_again(s) \/ drop_signal(s)

\* A handler returns, the dispatch thread is scheduled, a woken task is polled.
SignalFairSpec ==
    /\ SignalInit /\ [][SignalNext]_signalVars
    /\ WF_signalVars(write_notification) /\ WF_signalVars(DispatchStep)
    /\ \A s \in Streams : WF_signalVars(signal_poll_recv(s) \/ install_waker(s))

\* A raised flag is on its way to a scan: a handler has still to write, a notification is
\* unread (a full pipe loses bytes, never the signal), or the thread is about to scan.
FlagLeadsToScan == flag => inHandler > 0 \/ self_pipe > 0 \/ dispatch.at = "scan"

\* A stream that waits has a waker behind unless its signal was seen, and one with an
\* unseen signal waits only while the thread is about to wake it.
NoStreamStranded ==
    \A s \in Streams : stream[s].at = "pending" =>
        /\ stream[s].waker
        /\ Unseen(s) => dispatch = [at |-> "wake", of |-> stream[s].of]

\* The handler is installed while a stream lives, the references are the streams, and
\* every stream shares the registry's entry, so a dispatch reaches all of them.
RegistryExact ==
    LET alive == {s \in Streams : stream[s].at # "none"} IN
    /\ refs = Cardinality(alive)
    /\ (action = "ours") = (entry # 0)
    /\ \A s \in alive : stream[s].of = entry /\ action = "ours"

SignalSafe == FlagLeadsToScan /\ NoStreamStranded /\ RegistryExact

\* A signal that was handled reaches the streams: none waits for ever with a flag, a
\* notification or an unseen count outstanding.
SignalOwed ==
    \/ flag
    \/ \E s \in Streams : stream[s].at \in {"pending", "poll", "cloned"} /\ Unseen(s)
SignalReceived == []<>~SignalOwed
=============================================================================
