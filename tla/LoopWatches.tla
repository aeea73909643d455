---------------------------- MODULE LoopWatches ----------------------------
(***************************************************************************)
(* What the loop watches on behalf of its user: descriptors and signals.   *)
(*                                                                         *)
(* add_reader / add_writer are one-shot readiness watches of one           *)
(* descriptor in one direction (bindings/loop_api/watchers.rs,             *)
(* engine/loop_core.rs, engine/dispatcher.rs).  A watch fires once, its    *)
(* callback is queued, and the run re-arms it after the callback.  During  *)
(* a run the watch is a task of the loop thread's runtime, otherwise one   *)
(* of the dispatcher's.                                                    *)
(*                                                                         *)
(* add_signal_handler and remove_signal_handler, for one signal number,    *)
(* change the handler map of the loop state and send a command; the        *)
(* dispatcher starts and stops a watcher thread.  The two methods are      *)
(* called on the loop's thread (adding checks for the main thread), so the *)
(* map and the command change together; everything else happens later, in  *)
(* any order the threads make possible.                                    *)
(***************************************************************************)
EXTENDS Integers, Sequences, FiniteSets, SequencesExt

CONSTANTS
    MaxRegs,        \* registrations are 1 .. MaxRegs in the order they are made
    NoReg,
    CommandBound    \* remove_reader is not called while this many commands are queued

ASSUME WatchAssumption == {MaxRegs, CommandBound} \subseteq Nat /\ NoReg \notin 1..MaxRegs

Regs == 1..MaxRegs

VARIABLES
    watch_made,       \* registrations made so far
    keep,       \* reader_keepalive / writer_keepalive of this descriptor
    revoked,    \* registrations whose callback was cancelled
    watch_local,      \* the FD_WATCH_TASKS entry: the registration, and whether it still waits
    remote,     \* the dispatcher's reader_tasks / writer_tasks entry
    wcmds,      \* StartReader / StopReader commands on their way
    queue,      \* callbacks scheduled
    current,    \* the callback that is executing
    fdReady,    \* the descriptor is ready (level triggered)
    inRun,      \* a run is active
    waitFailed, \* the wait for the registered callback ended in an error
    strayCalls  \* callbacks invoked for a registration that was not the current one

watchVars == <<watch_made, keep, revoked, watch_local, remote, wcmds, queue, current, fdReady, inRun,
               waitFailed, strayCalls>>

WatchIdle == [reg |-> NoReg, waits |-> FALSE]
Armed(r) == [reg |-> r, waits |-> TRUE]

WatchInit ==
    /\ watch_made = 0 /\ keep = NoReg /\ revoked = {} /\ watch_local = WatchIdle /\ remote = WatchIdle
    /\ wcmds = <<>> /\ queue = <<>> /\ current = NoReg
    /\ fdReady \in BOOLEAN /\ inRun \in BOOLEAN /\ waitFailed = FALSE /\ strayCalls = {}

\* start_fd_watch: on the runtime thread a local task that replaces the entry; otherwise
\* the dispatcher's, after a stale local entry is dropped.
StartWatch(r, cmds) ==
    IF inRun THEN watch_local' = Armed(r) /\ wcmds' = cmds
    ELSE watch_local' = WatchIdle /\ wcmds' = Append(cmds, [op |-> "start", reg |-> r])

\* stop_fd_watch: the local entry if there is one, else a command.
StopCommands(entry) == IF entry.reg # NoReg THEN wcmds ELSE Append(wcmds, [op |-> "stop", reg |-> NoReg])

\* add_reader / add_writer; a replaced registration is cancelled and its watch stopped.
add_reader ==
    /\ watch_made < MaxRegs /\ watch_made' = watch_made + 1 /\ keep' = watch_made + 1
    /\ IF keep = NoReg
       THEN StartWatch(watch_made + 1, wcmds) /\ UNCHANGED revoked
       ELSE StartWatch(watch_made + 1, StopCommands(watch_local)) /\ revoked' = revoked \cup {keep}
    /\ waitFailed' = FALSE
    /\ UNCHANGED <<remote, queue, current, fdReady, inRun, strayCalls>>

\* remove_reader / remove_writer, registered or not.
remove_reader ==
    /\ keep' = NoReg /\ revoked' = revoked \cup ({keep} \ {NoReg})
    /\ wcmds' = StopCommands(watch_local) /\ watch_local' = WatchIdle
    /\ Len(wcmds) < CommandBound
    /\ UNCHANGED <<watch_made, remote, queue, current, fdReady, inRun, waitFailed, strayCalls>>

\* wait_fd_ready returned in a task: the callback is scheduled unless cancelled.
Fired(r) == IF r \in revoked THEN queue ELSE Append(queue, r)

local_fires ==
    /\ inRun /\ watch_local.waits /\ fdReady
    /\ watch_local' = [watch_local EXCEPT !.waits = FALSE] /\ queue' = Fired(watch_local.reg)
    /\ UNCHANGED <<watch_made, keep, revoked, remote, wcmds, current, fdReady, inRun, waitFailed, strayCalls>>

remote_fires ==
    /\ remote.waits /\ fdReady
    /\ remote' = [remote EXCEPT !.waits = FALSE] /\ queue' = Fired(remote.reg)
    /\ UNCHANGED <<watch_made, keep, revoked, watch_local, wcmds, current, fdReady, inRun, waitFailed, strayCalls>>

\* poll_fd, dup or the registration failed: the task ends, the registration stays.
watch_error ==
    /\ \/ /\ inRun /\ watch_local.waits /\ watch_local' = [watch_local EXCEPT !.waits = FALSE]
          /\ waitFailed' = (waitFailed \/ watch_local.reg = keep) /\ UNCHANGED remote
       \/ /\ remote.waits /\ remote' = [remote EXCEPT !.waits = FALSE]
          /\ waitFailed' = (waitFailed \/ remote.reg = keep) /\ UNCHANGED watch_local
    /\ UNCHANGED <<watch_made, keep, revoked, wcmds, queue, current, fdReady, inRun, strayCalls>>

dispatch_watch_command ==
    /\ wcmds # <<>> /\ wcmds' = Tail(wcmds)
    /\ remote' = IF Head(wcmds).op = "start" THEN Armed(Head(wcmds).reg) ELSE WatchIdle
    /\ UNCHANGED <<watch_made, keep, revoked, watch_local, queue, current, fdReady, inRun, waitFailed, strayCalls>>

\* execute_ready: a cancelled callback is skipped; the callback may read the data.
execute_callback ==
    /\ inRun /\ current = NoReg /\ queue # <<>>
    /\ queue' = Tail(queue) /\ current' = Head(queue)
    /\ IF Head(queue) \in revoked THEN UNCHANGED <<fdReady, strayCalls>>
       ELSE /\ fdReady' \in {fdReady, FALSE}
            /\ strayCalls' = strayCalls \cup ({Head(queue)} \ {keep})
    /\ UNCHANGED <<watch_made, keep, revoked, watch_local, remote, wcmds, inRun, waitFailed>>

\* rearm_fd_watch_if_needed: only the registration that is still the current one.
\* Mutant: whatever is registered for the descriptor now is re-armed.
RearmOf_AnyRegistration(r) == keep
RearmOf(r) == IF keep = r THEN r ELSE NoReg

rearm_fd_watch ==
    /\ current # NoReg /\ current' = NoReg
    /\ IF RearmOf(current) # NoReg THEN StartWatch(RearmOf(current), wcmds)
       ELSE UNCHANGED <<watch_local, wcmds>>
    /\ UNCHANGED <<watch_made, keep, revoked, remote, queue, fdReady, inRun, waitFailed, strayCalls>>

data_arrives ==
    /\ ~fdReady /\ fdReady' = TRUE
    /\ UNCHANGED <<watch_made, keep, revoked, watch_local, remote, wcmds, queue, current, inRun, waitFailed, strayCalls>>

run_starts_or_ends ==
    /\ current = NoReg /\ inRun' = ~inRun
    /\ UNCHANGED <<watch_made, keep, revoked, watch_local, remote, wcmds, queue, current, fdReady, waitFailed, strayCalls>>

WatchNext ==
    \/ add_reader \/ remove_reader \/ local_fires \/ remote_fires \/ watch_error \/ dispatch_watch_command
    \/ execute_callback \/ rearm_fd_watch \/ data_arrives \/ run_starts_or_ends

\* The dispatcher and the runtime of an active run are scheduled.
WatchFairSpec ==
    /\ WatchInit /\ [][WatchNext]_watchVars
    /\ WF_watchVars(local_fires) /\ WF_watchVars(remote_fires)
    /\ WF_watchVars(dispatch_watch_command)
    /\ WF_watchVars(execute_callback) /\ WF_watchVars(rearm_fd_watch)

\* Everything that will invoke registration r once more.
Pending(r) ==
    (IF watch_local = Armed(r) THEN 1 ELSE 0)
    + (IF remote = Armed(r) /\ wcmds = <<>> THEN 1 ELSE 0)
    + Cardinality({i \in 1..Len(wcmds) : wcmds[i] = [op |-> "start", reg |-> r]
                                         /\ \A j \in i+1..Len(wcmds) : wcmds[j].reg # NoReg})
    + Cardinality({i \in 1..Len(queue) : queue[i] = r})
    + (IF current = r THEN 1 ELSE 0)

\* The registered callback is armed, queued or executing exactly once
\* (unless waiting for it failed): a stale readiness callback neither loses the watch that replaced it nor adds a second one.
ArmedOnce == keep # NoReg /\ ~waitFailed => Pending(keep) = 1

\* A removed or replaced callback is not invoked any more, and its watch is not re-armed.
RemovedStaysRemoved ==
    strayCalls = {} /\ (watch_local.waits => watch_local.reg = keep)

WatchSafe == ArmedOnce /\ RemovedStaysRemoved

\* While the run lasts and the descriptor stays ready, the registered callback is invoked.
WatchOwed == inRun /\ fdReady /\ keep # NoReg /\ ~waitFailed /\ current = NoReg
WatchServed == []<>~WatchOwed

-----------------------------------------------------------------------------
(* Signal handlers. *)
CONSTANTS
    AddBound,       \* calls of add_signal_handler
    RaiseBound      \* signals raised

ASSUME SignalHandlersAssumption == AddBound \in Nat \ {0} /\ RaiseBound \in Nat \ {0}

VARIABLES
    handler,        \* state.signal_handlers[sig]: the number of the add, or 0
    adds, raises,   \* calls so far
    sigCommands,    \* the command channel: "start", "stop", "fired"
    watcher,        \* signal_tasks[sig]: "off", "on", or "failed"
    caught,         \* the watcher's unread signal (the kernel and the iterator coalesce)
    sigReady,       \* callbacks scheduled by Fired: the handler each one was made from
    owed,           \* a caught signal whose handler is still registered has not run yet
    shut            \* cleanup_watchers ran

handlerVars == <<handler, adds, raises, sigCommands, watcher, caught, sigReady, owed, shut>>

HandlersInit ==
    /\ handler = 0 /\ adds = 0 /\ raises = 0 /\ sigCommands = <<>> /\ watcher = "off"
    /\ caught = FALSE /\ sigReady = <<>> /\ owed = FALSE /\ shut = FALSE

\* add_signal_handler: only the first handler of a signal starts a watcher.
NewlyInstalled == handler = 0

add_signal_handler ==
    /\ ~shut /\ adds < AddBound /\ adds' = adds + 1 /\ handler' = adds + 1
    /\ sigCommands' = IF NewlyInstalled THEN Append(sigCommands, "start") ELSE sigCommands
    /\ UNCHANGED <<raises, watcher, caught, sigReady, owed, shut>>

\* remove_signal_handler: a signal without a handler is nobody's any more.
remove_signal_handler ==
    /\ ~shut /\ handler # 0 /\ handler' = 0 /\ owed' = FALSE
    /\ sigCommands' = Append(sigCommands, "stop")
    /\ UNCHANGED <<adds, raises, watcher, caught, sigReady, shut>>

\* The kernel: a watcher that is on catches the signal, otherwise its disposition applies.
signal_raised ==
    /\ raises < RaiseBound /\ raises' = raises + 1
    /\ caught' = (caught \/ watcher = "on")
    /\ owed' = (owed \/ (watcher = "on" /\ handler # 0 /\ "stop" \notin Range(sigCommands)))
    /\ UNCHANGED <<handler, adds, sigCommands, watcher, sigReady, shut>>

\* The watcher thread: signals.forever() sends Fired.
watcher_sends ==
    /\ caught /\ caught' = FALSE /\ sigCommands' = Append(sigCommands, "fired")
    /\ UNCHANGED <<handler, adds, raises, watcher, sigReady, owed, shut>>

\* StartWatcher: an old watcher is closed and joined; Signals::new may fail.  Closing a
\* watcher lets it send what it caught or drop it.
dispatch_start ==
    /\ sigCommands # <<>> /\ Head(sigCommands) = "start"
    /\ watcher' \in {"on", "failed"}
    /\ \/ sigCommands' = Tail(sigCommands)
       \/ caught /\ sigCommands' = Append(Tail(sigCommands), "fired")
    /\ caught' = FALSE
    /\ UNCHANGED <<handler, adds, raises, sigReady, owed, shut>>

dispatch_stop ==
    /\ sigCommands # <<>> /\ Head(sigCommands) = "stop"
    /\ watcher' = "off" /\ caught' = FALSE
    /\ \/ sigCommands' = Tail(sigCommands)
       \/ caught /\ sigCommands' = Append(Tail(sigCommands), "fired")
    /\ UNCHANGED <<handler, adds, raises, sigReady, owed, shut>>

\* Fired: the handler is looked up now, not when the signal came.
Scheduled == IF handler = 0 THEN sigReady ELSE Append(sigReady, handler)

dispatch_fired ==
    /\ sigCommands # <<>> /\ Head(sigCommands) = "fired"
    /\ sigCommands' = Tail(sigCommands) /\ sigReady' = Scheduled
    /\ UNCHANGED <<handler, adds, raises, watcher, caught, owed, shut>>

\* The loop runs the callback, which was made when the signal was dispatched.
run_signal_callback ==
    /\ sigReady # <<>> /\ sigReady' = Tail(sigReady) /\ owed' = FALSE
    /\ UNCHANGED <<handler, adds, raises, sigCommands, watcher, caught, shut>>

\* Shutdown: cleanup_watchers closes the watcher, the channel is gone.
cleanup_watchers ==
    /\ ~shut /\ shut' = TRUE /\ watcher' = "off" /\ caught' = FALSE /\ owed' = FALSE
    /\ sigCommands' = <<>>
    /\ UNCHANGED <<handler, adds, raises, sigReady>>

HandlersNext ==
    \/ add_signal_handler \/ remove_signal_handler \/ signal_raised \/ watcher_sends
    \/ dispatch_start \/ dispatch_stop \/ dispatch_fired \/ run_signal_callback
    \/ cleanup_watchers

\* The dispatcher's turn with a command of the signals.
SignalCommand == dispatch_start \/ dispatch_stop \/ dispatch_fired

HandlersSpec == HandlersInit /\ [][HandlersNext]_handlerVars

\* The places of the commands that start or stop a watcher.
Switches == {i \in 1..Len(sigCommands) : sigCommands[i] # "fired"}

\* The watcher the queued commands lead to is the one the handler map asks for: they
\* alternate, so a quick remove and add never leaves the handler without its watcher.
WatcherFollowsHandler ==
    ~shut =>
    /\ Switches = {} => (watcher # "off" <=> handler # 0)
    /\ \A i \in Switches :
         /\ (\A k \in Switches : k <= i) => (sigCommands[i] = "start" <=> handler # 0)
         /\ (\A k \in Switches : i <= k) => (sigCommands[i] = "stop" <=> watcher # "off")
    /\ \A i, j \in Switches :
         i < j /\ (\A k \in Switches : k <= i \/ j <= k) => sigCommands[i] # sigCommands[j]

\* A signal that was caught with its handler in place is on its way to it: still with the
\* watcher, in the channel, or scheduled.
CaughtIsDelivered ==
    owed => handler # 0 /\ (caught \/ "fired" \in Range(sigCommands) \/ sigReady # <<>>)

\* Callbacks keep the order of the registrations they were made from.
CallbacksInOrder ==
    \A i \in 1..Len(sigReady) : \A j \in 1..i : sigReady[j] <= sigReady[i] /\ sigReady[i] <= adds

HandlersSafe == WatcherFollowsHandler /\ CaughtIsDelivered /\ CallbacksInOrder

\* What the loop owes its signal handlers until it is shut down: the watcher of the last
\* add or remove, and the callback of a signal that was caught.
HandlersOwed == ~shut /\ (owed \/ Switches # {})
=============================================================================
