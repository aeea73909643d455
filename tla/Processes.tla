----------------------------- MODULE Processes ------------------------------
(***************************************************************************)
(* A subprocess transport (transport/process): the waiter thread and the   *)
(* two output readers, the standard-input pipe transport, the state they   *)
(* share under a lock, the queue of protocol events with its scheduled     *)
(* flag, the drain on the loop's thread, and one coroutine in _wait.       *)
(***************************************************************************)
EXTENDS Integers, Sequences, SequencesExt, FiniteSets

CONSTANTS
    PipeChoices,    \* the sets of piped descriptors (0 stdin, 1 stdout, 2 stderr)
    ChunksPerPipe   \* reads a pipe yields before its end

ASSUME ProcessAssumption ==
    PipeChoices \subseteq SUBSET (0..2) /\ ChunksPerPipe \in Nat

Outputs == {1, 2}
Actors == {"waiter", "stdin", "reader1", "reader2"}
Reader(fd) == IF fd = 1 THEN "reader1" ELSE "reader2"
Event(what, fd) == [what |-> what, fd |-> fd]
PipeEnd(fd) == Event("pipelost", fd)
Exited == Event("exited", 3)
Lost == Event("lost", 3)
Abrupt == Event("lost", 4)      \* connection_lost after a callback that raised

VARIABLES
    piped,          \* the descriptors that were piped
    child,          \* "alive", "dead"
    unread,         \* chunks a reader has still to read
    eof,            \* outputs whose last writer has gone
    openPipes, exited, exitCode, lostQueued,    \* ProcessState; exitCode: "none" or
                                                \* "pending" (pending_exit_code)
    lock,           \* who holds the state lock ("none", or an actor)
    todo,           \* per actor: events it has still to enqueue
    unswapped,      \* actors between the push and the swap of events_scheduled
    pc,             \* per actor: where it is
    stdinState,     \* the pipe transport: "none", "open", "closing", "lost"
    events, proc_scheduled, command,     \* pending_events, events_scheduled, the loop command
    batch, draining,                \* the drain's local queue
    proc_released,       \* the protocol was let go
    log,            \* the protocol's callbacks
    pwait,          \* _wait: "no", "checked", "listening", "asleep", "returned"
    loopOpen        \* the loop takes commands and runs

ptState == <<openPipes, exited, exitCode, lostQueued>>
ptQueue == <<events, proc_scheduled, command, batch, draining, proc_released, log>>
processVars == <<piped, child, unread, eof, ptState, lock, todo, unswapped, pc, stdinState,
                 ptQueue, pwait, loopOpen>>

\* spawn_process_transport, after connection_made.
ProcessInit ==
    /\ piped \in PipeChoices /\ child = "alive"
    /\ unread = [fd \in Outputs |-> IF fd \in piped THEN ChunksPerPipe ELSE 0] /\ eof = {}
    /\ openPipes = piped /\ exited = FALSE /\ exitCode = "none" /\ lostQueued = FALSE
    /\ lock = "none" /\ todo = [a \in Actors |-> <<>>] /\ unswapped = {}
    /\ pc = [a \in Actors |-> "run"]
    /\ stdinState = IF 0 \in piped THEN "open" ELSE "none"
    /\ events = <<>> /\ proc_scheduled = FALSE /\ command = FALSE
    /\ batch = <<>> /\ draining = FALSE /\ proc_released = FALSE /\ log = <<>>
    /\ pwait = "no" /\ loopOpen = TRUE

QueueIdle(a) == todo[a] = <<>> /\ a \notin unswapped

(* ------------------------------ event queue ----------------------------- *)

\* enqueue_pending_event: the push, then the swap that decides who sends the command; a
\* loop that was closed refuses it.
push_event(a) ==
    /\ todo[a] # <<>> /\ a \notin unswapped
    /\ events' = Append(events, Head(todo[a])) /\ todo' = [todo EXCEPT ![a] = Tail(@)]
    /\ unswapped' = unswapped \cup {a}
    /\ UNCHANGED <<piped, child, unread, eof, ptState, lock, pc, stdinState, proc_scheduled,
                   command, batch, draining, proc_released, log, pwait, loopOpen>>

swap_scheduled(a) ==
    /\ a \in unswapped /\ unswapped' = unswapped \ {a}
    /\ proc_scheduled' = (proc_scheduled \/ loopOpen)
    /\ command' = (command \/ (~proc_scheduled /\ loopOpen))
    /\ lock' = IF lock = a /\ todo[a] = <<>> THEN "none" ELSE lock
    /\ UNCHANGED <<piped, child, unread, eof, ptState, todo, pc, stdinState, events, batch,
                   draining, proc_released, log, pwait, loopOpen>>

\* The loop runs the transport's ready item.
drain_begins ==
    /\ command /\ ~draining /\ command' = FALSE /\ draining' = TRUE
    /\ UNCHANGED <<piped, child, unread, eof, ptState, lock, todo, unswapped, pc, stdinState,
                   events, proc_scheduled, batch, proc_released, log, pwait, loopOpen>>

\* The queue's lock is held from the look at it to the flag: no push slips in between.
drain_takes ==
    /\ draining /\ batch = <<>>
    /\ IF events = <<>> THEN proc_scheduled' = FALSE /\ draining' = FALSE
       ELSE UNCHANGED <<proc_scheduled, draining>>
    /\ batch' = events /\ events' = <<>>
    /\ UNCHANGED <<piped, child, unread, eof, ptState, lock, todo, unswapped, pc, stdinState,
                   command, proc_released, log, pwait, loopOpen>>

\* The program closes the loop between two runs; what it was sent is not run.
loop_closes ==
    /\ loopOpen /\ ~draining /\ loopOpen' = FALSE /\ command' = FALSE
    /\ UNCHANGED <<piped, child, unread, eof, ptState, lock, todo, unswapped, pc, stdinState,
                   events, proc_scheduled, batch, draining, proc_released, log, pwait>>

\* One callback.  The last event and a callback that raises end the drain; the latter
\* reports connection_lost on the spot.  A protocol that was let go hears nothing.
Ends(e, raises) == e = Lost \/ raises \/ proc_released

drain_event ==
    /\ draining /\ batch # <<>>
    /\ \E raises \in BOOLEAN :
        LET e == Head(batch) IN
        /\ raises => e # Lost /\ ~proc_released
        /\ log' = IF proc_released THEN log
                  ELSE Append(log, e) \o (IF raises THEN <<Abrupt>> ELSE <<>>)
        /\ proc_released' = (proc_released \/ e = Lost \/ raises)
        /\ IF Ends(e, raises)
           THEN batch' = <<>> /\ draining' = FALSE /\ proc_scheduled' = FALSE
           ELSE batch' = Tail(batch) /\ UNCHANGED <<draining, proc_scheduled>>
    /\ UNCHANGED <<piped, child, unread, eof, ptState, lock, todo, unswapped, pc, stdinState,
                   events, command, pwait, loopOpen>>

(* ------------------------- state under the lock ------------------------- *)

\* process_connection_lost_eligible, enqueue_connection_lost_locked.
Finishing(hasExited, open) == hasExited /\ open = {}

Then(e, hasExited, open) ==
    IF Finishing(hasExited, open) /\ ~lostQueued THEN <<e, Lost>> ELSE <<e>>

\* pipe_connection_lost_message; the standard input hands on an exit that waited for it.
PipeConnectionLost(a, fd) ==
    /\ lock = "none" /\ fd \in openPipes /\ openPipes' = openPipes \ {fd}
    /\ todo' = [todo EXCEPT ![a] = Then(PipeEnd(fd), exited, openPipes \ {fd})]
    /\ lostQueued' = (lostQueued \/ Finishing(exited, openPipes \ {fd}))
    /\ lock' = a
    /\ exitCode' = IF fd = 0 THEN "none" ELSE exitCode
    /\ pc' = [pc EXCEPT ![a] = IF fd = 0 /\ exitCode = "pending" THEN "exit" ELSE "done"]
    /\ UNCHANGED exited

\* process_exited: the first report counts.
ProcessExited(a) ==
    /\ lock = "none" /\ pc' = [pc EXCEPT ![a] = "notify"]
    /\ IF exited THEN UNCHANGED <<ptState, todo, lock>>
       ELSE /\ exited' = TRUE /\ lock' = a
            /\ todo' = [todo EXCEPT ![a] = Then(Exited, TRUE, openPipes)]
            /\ lostQueued' = (lostQueued \/ Finishing(TRUE, openPipes))
            /\ UNCHANGED <<openPipes, exitCode>>

process_exited(a) ==
    /\ pc[a] = "exit" /\ QueueIdle(a) /\ ProcessExited(a)
    /\ UNCHANGED <<piped, child, unread, eof, unswapped, stdinState, ptQueue, pwait, loopOpen>>

\* exit_notify.notify_all.
notify_exit(a) ==
    /\ pc[a] = "notify" /\ QueueIdle(a) /\ pc' = [pc EXCEPT ![a] = "done"]
    /\ pwait' = IF pwait \in {"listening", "asleep"} THEN "no" ELSE pwait
    /\ UNCHANGED <<piped, child, unread, eof, ptState, lock, todo, unswapped, stdinState, ptQueue,
                   loopOpen>>

(* -------------------------------- threads ------------------------------- *)

\* The child and whatever inherited its pipes.
child_dies ==
    /\ child = "alive" /\ child' = "dead"
    /\ UNCHANGED <<piped, unread, eof, ptState, lock, todo, unswapped, pc, stdinState, ptQueue, pwait, loopOpen>>

last_writer_gone(fd) ==
    /\ fd \in piped \ eof /\ eof' = eof \cup {fd}
    /\ UNCHANGED <<piped, child, unread, ptState, lock, todo, unswapped, pc, stdinState, ptQueue, pwait, loopOpen>>

\* run_process_reader.
reader_data(fd) ==
    LET a == Reader(fd) IN
    /\ pc[a] = "run" /\ QueueIdle(a) /\ fd \in piped /\ unread[fd] > 0
    /\ unread' = [unread EXCEPT ![fd] = @ - 1]
    /\ todo' = [todo EXCEPT ![a] = <<Event("data", fd)>>]
    /\ UNCHANGED <<piped, child, eof, ptState, lock, unswapped, pc, stdinState, ptQueue, pwait, loopOpen>>

\* The end of the pipe, or a read error.
pipe_reader_ends(fd) ==
    LET a == Reader(fd) IN
    /\ pc[a] = "run" /\ QueueIdle(a) /\ unread[fd] = 0 /\ fd \in eof
    /\ PipeConnectionLost(a, fd)
    /\ UNCHANGED <<piped, child, unread, eof, unswapped, stdinState, ptQueue, pwait, loopOpen>>

\* run_process_waiter: try_wait sees the exit; a standard input that is open is closed first.
waiter_sees_exit ==
    /\ pc["waiter"] = "run" /\ child = "dead" /\ lock = "none"
    /\ pc' = [pc EXCEPT !["waiter"] = "handle"]
    /\ stdinState' = IF 0 \in openPipes /\ stdinState = "open" THEN "closing" ELSE stdinState
    /\ UNCHANGED <<piped, child, unread, eof, ptState, lock, todo, unswapped, ptQueue, pwait, loopOpen>>

\* run_process_waiter: try_wait fails.  The thread ends, and connection_lost is queued at
\* once: the pipes may be open, and the exit is never known.
waiter_fails ==
    /\ pc["waiter"] = "run" /\ lock = "none" /\ pc' = [pc EXCEPT !["waiter"] = "failed"]
    /\ IF lostQueued THEN UNCHANGED <<lostQueued, todo, lock>>
       ELSE lostQueued' = TRUE /\ todo' = [todo EXCEPT !["waiter"] = <<Lost>>] /\ lock' = "waiter"
    /\ UNCHANGED <<piped, child, unread, eof, openPipes, exited, exitCode, unswapped, stdinState,
                   ptQueue, pwait, loopOpen>>

\* handle_process_exit, second look: an open standard input keeps the code.
StdinStillOpen == 0 \in openPipes

waiter_handles_exit ==
    /\ pc["waiter"] = "handle" /\ lock = "none"
    /\ exitCode' = IF StdinStillOpen THEN "pending" ELSE exitCode
    /\ pc' = [pc EXCEPT !["waiter"] = IF StdinStillOpen THEN "done" ELSE "exit"]
    /\ UNCHANGED <<piped, child, unread, eof, openPipes, exited, lostQueued, lock, todo,
                   unswapped, stdinState, ptQueue, pwait, loopOpen>>

\* close(), the pipe breaking, or the program closing its standard input.
stdin_closes ==
    /\ stdinState = "open" /\ stdinState' = "closing"
    /\ UNCHANGED <<piped, child, unread, eof, ptState, lock, todo, unswapped, pc, ptQueue, pwait, loopOpen>>

\* PyProcessStdinProtocol.connection_lost.
stdin_connection_lost ==
    /\ loopOpen /\ stdinState = "closing" /\ stdinState' = "lost" /\ PipeConnectionLost("stdin", 0)
    /\ UNCHANGED <<piped, child, unread, eof, unswapped, ptQueue, pwait, loopOpen>>

\* transport.close / kill / terminate reach the waiter, which signals the child it owns.
control_command == /\ child = "alive" /\ pc["waiter"] = "run" /\ child' = "dead"
                   /\ stdinState' = IF stdinState = "open" THEN "closing" ELSE stdinState
                   /\ UNCHANGED <<piped, unread, eof, ptState, lock, todo, unswapped, pc,
                                  ptQueue, pwait, loopOpen>>

\* _wait: look, listen, look again, sleep.
wait_step ==
    /\ lock = "none" /\ loopOpen
    /\ pwait' = CASE pwait = "no"      -> IF exited THEN "returned" ELSE "checked"
                  [] pwait = "checked" -> "listening"
                  [] pwait = "listening" -> IF exited THEN "returned" ELSE "asleep"
    /\ UNCHANGED <<piped, child, unread, eof, ptState, lock, todo, unswapped, pc, stdinState, ptQueue,
                   loopOpen>>

WaiterThread == waiter_sees_exit \/ waiter_handles_exit
ActorStep(a) == push_event(a) \/ swap_scheduled(a) \/ process_exited(a) \/ notify_exit(a)
DrainProcess == drain_begins \/ drain_takes \/ drain_event
WaitStep == pwait \in {"no", "checked", "listening"} /\ wait_step

ProcessNext ==
    \/ \E a \in Actors : ActorStep(a)
    \/ DrainProcess \/ WaiterThread \/ child_dies \/ stdin_closes \/ stdin_connection_lost
    \/ control_command \/ WaitStep \/ waiter_fails \/ loop_closes
    \/ \E fd \in Outputs : last_writer_gone(fd) \/ reader_data(fd) \/ pipe_reader_ends(fd)

\* What the protocol is told is in order: nothing follows connection_lost, which comes
\* once; the exit and every pipe's end are told once; no data after its pipe's end; and
\* unless a callback raised or the waiter could not wait for the child, connection_lost
\* comes after the exit and all the ends.
CallbacksInSequence ==
    LET at(e) == {i \in 1..Len(log) : log[i] = e} IN
    /\ at(Lost) \cup at(Abrupt) \subseteq {Len(log)}
    /\ \A i \in 1..Len(log) : log[i].what # "data" => Cardinality(at(log[i])) = 1
    /\ \A i, j \in 1..Len(log) :
        log[i].what = "pipelost" /\ log[j].what = "data" /\ log[i].fd = log[j].fd => j < i
    /\ Lost \in Range(log) /\ pc["waiter"] # "failed" => {Exited} \cup {PipeEnd(fd) : fd \in piped} \subseteq Range(log)

\* An event nobody is about to deliver lies there only for a protocol that was let go, or
\* in a loop that was closed.
NoEventStranded ==
    events # <<>> => proc_released \/ ~loopOpen \/ command \/ draining \/ unswapped # {}

\* The coroutine sleeps only while the exit has not been announced.
WaitNotMissed ==
    pwait = "asleep" => ~exited \/ \E a \in Actors : pc[a] = "notify"

\* A pending exit code has a standard input that will report its end.
PendingExitBacked == exitCode = "pending" => 0 \in openPipes /\ stdinState \in {"open", "closing"}

ProcessSafe == CallbacksInSequence /\ NoEventStranded /\ WaitNotMissed /\ PendingExitBacked

\* Once the child is dead and its outputs have ended, the transport of an open loop is torn
\* down, and a coroutine waiting for the exit returns.  The coroutine is owed nothing once
\* try_wait has failed: nobody is left to learn of the exit.
ProcessOwed ==
    /\ child = "dead" /\ piped \cap Outputs \subseteq eof /\ loopOpen
    /\ ~(proc_released /\ (pwait = "returned" \/ pc["waiter"] = "failed"))

-----------------------------------------------------------------------------
(****************************************************************************)
(* How a subprocess comes to be (bindings/loop_api/process_spawn.rs,        *)
(* process_stdio.rs, process_handles.rs, pre_exec.rs and                    *)
(* transport/process/spawn.rs): the keywords, the plan for the three        *)
(* standard streams, the descriptors the parent opens for it, the steps     *)
(* between fork and exec, and the parts of the transport, each of which can *)
(* fail.  Two subprocesses are spawned, one after the other or together.     *)
(****************************************************************************)

CONSTANTS
    Procs,          \* the subprocesses
    Configs         \* the keyword sets asked for

\* A configuration: the three stdio specs, the keywords, and the descriptors to pass.
ConfigOK(c) ==
    /\ {c.stdin, c.stdout, c.stderr} \subseteq {"inherit", "pipe", "devnull", "fd", "stdout"}
    /\ {c.session, c.group0, c.known, c.umaskOK} \subseteq BOOLEAN
    /\ {c.groups, c.gid, c.uid} \subseteq {"keep", "root", "user"}

ASSUME SpawnAssumption == IsFiniteSet(Procs) /\ \A c \in Configs : ConfigOK(c)

VARIABLES
    conf,           \* the configuration of each subprocess
    step,           \* how far each one got
    parentFds,      \* the parent's descriptors for it: [of, end, cloexec]
    kept,           \* what the child holds after exec
    ids,            \* the child's session, group, groups, gid and uid
    transportPipes, \* ProcessState.open_pipes
    gil             \* the build has a global interpreter lock

spawnVars == <<conf, step, parentFds, kept, ids, transportPipes, gil>>

Fd(p, end, cloexec) == [of |-> p, end |-> end, cloexec |-> cloexec]
RootIds == [session |-> FALSE, group |-> "old", groups |-> "root", gid |-> "root", uid |-> "root"]

SpawnInit ==
    /\ conf \in [Procs -> Configs] /\ step = [p \in Procs |-> "asked"] /\ parentFds = {}
    /\ kept = [p \in Procs |-> {}] /\ ids = [p \in Procs |-> RootIds]
    /\ transportPipes = [p \in Procs |-> {}] /\ gil \in BOOLEAN

\* The closure that builds, spawns and drops the Command is attached to the interpreter
\* throughout, which keeps another one out only where there is a global lock.
Others(p) ==
    gil => {"stdio", "parsed", "forked", "execd"} \cap {step[q] : q \in Procs \ {p}} = {}
Fails(p) == /\ step' = [step EXCEPT ![p] = "failed"]
            /\ parentFds' = {d \in parentFds : d.of # p}

(* -------------------------------- parent -------------------------------- *)

\* process_stdio_plan.
PlanOf(c) == CASE c.stdin = "stdout" \/ c.stdout = "stdout" -> "error"
               [] c.stdout = "pipe" /\ c.stderr = "stdout"  -> "shared"
               [] OTHER -> "standard"

\* std's own pipes are close-on-exec; process_handles::new_pipe opens a plain pipe, whose
\* write end is duplicated (with close-on-exec) for the standard error.
StdPipe(p, spec, mine, theirs) ==
    IF spec = "pipe" THEN {Fd(p, mine, TRUE), Fd(p, theirs, TRUE)} ELSE {}
SharedPipe(p) == {Fd(p, "outread", FALSE), Fd(p, "outwrite", FALSE), Fd(p, "errdup", TRUE)}

Opened(p) ==
    LET c == conf[p] IN
    StdPipe(p, c.stdin, "inwrite", "inread")
    \cup (IF PlanOf(c) = "shared" THEN SharedPipe(p)
          ELSE StdPipe(p, c.stdout, "outread", "outwrite")
               \cup StdPipe(p, c.stderr, "errread", "errwrite"))

apply_stdio(p) ==
    /\ step[p] = "asked" /\ Others(p)
    /\ IF PlanOf(conf[p]) = "error" THEN Fails(p)
       ELSE step' = [step EXCEPT ![p] = "stdio"] /\ parentFds' = parentFds \cup Opened(p)
    /\ UNCHANGED <<conf, kept, ids, transportPipes, gil>>

\* apply_common_process_kwargs: an unknown keyword or a wrong mask, met with the pipes open.
apply_kwargs(p) ==
    /\ step[p] = "stdio"
    /\ IF conf[p].known /\ conf[p].umaskOK
       THEN step' = [step EXCEPT ![p] = "parsed"] /\ UNCHANGED parentFds ELSE Fails(p)
    /\ UNCHANGED <<conf, kept, ids, transportPipes, gil>>

\* Command::spawn: the child starts with every descriptor of the parent; close-on-exec
\* ones go at exec, when its standard streams are in place.
fork(p) ==
    /\ step[p] = "parsed" /\ step' = [step EXCEPT ![p] = "forked"]
    /\ kept' = [kept EXCEPT ![p] = {d \in parentFds : ~d.cloexec}]
    /\ UNCHANGED <<conf, parentFds, ids, transportPipes, gil>>

(* ----------------------------- between fork and exec -------------------- *)

\* apply_child_attributes, as a fold over its calls in the source's order.  A call that
\* the kernel refuses ends the child; without root nobody changes groups or ids, and a
\* session leader cannot change its process group.
Calls == <<"session", "pgroup", "groups", "gid", "uid">>

SpawnRefused == [RootIds EXCEPT !.uid = "refused"]
Allowed(st, id) == id = "keep" \/ st.uid = "root"
SpawnCall(c, st, call) ==
    IF st = SpawnRefused THEN SpawnRefused
    ELSE CASE call = "session" -> IF c.session THEN [st EXCEPT !.session = TRUE, !.group = "own"] ELSE st
           \* should_set_process_group
           [] call = "pgroup" -> IF c.group0 /\ ~c.session THEN [st EXCEPT !.group = "own"] ELSE st
           [] call = "groups" -> IF c.groups = "keep" THEN st
                                 ELSE IF Allowed(st, c.groups) THEN [st EXCEPT !.groups = c.groups] ELSE SpawnRefused
           [] call = "gid"    -> IF c.gid = "keep" THEN st
                                 ELSE IF Allowed(st, c.gid) THEN [st EXCEPT !.gid = c.gid] ELSE SpawnRefused
           [] call = "uid"    -> IF c.uid = "keep" THEN st
                                 ELSE IF Allowed(st, c.uid) THEN [st EXCEPT !.uid = c.uid] ELSE SpawnRefused

pre_exec(p) ==
    /\ step[p] = "forked"
    /\ LET after == FoldLeft(LAMBDA st, call : SpawnCall(conf[p], st, call), RootIds, Calls) IN
       \/ /\ after # SpawnRefused /\ ids' = [ids EXCEPT ![p] = after]
          /\ step' = [step EXCEPT ![p] = "execd"]
          /\ parentFds' = parentFds
          /\ UNCHANGED kept
       \* A refused call, a bad descriptor in pass_fds, or exec itself: std reaps the child.
       \/ Fails(p) /\ kept' = [kept EXCEPT ![p] = {}] /\ UNCHANGED ids
    /\ UNCHANGED <<conf, transportPipes, gil>>

(* ------------------------------- transport ------------------------------ *)

Mine == {"inwrite", "outread", "errread"}

\* The Command is dropped with the child's ends; ProcessPipes::take_from, open_pipe_mask.
AfterDrop(p) == {d \in parentFds : d.of = p => d.end \in Mine}

take_pipes(p) ==
    /\ step[p] = "execd" /\ step' = [step EXCEPT ![p] = "taken"]
    /\ parentFds' = AfterDrop(p)
    /\ transportPipes' = [transportPipes EXCEPT ![p] =
                            {n \in 0..2 : Fd(p, <<"inwrite", "outread", "errread">>[n + 1], TRUE) \in parentFds
                                          \/ (n = 1 /\ Fd(p, "outread", FALSE) \in parentFds)}]
    /\ UNCHANGED <<conf, kept, ids, gil>>

\* register_initial_pipe_transports, connection_made, spawn_process_workers: an error on
\* the way drops the Child object, which neither kills nor waits.
start_transport(p) ==
    /\ step[p] = "taken"
    /\ \/ step' = [step EXCEPT ![p] = "running"] /\ UNCHANGED parentFds
       \/ /\ step' = [step EXCEPT ![p] = "orphaned"]
          /\ parentFds' = {d \in parentFds : d.of # p}
    /\ UNCHANGED <<conf, kept, ids, transportPipes, gil>>

\* The process ends and its transport goes.
finish(p) ==
    /\ step[p] = "running" /\ step' = [step EXCEPT ![p] = "ended"]
    /\ parentFds' = {d \in parentFds : d.of # p}
    /\ kept' = [kept EXCEPT ![p] = {}]
    /\ UNCHANGED <<conf, ids, transportPipes, gil>>

SpawnNext ==
    \E p \in Procs :
        \/ apply_stdio(p) \/ apply_kwargs(p) \/ fork(p) \/ pre_exec(p) \/ take_pipes(p)
        \/ start_transport(p) \/ finish(p)

SpawnSpec == SpawnInit /\ [][SpawnNext]_spawnVars

\* A child that runs has the identity that was asked for, all of it or it did not start.
ExecdAsAsked ==
    \A p \in Procs : step[p] \in {"execd", "taken", "running"} =>
        LET c == conf[p] IN
        /\ c.groups # "keep" => ids[p].groups = c.groups
        /\ c.gid # "keep" => ids[p].gid = c.gid
        /\ c.uid # "keep" => ids[p].uid = c.uid
        /\ c.session = ids[p].session
        /\ c.session \/ c.group0 => ids[p].group = "own"

\* A privileged keyword set that can be granted is granted: no order of calls refuses it.
GrantedWhenPossible ==
    \A p \in Procs : step[p] = "forked" =>
        FoldLeft(LAMBDA st, call : SpawnCall(conf[p], st, call), RootIds, Calls) # SpawnRefused

\* Once the child runs, no write end of its outputs is left in the parent or, where spawns
\* exclude each other, in a sibling, so the reader sees the end; and the pipes the transport
\* counts are the ones it holds.
EndsReachReader ==
    \A p \in Procs : step[p] \in {"taken", "running"} =>
        /\ {d.end : d \in {x \in parentFds : x.of = p}} \subseteq Mine
        /\ gil => \A q \in Procs \ {p} : {d \in kept[q] : d.of = p /\ d.end = "outwrite"} = {}
        /\ transportPipes[p] = {n \in 0..2 : \E d \in parentFds :
                                    d.of = p /\ d.end = <<"inwrite", "outread", "errread">>[n + 1]}

\* A failed spawn leaves no descriptor behind.
FailureClosesAll ==
    \A p \in Procs : step[p] \in {"failed", "orphaned", "ended"} => \A d \in parentFds : d.of # p

SpawnSafe == ExecdAsAsked /\ GrantedWhenPossible /\ EndsReachReader /\ FailureClosesAll

\* A child inherits only what it was given: the loop "relies on close-on-exec".
InheritsOnlyGiven == \A p \in Procs : step[p] = "running" => kept[p] = {}

\* A child whose spawn failed is not left running with nobody to wait for it.
NoChildLeft == \A p \in Procs : step[p] # "orphaned"
=============================================================================
