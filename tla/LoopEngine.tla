----------------------------- MODULE LoopEngine -----------------------------
(***************************************************************************)
(* The scheduling engine of one rsloop event loop                          *)
(* (src/src/engine/loop_core.rs, dispatcher.rs, commands.rs).              *)
(*                                                                         *)
(* Three kinds of threads share it:                                        *)
(*   - the loop thread, inside or between calls of run_forever;            *)
(*   - the dispatcher (runtime) thread, which drains the command channel   *)
(*     and forwards what it receives into the queue of the active run;     *)
(*   - producers, which call call_soon_threadsafe or stop from elsewhere.  *)
(* A step is what a thread does between two accesses other threads can     *)
(* see: an atomic, a mutex-protected section, a channel operation.         *)
(*                                                                         *)
(* A callback is [by, n]: the n-th one scheduled by a source.  What it     *)
(* does when it runs is chosen when it runs.  Timers that fall due and I/O *)
(* completions on the loop thread are local enqueues of the source "io".   *)
(***************************************************************************)
EXTENDS Integers, ReadyQueue, TLC

CONSTANTS
    Producers,         \* threads other than the loop thread
    MaxPosts,          \* bound: calls of call_soon_threadsafe per producer
    MaxLocal,          \* bound: calls of call_soon on the loop thread
    MaxIo,             \* bound: timers and I/O completions on the loop thread
    MaxStops,          \* bound: calls of stop
    MaxRuns,           \* bound: calls of run_forever
    Budget,            \* MAX_READY_ITEMS_PER_TURN
    CallbacksRaise,    \* a callback may raise a BaseException
    HandlerRaises,     \* the exception handler itself may raise
    FinishTimesOut     \* the FinishRun answer may take over RUN_FINISH_TIMEOUT

ASSUME EngineAssumption ==
    /\ Producers \cap {"loop", "io", "stop"} = {} /\ IsFiniteSet(Producers)
    /\ MaxPosts \in Nat /\ MaxLocal \in Nat /\ MaxIo \in Nat
    /\ MaxStops \in Nat /\ MaxRuns \in Nat
    /\ Budget \in Nat \ {0}
    /\ {CallbacksRaise, HandlerRaises, FinishTimesOut} \subseteq BOOLEAN

Callers == Producers \union {"loop"}
Sources == Callers \union {"io"}
StopItem == [by |-> "stop", n |-> 0]
Callback == [by : Sources, n : Nat]
ReadyItem == Callback \union {StopItem}
QueueEntry == [item : ReadyItem, mark : Nat]
Runs == 1..MaxRuns

Command == [op : {"ready"}, item : ReadyItem]
           \union [op : {"enter"}, run : Runs, mark : Nat]
           \union [op : {"finish"}, run : Runs]
           \union [op : {"close"}]

VARIABLES
    \* LoopState, under the state mutex
    running, stopping, closed,
    \* shared by all threads
    active_ready_dispatch,   \* [run, accepting]; run 0 is None
    pending_ready,           \* the PendingReady queue of each run
    ready_pending,           \* LoopWake.ready_pending
    ready_waker,             \* a waker is registered in LoopWake.ready_waker
    stop_requested,
    local_enqueues,
    channel_handles,
    command_channel,
    runtime_waker,           \* LoopCore.runtime_waker is Some
    done_acks,               \* runs whose FinishRun was acknowledged
    \* the loop thread
    loop_pc, run, local_ready, ready_batch, local_taken, processed_this_turn,
    tls_queue,               \* ACTIVE_LOOP_TLS.ready_queue is not null
    ready_error,             \* a callback's error ends the run
    pending_signal_error,    \* check_signals raised during this run
    loop_woken,              \* the parked root task was woken
    \* the dispatcher
    disp_pc, disp_ret, active_run, disp_batch, disp_handles, disp_mark,
    disp_done,               \* the run whose FinishRun is being answered
    disp_woken,
    \* callers of call_soon, call_soon_threadsafe and stop
    call_pc, call_item,
    \* history: what was scheduled, executed, and scheduled before what
    posted, stops, accepted, executed, scheduled_before

state_vars == <<running, stopping, closed>>
shared_vars == <<active_ready_dispatch, pending_ready, ready_pending,
                 ready_waker, stop_requested, local_enqueues, channel_handles,
                 command_channel, runtime_waker, done_acks>>
loop_vars == <<loop_pc, run, local_ready, ready_batch, local_taken,
               processed_this_turn, tls_queue, ready_error, pending_signal_error,
               loop_woken>>
disp_vars == <<disp_pc, disp_ret, active_run, disp_batch, disp_handles,
               disp_mark, disp_done, disp_woken>>
call_vars == <<call_pc, call_item>>
hist_vars == <<posted, stops, accepted, executed, scheduled_before>>
vars == <<state_vars, shared_vars, loop_vars, disp_vars, call_vars, hist_vars>>

LoopPcs == {"idle", "publish", "enter", "turn", "drain", "after", "park",
            "register", "recheck", "asleep", "leftover", "retire", "finish",
            "await", "returned_early", "closing", "join", "closed"}
DispPcs == {"poll", "drain", "mark", "extend", "uncount", "signal", "wake",
            "activate", "reset", "ack", "sleep", "dead"}
CallPcs == {"idle", "gate", "active", "signal", "wake", "count", "send",
            "wake_dispatcher"}

StateType == running \in BOOLEAN /\ stopping \in BOOLEAN /\ closed \in BOOLEAN

DispatchType == active_ready_dispatch \in [run : 0..MaxRuns, accepting : BOOLEAN]

PendingType == pending_ready \in [Runs -> Seq(QueueEntry)]

ChannelType == command_channel \in Seq(Command)

FlagType ==
    /\ ready_pending \in BOOLEAN /\ ready_waker \in BOOLEAN
    /\ stop_requested \in BOOLEAN /\ runtime_waker \in BOOLEAN
    /\ local_enqueues \in Nat
    /\ channel_handles \in Int
    /\ done_acks \subseteq Runs

LoopType ==
    /\ loop_pc \in LoopPcs
    /\ run \in 0..MaxRuns
    /\ local_ready \in Seq(ReadyItem)
    /\ ready_batch \in Seq(ReadyItem)
    /\ local_taken \in Nat
    /\ processed_this_turn \in 0..Budget
    /\ loop_pc = "drain" => processed_this_turn < Budget
    /\ tls_queue \in BOOLEAN /\ ready_error \in BOOLEAN
    /\ pending_signal_error \in BOOLEAN /\ loop_woken \in BOOLEAN

DispatcherType ==
    /\ disp_pc \in DispPcs /\ disp_ret \in {"drain", "activate"}
    /\ active_run \in 0..MaxRuns
    /\ disp_batch \in Seq(ReadyItem)
    /\ disp_handles \in Nat /\ disp_mark \in Nat /\ disp_done \in 0..MaxRuns
    /\ disp_woken \in BOOLEAN

CallerType ==
    /\ call_pc \in [Callers -> CallPcs]
    /\ call_item \in [Callers -> ReadyItem]

HistoryType ==
    /\ posted \in [Sources -> Nat] /\ stops \in Nat
    /\ accepted \subseteq Callback /\ executed \subseteq Callback
    /\ scheduled_before \subseteq Callback \X Callback

\* The engine's variables hold values of the code's types: a command, queue
\* entry or callback anywhere is well formed, whatever path it took.
TypeOK ==
    /\ StateType /\ DispatchType /\ PendingType /\ ChannelType /\ FlagType
    /\ LoopType /\ DispatcherType /\ CallerType /\ HistoryType

Init ==
    /\ running = FALSE /\ stopping = FALSE /\ closed = FALSE
    /\ active_ready_dispatch = [run |-> 0, accepting |-> FALSE]
    /\ pending_ready = [r \in Runs |-> <<>>]
    /\ ready_pending = FALSE /\ ready_waker = FALSE /\ stop_requested = FALSE
    /\ local_enqueues = 0 /\ channel_handles = 0 /\ command_channel = <<>>
    /\ runtime_waker = FALSE /\ done_acks = {}
    /\ loop_pc = "idle" /\ run = 0 /\ local_ready = <<>> /\ ready_batch = <<>>
    /\ local_taken = 0 /\ processed_this_turn = 0 /\ tls_queue = FALSE
    /\ ready_error = FALSE /\ pending_signal_error = FALSE /\ loop_woken = FALSE
    /\ disp_pc = "poll" /\ disp_ret = "drain" /\ active_run = 0
    /\ disp_batch = <<>> /\ disp_handles = 0 /\ disp_mark = 0
    /\ disp_done = 0 /\ disp_woken = FALSE
    /\ call_pc = [t \in Callers |-> "idle"]
    /\ call_item = [t \in Callers |-> StopItem]
    /\ posted = [s \in Sources |-> 0] /\ stops = 0
    /\ accepted = {} /\ executed = {} /\ scheduled_before = {}

-----------------------------------------------------------------------------
\* History.

\* Callbacks whose scheduling call has returned and that have not run.
Waiting == {x \in accepted \ executed :
                ~\E t \in Callers : call_pc[t] # "idle" /\ call_item[t] = x}

NextOf(s) == [by |-> s, n |-> posted[s] + 1]

\* A scheduling call of source s begins: what waits now was scheduled before.
BeginScheduling(s) ==
    /\ posted' = [posted EXCEPT ![s] = @ + 1]
    /\ scheduled_before' = scheduled_before \union (Waiting \X {NextOf(s)})

-----------------------------------------------------------------------------
\* Scheduling off the loop thread, or on it between runs.

Set(t, pc) == call_pc' = [call_pc EXCEPT ![t] = pc]

MayCall(t) == call_pc[t] = "idle" /\ (t = "loop" => loop_pc = "idle")

\* schedule_callback: the handle is made and schedule_ready_handle entered.
schedule_callback(t) ==
    /\ MayCall(t)
    /\ posted[t] < IF t = "loop" THEN MaxLocal ELSE MaxPosts
    /\ BeginScheduling(t)
    /\ call_item' = [call_item EXCEPT ![t] = NextOf(t)]
    /\ Set(t, "gate")
    /\ UNCHANGED <<state_vars, shared_vars, loop_vars, disp_vars, stops,
                   accepted, executed>>

\* schedule_stop: the flag is raised before the Stop item is queued, and the
\* item may join the active run whatever is still on the channel.
schedule_stop(t) ==
    /\ MayCall(t)
    /\ stops < MaxStops
    /\ stops' = stops + 1
    /\ stop_requested' = TRUE
    /\ call_item' = [call_item EXCEPT ![t] = StopItem]
    /\ Set(t, "active")
    /\ UNCHANGED <<state_vars, active_ready_dispatch, pending_ready,
                   ready_pending, ready_waker, local_enqueues, channel_handles,
                   command_channel, runtime_waker, done_acks, loop_vars,
                   disp_vars, posted, accepted, executed, scheduled_before>>

\* Mutant: the gate is open whatever is on the channel.
MayBypassChannel_Always == TRUE

\* schedule_ready_handle: no handle is between a producer and the run's queue.
MayBypassChannel == channel_handles = 0

\* schedule_ready_handle: only an empty channel lets a handle bypass it.
schedule_ready_handle(t) ==
    /\ call_pc[t] = "gate"
    /\ Set(t, IF MayBypassChannel THEN "active" ELSE "count")
    /\ UNCHANGED <<state_vars, shared_vars, loop_vars, disp_vars, call_item,
                   hist_vars>>

\* try_enqueue_active_ready: under the dispatch lock and the queue's lock.
try_enqueue_active_ready(t) ==
    /\ call_pc[t] = "active"
    /\ IF active_ready_dispatch.run # 0 /\ active_ready_dispatch.accepting
       THEN /\ pending_ready' =
                   [pending_ready EXCEPT ![active_ready_dispatch.run] =
                        PendingPush(@, call_item[t], local_enqueues)]
            /\ accepted' = accepted \union ({call_item[t]} \ {StopItem})
            /\ Set(t, "signal")
       ELSE /\ Set(t, IF call_item[t] = StopItem THEN "send" ELSE "count")
            /\ UNCHANGED <<pending_ready, accepted>>
    /\ UNCHANGED <<state_vars, active_ready_dispatch, ready_pending,
                   ready_waker, stop_requested, local_enqueues, channel_handles,
                   command_channel, runtime_waker, done_acks, loop_vars,
                   disp_vars, call_item, posted, stops, executed,
                   scheduled_before>>

\* LoopWake::signal, first half: raise the flag; an already raised one means
\* another signaller wakes.
signal(t) ==
    /\ call_pc[t] = "signal"
    /\ Set(t, IF ready_pending THEN "idle" ELSE "wake")
    /\ ready_pending' = TRUE
    /\ UNCHANGED <<state_vars, active_ready_dispatch, pending_ready,
                   ready_waker, stop_requested, local_enqueues, channel_handles,
                   command_channel, runtime_waker, done_acks, loop_vars,
                   disp_vars, call_item, hist_vars>>

\* Mutant: the waker is taken and dropped.
WakeLoopTask_Drops == ready_waker' = FALSE /\ UNCHANGED loop_woken

\* AtomicWaker::wake: take the registered waker, if any, and wake its task.
WakeLoopTask ==
    /\ loop_woken' = (loop_woken \/ ready_waker)
    /\ ready_waker' = FALSE

\* LoopWake::signal, second half.
signal_wake(t) ==
    /\ call_pc[t] = "wake"
    /\ Set(t, "idle")
    /\ WakeLoopTask
    /\ UNCHANGED <<state_vars, active_ready_dispatch, pending_ready,
                   ready_pending, stop_requested, local_enqueues,
                   channel_handles, command_channel, runtime_waker, done_acks,
                   loop_pc, run, local_ready, ready_batch, local_taken,
                   processed_this_turn, tls_queue, ready_error,
                   pending_signal_error, disp_vars, call_item, hist_vars>>

\* schedule_ready_handle: the handle is counted before it is sent.
count_channel_handle(t) ==
    /\ call_pc[t] = "count"
    /\ channel_handles' = channel_handles + 1
    /\ Set(t, "send")
    /\ UNCHANGED <<state_vars, active_ready_dispatch, pending_ready,
                   ready_pending, ready_waker, stop_requested, local_enqueues,
                   command_channel, runtime_waker, done_acks, loop_vars,
                   disp_vars, call_item, hist_vars>>

\* Mutant: a Stop item counts as a handle.
HandleCount_Stops(item) == 1

\* What an item adds to channel_handles: a Stop item is not counted.
HandleCount(item) == IF item = StopItem THEN 0 ELSE 1

\* send_remote_command: with the dispatcher gone the call fails and a counted
\* handle is discounted.
send_remote_command(t) ==
    /\ call_pc[t] = "send"
    /\ IF disp_pc = "dead"
       THEN /\ channel_handles' = channel_handles - HandleCount(call_item[t])
            /\ Set(t, "idle")
            /\ UNCHANGED <<command_channel, accepted>>
       ELSE /\ command_channel' =
                   Append(command_channel, [op |-> "ready", item |-> call_item[t]])
            /\ accepted' = accepted \union ({call_item[t]} \ {StopItem})
            /\ Set(t, "wake_dispatcher")
            /\ UNCHANGED channel_handles
    /\ UNCHANGED <<state_vars, active_ready_dispatch, pending_ready,
                   ready_pending, ready_waker, stop_requested, local_enqueues,
                   runtime_waker, done_acks, loop_vars, disp_vars, call_item,
                   posted, stops, executed, scheduled_before>>

\* send_remote_command: wake_by_ref on the retained waker, after the send.
wake_dispatcher(t) ==
    /\ call_pc[t] = "wake_dispatcher"
    /\ disp_woken' = (disp_woken \/ runtime_waker)
    /\ Set(t, "idle")
    /\ UNCHANGED <<state_vars, shared_vars, loop_vars, disp_pc, disp_ret,
                   active_run, disp_batch, disp_handles, disp_mark, disp_done,
                   call_item, hist_vars>>

CallerStep(t) ==
    \/ schedule_ready_handle(t) \/ try_enqueue_active_ready(t)
    \/ signal(t) \/ signal_wake(t) \/ count_channel_handle(t)
    \/ send_remote_command(t) \/ wake_dispatcher(t)

-----------------------------------------------------------------------------
\* The dispatcher thread.

\* Where RuntimeDispatcher::poll goes when it may forward what it received.
ForwardThen(next) ==
    IF active_run # 0 /\ disp_batch # <<>> THEN "mark" ELSE next

\* poll: the waker is published before the channel is inspected.
dispatcher_poll ==
    /\ disp_pc = "poll" \/ (disp_pc = "sleep" /\ disp_woken)
    /\ runtime_waker' = TRUE
    /\ disp_woken' = FALSE
    /\ disp_pc' = ForwardThen("drain")
    /\ disp_ret' = "drain"
    /\ UNCHANGED <<state_vars, active_ready_dispatch, pending_ready,
                   ready_pending, ready_waker, stop_requested, local_enqueues,
                   channel_handles, command_channel, done_acks, loop_vars,
                   active_run, disp_batch, disp_handles, disp_mark, disp_done,
                   call_vars, hist_vars>>

\* drain_commands found the channel empty.
drain_commands_empty ==
    /\ disp_pc = "drain"
    /\ command_channel = <<>>
    /\ disp_pc' = ForwardThen("sleep")
    /\ disp_ret' = "drain"
    /\ UNCHANGED <<state_vars, shared_vars, loop_vars, active_run, disp_batch,
                   disp_handles, disp_mark, disp_done, disp_woken, call_vars, hist_vars>>

Receive(op) ==
    /\ disp_pc = "drain"
    /\ command_channel # <<>>
    /\ Head(command_channel).op = op
    /\ command_channel' = Tail(command_channel)
    /\ UNCHANGED <<closed, active_ready_dispatch, ready_pending, ready_waker,
                   stop_requested, local_enqueues, channel_handles,
                   runtime_waker, done_acks, loop_vars, disp_woken, call_vars,
                   hist_vars>>

\* handle_command: ScheduleReadyHandle and RequestStop.
handle_ready ==
    /\ Receive("ready")
    /\ LET item == Head(command_channel).item IN
       /\ disp_batch' = Append(disp_batch, item)
       /\ disp_handles' = disp_handles + HandleCount(item)
    /\ UNCHANGED <<running, stopping, pending_ready, disp_pc, disp_ret,
                   active_run, disp_mark, disp_done>>

\* handle_command, EnterRun: work received before the run is forwarded with
\* the mark taken at its start, and only then is the queue opened.
handle_enter_run ==
    /\ Receive("enter")
    /\ active_run' = Head(command_channel).run
    /\ disp_mark' = Head(command_channel).mark
    /\ disp_pc' = IF disp_batch = <<>> THEN "activate" ELSE "extend"
    /\ disp_ret' = "activate"
    /\ UNCHANGED <<running, stopping, pending_ready, disp_batch, disp_handles,
                   disp_done>>

\* Mutant: what the channel delivered goes ahead of the run's own queue.
TakeBackRun_Behind ==
    /\ active_run' = 0
    /\ IF active_run = 0
       THEN UNCHANGED <<pending_ready, disp_batch>>
       ELSE /\ disp_batch' = disp_batch \o Items(pending_ready[active_run])
            /\ pending_ready' = [pending_ready EXCEPT ![active_run] = <<>>]

\* finish_run: the run's own queue is older than what the channel delivered.
TakeBackRun ==
    /\ active_run' = 0
    /\ IF active_run = 0
       THEN UNCHANGED <<pending_ready, disp_batch>>
       ELSE /\ disp_batch' = Items(pending_ready[active_run]) \o disp_batch
            /\ pending_ready' = [pending_ready EXCEPT ![active_run] = <<>>]

\* handle_command, FinishRun: finish_run resets the run state when a run is
\* active, and the sender is answered either way.
handle_finish_run ==
    /\ Receive("finish")
    /\ TakeBackRun
    /\ disp_done' = Head(command_channel).run
    /\ disp_pc' = IF active_run = 0 THEN "ack" ELSE "reset"
    /\ UNCHANGED <<running, stopping, disp_ret, disp_handles, disp_mark>>

\* finish_run: running and stopping, under the state lock.
finish_run_reset ==
    /\ disp_pc = "reset"
    /\ running' = FALSE /\ stopping' = FALSE
    /\ disp_pc' = "ack"
    /\ UNCHANGED <<closed, shared_vars, loop_vars, disp_ret, active_run,
                   disp_batch, disp_handles, disp_mark, disp_done, disp_woken, call_vars,
                   hist_vars>>

\* handle_command, FinishRun: done_tx.send(()).
finish_run_ack ==
    /\ disp_pc = "ack"
    /\ done_acks' = done_acks \union {disp_done}
    /\ disp_pc' = "drain"
    /\ UNCHANGED <<state_vars, active_ready_dispatch, pending_ready,
                   ready_pending, ready_waker, stop_requested, local_enqueues,
                   channel_handles, command_channel, runtime_waker, loop_vars,
                   disp_ret, active_run, disp_batch, disp_handles, disp_mark,
                   disp_done, disp_woken, call_vars, hist_vars>>

\* handle_command, Close: finish_run, then the dispatcher thread ends.
handle_close ==
    /\ Receive("close")
    /\ TakeBackRun
    /\ running' = (running /\ active_run = 0)
    /\ stopping' = (stopping /\ active_run = 0)
    /\ disp_pc' = "dead"
    /\ UNCHANGED <<disp_ret, disp_handles, disp_mark, disp_done>>

\* dispatch_ready_batch: the mark is read before the queue's lock is taken.
dispatch_ready_batch ==
    /\ disp_pc = "mark"
    /\ disp_mark' = local_enqueues
    /\ disp_pc' = "extend"
    /\ UNCHANGED <<state_vars, shared_vars, loop_vars, disp_ret, active_run,
                   disp_batch, disp_handles, disp_done, disp_woken, call_vars, hist_vars>>

\* forward_ready_batch, under the queue's lock.
forward_ready_batch ==
    /\ disp_pc = "extend"
    /\ pending_ready' =
           [pending_ready EXCEPT ![active_run] =
                PendingExtend(@, disp_batch, disp_mark)]
    /\ disp_batch' = <<>>
    /\ disp_pc' = "uncount"
    /\ UNCHANGED <<state_vars, active_ready_dispatch, ready_pending,
                   ready_waker, stop_requested, local_enqueues, channel_handles,
                   command_channel, runtime_waker, done_acks, loop_vars,
                   disp_ret, active_run, disp_handles, disp_mark, disp_done, disp_woken,
                   call_vars, hist_vars>>

\* channel_handles_forwarded.
channel_handles_forwarded ==
    /\ disp_pc = "uncount"
    /\ channel_handles' = channel_handles - disp_handles
    /\ disp_handles' = 0
    /\ disp_pc' = "signal"
    /\ UNCHANGED <<state_vars, active_ready_dispatch, pending_ready,
                   ready_pending, ready_waker, stop_requested, local_enqueues,
                   command_channel, runtime_waker, done_acks, loop_vars,
                   disp_ret, active_run, disp_batch, disp_mark, disp_done, disp_woken,
                   call_vars, hist_vars>>

\* signal_ready, first half.
dispatcher_signal ==
    /\ disp_pc = "signal"
    /\ disp_pc' = IF ready_pending THEN disp_ret ELSE "wake"
    /\ ready_pending' = TRUE
    /\ UNCHANGED <<state_vars, active_ready_dispatch, pending_ready,
                   ready_waker, stop_requested, local_enqueues, channel_handles,
                   command_channel, runtime_waker, done_acks, loop_vars,
                   disp_ret, active_run, disp_batch, disp_handles, disp_mark,
                   disp_done, disp_woken, call_vars, hist_vars>>

\* signal_ready, second half.
dispatcher_wake ==
    /\ disp_pc = "wake"
    /\ disp_pc' = disp_ret
    /\ WakeLoopTask
    /\ UNCHANGED <<state_vars, active_ready_dispatch, pending_ready,
                   ready_pending, stop_requested, local_enqueues,
                   channel_handles, command_channel, runtime_waker, done_acks,
                   loop_pc, run, local_ready, ready_batch, local_taken,
                   processed_this_turn, tls_queue, ready_error,
                   pending_signal_error, disp_ret, active_run, disp_batch,
                   disp_handles, disp_mark, disp_done, disp_woken, call_vars, hist_vars>>

\* activate_ready_dispatch: never a queue the loop has already retired.
activate_ready_dispatch ==
    /\ disp_pc = "activate"
    /\ active_ready_dispatch' =
           IF active_ready_dispatch.run = active_run
           THEN [active_ready_dispatch EXCEPT !.accepting = TRUE]
           ELSE active_ready_dispatch
    /\ disp_pc' = "drain"
    /\ UNCHANGED <<state_vars, pending_ready, ready_pending, ready_waker,
                   stop_requested, local_enqueues, channel_handles,
                   command_channel, runtime_waker, done_acks, loop_vars,
                   disp_ret, active_run, disp_batch, disp_handles, disp_mark,
                   disp_done, disp_woken, call_vars, hist_vars>>

DispatcherStep ==
    \/ dispatcher_poll \/ drain_commands_empty
    \/ handle_ready \/ handle_enter_run \/ handle_finish_run \/ handle_close
    \/ finish_run_reset \/ finish_run_ack
    \/ dispatch_ready_batch \/ forward_ready_batch \/ channel_handles_forwarded
    \/ dispatcher_signal \/ dispatcher_wake \/ activate_ready_dispatch

-----------------------------------------------------------------------------
\* The loop thread.

OnLoop(pc) == loop_pc = pc /\ call_pc["loop"] = "idle"

\* The loop thread sends a control command; its wake is the next step.
SendFromLoop(command) ==
    /\ command_channel' = Append(command_channel, command)
    /\ Set("loop", "wake_dispatcher")

\* run_forever: refused while running or closed.
run_forever ==
    /\ OnLoop("idle")
    /\ ~closed /\ ~running
    /\ run < MaxRuns
    /\ running' = TRUE /\ stopping' = FALSE
    /\ run' = run + 1
    /\ loop_pc' = "publish"
    /\ UNCHANGED <<closed, shared_vars, local_ready, ready_batch, local_taken,
                   processed_this_turn, tls_queue, ready_error,
                   pending_signal_error, loop_woken, disp_vars, call_vars,
                   hist_vars>>

\* run_forever: a new queue, not yet accepting, replaces the retired one.
publish_ready_dispatch ==
    /\ OnLoop("publish")
    /\ ready_pending' = FALSE
    /\ active_ready_dispatch' = [run |-> run, accepting |-> FALSE]
    /\ loop_pc' = "enter"
    /\ UNCHANGED <<state_vars, pending_ready, ready_waker, stop_requested,
                   local_enqueues, channel_handles, command_channel,
                   runtime_waker, done_acks, run, local_ready, ready_batch,
                   local_taken, processed_this_turn, tls_queue, ready_error,
                   pending_signal_error, loop_woken, disp_vars, call_vars,
                   hist_vars>>

\* run_forever: EnterRun is sent and the thread-local queue installed.
send_enter_run ==
    /\ OnLoop("enter")
    /\ SendFromLoop([op |-> "enter", run |-> run, mark |-> local_enqueues])
    /\ tls_queue' = TRUE
    /\ local_ready' = <<>> /\ ready_batch' = <<>>
    /\ local_taken' = local_enqueues
    /\ ready_error' = FALSE /\ pending_signal_error' = FALSE
    /\ loop_pc' = "turn"
    /\ UNCHANGED <<state_vars, active_ready_dispatch, pending_ready,
                   ready_pending, ready_waker, stop_requested, local_enqueues,
                   channel_handles, runtime_waker, done_acks, run,
                   processed_this_turn, loop_woken, disp_vars, call_item,
                   hist_vars>>

\* Mutant: the enqueue is not counted.
EnqueueLocal_Uncounted(s) ==
    /\ posted[s] < IF s = "io" THEN MaxIo ELSE MaxLocal
    /\ BeginScheduling(s)
    /\ accepted' = accepted \union {NextOf(s)}
    /\ UNCHANGED local_enqueues

\* try_enqueue_local_ready of a callback of source s, counted.
EnqueueLocal(s) ==
    /\ posted[s] < IF s = "io" THEN MaxIo ELSE MaxLocal
    /\ BeginScheduling(s)
    /\ accepted' = accepted \union {NextOf(s)}
    /\ local_enqueues' = local_enqueues + 1

\* One turn begins; LocalTimers::collect may move a due timer to local_ready.
start_turn ==
    /\ OnLoop("turn")
    /\ processed_this_turn' = 0
    /\ \/ UNCHANGED <<local_ready, local_enqueues, posted, accepted,
                      scheduled_before>>
       \/ /\ EnqueueLocal("io")
          /\ local_ready' = Append(local_ready, NextOf("io"))
    /\ loop_pc' = "drain"
    /\ UNCHANGED <<state_vars, active_ready_dispatch, pending_ready,
                   ready_pending, ready_waker, stop_requested, channel_handles,
                   command_channel, runtime_waker, done_acks, run, ready_batch,
                   local_taken, tls_queue, ready_error, pending_signal_error,
                   loop_woken, disp_vars, call_vars, stops, executed>>

\* The generation is spent and no stop is pending: the turn ends.
end_turn ==
    /\ OnLoop("drain")
    /\ ready_batch = <<>>
    /\ processed_this_turn # 0 /\ ~stop_requested
    /\ loop_pc' = "after"
    /\ UNCHANGED <<state_vars, shared_vars, run, local_ready, ready_batch,
                   local_taken, processed_this_turn, tls_queue, ready_error,
                   pending_signal_error, loop_woken, disp_vars, call_vars,
                   hist_vars>>

\* The next generation: both queues merged when the flag is up (it is lowered
\* with the queue locked), the local queue alone otherwise.
start_generation ==
    /\ OnLoop("drain")
    /\ ready_batch = <<>>
    /\ processed_this_turn = 0 \/ stop_requested
    /\ IF ready_pending
       THEN /\ ready_batch' = MergeGeneration(local_ready, local_taken,
                                              pending_ready[run])
            /\ pending_ready' = [pending_ready EXCEPT ![run] = <<>>]
            /\ ready_pending' = FALSE
       ELSE /\ ready_batch' = local_ready
            /\ UNCHANGED <<pending_ready, ready_pending>>
    /\ local_taken' = local_taken + Len(local_ready)
    /\ local_ready' = <<>>
    /\ loop_pc' = IF ready_batch' = <<>> THEN "after" ELSE "drain"
    /\ UNCHANGED <<state_vars, active_ready_dispatch, ready_waker,
                   stop_requested, local_enqueues, channel_handles,
                   command_channel, runtime_waker, done_acks, run,
                   processed_this_turn, tls_queue, ready_error,
                   pending_signal_error, loop_woken, disp_vars, call_vars,
                   hist_vars>>

\* The I/O budget: a turn is cut at Budget items, unless the run is stopping.
CountItem(is_stopping) ==
    LET processed == processed_this_turn + 1 IN
    IF processed < Budget
    THEN processed_this_turn' = processed /\ loop_pc' = "drain"
    ELSE IF is_stopping
         THEN processed_this_turn' = 0 /\ loop_pc' = "drain"
         ELSE processed_this_turn' = processed /\ loop_pc' = "after"

\* Mutants: the run is not marked as stopping, and the loop counts as stopped
\* at once.
TakeStop_Forgets ==
    stop_requested' = FALSE /\ UNCHANGED <<stopping, running>>
TakeStop_StopsAtOnce ==
    stop_requested' = FALSE /\ stopping' = TRUE /\ running' = FALSE

\* ReadyItem::Stop answers the request; the run ends after this turn.
TakeStop == stop_requested' = FALSE /\ stopping' = TRUE /\ UNCHANGED running

\* ReadyItem::Stop.
run_stop_item ==
    /\ OnLoop("drain")
    /\ ready_batch # <<>>
    /\ Head(ready_batch) = StopItem
    /\ ready_batch' = Tail(ready_batch)
    /\ TakeStop
    /\ CountItem(TRUE)
    /\ UNCHANGED <<closed, active_ready_dispatch, pending_ready,
                   ready_pending, ready_waker, local_enqueues, channel_handles,
                   command_channel, runtime_waker, done_acks, run, local_ready,
                   local_taken, tls_queue, ready_error, pending_signal_error,
                   loop_woken, disp_vars, call_vars, hist_vars>>

\* The callback at the head of the batch runs.
Execute ==
    LET x == Head(ready_batch) IN
    /\ OnLoop("drain")
    /\ ready_batch # <<>>
    /\ x # StopItem
    /\ executed' = executed \union {x}
    /\ UNCHANGED <<running, stopping, closed, active_ready_dispatch,
                   pending_ready, ready_pending, ready_waker, channel_handles,
                   command_channel, runtime_waker, done_acks, run, local_taken,
                   tls_queue, pending_signal_error, loop_woken, disp_vars,
                   call_vars>>

\* Pairs that still matter once callback x has run.
Forget(x, pairs) == {e \in pairs : e[1] # x /\ e[2] # x}

\* execute_ready: a callback that returns, having scheduled nothing.
execute_ready ==
    /\ Execute
    /\ ready_batch' = Tail(ready_batch)
    /\ scheduled_before' = Forget(Head(ready_batch), scheduled_before)
    /\ CountItem(stopping)
    /\ UNCHANGED <<stop_requested, local_enqueues, local_ready, ready_error,
                   posted, stops, accepted>>

\* execute_ready: a callback that calls call_soon.
execute_ready_call_soon ==
    /\ Execute
    /\ ready_batch' = Tail(ready_batch)
    /\ posted["loop"] < MaxLocal
    /\ posted' = [posted EXCEPT !["loop"] = @ + 1]
    /\ accepted' = accepted \union {NextOf("loop")}
    /\ scheduled_before' =
           Forget(Head(ready_batch),
                  scheduled_before \union (Waiting \X {NextOf("loop")}))
    /\ local_enqueues' = local_enqueues + 1
    /\ local_ready' = Append(local_ready, NextOf("loop"))
    /\ CountItem(stopping)
    /\ UNCHANGED <<stop_requested, ready_error, stops>>

\* execute_ready: a callback that calls stop.
execute_ready_stop ==
    /\ Execute
    /\ ready_batch' = Tail(ready_batch)
    /\ scheduled_before' = Forget(Head(ready_batch), scheduled_before)
    /\ stops < MaxStops
    /\ stops' = stops + 1
    /\ stop_requested' = TRUE
    /\ local_enqueues' = local_enqueues + 1
    /\ local_ready' = Append(local_ready, StopItem)
    /\ CountItem(stopping)
    /\ UNCHANGED <<ready_error, posted, accepted>>

\* execute_ready: a BaseException leaves the drain with the batch unfinished.
execute_ready_raises ==
    /\ CallbacksRaise
    /\ Execute
    /\ ready_batch' = Tail(ready_batch)
    /\ scheduled_before' = Forget(Head(ready_batch), scheduled_before)
    /\ ready_error' = TRUE
    /\ loop_pc' = "after"
    /\ UNCHANGED <<stop_requested, local_enqueues, local_ready,
                   processed_this_turn, posted, stops, accepted>>

\* execute_ready(...)?: an Exception whose handler raises leaves run_forever
\* at once; the queues of the frame are dropped and nothing else is undone.
execute_ready_handler_raises ==
    /\ HandlerRaises
    /\ Execute
    /\ ready_batch' = <<>> /\ local_ready' = <<>>
    /\ scheduled_before' = {}
    /\ loop_pc' = "returned_early"
    /\ UNCHANGED <<stop_requested, local_enqueues, ready_error,
                   processed_this_turn, posted, stops, accepted>>

RestOfTurn ==
    UNCHANGED <<state_vars, active_ready_dispatch, pending_ready,
                channel_handles, command_channel, runtime_waker, done_acks,
                run, ready_batch, local_taken, processed_this_turn, tls_queue,
                ready_error, disp_vars, call_vars, executed>>

\* After the drain: an error or a processed stop ends the run.
end_run ==
    /\ OnLoop("after")
    /\ ready_error \/ stopping
    /\ loop_pc' = "leftover"
    /\ RestOfTurn
    /\ UNCHANGED <<ready_pending, ready_waker, stop_requested, local_enqueues,
                   local_ready, pending_signal_error, loop_woken, posted, stops,
                   accepted, scheduled_before>>

\* check_signals raised: schedule_stop on the loop thread, outside the drain,
\* so the enqueue also signals.
check_signals_raises ==
    /\ OnLoop("after")
    /\ ~ready_error /\ ~stopping /\ ~pending_signal_error
    /\ stops < MaxStops
    /\ stops' = stops + 1
    /\ pending_signal_error' = TRUE
    /\ stop_requested' = TRUE
    /\ local_ready' = Append(local_ready, StopItem)
    /\ local_enqueues' = local_enqueues + 1
    /\ ready_pending' = TRUE
    /\ IF ready_pending THEN UNCHANGED <<ready_waker, loop_woken>>
                        ELSE WakeLoopTask
    /\ loop_pc' = "turn"
    /\ RestOfTurn
    /\ UNCHANGED <<posted, accepted, scheduled_before>>

\* An I/O future polled on the loop thread outside the drain enqueues its
\* completion and signals.
CompleteIo ==
    /\ EnqueueLocal("io")
    /\ local_ready' = Append(local_ready, NextOf("io"))
    /\ ready_pending' = TRUE
    /\ IF ready_pending THEN UNCHANGED <<ready_waker, loop_woken>>
                        ELSE WakeLoopTask

\* poll_once between two turns of a busy loop.
poll_once ==
    /\ OnLoop("after")
    /\ ~ready_error /\ ~stopping
    /\ ready_batch # <<>> \/ local_ready # <<>>
    /\ \/ CompleteIo
       \/ UNCHANGED <<local_ready, local_enqueues, ready_pending, ready_waker,
                      loop_woken, posted, accepted, scheduled_before>>
    /\ loop_pc' = "turn"
    /\ RestOfTurn
    /\ UNCHANGED <<stop_requested, pending_signal_error, stops>>

Parked ==
    /\ RestOfTurn
    /\ UNCHANGED <<ready_pending, stop_requested, local_enqueues, local_ready,
                   pending_signal_error, posted, stops, accepted,
                   scheduled_before>>

\* Nothing to run: block_on_until drives WaitForWake.
start_park ==
    /\ OnLoop("after")
    /\ ~ready_error /\ ~stopping
    /\ ready_batch = <<>> /\ local_ready = <<>>
    /\ loop_pc' = "park"
    /\ Parked
    /\ UNCHANGED <<ready_waker, loop_woken>>

\* WaitForWake::poll, the first check.
wait_for_wake_check ==
    /\ OnLoop("park")
    /\ loop_pc' = IF ready_pending THEN "turn" ELSE "register"
    /\ Parked
    /\ UNCHANGED <<ready_waker, loop_woken>>

\* WaitForWake::poll: register before the second check.
wait_for_wake_register ==
    /\ OnLoop("register")
    /\ ready_waker' = TRUE
    /\ loop_pc' = "recheck"
    /\ Parked
    /\ UNCHANGED loop_woken

\* Mutant: the flag is not checked again after registering.
wait_for_wake_recheck_omitted ==
    /\ OnLoop("recheck")
    /\ loop_pc' = "asleep"
    /\ Parked
    /\ UNCHANGED <<ready_waker, loop_woken>>

\* WaitForWake::poll, the second check.
wait_for_wake_recheck ==
    /\ OnLoop("recheck")
    /\ loop_pc' = IF ready_pending THEN "turn" ELSE "asleep"
    /\ Parked
    /\ UNCHANGED <<ready_waker, loop_woken>>

\* block_on_until: a wake of the root task polls WaitForWake again.
wake_up ==
    /\ OnLoop("asleep")
    /\ loop_woken
    /\ loop_woken' = FALSE
    /\ loop_pc' = "park"
    /\ Parked
    /\ UNCHANGED ready_waker

\* block_on_until: the next timer or the signal poll interval.
park_deadline ==
    /\ OnLoop("asleep")
    /\ loop_pc' = "turn"
    /\ Parked
    /\ UNCHANGED <<ready_waker, loop_woken>>

\* block_on_until: the reactor completes I/O while the loop is parked.
parked_io ==
    /\ OnLoop("asleep")
    /\ CompleteIo
    /\ RestOfTurn
    /\ UNCHANGED <<stop_requested, loop_pc, pending_signal_error, stops>>

\* Mutant: what the loop thread queued itself is dropped.
Leftover_DropsLocal(pending) == Stamped(ready_batch \o Items(pending), 0)

\* The unexecuted batch, then both queues merged; no marks are kept.
Leftover(pending) ==
    Stamped(ready_batch \o MergeGeneration(local_ready, local_taken, pending), 0)

\* set_active_loop with a null queue.
ClearLocalQueue == tls_queue' = FALSE

\* End of run_forever: the thread-local queue is cleared, and what was not
\* executed goes back, ahead of what others still queue.
keep_leftover ==
    /\ OnLoop("leftover")
    /\ ClearLocalQueue
    /\ IF ready_batch # <<>> \/ local_ready # <<>>
       THEN /\ pending_ready' = [pending_ready EXCEPT ![run] = Leftover(@)]
            /\ local_taken' = local_taken + Len(local_ready)
       ELSE UNCHANGED <<pending_ready, local_taken>>
    /\ ready_batch' = <<>> /\ local_ready' = <<>>
    /\ loop_pc' = "retire"
    /\ UNCHANGED <<state_vars, active_ready_dispatch, ready_pending,
                   ready_waker, stop_requested, local_enqueues, channel_handles,
                   command_channel, runtime_waker, done_acks, run,
                   processed_this_turn, ready_error, pending_signal_error,
                   loop_woken, disp_vars, call_vars, hist_vars>>

EndOfRun ==
    UNCHANGED <<closed, pending_ready, ready_pending, ready_waker,
                stop_requested, local_enqueues, channel_handles, runtime_waker,
                done_acks, run, local_ready, ready_batch, local_taken,
                processed_this_turn, tls_queue, ready_error,
                pending_signal_error, loop_woken, disp_vars, call_item,
                hist_vars>>

\* active_ready_dispatch.take().
retire_ready_dispatch ==
    /\ OnLoop("retire")
    /\ active_ready_dispatch' = [run |-> 0, accepting |-> FALSE]
    /\ loop_pc' = "finish"
    /\ EndOfRun
    /\ UNCHANGED <<running, stopping, command_channel, call_pc>>

\* FinishRun is sent and its answer awaited.
send_finish_run ==
    /\ OnLoop("finish")
    /\ SendFromLoop([op |-> "finish", run |-> run])
    /\ loop_pc' = "await"
    /\ EndOfRun
    /\ UNCHANGED <<running, stopping, active_ready_dispatch>>

\* done_rx answered: run_forever returns.
finish_acknowledged ==
    /\ OnLoop("await")
    /\ run \in done_acks
    /\ loop_pc' = "idle"
    /\ EndOfRun
    /\ UNCHANGED <<running, stopping, active_ready_dispatch, command_channel,
                   call_pc>>

\* RUN_FINISH_TIMEOUT passed: the run state is reset here, and the command is
\* still on its way to the dispatcher.
reset_run_state_after_finish_error ==
    /\ FinishTimesOut
    /\ OnLoop("await")
    /\ run \notin done_acks
    /\ running' = FALSE /\ stopping' = FALSE
    /\ loop_pc' = "idle"
    /\ EndOfRun
    /\ UNCHANGED <<active_ready_dispatch, command_channel, call_pc>>

\* close: refused while running, idempotent.
close ==
    /\ OnLoop("idle")
    /\ ~running /\ ~closed
    /\ closed' = TRUE
    /\ loop_pc' = "closing"
    /\ UNCHANGED <<running, stopping, shared_vars, run, local_ready,
                   ready_batch, local_taken, processed_this_turn, tls_queue,
                   ready_error, pending_signal_error, loop_woken, disp_vars,
                   call_vars, hist_vars>>

\* close: the Close command.
send_close ==
    /\ OnLoop("closing")
    /\ SendFromLoop([op |-> "close"])
    /\ loop_pc' = "join"
    /\ EndOfRun
    /\ UNCHANGED <<running, stopping, active_ready_dispatch>>

\* close: the dispatcher thread is joined.
join_runtime_thread ==
    /\ OnLoop("join")
    /\ disp_pc = "dead"
    /\ loop_pc' = "closed"
    /\ EndOfRun
    /\ UNCHANGED <<running, stopping, active_ready_dispatch, command_channel,
                   call_pc>>

\* What the loop thread does by itself once run_forever or close was called.
LoopStep ==
    \/ publish_ready_dispatch \/ send_enter_run
    \/ start_turn \/ end_turn \/ start_generation
    \/ run_stop_item \/ execute_ready \/ execute_ready_call_soon
    \/ execute_ready_stop \/ execute_ready_raises \/ execute_ready_handler_raises
    \/ end_run \/ poll_once
    \/ start_park \/ wait_for_wake_check \/ wait_for_wake_register
    \/ wait_for_wake_recheck \/ wake_up
    \/ keep_leftover \/ retire_ready_dispatch \/ send_finish_run
    \/ finish_acknowledged \/ send_close \/ join_runtime_thread

\* What the program or the environment may do, or not.
Environment ==
    \/ run_forever \/ close
    \/ check_signals_raises \/ park_deadline \/ parked_io
    \/ reset_run_state_after_finish_error
    \/ \E t \in Callers : schedule_callback(t) \/ schedule_stop(t)

Next ==
    \/ LoopStep \/ DispatcherStep \/ Environment
    \/ \E t \in Callers : CallerStep(t)

Spec == Init /\ [][Next]_vars

\* Each thread keeps running: the operating system schedules every runnable
\* thread.  Nothing is assumed of the park deadline, which could otherwise
\* hide a lost wake for 50 ms at a time, nor of new calls or I/O.
Fairness ==
    /\ WF_vars(LoopStep)
    /\ WF_vars(DispatcherStep)
    /\ \A t \in Callers : WF_vars(CallerStep(t))

FairSpec == Spec /\ Fairness

-----------------------------------------------------------------------------
\* Properties.

\* The loop thread is inside run_forever, between its entry and its teardown.
Serving == loop_pc \in {"turn", "drain", "after", "park", "register",
                        "recheck", "asleep"}

Positions(x, q) == {i \in 1..Len(q) : q[i] = x}

\* How often callback x waits in the engine: in the loop thread's queues, with
\* the dispatcher, on the channel and in the queues of all runs.
Copies(x) ==
    Cardinality(Positions(x, local_ready)) + Cardinality(Positions(x, ready_batch))
    + Cardinality(Positions(x, disp_batch))
    + Cardinality({i \in 1..Len(command_channel) :
                      /\ command_channel[i].op = "ready"
                      /\ command_channel[i].item = x})
    + Cardinality(UNION {{r} \X Positions(x, Items(pending_ready[r])) : r \in Runs})

\* No callback is lost or run twice: every accepted callback that has not run
\* waits in exactly one queue of the engine, and one that has run in none,
\* across runs, stops, errors and late answers (loop_core.rs:1199, "Preserve
\* callbacks that were queued but not yet executed when the run ended").  A
\* closed loop and a run left through a raising handler drop their queues.
Conserved ==
    disp_pc # "dead" /\ loop_pc # "returned_early" =>
        \A x \in accepted : Copies(x) = IF x \in executed THEN 0 ELSE 1

\* call_soon_threadsafe never overtakes: a callback scheduled off the loop
\* thread runs after every callback, of any thread, whose scheduling call had
\* returned when its own began, whichever of the three paths either took.
ThreadsafeNeverOvertakes ==
    [][\A x \in executed' \ executed :
           x.by \in Producers =>
               ~\E e \in scheduled_before : e[2] = x]_vars

\* The gate of schedule_ready_handle is sound: when it lets a producer into
\* the queue of the active run, no earlier handle is on the channel or held by
\* the dispatcher.
GateSound ==
    active_ready_dispatch.accepting /\ channel_handles = 0 =>
        /\ \A i \in 1..Len(command_channel) :
              command_channel[i].op = "ready" =>
                  command_channel[i].item = StopItem
        /\ \A i \in 1..Len(disp_batch) : disp_batch[i] = StopItem

\* channel_handles counts the handles between its increment and the
\* dispatcher's forwarding, so it never wraps below zero.
ChannelHandlesExact ==
    channel_handles =
        Cardinality({t \in Callers : call_pc[t] = "send"
                                     /\ call_item[t] # StopItem})
        + Cardinality({i \in 1..Len(command_channel) :
                          /\ command_channel[i].op = "ready"
                          /\ command_channel[i].item # StopItem})
        + disp_handles

\* The marks number loop-thread enqueues as the loop thread does: the items of
\* local_ready are the enqueues local_taken + 1 .. local_enqueues.
LocalNumbering ==
    tls_queue /\ loop_pc # "returned_early" =>
        local_taken + Len(local_ready) = local_enqueues

\* Some thread has yet to finish the signal for an item it queued for run.
SignalComing ==
    \/ \E t \in Callers : call_pc[t] = "signal"
    \/ disp_pc \in {"uncount", "signal"}

WakeComing == disp_pc = "wake" \/ \E t \in Callers : call_pc[t] = "wake"

\* No lost wakeup: while the loop is parked, an item in the queue of its run or
\* on its local queue means it is woken already or a thread is about to do so.
\* The park deadline is not needed to notice work.
NoLostWakeup ==
    loop_pc = "asleep" /\ (pending_ready[run] # <<>> \/ local_ready # <<>>) =>
        loop_woken \/ WakeComing \/ SignalComing

\* The dispatcher never sleeps on a command: one on the channel means it has
\* been woken or its sender is about to wake it.
DispatcherNotStranded ==
    disp_pc = "sleep" /\ command_channel # <<>> =>
        disp_woken \/ \E t \in Callers : call_pc[t] = "wake_dispatcher"

\* Neither thread of the engine sleeps on work, whatever flag, waker, command
\* or queue announces it.
NeverSleepsOnWork == TypeOK /\ NoLostWakeup /\ DispatcherNotStranded

\* is_running is true throughout a run: close() and a second run_forever are
\* refused while callbacks execute (loop_core.rs:562 and 1278).
RunningWhileServing == Serving => running

\* The thread-local queue pointer is null whenever run_forever is not on the
\* stack (loop_core.rs:2022, "TLS is cleared before the allocation drops").
TlsClearedBeforeDrop == tls_queue => Serving \/ loop_pc = "leftover"

\* What the rest of the engine may take for granted about a run: the handle
\* count, the running flag and the thread-local queue pointer.
RunStateSound == ChannelHandlesExact /\ RunningWhileServing /\ TlsClearedBeforeDrop

\* Every accepted callback runs, as long as the run goes on.
EventuallyExecuted ==
    \A x \in [by : Producers, n : 1..MaxPosts]
             \union [by : {"loop"}, n : 1..MaxLocal]
             \union [by : {"io"}, n : 1..MaxIo] :
        []<>(x \in accepted /\ Serving => x \in executed)

\* A requested stop ends the run that is being served.
StopEndsRun == stop_requested /\ Serving ~> ~Serving

-----------------------------------------------------------------------------
\* The inductive strengthening behind NoLostWakeup and DispatcherNotStranded.

NoDispatchPcs == {"idle", "publish", "finish", "await", "closing", "join",
                  "closed"}
ParkPcs == {"park", "register", "recheck", "asleep"}

\* The loop thread serves a run it began, and only that run is dispatched to.
LoopRun ==
    /\ loop_pc \notin {"idle", "closing", "join", "closed"} => run # 0
    /\ active_ready_dispatch.run \in {0, run}
    /\ loop_pc \in NoDispatchPcs => active_ready_dispatch.run = 0

\* The loop thread has sent EnterRun for run r.
Entered(r) == r <= run /\ (loop_pc \in {"publish", "enter"} => r # run)

\* The dispatcher learns of a run from its EnterRun, never before.
ActiveRun ==
    /\ Entered(active_run)
    /\ \A i \in 1..Len(command_channel) :
          command_channel[i].op = "enter" => Entered(command_channel[i].run)

\* The dispatcher forwards only to a run and answers only a run.
DispatcherRun ==
    /\ disp_pc \in {"mark", "extend", "uncount", "signal", "wake", "activate"} =>
           active_run # 0
    /\ disp_pc \in {"reset", "ack"} => disp_done # 0

RunsConsistent == LoopRun /\ ActiveRun /\ DispatcherRun

\* A queue is empty until its run starts.
QueuesFresh ==
    /\ \A r \in Runs : r > run => pending_ready[r] = <<>>
    /\ loop_pc = "publish" => pending_ready[run] = <<>>

\* A non-empty queue of the run being served is flagged, or about to be.
QueueFlagged ==
    loop_pc = "enter" \/ Serving =>
        pending_ready[run] = <<>> \/ ready_pending \/ SignalComing

\* Work queued by the loop thread outside the drain is flagged.
LocalFlagged == loop_pc \in ParkPcs => local_ready = <<>> \/ ready_pending

\* A raised flag reaches the parked loop.
FlagWakes ==
    /\ loop_pc \in {"recheck", "asleep"} => ready_waker \/ loop_woken
    /\ loop_pc = "asleep" /\ ready_pending => loop_woken \/ WakeComing

\* The dispatcher is reachable from its first poll on.
DispatcherReachable ==
    /\ disp_pc # "poll" => runtime_waker
    /\ DispatcherNotStranded

WakeInvariant ==
    /\ RunsConsistent /\ QueuesFresh /\ QueueFlagged /\ LocalFlagged
    /\ FlagWakes /\ DispatcherReachable

-----------------------------------------------------------------------------
\* Producers run the same code.
ProducerSymmetry == Permutations(Producers)

Service == INSTANCE CallbackService

\* The engine implements the service: every accepted callback runs at most
\* once, and each producer's callbacks in its order, across runs, stops and
\* the three paths of schedule_ready_handle and try_enqueue_local_ready.
ImplementsService == Service!Spec
=============================================================================
