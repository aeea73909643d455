# Formal models of rsloop

rsloop is an asyncio event loop whose scheduling, timers, transports and I/O
runtime are written in Rust (`src/src`), with a thin Python layer
(`src/python`).  This directory holds TLA+ models of it, the TLC configurations
that check them on small instances, and TLAPS proofs of the properties that
matter most for any number of threads, runs and callbacks.

Paths below are relative to `src/src` unless they say otherwise; `PROJECT.json`
maps every definition to the lines it models (an operator without an entry of
its own is part of the definition that uses it) and lists the hazards of the
code, each at its line and with the properties that would catch it going wrong.

    cd tla
    tlc -config Engine.cfg LoopEngine           # one run
    tlapm LoopEngineProofs.tla                  # the proofs of one module

## 1. The system

### Threads

* The **loop thread** calls `run_forever`.  It executes callbacks, collects
  timers, drives the I/O runtime (`vibeio`) while it parks, and runs protocol
  code.
* The **dispatcher** (one runtime thread per loop) drains the command channel
  and forwards what it receives into the queue of the active run.  It also owns
  the watches and reader tasks that were started outside a run.
* **Other threads** call `call_soon_threadsafe`, `call_later`, `stop` and
  `cancel`, or complete work of the blocking pool.
* **Transport threads and tasks** read and write descriptors: a writer worker
  takes the write side of a connection over once a write could not complete
  inline; pipes and TLS sessions have reader and writer threads; a subprocess
  has a waiter thread.
* **Signal context and the signal dispatcher** turn signals into wakes.

They share atomics, queues behind mutexes, and channels.  Almost every
hand-over is a lock-free fast path beside a slow path through a channel or a
lock; most of what can go wrong lies between the two.  The second source of
trouble is reuse: tokens, slab slots, generations, descriptor numbers, process
ids and pooled buffers name one thing and later another.

### Inventory

| Component | Source | State | Operations | What is hard | What makes it correct |
|---|---|---|---|---|---|
| Loop core and dispatcher | `engine/loop_core.rs`, `dispatcher.rs`, `commands.rs` | run flags, active dispatch, per-run and local queue, wake flag and waker, command channel | `call_soon`, `call_soon_threadsafe`, `stop`, `run_forever`, `close` | three paths into the ready queue, park against signal, restart, late answers, raising handlers | nothing lost or doubled, order, no lost wake, runs end and restart cleanly |
| Ready queue | `commands.rs`, `loop_core.rs` (`merge_ready_generation`) | items, (index, mark) segments | push, extend, merge, take | marks of another age than the local queue | the merge is the scheduling order |
| Timers of the loop | `timer_entry.rs`, `callbacks.rs`, `loop_core.rs` | FIFO and heap of the run, shared heap with a dirty flag, tombstones | `call_later`, `call_at`, `cancel`, collect, compact, close | publication against park, three parties to one tombstone | each timer in one place, deadline order, never after cancel, never slept on |
| Callback contexts | `engine/callbacks.rs`, `context.rs`, `fast_callbacks.rs` | entered contexts, one cached empty context | capture, enter, run, leave | recycling a context somebody kept | a callback sees its own context |
| Blocking pool | `blocking.rs` | slot count, waiting jobs | submit, run, pass on, give up | the last worker against a submit | exact count, no stranded job, order |
| Executors and shutdown | `bindings/loop_api` (`executor.rs`, `resolver.rs`, `asyncgens.rs`, `lifecycle.rs`) | default executor, closed flag, jobs, generators | `run_in_executor`, `getaddrinfo`, `shutdown_*`, `close` | submission against shutdown, timeout | nothing enters after the door closed, waits are honest |
| Stream transport, write side | `transport/stream` (`core_write.rs`, `writer.rs`, `write_queue.rs`, `buffers.rs`, ...) | staged buffer, writer queue, size, pause flag, hint, event gate, buffer pool | write, writelines, flush, worker, close, write_eof, abort, loss | two writers, partial writes, accounting across owners | bytes once and in order, size exact, shutdown after data |
| Stream transport, read side | `reader.rs`, `reader_task.rs`, `core_events.rs`, `core_protocol.rs`, `core_state.rs` | pending events, pause flags, buffer pool, reader tasks by descriptor | read, pause, resume, drain, close | reader against drain and pause, descriptor numbers reused | order, bounded backlog, no lost resume |
| Async event | `async_event.rs` | listeners | listen, notify_all | registration against notification | no listener missed |
| Stream server | `accept.rs`, `server*.rs`, `py_server.rs` | listeners, connection and handshake counters, waiters | accept, admit, close, wait_closed | close against accept, slots on every way out | counters exact, waiters answered |
| Fast streams | `fast.rs`, `protocol.rs` | reader buffer and waiter, drain waiters | read, readuntil, readexactly, drain, start_tls | waiters against events, cancellation | bytes cut right, waiters answered |
| TLS | `tls_session.rs`, `tls_transport.rs`, `transport/tls` | rustls session under a lock, plaintext and record buffers | handshake, read, write, close | two threads, one session | plaintext whole and in order, progress |
| Process transport | `transport/process`, `process_spawn.rs`, `pre_exec.rs` | exit status, open pipes, events; descriptors of a spawn | spawn, exit, pipe events, close, kill | exit before the pipes end, failure halfway | callbacks in sequence, no leaked descriptor |
| Watches and signal handlers | `loop_core.rs`, `dispatcher.rs`, `watchers.rs`, `signals.rs` | registrations, generation, watcher tasks | add, remove, fire, re-arm | fire against replacement | an old watch never calls or re-arms |
| sock_ calls, connects | `socket_operation.rs`, `sock_ops.rs`, `socket_connect.rs`, `connections.rs`, `connect.rs` | operations, waits, futures | receive, send, accept, connect, cancel | cancellation against readiness | nothing taken for nobody |
| Datagram endpoint | `src/python/rsloop/_loop_compat.py` | buffer, marks, tasks | sendto, flush, read, close | tasks against close | order, marks, `connection_lost` once, last |
| Runtime: executor | `vibeio/executor.rs`, `task.rs` | slab, queues, park state | spawn, wake, poll, cancel, park | wake against poll and park, token reuse | no lost wake |
| Runtime: timers | `vibeio/timer.rs`, `time/` | heap over a slab, sleepers, intervals | sleep, reset, timeout, tick | generations, overflow, missed ticks | never early, never stranded |
| Runtime: drivers | `vibeio/driver`, `op`, `fd_inner.rs` | registrations, completion slab | register, submit, cancel, complete | stale events, buffers the kernel still uses | the right task woken, storage kept |
| Runtime: sockets, files, pipes | `vibeio/net`, `fs`, `io`, `util`, `blocking` | modes, cursor, owned buffers | conversion, exact I/O, copy, create_dir_all | dropped futures, short transfers | bytes where asked |
| Runtime: signals, children | `vibeio/signal/unix.rs`, `process` | flags, self-pipe, wakers, reaper lists | receive, wait, reap | handler against scan, pid reuse | no signal or exit lost |
| Futures bridge, bindings, snapshot, platform, errors, profile, Python layer | `rust_async*`, `bindings`, ... | none of their own | conversion, system calls | - | - |

## 2. The modules

**Grain.**  A step is what a thread does between two accesses another thread can
see: an atomic access, a section under one lock, a channel operation, a system
call.  What happens under one lock is one step; what the code does after
releasing it is another.  So `LoopWake::signal` is two steps, `WaitForWake::poll`
three, and `schedule_ready_handle` up to five.  Code that runs on one thread is
split where it awaits or calls Python.

### Engine

| Module | Models | State and actions |
|---|---|---|
| `ReadyQueue` | `PendingReady`, `merge_ready_generation` | pure operators: `MergeGeneration` places every entry by its mark |
| `ReadyMerge` | the same code, literally | segments as the code keeps them, the loop over them |
| `LoopEngine` | `LoopCore`, `RuntimeDispatcher`, `LoopWake` | one variable per field, a program counter per thread |
| `CallbackService` | the promise of `call_soon*` | abstract: accepted and executed, per-producer order; `LoopEngine` implements it |
| `Timers` | `TimerQueue`, `TimerCallback`, `LocalTimers` | the queues as sequence and sets, one action per critical section |
| `LoopWatches` | `add_reader`, `add_writer`, `add_signal_handler` | one descriptor and one signal: registration generation, local and remote watch, commands |
| `CallbackContext` | capture, enter and leave | contexts are numbers; a value and a token per context |
| `LoopShutdown` | executors, resolver, generators, close | jobs by where they run, the door, a shutdown with and without timeout |
| `BoundedPool` | `spawn_bounded` | the state under the lock, a program counter per job |

In `LoopEngine`, `schedule_callback`, `schedule_ready_handle`,
`try_enqueue_active_ready`, `signal`, `count_channel_handle`,
`send_remote_command` and `wake_dispatcher` follow one call from any thread;
`dispatcher_*`, `handle_*`, `forward_ready_batch` and
`channel_handles_forwarded` are the dispatcher; `run_forever` to
`finish_acknowledged` are a run.  A callback is `[by, n]`, the n-th of a source;
what it does when it runs (return, `call_soon`, `stop`, raise) is chosen then.
Timers that fall due and I/O completions are local enqueues of the source `io`.
`Timers` has `LoopWake` as one Boolean: `LoopEngine` shows that a raised flag
wakes.

### Transports

| Module | Models | State and actions |
|---|---|---|
| `StreamRead` | the reader task or thread, read events, pause and resume, close, `AsyncEvent` | bytes numbered by the peer; event queue, pool, flags; `listen` and check are two steps, as in the code |
| `StreamWrite` | the write side of a socket or a pipe | bytes numbered in acceptance order; staged buffer, queue, worker, hint, size, event gate |
| `WriteBuffers` | `writelines`, coalescing, the write buffer pool | segments, owned or pooled storage, vectored writes |
| `PollReader` | the Windows change to a polling reader | socket mode, request and ready flags, staged writes |
| `IoRegistry` | reader tasks by descriptor number | `IO_TASKS`, the dispatcher's table, commands |
| `FastReader` | the native `StreamReader` | buffer, waiter, incremental separator scan, limit |
| `StreamProtocols` | the native protocol's drains; the asyncio reader fast path | waiters, pause marks, loss, TLS upgrade |
| `TlsSession` | one session, reader and writer thread | lock holder, plaintext, records, flights, close_notify |
| `ServerAccept` | accept task, leases, admission, close, waiters | counters and each notification as a step |
| `Processes` | spawn, pipes, ids, failures; child events, exit waiter | descriptors of the parent, steps between fork and exec; event queue with its scheduled flag, drain |
| `SocketCalls` | `sock_*`, connects on both paths | operations, futures, done callbacks, descriptor numbers |
| `Datagram` | the datagram endpoint | buffer, marks, two tasks |

### Runtime

| Module | Models | State and actions |
|---|---|---|
| `Executor` | `drive`, `poll_once`, tasks, remote wakes | slab and tokens, three queues, park handshake |
| `TaskService` | what a future may rely on | abstract; `Executor` implements it |
| `TimerHeap` | `DeadlineHeap` | slab, d-ary heap and index, literally |
| `Sleeps` | `Sleep`, `Timeout`, `Interval`, saturating deadlines | the heap as the set of registrations that `TimerHeap` shows it to be |
| `PollDriver` | readiness on io_uring, mio, kqueue and IOCP | tokens, generations, armed interest, queued events |
| `CompletionDriver` | completions on io_uring and IOCP | slab, cancellation, retained storage, multishot accept, shutdown |
| `IoOps` | the operations of `vibeio/op` | a table of what each waits for, points to and keeps |
| `KqueueDriver` | the kqueue driver | filters, generations, partial failures, the interrupt pair |
| `NetSockets` | wrappers and their modes | registration, duplicates, conversions |
| `Files` | files and paths | exact transfers, cursor, dropped futures; `create_dir_all` against others |
| `Pipes` | `copy`, stdio, the poll wrapper | lent buffers, in-flight operations |
| `Signals`, `Reaper` | signal streams, child reaping | handler, self-pipe, scan, wakers; flavours, fallback threads, zombies |

`LoopEngine` states its symmetry and the refinement itself.  `MCRuntime`, `MCSafetyParts`,
`MCTransport` and `MCLoopParts` put components side by side: `part` is chosen in
the initial state, a behaviour exercises that part, and the others stay in one
of their initial states.  A property of such a module says of each part what the
named conjuncts of its component say, so the run checks every part in full and
composes nothing that the code keeps apart.  Where parts do interact, the
interaction is inside one module: dispatcher and loop (`LoopEngine`), loop and
worker (`StreamWrite`), reader, drain and event (`StreamRead`), task queue and
waker threads (`Executor`).

## 3. The runs

| Run | Instance | What it shows |
|---|---|---|
| `engine` | one producer with two posts, one `call_soon`, one stop, two runs, turns of two | `Conserved`: callbacks run at most once and none is lost.  `ThreadsafeNeverOvertakes`.  `RunStateSound`: `channel_handles` exact, the loop counts as running throughout a run, the thread-local pointer is cleared.  `ImplementsService`. |
| `engine_faults` | two producers, a stop, two runs; raising handlers, late FinishRun answers | `NeverSleepsOnWork`: neither the loop nor the dispatcher sleeps on work.  `GateSound`.  `WakeInvariant`, the inductive invariant of the proofs. |
| `engine_live` | one producer, one I/O completion, a stop, raising callbacks, one run | `EventuallyExecuted`, `StopEndsRun`, `LocalNumbering` |
| `timers` | three timers, two deadlines, a remote thread, two runs and a close | `TimersSafe` (conservation, exact tombstones, no stranded timer, parks bounded by deadlines), `CancelledNeverRuns`, `DeadlineOrder`, `TimersFire` |
| `runtime` | two tasks on one token, a remote waker; four jobs on two slots; two sleeps; intervals with four periods; one handle on four readiness backends; two operations and a listener on two completion backends | `ExecutorSafe`, `PoolSafe`, `SleepersSafe`, `DriversSafe`, `ImplementsTaskService`; `RuntimeServed`: a job, a sleep, a readiness or a completion never stays owed |
| `safety_parts` | seventeen parts, see the configuration | `RegistrationsSafe` (heap, kqueue, sockets, reader registry), `FilesSafe`, `PipesSafe`, `ReadyMergeSafe`, `LoopRulesSafe` (contexts, shutdown), `StreamReadersSafe`, `WriteBuffersKept`, `HeapSteps` |
| `transport` | a reader task under a slow protocol and a reader thread under a native one; a socket and a pipe with four bytes, errors and a peer that half-closes; a TLS session with three records each way | `ReadSideSafe`, `WriteSideSafe`, `ShutdownFollowsData`, `CloseKeepsBytes`, `TlsSessionSafe`; `TransportServed`: reading, resuming, closing and TLS never stay owed |
| `loop_parts` | ten parts, two or three actors each | `DescriptorsSafe`, `SignalsSafe`, `ChildrenSafe`, `SocketCallsSafe`, `ServersSafe`; `LoopServed`: every waiter is answered |

The next four end in a violation, each of a line of the repository that says
otherwise; `PROJECT.json` quotes it.

| Run | What the counterexample shows |
|---|---|
| `late_finish_stop` | A FinishRun answered after `RUN_FINISH_TIMEOUT` reaches the dispatcher in the next run and clears its `running` and `stopping`: the stop is lost and the run does not end. |
| `handler_raises_tls` | An exception handler that raises leaves `run_forever` past `clear_runtime_thread`; the thread-local pointer outlives the queue it points to, and `running` stays true. |
| `direct_overtakes_queue` | The worker clears the backpressure hint after finding the queue empty; a write queued in between is overtaken by a later direct write. |
| `close_cancels_other_reader` | `close()` on a transport already lost cancels the reader of a newer transport whose socket got the same descriptor number. |

### Bounds, and why they are enough

Every bound is a named constant in a guard.

* **Engine.**  Two posts of one producer show its order, and let the first be on
  the channel while the second finds the gate; one local callback shows the
  order against the loop thread; two runs show leftovers, restart and late
  answers; a budget of two is met in the middle of a batch and by a stop.  Two
  producers show the gate contended.
* **Timers.**  Three are the fewest with which compaction leaves a live one
  (`CompactFloor` 1 stands for the 100 tombstones), and with which FIFO, heap
  and shared heap are all occupied.
* **Reuse.**  Everything that is reused has fewer names than owners: two tasks
  share one executor token, two operations one completion slot, three
  transports two descriptors, three registrations two timer slots.
* **Capacity.**  Pools, pipes, batches and marks are small enough to be full:
  four jobs on two slots, a self-pipe of one byte, a session of two records, a
  read pool of three buffers with a budget of three events, water marks 0 and 1
  with a cap of 3.  In the code the read pool holds 4 buffers of 64 KiB, which
  is also the low mark, so the high mark is out of reach: the pool is what
  bounds reading (`PoolBoundsReading`), and the bounds keep that proportion.
* **Streams.**  Four to eight numbered bytes split a write between direct
  writer, staging buffer, queue and worker, and let a separator straddle two
  chunks, overlap and end the stream.
* **Numbers.**  Interval and deadline arithmetic runs over instants up to 9 with
  saturation at the top, periods 0 to 3 and both policies; connection counters
  have a width, so a decrement too many wraps.

`CHECK_DEADLOCK FALSE` is in every configuration: calls are bounded, and an idle
loop, a closed loop, a finished pool and a closed transport may stop for good.
That nothing stops too early is the business of the liveness properties.

### Fairness

Every thread that can take a step eventually takes one (`WF` of the loop thread,
the dispatcher, each caller inside a call, each worker): the operating system
schedules runnable threads and no step blocks on anything but what its guard
says.  Time passes.  The peer reads, jobs of the pool end, the kernel settles a
connect, and a process whose standard input was closed exits, where the property
is about what follows.
Strong fairness is used in three places: for the drain of the read side, because
the loop takes its queue in order, so a drain has its turn whatever callbacks do
in between; for the two TLS threads, because the session's mutex is handed to a
waiter that keeps asking; and for the datagram flush, because a socket reported
writable again and again takes a datagram in the end.  Nothing is assumed of new calls,
of I/O, of signals, of cancellation, nor of the loop's park deadline: with the
last one a lost wake would be hidden for 50 ms at a time.

Most liveness properties have the form `[]<>~Owed`: `Owed` holds while something
promised has not happened, and it never holds for ever.  For a state that is
left only by keeping the promise this is leads-to, at the cost of one check for
all parts.

### Refinements

`ImplementsService` maps the engine's accepted and executed callbacks to
`CallbackService`: at most once, per producer in order.  `ImplementsTaskService`
maps the executor to `TaskService`: one task polled at a time, none after it
completed or was canceled, and a woken task polled again while the loop is
served.  What `LoopEngine` assumes of `block_on_until` (it polls the root task
when woken, completes I/O, returns at its deadline) is what `Executor` shows.

## 4. The proofs

The theorems hold for every value of the constants under the named assumptions
(`EngineAssumption`, `TimersAssumption`, `ExecutorAssumption`, `PoolAssumption`,
`ReadAssumption`, `WriteAssumption`, ...): bounds are naturals, the turn budget and the pool limit
are positive, sets of threads and jobs are finite, the sources `loop`, `io` and
`stop` are not producers.  All faults of `LoopEngine` are included unless the
theorem names one.

| Module | Theorem | States |
|---|---|---|
| `SequenceFacts` | (lemmas) | elements, distinctness and order of appended, joined, cut and filtered sequences |
| `LoopEngineProofs` | `MergePlacesPending` | for all queues and marks, off-thread item i stands right behind the local items scheduled before it and the i - 1 off-thread items ahead of it |
| | `MergeKeepsAll`, `MergeKeepsOrder` | the merge has the items of both queues, each as often as before; an off-thread item comes behind those ahead of it there and those enqueued locally before it |
| | `EngineInvariant` | `WakeInvariant` is invariant |
| | `TypeCorrectness` | `TypeOK`, with the turn budget |
| | `LoopNeverSleepsOnWork`, `DispatcherNeverSleepsOnCommand`, `WorkNeverSleptOn` | `NoLostWakeup`, `DispatcherNotStranded`, `NeverSleepsOnWork` |
| | `EnqueuesNumbered` | `LocalNumbering` |
| | `GateInvariantHolds`, `HandlesExact`, `GateIsSound` | the handle counter is the handles on their way; the gate is shut while one is (`GateSound`) |
| | `RunStateIsSound` | `RunStateSound`, if exception handlers do not raise and FinishRun is answered in time |
| | `ConservationHolds`, `CallbacksConserved` | no callback is lost, copied or run twice (`Conserved`) |
| | `OrderHolds`, `NeverOvertakes` | `ThreadsafeNeverOvertakes` |
| | `ServiceInvariantHolds`, `EngineImplementsService` | every step of the engine is a step of `CallbackService` or a stutter (`ImplementsService`) |
| `TimersProofs` | `TimersAreSafe` | `TimersSafe`: conservation, exact tombstones, nothing stranded, parks bounded by deadlines |
| | `CancelledTimersStayOff`, `DeadlinesInOrder` | `CancelledNeverRuns`, `DeadlineOrder` |
| `RuntimeProofs` | `PoolSlots`, `SlotsNeverExceeded`, `WaitingHasWorkers`, `SubmissionOrder`, `PoolCorrect` | `PoolInvariant`, its parts, and `PoolSafe` |
| | `ExecutorIsSafe` | `ExecutorSafe`: no lost wake, exact slab and queued flags, no park over a wake |
| | `ExecutorRefinesTaskService` | every step of the executor is a step of `TaskService` or a stutter |
| | `SleepsAreSafe`, `IntervalsAreSafe`, `SleepersAreSafe` | `SleepsSafe`, `IntervalSafe` and both as `SleepersSafe` |
| | `KernelStorageIsSafe` | `StorageSafe`, the storage part of `DriversSafe`: answers meet their own slots, storage under way is held, nothing is sent for a closed descriptor |
| `LoopPartsProofs` | `ServersAreSafe` | `ServersSafe`, whatever `connection_made` does |
| | `SignalsAreSafe` | `SignalsSafe`: signal streams and the loop's signal handlers |
| | `DescriptorsAreSafe` | `DescriptorsSafe`: descriptor watches and the datagram endpoint |
| | `SocketOpsAreSafe`, `ConnectIsSafe`, `SocketCallsAreSafe` | `SocketOpsSafe` of the `sock_*` calls, `ConnectSafe` of connects (registrations on the loop's own reactor only), and both as `SocketCallsSafe` |
| `ReadProofs`, `WriteProofs` | (lemmas) | `ReadInv` and `WriteInv` are inductive |
| `TransportProofs` | `ReadSidesAreSafe` | `ReadSideSafe`: nothing lost or reordered, end and loss once and last, slots, nothing stranded |
| | `WriteSidesAreSafe` | `WriteSideSafe`: bytes in one place, written once, size exact, order of a pipe |
| | `ShutdownIsLast`, `CloseKeepsAccepted` | `ShutdownFollowsData`, `CloseKeepsBytes` |

One theorem has a hypothesis about a fault.  `RunStateIsSound` needs
`~HandlerRaises` and `~FinishTimesOut`: the runs `handler_raises_tls` and
`late_finish_stop` are its counterexamples otherwise.

**The wake argument.**  `NoLostWakeup` is not inductive: it speaks of the parked
loop only.  `WakeInvariant` follows the work from its queue to the park.
`QueueFlagged`: a non-empty queue of the run being served has the flag raised or
its signaller is between its push and its signal; so the flag cannot be low
when the second check of `WaitForWake::poll` lets the loop sleep, unless a
signal is still to come.  `LocalFlagged` says the same of what I/O queues while
the loop parks.  `FlagWakes`: from the registration on a waker is registered or
already used, so a raised flag at a sleeping loop means a wake has happened or
is coming.  These need to know whose queue is meant: `RunsConsistent` says that
the active dispatch is the run of the loop thread, that the dispatcher learns
of a run only from its EnterRun, and that it forwards only to a run;
`QueuesFresh` says that a queue is empty until its run starts, which covers the
lowering of the flag at the start of `run_forever`.  `DispatcherReachable`
keeps the dispatcher's own waker registered from its first poll on.  The proof
has one lemma per conjunct and one step per action that can disturb it.

**The numbering argument** is separate and needs only types: every action that
appends to the local queue counts, and the two that empty it add its length to
`local_taken`.

**The gate argument.**  The fast path may be taken only when no earlier handle is
still on the channel, and the only evidence is a counter that callers raise
before they send and the dispatcher lowers after it forwarded a batch.
`HandlesCounted` equates it with the handles of callers between count and send,
in the channel, and in the dispatcher's hands.  Which queue an open gate leads to
is `OpenQueue`: the active run's, and what the dispatcher holds beside it is
still counted.  That is inductive only with the order of commands around a
change of run: `EnterOrder` (runs are entered in turn) and `EndsBeforeEnter`
(what ends an earlier run comes before the EnterRun of this one).
`RunStateSound` adds `FinishedOnce`: a FinishRun is under way only while the loop
thread waits for its answer.

**The conservation argument.**  `CopiesExact`: while neither end has dropped its
queues, a callback that was accepted and not executed waits in exactly one place,
and no other callback waits anywhere.  `Numbered` says that a callback is
accepted once, after its number was drawn, and executed after that; `OwnQueues`
that the loop thread's own queues are empty outside a run; `ClosedLast` that a
loop that sent Close runs nothing more.  The merge of a generation moves
callbacks between three sequences; `MergeKeepsAll` is what makes that step a
move.

**The order argument.**  `Ordered`: of two callbacks of which the first was
scheduled before the second, a producer's, was, the first runs first or stands
ahead of it wherever the second waits (`Behind`, one conjunct for the batch, the
run queue, the dispatcher's hands, the channel and the gate).  A callback may be
on another way than the one behind it, so this needs the gate invariant, and two
facts about runs: `RunsAlternate`, a run is finished before the next is entered,
and `QueuesReached`, only a run that the dispatcher is in or will be in has
anything queued.  The merge is the step where two ways meet; there
`MergeKeepsOrder` applies, since an item of the local queue ahead of a callback
is due before its mark.  `PairsKnown` keeps the recorded pairs among accepted
callbacks.  For the refinement, `CallsOwn` and `InOrder` say that a producer's
calls are recorded in their order, so that `CallbackService` may execute the
callback the engine executes.

**The timer argument.**  `Placed`: FIFO, heap, shared heap, the batch being
collected, the hands of a thread inside `enqueue_timer` and the released timers
partition the issued ones, which makes the count of tombstones exact under
compaction.  `FifoSorted` makes the front of the FIFO its first deadline.
`Flagged`: a timer in the shared heap is flagged, about to be flagged, or about
to be taken, so the loop never parks past it.

**The executor argument** is the wake argument once more, per task.  A task has an
entry in one of the queues or in the hands of a waker (`SeatsApart`: in one at
most), its flag is up exactly then (`FlagMeansSeat`), and a task that is due a
poll has an entry or is in the batch (`WakesKept`).  `SlabSound` ties tokens,
which are reused, to tasks; `ParkSound`: while the loop announces a wait, a
claimed interrupt is fired or about to be.  The refinement to `TaskService`
takes the live and the due tasks as its state; its safety half needs nothing but
the same invariant.

**The pool argument.**  That `running` counts the slot holders is preserved by
`pass_slot` only because the job taken from the queue held no slot
(`WaitingJobs`), so one holder is exchanged for another.  `NoJobStranded` needs
the exact count at the limit in `submit_waits`.

**The sleep argument.**  The heap reuses slots, and a sleep may be reset or dropped
with a handle that has expired.  `HandlesOwn`: a handle, an expired one included,
is of one sleep only and of a generation that was given out; so a cancellation
removes the sleep's own registration or nothing, and nobody is stranded.  For an
interval `AwaitedOnCadence` says of the tick that is awaited what
`CatchUpCountsEvery` and `SkipKeepsCadence` say of the schedule, which is moved
only when the tick is taken.  `DeadlineSaturates` follows `saturating_deadline`
through its bisection: the last duration accepted and the first refused enclose
the edge of the clock, and `Middle` lies between them.

**The storage argument.**  `StorageRetained` needs to know that a slot is not freed
while the kernel holds its entry.  `EntriesAnswered`: a submitted operation is in
the queue, in the kernel or among the results, in one of these and once, and its
slot holds it without a result for as long; so `poll_completion`, which frees a
slot that has a result, and `submit_completion`, which takes a vacant one, never
meet a slot that is still to be answered.  `SlotOwners` ties the slot to its
future, or to nobody once that was dropped.  `NoClosedDescriptorQueued` rests on
the same facts: `drop_handle` submits the queue whenever a slot is unanswered, and
an entry of the file in the queue has such a slot; `drop_listener` submits it when
the listener is armed, and an accept is queued only then (`AcceptsOnce`).
Cancellation answers a set of entries in any order; `Moves` describes all steps
that move entries towards their results, one answer for each.

**The server argument.**  Counters are cardinalities of sets of connections by
stage, and every way out lowers exactly one, except that a plain transport whose
`connection_made` raised was never counted (`Uncounted`): its loss leaves
`active_connections` one too low for good.  `WaitClosedOrder`: what
`wait_closed()` has seen stays so, since a closed server is not opened again, its
accept task does not come back from its check, and without it no slot is taken.

**The signal argument.**  The runtime's streams: a raised flag has a handler still to
write, a byte in the self-pipe or a scan behind it, a waiting stream has its
waker registered and, with a signal unseen, the dispatcher about to wake it, and
the references are the live streams.  `EntriesSound` adds that a dispatch is for
an entry that was made, and that a dropped stream leaves nothing behind.  The loop's handlers: the commands in the channel alternate
between start and stop, the first differs from the watcher and the last agrees
with the handler (`Follows`), so the watcher ends up where the handler is.

**The descriptor argument.**  `CommandsInOrder`: in the channel to a watch a start
that is not the last command is undone by the stop behind it, and the last start
is the current registration; so the watch can only be behind, never wrong.
`PendingExact`: a registered callback is in exactly one of five places unless its
wait failed.  The
datagram endpoint: `WireInOrder` and `QueueInOrder` order the queue and what was
sent together, `QueueHasWriter` keeps a flush task over a queue until `abort()` or
an exception out of it, and
`ClosedBeforeLoss` says that the loss is scheduled only once nothing accepted
before `close()` is queued.

**The socket argument.**  A pending future is waited for by exactly one of a queued
callback, a request and a registration (`OneWait`, `NoneForgotten`).
`WaiterInStep` adds what makes that inductive: the waiting task runs from the
first request on, ends under a pending future only with an error for it, and is
told only of a future that is done.  `NothingTakenForNobody` and `SentWhole` then
follow, since an attempt on the socket is made only for a pending future.  The
induction goes over one operation and leaves the others alone (`OneOperation`).

Connects are harder, because a descriptor number outlives the socket.
`NumbersReused`: a number goes to the next attempt only when the socket of the
earlier one is closed.  `WakeupsDue`, `DonesFollowed` and `CompletionsTrue` describe the loop's
queue: a coroutine is resumed once, for a future that is done, behind the
callback that tells the watch, with the socket still open.  Hence a socket that is
closed has no wait that anyone wants.  `OldWatchesFirst`: on the loop's reactor
the watches of one number are polled in the order of their attempts, so an old
watch cannot remove or take the registration of a new attempt
(`SocketsAccounted`, `LiveWaitsRegistered`).

**The write-side argument.**  `Shares` says that wire, staging buffer, loop
thread, batch, queue, refused and dropped bytes partition the accepted ones;
each action moves a set from one part to another.  The barrier is in four
conjuncts: `FlushFirst` (once `close()` or `write_eof()` was called, the bytes
accepted before have left the loop thread, or its flush is still under way and
the worker was told nothing), `DataFirst` (no such byte stands in the queue
behind a control command, nor anywhere in it while the worker holds one), and
`DropsExcused` and `ShutLast`, which follow from them at the worker's exit and at
either shutdown.  They need `Told` and `EndShape` (what may have told the worker
to end) and `LossShape` (how a transport comes to be closing, lost or without its
worker).  `SizeCounts` is the size equation up to the loss; it is kept by
`send_data` and `recv` because the bytes they move are counted once.  `PipeOrder`
orders wire, batch, queue and loop thread; for a socket it is false, as the run
`direct_overtakes_queue` shows.

**The read-side argument.**  `NothingLostInOrder` speaks of the open transport, but
whether a byte arrives is decided at the drain, after a close or a loss may have
been queued.  `BytesOrdered` and `BytesCounted` therefore hold while the protocol
is given data at all (`Alive`: a native reader until the loss is reported,
another protocol until the transport closes): the bytes given, those kept to be
joined, the one at hand and the backlog are the stream in order, and with the
reader's own byte all of it.  `EndsOrdered` puts the end and the loss behind the
data and `EofOnce` keeps the end in one place, with the reader ended by it; so
when the protocol is told, nothing is left to give.  `DrainControl` and
`DrainsLeft` say what follows a callback, and that a drain leaves no event
between two of its commands except after the loss.  `SlotsKept`: a buffer in use
has a slot of the pool, so the queued bytes are at most the pool's and, under
`ReadAssumption` (the pool is no larger than the low mark), backpressure is never
set; slots are exact until the end or the loss.  `NoEventStranded` and
`NoReaderStranded` are inductive beside these: the schedule flag has a command
or a drain behind it, and a waiting reader its listener or its place at the pool.

**Only model-checked.**

* Liveness under fairness (the prover has no rule for it): `EventuallyExecuted`,
  `StopEndsRun`, `TimersFire`, `RuntimeServed`, `TransportServed`, `LoopServed`,
  and the served half of `ImplementsTaskService`.
* The equality of the literal merge loop with `MergeGeneration`
  (`ReadyMergeSafe`) and the sifting of the timer heap (`HeapSteps`): induction
  over data.
* `ChildrenSafe`: its `SpawnSafe` follows folds over the list of descriptors to
  install, which is induction over data; the reaping half would need no more than
  the arguments above.
* `TlsSessionSafe` and the properties of `MCSafetyParts` are about what filters,
  orderings and joins of sequences of any length compute: induction over data
  again, in every step.
* `DriversSafe` beyond `StorageSafe`: `DescriptorsOwnedOnce` counts the
  descriptors in filtered and joined sequences, and the readiness drivers order
  and filter their events the same way: induction over data.

## 5. What the code does that a reader may not expect

Met while modelling.  Where a constant is named, it excludes the case from the
runs, and setting it shows the case; where a property is named as not holding,
the module states it and no run checks it.

*Engine.*  At the turn budget `processed_this_turn` is reset also when the run is
stopping (`loop_core.rs:1071-1080`), so one more generation may run before the
run ends, although the comment at 877-885 says a stop ends its turn.  A handle
that goes through the channel is stamped only when the dispatcher forwards it
(`dispatcher.rs:561-566`), so a later `call_soon` of the loop thread, a timer or
an I/O completion may run before it (`commands.rs:205-206` says the contrary);
`ThreadsafeNeverOvertakes` is about callbacks scheduled off the loop thread.

*Write side.*  `resume_writing` is queued while `pause_writing` is called at once,
so they need not alternate (`core_write.rs:835`; `PauseResumeAlternate` does not
hold).  `eof_received()` returning false closes without flushing the staged
write (`core_events.rs:504`; `AcceptedBytesKept` does not hold,
`CloseKeepsBytes` is the part that does).

*Read side.*  One drain delivers at most half of what the pool can hold (128 of
256 KiB).  The reader task is not stopped when `data_received` raises or a write
fails; it ends with the transport.  `IoRegistry`: an entry left in `IO_TASKS`
shadows a reader of the dispatcher under the same number; `LateClose` admits the
close that `close_cancels_other_reader` is about.

*Windows poll reader.*  A staged write has no flusher of its own in three cases:
the request came between the reader's check and its receive
(`reader_task.rs:168-185`), so the receive is not cancelled and the peer's next
bytes must end it; the reader is paused; or the peer ended the stream, and
`mark_poll_reader_ready(false)` (`core_events.rs:135-146`) flushes nothing.  After
such an end a large write may block the loop thread.  Both sides order their flags
by release/acquire only.  The condition variable is notified without its lock,
which can cost its 5 s timeout.

*Fast streams.*  A second coroutine may take bytes under a waiting `readuntil`; a
connection error discards what a `readexactly` had gathered; drains that were
paused between a drain and `start_tls` are resumed by the new transport only.
The asyncio fast path does not call an overridden `data_received`, and its
`eof_received` is true over TLS too.

*TLS.*  The reader may report an error after a clean local close; `abort()` does
not complete while the writer is blocked in a flush; two peers that write
without reading stand off (`PeerReads`).

*Server.*  An accept error ends the accept task though `is_serving()` stays true.
`wait_closed()` may return before the last connection is gone
(`WaitClosedHonest` does not hold).  When `connection_made` raises on a plain
server `connection_opened` is skipped (`socket_transport.rs:252-254`); if the
protocol closes the transport, its loss lowers a counter it never raised, which
may wrap below zero and keep `wait_closed()` waiting.  With TLS the connection
stays counted until its transport is closed.

*Processes.*  Text mode decodes each chunk by itself; a callback that raises
releases the protocol; a grandchild that keeps standard input open delays
`process_exited`.  When `try_wait` fails (`worker.rs:225-233`) the loss is reported
without an exit, and `wait()` stays pending for ever.  On a closed loop nothing
is reported.  A child inherits the shared pipe of a sibling spawned with
`stderr=STDOUT` (`InheritsOnlyGiven` does not hold); without a GIL two spawns
overlap, so it may be the write end, and the reader then waits for both children
(`EndsReachReader` promises it with a GIL).  A transport that cannot be built
leaves its child running (`NoChildLeft` does not hold).  Ids and groups are set
only when keywords ask for them.

*Watches, signals.*  A signal that arrives before its watcher is installed meets
the default disposition; a callback already queued runs after its handler was
removed.

*Sockets, connects.*  `fast_sock_connect` takes an exception without `errno` for
success; bind errors are ignored (`connections.rs:94`); a cancelled happy-eyeballs
connect leaves its attempts running.  On the native path the descriptor may be
closed and reused under a wait (`BorrowedFdOpen` does not hold, against
`platform/fd/mod.rs:157-158`): the old wait may take the registration of the new
attempt along, whose coroutine then waits for its timeout or cancellation; the
answer, when there is one, is still of the caller's own socket.  A connect that is
still in progress when it is looked at is watched again by the dispatcher
(`loop_core.rs:1719-1724`); the model takes `SO_ERROR` to report `EINPROGRESS`
then, as that code does.  A failing deregistration leaks its slot (`mio.rs:380`).
Duplicates of one socket share one blocking mode, so putting them in different
modes breaks both; conversions let a caller do that, and
`PollUdpSocket::try_clone` does it by itself where the driver has completions
(`udp.rs:911-917` against 708-709): `mixed` of `NetSockets` marks these sockets, and
`AttemptsFitMode` is about the others.  io_uring keeps a handle's first interest
(`MixedInterest`).

*Datagrams.*  A datagram lost to an error never resumes the protocol.  A callback
that raises in the flush task ends it with the rest still queued
(`_loop_compat.py:380-388`): later datagrams are queued behind, none is sent, and
`close()` never reports the loss.  `abort()` before the first step of the flush
task leaves `_writer_task` set, so no new one is made.  A `datagram_received` that
raises ends the read loop silently.

*kqueue.*  A wake whose send fails is lost; the next push wakes again.

*Files, pipes, shutdown.*  A pool operation whose future was dropped is still
performed; `create_dir_all("")` is `NotFound`; a dropped copy loses the pipe it
was lent.  Without a user executor `shutdown_default_executor` returns at once.

## 6. What is not modelled

* The spin window before a park (`RSLOOP_WAKE_SPIN_US`, off by default): it only
  reads the flag the park reads.  A failing EnterRun send or
  `ensure_running_loop` at the start of a run.
* Timers of the public Rust API, which share an immutable callback.
* `BufferedProtocol`, `set_write_buffer_limits`, `sendfile`; a protocol callback
  that writes while its transport writes.
* The records, certificates and contexts of TLS (rustls), name lookup, the
  kernel beyond what its system calls return.
* Ring set-up, feature probing, buffer layouts, socket options, `read_dir`,
  permissions, the Windows job of a child: configuration without interleaving.
* The futures bridge (`rust_async*`): wrappers over the executor and the loop
  whose own state is pyo3 references.  The bindings, `state_snapshot.rs`,
  `platform`, `errors.rs`, `profile.rs`, module set-up and the rest of the Python
  layer: conversion, registration and system calls.
* Narrowings inside modelled code.  `StreamWrite`: a send to the worker fails only
  when the loop is closed, where nothing is promised.  `CompletionDriver`:
  `drop_handle` takes `ring.submit()` to succeed; an early return
  (`uring.rs:1059-1061`) leaves the entries queued and uncancelled.  `PollDriver`: one
  interest per io_uring handle (`MayWant`, `MixedInterest`), as the transports use
  it.  `Pipes`: a count above the buffer's length is one more failure.
  `WriteBuffers` clears the pressure with the last byte; the gap of
  `writer.rs:163` is in `StreamWrite`.  `IoOps`: a row per operation, of which
  `StorageRetained` uses what is pointed to and what is kept.
* Compositions across modules of different parts (a TLS session over a stream
  transport over a driver): each boundary is modelled from both sides, by what
  the caller relies on.

## 7. Plan

Modelled first was what every callback depends on, then what every connection
depends on, then the runtime below and the rest of the loop's services.  What is
left is proof:

1. `Reaper`, for its half of `ChildrenSafe`.
2. `PollDriver`, for its part of `DriversSafe`, up to what filters compute.
