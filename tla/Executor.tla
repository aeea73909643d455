------------------------------ MODULE Executor ------------------------------
(***************************************************************************)
(* The single-threaded task executor of the runtime (vibeio/executor.rs,   *)
(* vibeio/task.rs): a slab of tasks, the fast slot, the local queue and    *)
(* the queue of remote wakes, `drive` (block_on, block_on_until) and       *)
(* `poll_once`, join handles, and the handshake that lets another thread   *)
(* wake a parked loop.  The futures are the environment: when polled, a    *)
(* future may wake, spawn, cancel and join tasks in any order before it    *)
(* returns.                                                                *)
(***************************************************************************)
EXTENDS Naturals, Sequences, FiniteSets

CONSTANTS Tasks,      \* identities of Arc<TaskWake>, never reused
          Tokens,     \* keys of the slab, reused
          Wakers,     \* threads other than the loop's that hold a Waker
          BatchSize,  \* task_batch_size
          WakeBound,  \* wakes a thread of Wakers performs
          NoTask, Root

ASSUME ExecutorAssumption ==
  /\ BatchSize \in Nat \ {0} /\ WakeBound \in Nat
  /\ NoTask \notin Tasks /\ Root \notin Tasks /\ NoTask # Root
  /\ IsFiniteSet(Tasks)

VARIABLES fut,        \* Task.future: unborn, slot, polled (taken out), gone
          token,      \* Task.token
          queued,     \* TaskWake.queued
          slab,       \* token_to_task
          queue,      \* RuntimeInner.queue
          nextTask,   \* RuntimeInner.next_task
          remoteQ,    \* RemoteWakeContext.queue
          rt_waiting, pending,   \* RemoteWakeContext.waiting, interrupt_pending
          irq,        \* the driver's interruptor has fired and no wait took it
          rootReady,  \* BlockOnNotify.ready
          join,       \* JoinState of each task: output, canceled, waker
          lp,         \* the loop thread: [pc, budget, batch, cur, embed]
          wk,         \* each other thread: [pc, target, left]; Root: no task to push
          due         \* history: woken or spawned, and not polled since

execVars == <<fut, token, queued, slab, queue, nextTask, remoteQ, rt_waiting,
              pending, irq, rootReady, join, lp, wk, due>>

taskVars == <<fut, token, slab, join>>
queueVars == <<queued, queue, nextTask, remoteQ, due>>
parkVars == <<rt_waiting, pending, irq>>

\* `held` says that the JoinHandle was neither canceled nor resolved yet.
NoJoin == [output |-> FALSE, canceled |-> FALSE, waker |-> NoTask, held |-> TRUE]

ExecutorInit ==
  /\ fut = [t \in Tasks |-> "unborn"]
  /\ token = [t \in Tasks |-> 0]
  /\ queued = [t \in Tasks |-> FALSE]
  /\ slab = [k \in Tokens |-> NoTask]
  /\ queue = <<>> /\ nextTask = NoTask /\ remoteQ = <<>>
  /\ rt_waiting = FALSE /\ pending = FALSE /\ irq = FALSE
  /\ rootReady = TRUE
  /\ join = [t \in Tasks |-> NoJoin]
  /\ lp = [pc |-> "outside", budget |-> 0, batch |-> <<>>, cur |-> NoTask,
           embed |-> FALSE]
  /\ wk = [w \in Wakers |-> [pc |-> "idle", target |-> Root, left |-> WakeBound]]
  /\ due = [t \in Tasks |-> FALSE]

InSlab(t) == token[t] \in Tokens /\ slab[token[t]] = t
\* A Waker for a task exists once the task was spawned.
Born == {t \in Tasks : fut[t] # "unborn"}
Seats(t) == Cardinality({i \in DOMAIN queue : queue[i] = t})
            + Cardinality({i \in DOMAIN remoteQ : remoteQ[i] = t})
            + (IF nextTask = t THEN 1 ELSE 0)
            + Cardinality({w \in Wakers : wk[w].pc = "push" /\ wk[w].target = t})

-----------------------------------------------------------------------------
(* Waking on the loop thread. *)

\* CURRENT_RUNTIME is set: from CurrentRuntimeGuard::enter to its drop.
Entered == lp.pc \notin {"outside", "embed_wait", "dropped"}

\* Mutant: a task that is being polled needs no further poll.
EnqueueLocal_IdleOnly(t) ==
  /\ IF fut[t] # "slot" THEN UNCHANGED <<queue, nextTask>>
     ELSE IF nextTask = NoTask THEN nextTask' = t /\ UNCHANGED queue
     ELSE queue' = Append(queue, t) /\ UNCHANGED nextTask
  /\ UNCHANGED remoteQ
\* enqueue_local_wake finds the runtime: a task that left the slab is ignored.
EnqueueLocal(t) ==
  /\ IF ~InSlab(t) THEN UNCHANGED <<queue, nextTask>>
     ELSE IF nextTask = NoTask THEN nextTask' = t /\ UNCHANGED queue
     ELSE queue' = Append(queue, t) /\ UNCHANGED nextTask
  /\ UNCHANGED remoteQ

\* Outside of the runtime the same thread takes the remote path (waiting is
\* false then, so nothing is interrupted).
EnqueueRemote(t) ==
  remoteQ' = Append(remoteQ, t) /\ UNCHANGED <<queue, nextTask>>

enqueue_if_needed(t) ==
  /\ queued' = [queued EXCEPT ![t] = TRUE]
  /\ due' = [due EXCEPT ![t] = TRUE]
  /\ IF queued[t] THEN UNCHANGED <<queue, nextTask, remoteQ>>
     ELSE IF Entered THEN EnqueueLocal(t) ELSE EnqueueRemote(t)

-----------------------------------------------------------------------------
(* What a polled future may do, and the embedding loop between its polls. *)

OnLoop == lp.pc \in {"outside", "root", "task"}

spawn(t, k) ==
  /\ OnLoop /\ fut[t] = "unborn" /\ slab[k] = NoTask
  /\ fut' = [fut EXCEPT ![t] = "slot"] /\ token' = [token EXCEPT ![t] = k]
  /\ slab' = [slab EXCEPT ![k] = t]
  /\ queued' = [queued EXCEPT ![t] = TRUE] /\ queue' = Append(queue, t)
  /\ due' = [due EXCEPT ![t] = TRUE]
  /\ UNCHANGED <<nextTask, remoteQ, parkVars, rootReady, join, lp, wk>>

wake_task(t) ==
  /\ OnLoop /\ t \in Born /\ enqueue_if_needed(t)
  /\ UNCHANGED <<taskVars, parkVars, rootReady, lp, wk>>

\* JoinHandle::cancel consumes the handle; a future that is being polled is
\* not in its slot and is left to SpawnFuture::poll.
Unslot(t) == [fut EXCEPT ![t] = IF @ = "slot" THEN "gone" ELSE @]
cancel_task(t) ==
  /\ OnLoop /\ t \in Born /\ join[t].held
  /\ join' = [join EXCEPT ![t].canceled = TRUE, ![t].held = FALSE]
  /\ fut' = Unslot(t)
  /\ IF InSlab(t) THEN enqueue_if_needed(t) ELSE UNCHANGED queueVars
  /\ UNCHANGED <<token, slab, parkVars, rootReady, lp, wk>>

\* JoinHandle::poll by the running task: take the output or leave a waker.
join_task(t) ==
  /\ lp.pc = "task" /\ t \in Born \ {lp.cur} /\ join[t].held
  /\ join' = [join EXCEPT ![t] = IF @.output
                THEN [@ EXCEPT !.output = FALSE, !.held = FALSE]
                ELSE [@ EXCEPT !.waker = lp.cur]]
  /\ UNCHANGED <<fut, token, slab, queueVars, parkVars, rootReady, lp, wk>>

-----------------------------------------------------------------------------
(* drive: the root, then a batch of tasks, then the park. *)

drive ==
  /\ lp.pc = "outside"
  /\ rootReady' = TRUE
  /\ lp' = [lp EXCEPT !.pc = "loop", !.embed = FALSE]
  /\ UNCHANGED <<taskVars, queueVars, parkVars, wk>>

take_ready ==
  /\ lp.pc = "loop"
  /\ rootReady' = FALSE
  /\ lp' = [lp EXCEPT !.pc = IF rootReady THEN "root" ELSE "deadline"]
  /\ UNCHANGED <<taskVars, queueVars, parkVars, wk>>

root_done(ready) ==
  /\ lp.pc = "root"
  /\ lp' = [lp EXCEPT !.pc = IF ready THEN "outside" ELSE "deadline"]
  /\ UNCHANGED <<taskVars, queueVars, parkVars, rootReady, wk>>

\* The deadline of block_on_until may have passed; block_on has none.
check_deadline(expired) ==
  /\ lp.pc = "deadline"
  /\ lp' = IF expired THEN [lp EXCEPT !.pc = "outside"]
           ELSE [lp EXCEPT !.pc = "next", !.budget = BatchSize]
  /\ UNCHANGED <<taskVars, queueVars, parkVars, rootReady, wk>>

MarkDequeued(t) == [queued EXCEPT ![t] = FALSE]

take_next_task ==
  /\ lp.pc = "next"
  /\ nextTask' = NoTask
  /\ IF nextTask = NoTask
     THEN lp' = [lp EXCEPT !.pc = "remote"] /\ UNCHANGED queued
     ELSE /\ lp' = [lp EXCEPT !.pc = "remote", !.batch = <<nextTask>>,
                              !.budget = @ - 1]
          /\ queued' = MarkDequeued(nextTask)
  /\ UNCHANGED <<taskVars, queue, remoteQ, due, parkVars, rootReady, wk>>

BatchHasRoom == lp.budget > 0

\* One iteration over the remote queue: a wake whose task left the slab, or
\* whose token now belongs to another task, is dropped.
drain_remote ==
  /\ lp.pc = "remote" /\ BatchHasRoom /\ remoteQ # <<>>
  /\ LET t == Head(remoteQ) IN
     /\ remoteQ' = Tail(remoteQ)
     /\ IF InSlab(t)
        THEN /\ queued' = MarkDequeued(t)
             /\ lp' = [lp EXCEPT !.batch = Append(@, t), !.budget = @ - 1]
        ELSE UNCHANGED <<queued, lp>>
  /\ UNCHANGED <<taskVars, queue, nextTask, due, parkVars, rootReady, wk>>

drain_local ==
  /\ lp.pc = "remote" /\ (lp.budget = 0 \/ remoteQ = <<>>)
  /\ LET n == IF Len(queue) < lp.budget THEN Len(queue) ELSE lp.budget
         taken == SubSeq(queue, 1, n)
     IN  /\ queue' = SubSeq(queue, n + 1, Len(queue))
         /\ queued' = [t \in Tasks |->
                         IF \E i \in 1..n : taken[i] = t THEN FALSE ELSE queued[t]]
         /\ lp' = [lp EXCEPT !.batch = @ \o taken, !.budget = 0,
                             !.pc = IF lp.batch \o taken # <<>> THEN "batch"
                                    ELSE IF lp.embed THEN "outside" ELSE "idle",
                             !.embed = @ /\ lp.batch \o taken # <<>>]
  /\ UNCHANGED <<taskVars, nextTask, remoteQ, due, parkVars, rootReady, wk>>

Reclaimed(t) == IF InSlab(t) THEN [slab EXCEPT ![token[t]] = NoTask] ELSE slab

\* poll_task: a task without a future is reclaimed, if the slab still has it.
poll_task ==
  /\ lp.pc = "batch" /\ lp.batch # <<>>
  /\ LET t == Head(lp.batch) IN
     IF fut[t] = "slot"
     THEN /\ fut' = [fut EXCEPT ![t] = "polled"]
          /\ due' = [due EXCEPT ![t] = FALSE]
          /\ lp' = [lp EXCEPT !.batch = Tail(@), !.pc = "task", !.cur = t]
          /\ UNCHANGED slab
     ELSE /\ slab' = Reclaimed(t)
          /\ lp' = [lp EXCEPT !.batch = Tail(@)]
          /\ UNCHANGED <<fut, due>>
  /\ UNCHANGED <<token, join, queued, queue, nextTask, remoteQ, parkVars, rootReady, wk>>

\* The future returns Pending: it goes back to its slot, unless it was
\* canceled while it ran.
poll_pending ==
  /\ lp.pc = "task" /\ ~join[lp.cur].canceled
  /\ fut' = [fut EXCEPT ![lp.cur] = "slot"]
  /\ lp' = [lp EXCEPT !.pc = "batch", !.cur = NoTask]
  /\ UNCHANGED <<token, slab, join, queueVars, parkVars, rootReady, wk>>

\* It returns Ready, or was canceled: the join waker is taken and woken (only
\* an uncanceled one publishes its output), and the slab entry is removed.
poll_ready ==
  /\ lp.pc = "task"
  /\ LET t == lp.cur
         wakes == ~join[t].canceled /\ join[t].waker # NoTask
     IN  /\ fut' = [fut EXCEPT ![t] = "gone"]
         /\ slab' = [slab EXCEPT ![token[t]] = NoTask]
         /\ IF join[t].canceled THEN UNCHANGED join
            ELSE join' = [join EXCEPT ![t].output = TRUE, ![t].waker = NoTask]
         /\ IF wakes THEN enqueue_if_needed(join[t].waker) ELSE UNCHANGED queueVars
  /\ lp' = [lp EXCEPT !.pc = "batch", !.cur = NoTask]
  /\ UNCHANGED <<token, parkVars, rootReady, wk>>

end_batch ==
  /\ lp.pc = "batch" /\ lp.batch = <<>>
  /\ lp' = [lp EXCEPT !.pc = IF lp.embed THEN "outside" ELSE "loop", !.embed = FALSE]
  /\ UNCHANGED <<taskVars, queueVars, parkVars, rootReady, wk>>

\* An empty batch: clear interrupt_pending, publish waiting, then look again.
announce_wait ==
  /\ lp.pc = "idle"
  /\ IF rootReady THEN lp' = [lp EXCEPT !.pc = "loop"] /\ UNCHANGED parkVars
     ELSE /\ lp' = [lp EXCEPT !.pc = "recheck"]
          /\ pending' = FALSE /\ rt_waiting' = TRUE /\ UNCHANGED irq
  /\ UNCHANGED <<taskVars, queueVars, rootReady, wk>>

should_skip_wait == nextTask # NoTask \/ remoteQ # <<>> \/ queue # <<>>

recheck ==
  /\ lp.pc = "recheck"
  /\ lp' = [lp EXCEPT !.pc = IF rootReady \/ should_skip_wait THEN "stop" ELSE "wait"]
  /\ UNCHANGED <<taskVars, queueVars, parkVars, rootReady, wk>>

\* The driver's wait ends by the interruptor ...
wait_interrupted ==
  /\ lp.pc = "wait" /\ irq
  /\ irq' = FALSE /\ lp' = [lp EXCEPT !.pc = "stop"]
  /\ UNCHANGED <<taskVars, queueVars, rt_waiting, pending, rootReady, wk>>
\* ... by its deadline, with nothing woken ...
wait_expired ==
  /\ lp.pc = "wait"
  /\ lp' = [lp EXCEPT !.pc = "stop"]
  /\ UNCHANGED <<taskVars, queueVars, parkVars, rootReady, wk>>
\* ... or by a completion or a timer of a task; so does the timer spin before it.
wait_completion(t) ==
  /\ lp.pc = "wait" /\ t \in Born
  /\ enqueue_if_needed(t) /\ lp' = [lp EXCEPT !.pc = "stop"]
  /\ UNCHANGED <<taskVars, parkVars, rootReady, wk>>

\* stop_waiting: two stores, waiting first.
stop_waiting ==
  /\ lp.pc = "stop" /\ rt_waiting' = FALSE
  /\ lp' = [lp EXCEPT !.pc = "stop2"]
  /\ UNCHANGED <<taskVars, queueVars, pending, irq, rootReady, wk>>
stop_pending ==
  /\ lp.pc = "stop2" /\ pending' = FALSE
  /\ lp' = [lp EXCEPT !.pc = "loop"]
  /\ UNCHANGED <<taskVars, queueVars, rt_waiting, irq, rootReady, wk>>

\* poll_once polls the driver and the timers before the runtime is entered,
\* then services one batch.
poll_once ==
  /\ lp.pc = "outside" /\ irq' = FALSE
  /\ lp' = [lp EXCEPT !.pc = "embed_wait", !.embed = TRUE]
  /\ UNCHANGED <<taskVars, queueVars, rt_waiting, pending, rootReady, wk>>
embed_completion(t) ==
  /\ lp.pc = "embed_wait" /\ t \in Born /\ ~due[t]
  /\ enqueue_if_needed(t)
  /\ UNCHANGED <<taskVars, parkVars, rootReady, lp, wk>>
embed_enter ==
  /\ lp.pc = "embed_wait"
  /\ lp' = IF should_skip_wait THEN [lp EXCEPT !.pc = "next", !.budget = BatchSize]
           ELSE [lp EXCEPT !.pc = "outside", !.embed = FALSE]
  /\ UNCHANGED <<taskVars, queueVars, parkVars, rootReady, wk>>

\* Runtime::drop takes the slab and drops every future that is in it.
drop_runtime ==
  /\ lp.pc = "outside"
  /\ fut' = [t \in Tasks |-> IF InSlab(t) THEN "gone" ELSE fut[t]]
  /\ slab' = [k \in Tokens |-> NoTask]
  /\ lp' = [lp EXCEPT !.pc = "dropped"]
  /\ UNCHANGED <<token, join, queueVars, parkVars, rootReady, wk>>

-----------------------------------------------------------------------------
(* The other threads: TaskWake::enqueue_if_needed and BlockOnNotify::notify. *)

remote_wake(w, t) ==
  /\ wk[w].pc = "idle" /\ wk[w].left > 0 /\ t \in Born
  /\ queued' = [queued EXCEPT ![t] = TRUE] /\ due' = [due EXCEPT ![t] = TRUE]
  /\ wk' = [wk EXCEPT ![w] = [pc |-> IF queued[t] THEN "check" ELSE "push",
                target |-> IF queued[t] THEN Root ELSE t, left |-> @.left - 1]]
  /\ UNCHANGED <<taskVars, queue, nextTask, remoteQ, parkVars, rootReady, lp>>

\* The Weak no longer upgrades once the runtime is gone.
remote_push(w) ==
  /\ wk[w].pc = "push"
  /\ IF lp.pc = "dropped"
     THEN wk' = [wk EXCEPT ![w].pc = "idle", ![w].target = Root] /\ UNCHANGED remoteQ
     ELSE /\ remoteQ' = Append(remoteQ, wk[w].target)
          /\ wk' = [wk EXCEPT ![w].pc = "check", ![w].target = Root]
  /\ UNCHANGED <<taskVars, queued, queue, nextTask, due, parkVars, rootReady, lp>>

notify_root(w) ==
  /\ wk[w].pc = "idle" /\ wk[w].left > 0
  /\ rootReady' = TRUE
  /\ wk' = [wk EXCEPT ![w] = [pc |-> "check", target |-> Root, left |-> @.left - 1]]
  /\ UNCHANGED <<taskVars, queueVars, parkVars, lp>>

load_waiting(w) ==
  /\ wk[w].pc = "check"
  /\ wk' = [wk EXCEPT ![w].pc = IF rt_waiting THEN "claim" ELSE "idle"]
  /\ UNCHANGED <<taskVars, queueVars, parkVars, rootReady, lp>>

\* Mutant: the result of the swap is read the wrong way round.
claim_interrupt_Inverted(w) ==
  /\ wk[w].pc = "claim" /\ pending' = TRUE
  /\ wk' = [wk EXCEPT ![w].pc = IF pending THEN "fire" ELSE "idle"]
  /\ UNCHANGED <<taskVars, queueVars, rt_waiting, irq, rootReady, lp>>
claim_interrupt(w) ==
  /\ wk[w].pc = "claim" /\ pending' = TRUE
  /\ wk' = [wk EXCEPT ![w].pc = IF pending THEN "idle" ELSE "fire"]
  /\ UNCHANGED <<taskVars, queueVars, rt_waiting, irq, rootReady, lp>>

interrupt(w) ==
  /\ wk[w].pc = "fire" /\ irq' = TRUE
  /\ wk' = [wk EXCEPT ![w].pc = "idle"]
  /\ UNCHANGED <<taskVars, queueVars, rt_waiting, pending, rootReady, lp>>

-----------------------------------------------------------------------------
\* What the loop thread does by itself, without the environment's help.
LoopStep ==
  \/ take_ready \/ root_done(FALSE) \/ check_deadline(FALSE) \/ take_next_task
  \/ drain_remote \/ drain_local \/ poll_task \/ poll_pending \/ poll_ready
  \/ end_batch \/ announce_wait \/ recheck \/ wait_interrupted
  \/ stop_waiting \/ stop_pending \/ embed_enter

WakerStep(w) ==
  \/ remote_push(w) \/ load_waiting(w) \/ claim_interrupt(w) \/ interrupt(w)

ExecutorNext ==
  \/ LoopStep
  \/ \E t \in Tasks, k \in Tokens : spawn(t, k)
  \/ \E t \in Tasks : wake_task(t) \/ cancel_task(t) \/ join_task(t)
                      \/ wait_completion(t) \/ embed_completion(t)
  \/ drive \/ root_done(TRUE) \/ check_deadline(TRUE) \/ wait_expired
  \/ poll_once \/ drop_runtime
  \/ \E w \in Wakers : WakerStep(w) \/ notify_root(w)
                       \/ \E t \in Tasks : remote_wake(w, t)

\* The loop thread keeps running once entered, and a started wake finishes.
ExecutorFairness ==
  WF_execVars(LoopStep) /\ \A w \in Wakers : WF_execVars(WakerStep(w))

ExecutorSpec == ExecutorInit /\ [][ExecutorNext]_execVars /\ ExecutorFairness

-----------------------------------------------------------------------------
JoinType == [output : BOOLEAN, canceled : BOOLEAN, waker : Tasks \cup {NoTask},
             held : BOOLEAN]

LoopType == [pc : {"outside", "loop", "root", "deadline", "next", "remote",
                   "batch", "task", "idle", "recheck", "wait", "stop",
                   "stop2", "embed_wait", "dropped"},
             budget : 0..BatchSize, batch : Seq(Tasks),
             cur : Tasks \cup {NoTask}, embed : BOOLEAN]

WakerType == [pc : {"idle", "push", "check", "claim", "fire"},
              target : Tasks \cup {Root}, left : 0..WakeBound]

ExecutorTypeOK ==
  /\ fut \in [Tasks -> {"unborn", "slot", "polled", "gone"}]
  /\ token \in [Tasks -> Tokens \cup {0}]
  /\ queued \in [Tasks -> BOOLEAN] /\ due \in [Tasks -> BOOLEAN]
  /\ slab \in [Tokens -> Tasks \cup {NoTask}]
  /\ queue \in Seq(Tasks) /\ remoteQ \in Seq(Tasks)
  /\ nextTask \in Tasks \cup {NoTask}
  /\ rt_waiting \in BOOLEAN /\ pending \in BOOLEAN /\ irq \in BOOLEAN
  /\ rootReady \in BOOLEAN
  /\ join \in [Tasks -> JoinType] /\ lp \in LoopType /\ wk \in [Wakers -> WakerType]

\* A task that was woken and is not being polled has exactly one seat in the
\* queues when its flag is up and none when it is down: the flag that spares
\* a second push never outlives the entry it stands for.
QueuedFlagExact ==
  lp.pc # "dropped" =>
    \A t \in Tasks : InSlab(t) => Seats(t) = IF queued[t] THEN 1 ELSE 0

\* A wake is never lost: a suspended task that was woken since its last poll
\* is in a queue, in the batch, or on its way to the remote queue.
NoLostWake ==
  lp.pc # "dropped" =>
    \A t \in Tasks : fut[t] = "slot" /\ due[t] =>
       Seats(t) > 0 \/ \E i \in DOMAIN lp.batch : lp.batch[i] = t

\* The slab finds every future that is left, and a canceled task's entry stays
\* only while a queued wake of it is there to reclaim it (reused tokens
\* included: nobody else's entry is reclaimed).
SlabExact ==
  /\ \A t \in Tasks : fut[t] \in {"slot", "polled"} => InSlab(t)
  /\ \A k \in Tokens : slab[k] # NoTask /\ fut[slab[k]] = "gone" =>
       Seats(slab[k]) > 0 \/ \E i \in DOMAIN lp.batch : lp.batch[i] = slab[k]

\* The loop does not sleep through work: parked, with no interrupt under way,
\* a non-empty queue or a woken root has a thread about to interrupt it.
NoSleepThroughWake ==
  lp.pc = "wait" /\ ~irq
  /\ (rootReady \/ nextTask # NoTask \/ remoteQ # <<>> \/ queue # <<>>) =>
    \E w \in Wakers : \/ wk[w].pc \in {"check", "fire"}
                      \/ wk[w].pc = "claim" /\ ~pending

\* What the queues, the slab and the parking protocol guarantee together.
ExecutorSafe ==
  ExecutorTypeOK /\ QueuedFlagExact /\ NoLostWake /\ SlabExact /\ NoSleepThroughWake

\* The executor implements the service its futures rely on.
Service == INSTANCE TaskService WITH
             live <- {t \in Tasks : fut[t] \in {"slot", "polled"}},
             woken <- {t \in Tasks : due[t] /\ fut[t] \in {"slot", "polled"}},
             running <- lp.cur,
             serving <- Entered

\* Every step of the executor is a step of TaskService, and a woken task is
\* polled again as long as the loop runs.
ImplementsTaskService == Service!TaskServiceSpec

=============================================================================
