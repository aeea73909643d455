---------------------------- MODULE RuntimeProofs ----------------------------
(***************************************************************************)
(* Proofs about the runtime (vibeio) for every number of tasks, tokens and *)
(* threads: the executor's queues, slab and parking protocol, and that it  *)
(* keeps the promises of TaskService; the users of its timer, Sleep,       *)
(* Timeout and Interval; then the storage of completion I/O.               *)
(***************************************************************************)
EXTENDS Executor, BoundedPool, Sleeps, CompletionDriver, SequenceFacts

-----------------------------------------------------------------------------
(* The blocking pool: the slots of spawn_bounded are counted exactly and   *)
(* never more than the limit, no job waits beside a free slot, and slots   *)
(* are taken in submission order.                                          *)

\* The workers that hold a slot are finitely many.
LEMMA HoldersFinite == IsFiniteSet(SlotHolders)
  BY PoolAssumption, FS_Subset DEF SlotHolders

\* Initially no slot is held.
LEMMA InitPool == PoolInit => PoolInvariant
<1> SUFFICES ASSUME PoolInit PROVE PoolInvariant OBVIOUS
<1>1. TypeOK BY DEF PoolInit, TypeOK, JobPcs
<1>2. WaitingJobs BY DEF PoolInit, WaitingJobs
<1>3. SlotHolders = {} BY DEF PoolInit, SlotHolders
<1>4. SlotsCounted BY <1>3, FS_EmptySet, PoolAssumption DEF PoolInit, SlotsCounted
<1>5. NoJobStranded BY DEF PoolInit, NoJobStranded
<1>6. QED BY <1>1, <1>2, <1>4, <1>5 DEF PoolInvariant

\* A job that waits enters the queue while every slot is held.
LEMMA SubmitWaits ==
  ASSUME PoolInvariant, NEW j \in Jobs, submit_waits(j)
  PROVE  PoolInvariant'
<1> USE DEF PoolInvariant
<1>1. TypeOK' BY DEF TypeOK, JobPcs, submit_waits
<1>2. WaitingJobs'
 <2>1. /\ Len(waiting') = Len(waiting) + 1 /\ waiting'[Len(waiting) + 1] = j
       /\ \A i \in 1..Len(waiting) : waiting'[i] = waiting[i]
       /\ Len(waiting) \in Nat
   BY DEF TypeOK, submit_waits
 <2>2. \A i \in 1..Len(waiting) : waiting[i] # j /\ waiting[i] \in Jobs
   BY DEF TypeOK, WaitingJobs, submit_waits
 <2>3. \A i \in 1..Len(waiting') : job_pc'[waiting'[i]] = "waiting"
   BY <2>1, <2>2 DEF TypeOK, WaitingJobs, submit_waits
 <2>4. ASSUME NEW i \in 1..Len(waiting'), NEW k \in 1..Len(waiting'),
              waiting'[i] = waiting'[k]
       PROVE  i = k
   BY <2>1, <2>2, <2>4 DEF WaitingJobs
 <2>5. QED BY <2>3, <2>4 DEF WaitingJobs
<1>3. SlotHolders' = SlotHolders BY DEF TypeOK, SlotHolders, submit_waits
<1>4. SlotsCounted' BY <1>3 DEF SlotsCounted, submit_waits
<1>5. NoJobStranded' BY PoolAssumption DEF TypeOK, SlotsCounted, NoJobStranded, Full, submit_waits
<1>6. QED BY <1>1, <1>2, <1>4, <1>5

\* A job that takes a slot is one more holder; nobody waits beside it.
LEMMA SubmitSpawns ==
  ASSUME PoolInvariant, NEW j \in Jobs, submit_spawns(j)
  PROVE  PoolInvariant'
<1> USE DEF PoolInvariant
<1>1. TypeOK' BY DEF TypeOK, JobPcs, submit_spawns
<1>2. WaitingJobs' BY DEF TypeOK, WaitingJobs, submit_spawns
<1>3. SlotHolders' = SlotHolders \union {j} /\ j \notin SlotHolders
  BY DEF TypeOK, SlotHolders, submit_spawns
<1>4. Cardinality(SlotHolders') = Cardinality(SlotHolders) + 1
  BY <1>3, HoldersFinite, FS_AddElement
<1>5. SlotsCounted' BY <1>4, PoolAssumption DEF TypeOK, SlotsCounted, Full, submit_spawns
<1>6. NoJobStranded' BY PoolAssumption DEF TypeOK, NoJobStranded, Full, submit_spawns
<1>7. QED BY <1>1, <1>2, <1>5, <1>6

\* Starting and ending a job keeps its slot.
LEMMA RunSlot ==
  ASSUME PoolInvariant, NEW j \in Jobs, run_slot(j) \/ finish_job(j)
  PROVE  PoolInvariant'
<1> USE DEF PoolInvariant
<1>1. TypeOK' BY DEF TypeOK, JobPcs, run_slot, finish_job
<1>2. WaitingJobs' BY DEF TypeOK, WaitingJobs, run_slot, finish_job
<1>3. SlotHolders' = SlotHolders BY DEF TypeOK, SlotHolders, run_slot, finish_job
<1>4. SlotsCounted' BY <1>3 DEF SlotsCounted, run_slot, finish_job
<1>5. NoJobStranded' BY DEF NoJobStranded, run_slot, finish_job
<1>6. QED BY <1>1, <1>2, <1>4, <1>5

\* A slot passed on goes to a job that held none: the count stays right.
LEMMA PassSlot ==
  ASSUME PoolInvariant, NEW j \in Jobs, pass_slot(j)
  PROVE  PoolInvariant'
<1> USE DEF PoolInvariant
<1> DEFINE n == NextWaiting
<1>1. /\ waiting \in Seq(Jobs) /\ waiting # <<>>
      /\ n = waiting[1] /\ n \in Jobs /\ 1 \in 1..Len(waiting)
  BY DEF TypeOK, pass_slot, MayPassOn, NextWaiting
<1>2. job_pc[n] = "waiting" /\ n # j BY <1>1 DEF WaitingJobs, pass_slot
<1>3. job_pc' = [job_pc EXCEPT ![j] = "done", ![n] = "executing"] BY DEF pass_slot
<1>4. TypeOK' BY <1>1, <1>3 DEF TypeOK, JobPcs, pass_slot
<1>5. /\ Len(waiting') = Len(waiting) - 1
      /\ \A i \in 1..Len(waiting') : waiting'[i] = waiting[i + 1]
  BY <1>1 DEF pass_slot
<1>6. WaitingJobs'
 <2>1. ASSUME NEW i \in 1..Len(waiting') PROVE job_pc'[waiting'[i]] = "waiting"
  <3>1. i + 1 \in 1..Len(waiting) /\ waiting'[i] = waiting[i + 1] BY <1>1, <1>5
  <3>2. waiting[i + 1] \in Jobs /\ job_pc[waiting[i + 1]] = "waiting" /\ waiting[i + 1] # n
    BY <3>1, <1>1 DEF WaitingJobs
  <3>3. waiting[i + 1] # j BY <3>2 DEF pass_slot
  <3>4. QED BY <1>3, <3>1, <3>2, <3>3 DEF TypeOK
 <2>2. ASSUME NEW i \in 1..Len(waiting'), NEW k \in 1..Len(waiting'),
              waiting'[i] = waiting'[k]
       PROVE  i = k
  <3>1. /\ i + 1 \in 1..Len(waiting) /\ k + 1 \in 1..Len(waiting)
        /\ waiting[i + 1] = waiting[k + 1]
    BY <1>1, <1>5, <2>2
  <3>2. i + 1 = k + 1 BY <3>1, Zenon DEF WaitingJobs
  <3>3. QED BY <3>2
 <2>3. QED BY <2>1, <2>2 DEF WaitingJobs
<1>7. /\ SlotHolders' = (SlotHolders \ {j}) \union {n}
      /\ j \in SlotHolders /\ n \notin SlotHolders \ {j}
  BY <1>1, <1>2, <1>3 DEF TypeOK, SlotHolders, pass_slot
<1>8. Cardinality(SlotHolders') = Cardinality(SlotHolders)
 <2>1. /\ IsFiniteSet(SlotHolders \ {j})
       /\ Cardinality(SlotHolders \ {j}) = Cardinality(SlotHolders) - 1
   BY <1>7, HoldersFinite, FS_RemoveElement
 <2>2. Cardinality(SlotHolders') = Cardinality(SlotHolders \ {j}) + 1
   BY <2>1, <1>7, FS_AddElement, Zenon
 <2>3. Cardinality(SlotHolders) \in Nat BY HoldersFinite, FS_CardinalityType
 <2>4. QED BY <2>1, <2>2, <2>3
<1>9. SlotsCounted' BY <1>8 DEF SlotsCounted, pass_slot
<1>10. NoJobStranded' BY <1>1 DEF NoJobStranded, pass_slot
<1>11. QED BY <1>4, <1>6, <1>9, <1>10

\* A slot is given up only when nobody waits.
LEMMA ReleaseSlot ==
  ASSUME PoolInvariant, NEW j \in Jobs, release_slot(j)
  PROVE  PoolInvariant'
<1> USE DEF PoolInvariant
<1>1. SlotHolders' = SlotHolders \ {j} /\ j \in SlotHolders
  BY DEF TypeOK, SlotHolders, release_slot
<1>2. Cardinality(SlotHolders') = Cardinality(SlotHolders) - 1 /\ Cardinality(SlotHolders) \in Nat
  BY <1>1, HoldersFinite, FS_RemoveElement, FS_CardinalityType
<1>3. Cardinality(SlotHolders) # 0 BY <1>1, HoldersFinite, FS_EmptySet
<1>4. running \in Nat /\ running # 0 /\ running' = running - 1
  BY <1>2, <1>3 DEF SlotsCounted, release_slot
<1>5. TypeOK' BY <1>4 DEF TypeOK, JobPcs, release_slot
<1>6. WaitingJobs' BY DEF TypeOK, WaitingJobs, release_slot
<1>7. SlotsCounted' BY <1>2, <1>4, PoolAssumption DEF SlotsCounted
<1>8. NoJobStranded' BY DEF NoJobStranded, MayPassOn, release_slot
<1>9. QED BY <1>5, <1>6, <1>7, <1>8

\* The slot invariant holds for every set of jobs and every limit: at most limit
\* workers hold a slot, running counts them, and no job waits beside a free
\* slot (Bounded::submit and run_slot, blocking.rs:64-92).
THEOREM PoolSlots == PoolSpec => []PoolInvariant
<1>1. PoolInvariant /\ [PoolNext]_poolVars => PoolInvariant'
 <2> SUFFICES ASSUME PoolInvariant, [PoolNext]_poolVars PROVE PoolInvariant' OBVIOUS
 <2>1. CASE UNCHANGED poolVars
   BY <2>1 DEF poolVars, PoolInvariant, TypeOK, WaitingJobs, SlotsCounted, SlotHolders,
     NoJobStranded
 <2>2. CASE PoolNext
   BY <2>2, SubmitWaits, SubmitSpawns, RunSlot, PassSlot, ReleaseSlot DEF PoolNext, WorkerStep
 <2>3. QED BY <2>1, <2>2
<1>2. QED BY InitPool, <1>1, PTL DEF PoolSpec

\* At most limit bounded jobs run at once and the count is exact
\* (blocking.rs:39-40), whatever the number of jobs.
THEOREM SlotsNeverExceeded == PoolSpec => []SlotsCounted
<1>1. PoolInvariant => SlotsCounted BY DEF PoolInvariant
<1>2. QED BY <1>1, PoolSlots, PTL

\* A waiting job always has limit running ones ahead of it (blocking.rs:42-43):
\* no interleaving of a submit with the last release strands it.
THEOREM WaitingHasWorkers == PoolSpec => []NoJobStranded
<1>1. PoolInvariant => NoJobStranded BY DEF PoolInvariant
<1>2. QED BY <1>1, PoolSlots, PTL

\* Slots are taken in submission order and no job is dropped or taken twice
\* (blocking.rs:109), for every set of jobs.
THEOREM SubmissionOrder == PoolSpec => []TakenInOrder
<1>1. PoolInit => TakenInOrder BY DEF PoolInit, TakenInOrder
<1>2. PoolInvariant /\ TakenInOrder /\ [PoolNext]_poolVars => TakenInOrder'
 <2> SUFFICES ASSUME PoolInvariant, TakenInOrder, [PoolNext]_poolVars PROVE TakenInOrder' OBVIOUS
 <2> USE DEF PoolInvariant
 <2>1. ASSUME NEW j \in Jobs, submit_waits(j) PROVE TakenInOrder'
   BY <2>1 DEF TypeOK, TakenInOrder, submit_waits
 <2>2. ASSUME NEW j \in Jobs, submit_spawns(j) PROVE TakenInOrder'
  <3>1. waiting = <<>> BY <2>2, PoolAssumption DEF TypeOK, NoJobStranded, Full, submit_spawns
  <3>2. QED BY <2>2, <3>1 DEF TypeOK, TakenInOrder, submit_spawns
 <2>3. ASSUME NEW j \in Jobs, pass_slot(j) PROVE TakenInOrder'
  <3>1. waiting \in Seq(Jobs) /\ taken \in Seq(Jobs) /\ waiting # <<>>
    BY <2>3 DEF TypeOK, pass_slot, MayPassOn
  <3>2. waiting = <<Head(waiting)>> \o Tail(waiting) BY <3>1
  <3>3. Append(taken, Head(waiting)) = taken \o <<Head(waiting)>> BY <3>1
  <3>4. Append(taken, Head(waiting)) \o Tail(waiting) = taken \o waiting
   <4>1. /\ Head(waiting) \in Jobs /\ Tail(waiting) \in Seq(Jobs)
         /\ <<Head(waiting)>> \in Seq(Jobs)
     BY <3>1
   <4>2. (taken \o <<Head(waiting)>>) \o Tail(waiting)
           = taken \o (<<Head(waiting)>> \o Tail(waiting))
     BY <3>1, <4>1, ConcatAssociative
   <4>3. QED BY <3>2, <3>3, <4>2
  <3>5. QED BY <2>3, <3>4 DEF TakenInOrder, pass_slot, NextWaiting
 <2>4. ASSUME NEW j \in Jobs, run_slot(j) \/ finish_job(j) \/ release_slot(j) PROVE TakenInOrder'
   BY <2>4 DEF TakenInOrder, run_slot, finish_job, release_slot
 <2>5. CASE UNCHANGED poolVars BY <2>5 DEF poolVars, TakenInOrder
 <2>6. QED BY <2>1, <2>2, <2>3, <2>4, <2>5 DEF PoolNext, WorkerStep
<1>3. QED BY <1>1, <1>2, PoolSlots, PTL DEF PoolSpec

\* What spawn_bounded promises, for every limit and every set of jobs: the slot
\* invariant and submission order together (blocking.rs:107-109).
THEOREM PoolCorrect == PoolSpec => []PoolSafe
<1>1. QED BY PoolSlots, SubmissionOrder, PTL DEF PoolSafe

-----------------------------------------------------------------------------
\* The executor's inductive invariant.

Pushing(t) == \E w \in Wakers : wk[w].pc = "push" /\ wk[w].target = t

\* The task has an entry in a queue or on its way to one.
Seated(t) ==
  t \in Elems(queue) \/ t \in Elems(remoteQ) \/ nextTask = t \/ Pushing(t)

\* No task has two entries.
SeatsApart ==
  /\ Distinct(queue) /\ Distinct(remoteQ)
  /\ \A w, v \in Wakers : wk[w].pc = "push" /\ wk[v].pc = "push"
                            /\ wk[w].target = wk[v].target => w = v
  /\ \A w \in Wakers : wk[w].pc = "push" => wk[w].target \in Tasks
  /\ \A t \in Tasks : /\ t \in Elems(queue) => t \notin Elems(remoteQ) /\ nextTask # t /\ ~Pushing(t)
                      /\ t \in Elems(remoteQ) => nextTask # t /\ ~Pushing(t)
                      /\ nextTask = t => ~Pushing(t)

\* The flag is up whenever there is an entry, and for a task of the slab only
\* then.
FlagMeansSeat ==
  /\ \A t \in Tasks : Seated(t) => queued[t]
  /\ \A t \in Tasks : fut[t] = "unborn" => ~queued[t]
  /\ lp.pc # "dropped" => \A t \in Tasks : InSlab(t) /\ queued[t] => Seated(t)
  /\ lp.pc = "dropped" => \A t \in Tasks : ~InSlab(t)

InBatch(t) == t \in Elems(lp.batch)

SlabSound ==
  /\ \A k \in Tokens : slab[k] # NoTask => token[slab[k]] = k /\ fut[slab[k]] # "unborn"
  /\ \A t \in Tasks : fut[t] \in {"slot", "polled"} => InSlab(t)
  /\ \A t \in Tasks : InSlab(t) /\ fut[t] = "gone" => Seated(t) \/ InBatch(t)

WakesKept ==
  lp.pc # "dropped" =>
    \A t \in Tasks : fut[t] \in {"slot", "polled"} /\ due[t] => Seated(t) \/ InBatch(t)

\* The loop thread polls one task, and has a batch only while it fills or
\* works through one.
LoopSound ==
  /\ lp.pc \notin {"remote", "batch", "task"} => lp.batch = <<>>
  /\ lp.pc = "next" => lp.budget = BatchSize
  /\ \A t \in Tasks : fut[t] = "polled" <=> lp.cur = t
  /\ lp.pc = "task" <=> lp.cur # NoTask
  /\ \A t \in Tasks : join[t].waker # NoTask => fut[join[t].waker] # "unborn"

\* While the loop announces a wait, a claimed interrupt is fired or about to be.
ParkSound ==
  /\ lp.pc \in {"recheck", "wait", "stop"} => rt_waiting
  /\ lp.pc \in {"recheck", "wait"} /\ pending => irq \/ \E w \in Wakers : wk[w].pc = "fire"

ExecutorInv ==
  /\ ExecutorTypeOK /\ SeatsApart /\ FlagMeansSeat /\ SlabSound /\ WakesKept
  /\ LoopSound /\ ParkSound /\ NoSleepThroughWake

-----------------------------------------------------------------------------
\* Every step of the executor keeps the invariant.

USE ExecutorAssumption
USE DEF taskVars, queueVars, parkVars

\* A task gets one entry when it is woken with its flag down, unless the loop
\* thread finds that it left the slab.
LEMMA EnqueueFacts ==
    ASSUME ExecutorTypeOK, SeatsApart, \A u \in Tasks : Seated(u) => queued[u],
           NEW t \in Tasks, enqueue_if_needed(t), UNCHANGED wk
    PROVE  /\ queue' \in Seq(Tasks) /\ remoteQ' \in Seq(Tasks) /\ nextTask' \in Tasks \cup {NoTask}
           /\ queued' = [queued EXCEPT ![t] = TRUE] /\ due' = [due EXCEPT ![t] = TRUE]
           /\ SeatsApart'
           /\ \A u \in Tasks : Seated(u)' <=>
                Seated(u) \/ (u = t /\ ~queued[t] /\ (~Entered \/ InSlab(t)))
<1> USE DEF ExecutorTypeOK
<1>0. /\ queued' = [queued EXCEPT ![t] = TRUE] /\ due' = [due EXCEPT ![t] = TRUE]
  BY DEF enqueue_if_needed
<1>p. \A u \in Tasks : Pushing(u)' <=> Pushing(u) BY DEF Pushing
<1>1. CASE UNCHANGED <<queue, nextTask, remoteQ>> /\ ~(~queued[t] /\ (~Entered \/ InSlab(t)))
  BY <1>0, <1>1, <1>p DEF SeatsApart, Seated
<1>2. ASSUME ~queued[t]
      PROVE  /\ ~Seated(t) /\ t \notin Elems(queue) /\ t \notin Elems(remoteQ) /\ nextTask # t
             /\ ~Pushing(t) /\ t # NoTask
  BY <1>2, Zenon DEF Seated
<1>3. CASE ~queued[t] /\ nextTask = NoTask /\ nextTask' = t /\ UNCHANGED <<queue, remoteQ>>
           /\ (~Entered \/ InSlab(t))
  BY <1>0, <1>2, <1>3, <1>p DEF SeatsApart, Seated
<1>4. CASE ~queued[t] /\ queue' = Append(queue, t) /\ UNCHANGED <<nextTask, remoteQ>>
           /\ (~Entered \/ InSlab(t))
 <2>1. queue' \in Seq(Tasks) /\ Elems(queue') = Elems(queue) \union {t} /\ Distinct(queue')
   BY <1>2, <1>4, AppendElems DEF SeatsApart
 <2> QED BY <1>0, <1>2, <1>4, <1>p, <2>1 DEF SeatsApart, Seated
<1>5. CASE ~queued[t] /\ remoteQ' = Append(remoteQ, t) /\ UNCHANGED <<nextTask, queue>>
           /\ (~Entered \/ InSlab(t))
 <2>1. remoteQ' \in Seq(Tasks) /\ Elems(remoteQ') = Elems(remoteQ) \union {t} /\ Distinct(remoteQ')
   BY <1>2, <1>5, AppendElems DEF SeatsApart
 <2> QED BY <1>0, <1>2, <1>5, <1>p, <2>1 DEF SeatsApart, Seated
<1> QED BY <1>1, <1>3, <1>4, <1>5 DEF enqueue_if_needed, EnqueueLocal, EnqueueRemote

\* A resolved JoinState is one still.
LEMMA ResolvedJoin ==
    ASSUME NEW j \in JoinType
    PROVE  /\ [j EXCEPT !.output = TRUE, !.waker = NoTask] \in JoinType
           /\ [j EXCEPT !.output = TRUE, !.waker = NoTask].waker = NoTask
  BY DEF JoinType

\* spawn keeps the invariant.
LEMMA Step_spawn ==
    ASSUME ExecutorInv, NEW t \in Tasks, NEW k \in Tokens, spawn(t, k)
    PROVE  ExecutorInv'
<1> USE DEF spawn
<1> USE DEF ExecutorInv
<1>q. ~queued[t] /\ ~Seated(t) BY DEF FlagMeansSeat
<1>a. queue' \in Seq(Tasks) /\ Elems(queue') = Elems(queue) \union {t} /\ Distinct(queue')
  BY <1>q, AppendElems DEF ExecutorTypeOK, SeatsApart, Seated
<1>p. \A u \in Tasks : Pushing(u)' <=> Pushing(u) BY DEF Pushing
<1>s. \A u \in Tasks : Seated(u)' <=> Seated(u) \/ u = t BY <1>a, <1>p DEF Seated
<1>i. \A u \in Tasks : InSlab(u)' <=> InSlab(u) \/ u = t
 <2>1. ~InSlab(t) BY DEF SlabSound, InSlab
 <2> QED BY <2>1 DEF InSlab, ExecutorTypeOK
<1>1. ExecutorTypeOK' BY <1>a DEF ExecutorTypeOK
<1>2. SeatsApart' BY <1>a, <1>p, <1>q DEF SeatsApart, Seated
<1>3. FlagMeansSeat'
 <2>1. lp'.pc # "dropped" /\ lp.pc # "dropped" BY Zenon DEF OnLoop
 <2> QED BY <1>s, <1>i, <2>1 DEF FlagMeansSeat, ExecutorTypeOK
<1>4. SlabSound' BY <1>s, <1>i DEF SlabSound, ExecutorTypeOK, InBatch, InSlab, LoopType
<1>5. WakesKept' BY <1>s, <1>i DEF WakesKept, ExecutorTypeOK, InBatch, LoopType
<1>6. LoopSound' BY DEF LoopSound, ExecutorTypeOK, LoopType, JoinType
<1>7. ParkSound' BY DEF ParkSound, ExecutorTypeOK, LoopType, WakerType
<1>8. NoSleepThroughWake' BY DEF NoSleepThroughWake, OnLoop
<1> QED BY <1>1, <1>2, <1>3, <1>4, <1>5, <1>6, <1>7, <1>8

\* wake_task keeps the invariant.
LEMMA Step_wake_task ==
    ASSUME ExecutorInv, NEW t \in Tasks, wake_task(t)
    PROVE  ExecutorInv'
<1> USE DEF wake_task
<1> USE DEF ExecutorInv
<1>i. \A u \in Tasks : InSlab(u)' <=> InSlab(u) BY DEF InSlab
<1>e. /\ queue' \in Seq(Tasks) /\ remoteQ' \in Seq(Tasks) /\ nextTask' \in Tasks \cup {NoTask}
      /\ queued' = [queued EXCEPT ![t] = TRUE] /\ due' = [due EXCEPT ![t] = TRUE]
      /\ SeatsApart'
      /\ \A u \in Tasks : Seated(u)' <=>
           Seated(u) \/ (u = t /\ ~queued[t] /\ (~Entered \/ InSlab(t)))
  BY EnqueueFacts DEF FlagMeansSeat
<1>q. queued' \in [Tasks -> BOOLEAN] /\ due' \in [Tasks -> BOOLEAN] BY <1>e DEF ExecutorTypeOK
<1>1. ExecutorTypeOK' BY <1>e, <1>q DEF ExecutorTypeOK, LoopType
<1>2. SeatsApart' BY <1>e
<1>3. FlagMeansSeat' BY <1>e, <1>i DEF FlagMeansSeat, Born, ExecutorTypeOK, LoopType
<1>4. SlabSound' BY <1>e, <1>i DEF SlabSound, InBatch, ExecutorTypeOK, LoopType
<1>5. WakesKept'
  BY <1>e, <1>i DEF WakesKept, InBatch, SlabSound, FlagMeansSeat, ExecutorTypeOK, LoopType
<1>6. LoopSound' BY DEF LoopSound, ExecutorTypeOK, LoopType, JoinType
<1>7. ParkSound' BY DEF ParkSound, ExecutorTypeOK, LoopType, WakerType
<1>8. NoSleepThroughWake' BY DEF NoSleepThroughWake, OnLoop, ExecutorTypeOK, LoopType
<1> QED BY <1>1, <1>2, <1>3, <1>4, <1>5, <1>6, <1>7, <1>8, Zenon

\* cancel_task keeps the invariant.
LEMMA Step_cancel_task ==
    ASSUME ExecutorInv, NEW t \in Tasks, cancel_task(t)
    PROVE  ExecutorInv'
<1> USE DEF cancel_task, Unslot
<1> USE DEF ExecutorInv
<1>i. \A u \in Tasks : InSlab(u)' <=> InSlab(u) BY DEF InSlab
<1>p. lp.pc # "dropped" /\ lp.pc # "wait" BY DEF OnLoop
<1>e. /\ queue' \in Seq(Tasks) /\ remoteQ' \in Seq(Tasks) /\ nextTask' \in Tasks \cup {NoTask}
      /\ queued' = IF InSlab(t) THEN [queued EXCEPT ![t] = TRUE] ELSE queued
      /\ due' = IF InSlab(t) THEN [due EXCEPT ![t] = TRUE] ELSE due
      /\ SeatsApart'
      /\ \A u \in Tasks : Seated(u)' <=> Seated(u) \/ (u = t /\ ~queued[t] /\ InSlab(t))
 <2>1. CASE InSlab(t)
  <3>1. enqueue_if_needed(t) /\ UNCHANGED wk BY <2>1
  <3> QED BY <1>p, <2>1, <3>1, EnqueueFacts DEF FlagMeansSeat
 <2>2. CASE ~InSlab(t) BY <2>2 DEF ExecutorTypeOK, SeatsApart, Seated, Pushing
 <2> QED BY <2>1, <2>2
<1>q. queued' \in [Tasks -> BOOLEAN] /\ due' \in [Tasks -> BOOLEAN] BY <1>e DEF ExecutorTypeOK
<1>f. /\ \A u \in Tasks : fut'[u] = IF u = t /\ fut[u] = "slot" THEN "gone" ELSE fut[u]
      /\ fut' \in [Tasks -> {"unborn", "slot", "polled", "gone"}]
  BY DEF ExecutorTypeOK, LoopType
<1>j. /\ join' \in [Tasks -> JoinType]
      /\ \A u \in Tasks : join'[u].waker = join[u].waker
  BY DEF ExecutorTypeOK, JoinType
<1> HIDE DEF cancel_task
<1>u. UNCHANGED <<token, slab, parkVars, rootReady, lp, wk>> /\ t \in Born BY DEF cancel_task
<1>1. ExecutorTypeOK' BY <1>e, <1>q, <1>f, <1>j, <1>u DEF ExecutorTypeOK
<1>2. SeatsApart' BY <1>e, Zenon
<1>3. FlagMeansSeat' BY <1>e, <1>f, <1>i, <1>u, <1>p DEF FlagMeansSeat, Born, ExecutorTypeOK
<1>4. SlabSound'
  BY <1>e, <1>f, <1>i, <1>u, <1>p DEF SlabSound, InBatch, FlagMeansSeat, InSlab,
    ExecutorTypeOK
<1>5. WakesKept'
  BY <1>e, <1>f, <1>i, <1>u, <1>p DEF WakesKept, InBatch, SlabSound, FlagMeansSeat,
    ExecutorTypeOK
<1>6. LoopSound' BY <1>f, <1>j, <1>u DEF LoopSound, ExecutorTypeOK, LoopType, JoinType
<1>7. ParkSound' BY <1>u DEF ParkSound
<1>8. NoSleepThroughWake' BY <1>p, <1>u, Zenon DEF NoSleepThroughWake
<1> QED BY <1>1, <1>2, <1>3, <1>4, <1>5, <1>6, <1>7, <1>8, Zenon

\* join_task keeps the invariant.
LEMMA Step_join_task ==
    ASSUME ExecutorInv, NEW t \in Tasks, join_task(t)
    PROVE  ExecutorInv'
<1> USE DEF join_task
<1> USE DEF ExecutorInv
<1>s. \A u \in Tasks : Seated(u)' <=> Seated(u) BY DEF Seated, Pushing
<1>i. \A u \in Tasks : InSlab(u)' <=> InSlab(u) BY DEF InSlab
<1>1. ExecutorTypeOK'
 <2>0. join \in [Tasks -> JoinType] /\ lp.cur \in Tasks \cup {NoTask}
   BY DEF ExecutorTypeOK, LoopType
 <2>1. /\ [join[t] EXCEPT !.output = FALSE, !.held = FALSE] \in JoinType
       /\ [join[t] EXCEPT !.waker = lp.cur] \in JoinType
   BY <2>0 DEF JoinType
 <2>2. join' \in [Tasks -> JoinType] BY <2>0, <2>1
 <2> QED BY <2>2 DEF ExecutorTypeOK
<1>2. SeatsApart' BY DEF SeatsApart, Pushing
<1>3. FlagMeansSeat' BY <1>s, <1>i DEF FlagMeansSeat, ExecutorTypeOK, LoopType
<1>4. SlabSound' BY <1>s, <1>i DEF SlabSound, ExecutorTypeOK, InBatch, InSlab, LoopType
<1>5. WakesKept' BY <1>s, <1>i, Zenon DEF WakesKept, ExecutorTypeOK, InBatch, LoopType
<1>6. LoopSound'
 <2>1. /\ lp.cur \in Tasks /\ fut[lp.cur] = "polled" BY DEF LoopSound, ExecutorTypeOK, LoopType
 <2>2. \A u \in Tasks : join'[u].waker = join[u].waker \/ join'[u].waker = lp.cur
   BY DEF ExecutorTypeOK, JoinType
 <2> QED BY <2>1, <2>2 DEF LoopSound
<1>7. ParkSound' BY Zenon DEF ParkSound, ExecutorTypeOK, LoopType, WakerType
<1>8. NoSleepThroughWake' BY DEF NoSleepThroughWake, ParkSound, ExecutorTypeOK, LoopType, WakerType
<1> QED BY <1>1, <1>2, <1>3, <1>4, <1>5, <1>6, <1>7, <1>8, Zenon

\* drive keeps the invariant.
LEMMA Step_drive ==
    ASSUME ExecutorInv, drive
    PROVE  ExecutorInv'
<1> USE DEF drive
<1> USE DEF ExecutorInv
<1>s. \A u \in Tasks : Seated(u)' <=> Seated(u) BY DEF Seated, Pushing
<1>i. \A u \in Tasks : InSlab(u)' <=> InSlab(u) BY DEF InSlab
<1>1. ExecutorTypeOK' BY DEF ExecutorTypeOK, LoopType, WakerType, JoinType
<1>2. SeatsApart' BY DEF SeatsApart, Pushing
<1>3. FlagMeansSeat' BY <1>s, <1>i DEF FlagMeansSeat, ExecutorTypeOK, LoopType
<1>4. SlabSound' BY <1>s, <1>i DEF SlabSound, ExecutorTypeOK, InBatch, InSlab, LoopType
<1>5. WakesKept' BY <1>s, <1>i DEF WakesKept, ExecutorTypeOK, InBatch, LoopType
<1>6. LoopSound' BY DEF LoopSound, ExecutorTypeOK, LoopType, JoinType
<1>7. ParkSound' BY DEF ParkSound, ExecutorTypeOK, LoopType, WakerType
<1>8. NoSleepThroughWake' BY DEF NoSleepThroughWake, ParkSound, ExecutorTypeOK, LoopType, WakerType
<1> QED BY <1>1, <1>2, <1>3, <1>4, <1>5, <1>6, <1>7, <1>8, Zenon

\* take_ready keeps the invariant.
LEMMA Step_take_ready ==
    ASSUME ExecutorInv, take_ready
    PROVE  ExecutorInv'
<1> USE DEF take_ready
<1> USE DEF ExecutorInv
<1>s. \A u \in Tasks : Seated(u)' <=> Seated(u) BY DEF Seated, Pushing
<1>i. \A u \in Tasks : InSlab(u)' <=> InSlab(u) BY DEF InSlab
<1>1. ExecutorTypeOK' BY DEF ExecutorTypeOK, LoopType, WakerType, JoinType
<1>2. SeatsApart' BY DEF SeatsApart, Pushing
<1>3. FlagMeansSeat' BY <1>s, <1>i DEF FlagMeansSeat, ExecutorTypeOK, LoopType
<1>4. SlabSound' BY <1>s, <1>i DEF SlabSound, ExecutorTypeOK, InBatch, InSlab, LoopType
<1>5. WakesKept' BY <1>s, <1>i DEF WakesKept, ExecutorTypeOK, InBatch, LoopType
<1>6. LoopSound' BY DEF LoopSound, ExecutorTypeOK, LoopType, JoinType
<1>7. ParkSound' BY DEF ParkSound, ExecutorTypeOK, LoopType, WakerType
<1>8. NoSleepThroughWake' BY DEF NoSleepThroughWake, ParkSound, ExecutorTypeOK, LoopType, WakerType
<1> QED BY <1>1, <1>2, <1>3, <1>4, <1>5, <1>6, <1>7, <1>8

\* root_done keeps the invariant.
LEMMA Step_root_done ==
    ASSUME ExecutorInv, NEW b \in BOOLEAN, root_done(b)
    PROVE  ExecutorInv'
<1> USE DEF root_done
<1> USE DEF ExecutorInv
<1>s. \A u \in Tasks : Seated(u)' <=> Seated(u) BY DEF Seated, Pushing
<1>i. \A u \in Tasks : InSlab(u)' <=> InSlab(u) BY DEF InSlab
<1>1. ExecutorTypeOK' BY DEF ExecutorTypeOK, LoopType, WakerType, JoinType
<1>2. SeatsApart' BY DEF SeatsApart, Pushing
<1>3. FlagMeansSeat' BY <1>s, <1>i, Zenon DEF FlagMeansSeat, ExecutorTypeOK, LoopType
<1>4. SlabSound' BY <1>s, <1>i DEF SlabSound, ExecutorTypeOK, InBatch, InSlab, LoopType
<1>5. WakesKept' BY <1>s, <1>i DEF WakesKept, ExecutorTypeOK, InBatch, LoopType
<1>6. LoopSound' BY DEF LoopSound, ExecutorTypeOK, LoopType, JoinType
<1>7. ParkSound' BY DEF ParkSound, ExecutorTypeOK, LoopType, WakerType
<1>8. NoSleepThroughWake' BY DEF NoSleepThroughWake, ParkSound, ExecutorTypeOK, LoopType, WakerType
<1> QED BY <1>1, <1>2, <1>3, <1>4, <1>5, <1>6, <1>7, <1>8

\* check_deadline keeps the invariant.
LEMMA Step_check_deadline ==
    ASSUME ExecutorInv, NEW b \in BOOLEAN, check_deadline(b)
    PROVE  ExecutorInv'
<1> USE DEF check_deadline
<1> USE DEF ExecutorInv
<1>s. \A u \in Tasks : Seated(u)' <=> Seated(u) BY DEF Seated, Pushing
<1>i. \A u \in Tasks : InSlab(u)' <=> InSlab(u) BY DEF InSlab
<1>1. ExecutorTypeOK'
 <2>0. lp \in LoopType /\ BatchSize \in 0..BatchSize BY DEF ExecutorTypeOK
 <2>1. lp' \in LoopType BY <2>0 DEF LoopType
 <2> QED BY <2>1 DEF ExecutorTypeOK
<1>2. SeatsApart' BY DEF SeatsApart, Pushing
<1>3. FlagMeansSeat' BY <1>s, <1>i DEF FlagMeansSeat, ExecutorTypeOK, LoopType
<1>4. SlabSound' BY <1>s, <1>i DEF SlabSound, ExecutorTypeOK, InBatch, InSlab, LoopType
<1>5. WakesKept' BY <1>s, <1>i DEF WakesKept, ExecutorTypeOK, InBatch, LoopType
<1>6. LoopSound' BY DEF LoopSound, ExecutorTypeOK, LoopType, JoinType
<1>7. ParkSound' BY DEF ParkSound, ExecutorTypeOK, LoopType, WakerType
<1>8. NoSleepThroughWake' BY DEF NoSleepThroughWake, ParkSound, ExecutorTypeOK, LoopType, WakerType
<1> QED BY <1>1, <1>2, <1>3, <1>4, <1>5, <1>6, <1>7, <1>8

\* take_next_task keeps the invariant.
LEMMA Step_take_next_task ==
    ASSUME ExecutorInv, take_next_task
    PROVE  ExecutorInv'
<1> USE DEF take_next_task, MarkDequeued
<1> USE DEF ExecutorInv
<1>i. \A u \in Tasks : InSlab(u)' <=> InSlab(u) BY DEF InSlab
<1>n. lp.batch = <<>> /\ lp.budget = BatchSize BY DEF LoopSound
<1>b. /\ Elems(<<>>) = {}
      /\ nextTask # NoTask => <<nextTask>> \in Seq(Tasks) /\ Elems(<<nextTask>>) = {nextTask}
  BY DEF ExecutorTypeOK, Elems
<1>k. lp \in LoopType /\ lp.budget - 1 \in 0..BatchSize BY <1>n DEF ExecutorTypeOK
<1>l. /\ lp'.pc = "remote" /\ lp'.cur = lp.cur
      /\ lp'.batch = IF nextTask = NoTask THEN <<>> ELSE <<nextTask>>
      /\ lp' \in LoopType
 <2>1. CASE nextTask = NoTask BY <1>k, <1>n, <2>1 DEF LoopType
 <2>2. CASE nextTask # NoTask
   <3> DEFINE r == lp.budget - 1
  <3>1. /\ lp' = [lp EXCEPT !.pc = "remote", !.batch = <<nextTask>>, !.budget = r]
        /\ r \in 0..BatchSize
    BY <2>2, <1>k
  <3> HIDE DEF r
  <3> QED BY <1>k, <1>b, <2>2, <3>1 DEF LoopType
 <2> QED BY <2>1, <2>2, Zenon
<1>p. \A u \in Tasks : Pushing(u)' <=> Pushing(u) BY DEF Pushing
<1>s. \A u \in Tasks : Seated(u)' <=> Seated(u) /\ u # nextTask BY <1>p DEF Seated, SeatsApart
<1>m. \A u \in Tasks : (InBatch(u)' <=> u = nextTask) /\ ~InBatch(u) BY <1>b, <1>l, <1>n DEF InBatch
<1>f. /\ queued' \in [Tasks -> BOOLEAN]
      /\ \A u \in Tasks : queued'[u] <=> queued[u] /\ u # nextTask
 <2>1. CASE nextTask = NoTask BY <2>1 DEF ExecutorTypeOK
 <2>2. CASE nextTask # NoTask BY <2>2 DEF ExecutorTypeOK
 <2> QED BY <2>1, <2>2
<1>u. UNCHANGED <<taskVars, queue, remoteQ, due, parkVars, rootReady, wk>> /\ nextTask' = NoTask /\ lp.pc = "next"
  OBVIOUS
<1> HIDE DEF take_next_task
<1>1. ExecutorTypeOK' BY <1>l, <1>f, <1>u DEF ExecutorTypeOK
<1>2. SeatsApart' BY <1>p, <1>u DEF SeatsApart
<1>3. FlagMeansSeat' BY <1>s, <1>i, <1>f, <1>u, <1>l DEF FlagMeansSeat, ExecutorTypeOK
<1>4. SlabSound' BY <1>s, <1>i, <1>m, <1>u DEF SlabSound, InSlab, ExecutorTypeOK
<1>5. WakesKept' BY <1>s, <1>i, <1>m, <1>u, <1>l DEF WakesKept, SlabSound, ExecutorTypeOK
<1>6. LoopSound' BY <1>l, <1>u DEF LoopSound, ExecutorTypeOK
<1>7. ParkSound' BY <1>l, <1>u DEF ParkSound
<1>8. NoSleepThroughWake' BY <1>l, <1>u DEF NoSleepThroughWake
<1> QED BY <1>1, <1>2, <1>3, <1>4, <1>5, <1>6, <1>7, <1>8

\* drain_remote keeps the invariant.
LEMMA Step_drain_remote ==
    ASSUME ExecutorInv, drain_remote
    PROVE  ExecutorInv'
<1> USE DEF drain_remote, MarkDequeued, BatchHasRoom
<1> USE DEF ExecutorInv
<1>i. \A u \in Tasks : InSlab(u)' <=> InSlab(u) BY DEF InSlab
<1> DEFINE t == Head(remoteQ)
<1>t. /\ remoteQ' \in Seq(Tasks) /\ t \in Tasks /\ Elems(remoteQ) = Elems(remoteQ') \union {t}
      /\ Distinct(remoteQ') /\ t \notin Elems(remoteQ')
  BY TailElems DEF ExecutorTypeOK, SeatsApart
<1>b. Append(lp.batch, t) \in Seq(Tasks) /\ Elems(Append(lp.batch, t)) = Elems(lp.batch) \union {t}
  BY <1>t, AppendElems DEF ExecutorTypeOK, LoopType
<1>k. lp \in LoopType /\ lp.budget - 1 \in 0..BatchSize BY DEF ExecutorTypeOK, LoopType
<1>l. /\ lp'.pc = "remote" /\ lp'.cur = lp.cur
      /\ lp'.batch = IF InSlab(t) THEN Append(lp.batch, t) ELSE lp.batch
      /\ lp' \in LoopType
 <2>1. CASE InSlab(t)
   <3> DEFINE r == lp.budget - 1
  <3>1. /\ lp' = [lp EXCEPT !.batch = Append(lp.batch, t), !.budget = r] /\ lp.pc = "remote"
        /\ r \in 0..BatchSize
    BY <2>1, <1>k
  <3> HIDE DEF r
  <3> QED BY <1>k, <1>b, <2>1, <3>1 DEF LoopType
 <2>2. CASE ~InSlab(t) BY <1>k, <2>2
 <2> QED BY <2>1, <2>2
<1>p. \A u \in Tasks : Pushing(u)' <=> Pushing(u) BY DEF Pushing
<1>s. \A u \in Tasks : Seated(u)' <=> Seated(u) /\ u # t
 <2>1. nextTask' = nextTask /\ queue' = queue OBVIOUS
 <2> HIDE DEF t
 <2> QED BY <1>p, <1>t, <2>1 DEF Seated, SeatsApart
<1>m. \A u \in Tasks : InBatch(u)' <=> InBatch(u) \/ (u = t /\ InSlab(t)) BY <1>b, <1>l DEF InBatch
<1>f. /\ queued' \in [Tasks -> BOOLEAN]
      /\ \A u \in Tasks : queued'[u] <=> queued[u] /\ ~(u = t /\ InSlab(t))
 <2>1. CASE InSlab(t) BY <1>t, <2>1 DEF ExecutorTypeOK
 <2>2. CASE ~InSlab(t) BY <2>2 DEF ExecutorTypeOK
 <2> QED BY <2>1, <2>2
<1>u. UNCHANGED <<taskVars, queue, nextTask, due, parkVars, rootReady, wk>> /\ lp.pc = "remote"
  OBVIOUS
<1> HIDE DEF drain_remote, t
<1>1. ExecutorTypeOK' BY <1>t, <1>l, <1>f, <1>u DEF ExecutorTypeOK
<1>2. SeatsApart' BY <1>p, <1>t, <1>u DEF SeatsApart
<1>3. FlagMeansSeat' BY <1>s, <1>i, <1>f, <1>u, <1>l DEF FlagMeansSeat, ExecutorTypeOK
<1>4. SlabSound' BY <1>s, <1>i, <1>m, <1>u DEF SlabSound, InSlab, ExecutorTypeOK
<1>5. WakesKept' BY <1>s, <1>i, <1>m, <1>u, <1>l DEF WakesKept, SlabSound, ExecutorTypeOK
<1>6. LoopSound' BY <1>l, <1>u DEF LoopSound, ExecutorTypeOK
<1>7. ParkSound' BY <1>l, <1>u DEF ParkSound
<1>8. NoSleepThroughWake' BY <1>l, <1>u, Zenon DEF NoSleepThroughWake
<1> QED BY <1>1, <1>2, <1>3, <1>4, <1>5, <1>6, <1>7, <1>8

\* drain_local keeps the invariant.
LEMMA Step_drain_local ==
    ASSUME ExecutorInv, drain_local
    PROVE  ExecutorInv'
<1> USE DEF drain_local
<1> USE DEF ExecutorInv
<1>i. \A u \in Tasks : InSlab(u)' <=> InSlab(u) BY DEF InSlab
<1> DEFINE n == IF Len(queue) < lp.budget THEN Len(queue) ELSE lp.budget
           cut == SubSeq(queue, 1, n)
<1>n. n \in 0..Len(queue) /\ queue \in Seq(Tasks) /\ lp.batch \in Seq(Tasks)
 <2>1. Len(queue) \in Nat /\ lp.budget \in Nat BY LenProperties DEF ExecutorTypeOK, LoopType
 <2> QED BY <2>1 DEF ExecutorTypeOK, LoopType
<1>q. /\ queue' = SubSeq(queue, n + 1, Len(queue))
      /\ queued' = [t \in Tasks |-> IF \E i \in 1..n : cut[i] = t THEN FALSE ELSE queued[t]]
      /\ lp' = [lp EXCEPT !.batch = @ \o cut, !.budget = 0,
                             !.pc = IF lp.batch \o cut # <<>> THEN "batch"
                                    ELSE IF lp.embed THEN "outside" ELSE "idle",
                             !.embed = @ /\ lp.batch \o cut # <<>>]
      /\ UNCHANGED <<taskVars, nextTask, remoteQ, due, parkVars, rootReady, wk>> /\ lp.pc = "remote"
  OBVIOUS
<1> HIDE DEF n, drain_local
<1>a. /\ cut \in Seq(Tasks) /\ queue' \in Seq(Tasks) /\ Len(cut) = n
      /\ Elems(queue) = Elems(cut) \union Elems(queue')
      /\ Distinct(queue') /\ Elems(cut) \cap Elems(queue') = {}
  BY <1>n, <1>q, CutElems DEF SeatsApart
<1> HIDE DEF cut
<1>b. lp.batch \o cut \in Seq(Tasks) /\ Elems(lp.batch \o cut) = Elems(lp.batch) \union Elems(cut)
  BY <1>a, <1>n, ConcatElems
<1>z. lp \in LoopType /\ 0 \in 0..BatchSize BY DEF ExecutorTypeOK
<1>l. /\ lp'.pc \in {"batch", "outside", "idle"} /\ lp'.cur = lp.cur
      /\ lp'.batch = lp.batch \o cut
      /\ lp'.pc # "batch" => lp'.batch = <<>>
      /\ lp' \in LoopType
 <2>1. CASE lp.batch \o cut # <<>>
  <3>1. \E e \in BOOLEAN : lp' = [lp EXCEPT !.batch = lp.batch \o cut, !.budget = 0, !.pc = "batch", !.embed = e]
    BY <1>q, <1>z, <2>1 DEF LoopType
  <3> QED BY <1>z, <1>b, <2>1, <3>1 DEF LoopType
 <2>2. CASE lp.batch \o cut = <<>> /\ lp.embed
  <3>1. \E e \in BOOLEAN : lp' = [lp EXCEPT !.batch = lp.batch \o cut, !.budget = 0, !.pc = "outside", !.embed = e]
    BY <1>q, <1>z, <2>2 DEF LoopType
  <3> QED BY <1>z, <1>b, <2>2, <3>1 DEF LoopType
 <2>3. CASE lp.batch \o cut = <<>> /\ ~lp.embed
  <3>1. \E e \in BOOLEAN : lp' = [lp EXCEPT !.batch = lp.batch \o cut, !.budget = 0, !.pc = "idle", !.embed = e]
    BY <1>q, <1>z, <2>3 DEF LoopType
  <3> QED BY <1>z, <1>b, <2>3, <3>1 DEF LoopType
 <2> QED BY <2>1, <2>2, <2>3
<1>p. \A u \in Tasks : Pushing(u)' <=> Pushing(u) BY <1>q DEF Pushing
<1>s. \A u \in Tasks : Seated(u)' <=> Seated(u) /\ u \notin Elems(cut)
  BY <1>p, <1>a, <1>q, Zenon DEF Seated, SeatsApart
<1>m. \A u \in Tasks : InBatch(u)' <=> InBatch(u) \/ u \in Elems(cut) BY <1>b, <1>l DEF InBatch
<1>f. /\ queued' \in [Tasks -> BOOLEAN]
      /\ \A u \in Tasks : queued'[u] <=> queued[u] /\ u \notin Elems(cut)
 <2>1. \A u \in Tasks : u \in Elems(cut) <=> \E i \in 1..n : cut[i] = u BY <1>a DEF Elems
 <2> QED BY <1>q, <2>1 DEF ExecutorTypeOK
<1>u. UNCHANGED <<taskVars, nextTask, remoteQ, due, parkVars, rootReady, wk>> /\ lp.pc = "remote"
  BY <1>q
<1>1. ExecutorTypeOK' BY <1>a, <1>l, <1>f, <1>u DEF ExecutorTypeOK
<1>2. SeatsApart' BY <1>p, <1>a, <1>u DEF SeatsApart
<1>3. FlagMeansSeat' BY <1>s, <1>i, <1>f, <1>u, <1>l DEF FlagMeansSeat, ExecutorTypeOK
<1>4. SlabSound' BY <1>s, <1>i, <1>m, <1>u DEF SlabSound, InSlab, ExecutorTypeOK
<1>5. WakesKept' BY <1>s, <1>i, <1>m, <1>u, <1>l DEF WakesKept, SlabSound, ExecutorTypeOK
<1>6. LoopSound' BY <1>l, <1>u DEF LoopSound, ExecutorTypeOK
<1>7. ParkSound' BY <1>l, <1>u DEF ParkSound
<1>8. NoSleepThroughWake' BY <1>l, <1>u DEF NoSleepThroughWake
<1> QED BY <1>1, <1>2, <1>3, <1>4, <1>5, <1>6, <1>7, <1>8

\* poll_task keeps the invariant.
LEMMA Step_poll_task ==
    ASSUME ExecutorInv, poll_task
    PROVE  ExecutorInv'
<1> USE DEF poll_task, Reclaimed
<1> USE DEF ExecutorInv
<1> DEFINE t == Head(lp.batch)
<1>t. /\ Tail(lp.batch) \in Seq(Tasks) /\ t \in Tasks
      /\ Elems(lp.batch) = Elems(Tail(lp.batch)) \union {t}
  BY TailElems DEF ExecutorTypeOK, LoopType
<1>l. /\ lp'.pc = IF fut[t] = "slot" THEN "task" ELSE "batch"
      /\ lp'.cur = IF fut[t] = "slot" THEN t ELSE lp.cur
      /\ lp'.batch = Tail(lp.batch)
      /\ lp' \in LoopType
 <2>1. CASE fut[t] = "slot" BY <1>t, <2>1, ZenonT(60) DEF ExecutorTypeOK, LoopType
 <2>2. CASE fut[t] # "slot" BY <1>t, <2>2 DEF ExecutorTypeOK, LoopType
 <2> QED BY <2>1, <2>2
<1>s. \A u \in Tasks : Seated(u)' <=> Seated(u) BY DEF Seated, Pushing
<1>i. \A u \in Tasks : InSlab(u)' <=> InSlab(u) /\ ~(u = t /\ fut[t] # "slot")
 <2>1. CASE fut[t] = "slot" BY <2>1 DEF InSlab
 <2>2. CASE fut[t] # "slot"
  <3>1. slab' = IF InSlab(t) THEN [slab EXCEPT ![token[t]] = NoTask] ELSE slab BY <2>2
  <3>2. token' = token OBVIOUS
  <3> HIDE DEF t
  <3> QED BY <1>t, <2>2, <3>1, <3>2 DEF InSlab, ExecutorTypeOK
 <2> QED BY <2>1, <2>2
<1>m. \A u \in Tasks : InBatch(u) <=> InBatch(u)' \/ u = t BY <1>t, <1>l DEF InBatch
<1>f. /\ fut' \in [Tasks -> {"unborn", "slot", "polled", "gone"}] /\ due' \in [Tasks -> BOOLEAN]
      /\ slab' \in [Tokens -> Tasks \cup {NoTask}]
      /\ \A u \in Tasks : /\ fut'[u] = IF u = t /\ fut[t] = "slot" THEN "polled" ELSE fut[u]
                          /\ due'[u] <=> due[u] /\ ~(u = t /\ fut[t] = "slot")
      /\ \A k \in Tokens : slab'[k] = slab[k] \/ slab'[k] = NoTask
 <2>1. CASE fut[t] = "slot" BY <1>t, <2>1 DEF ExecutorTypeOK
 <2>2. CASE fut[t] # "slot"
  <3>1. slab' = IF InSlab(t) THEN [slab EXCEPT ![token[t]] = NoTask] ELSE slab BY <2>2
  <3>2. slab \in [Tokens -> Tasks \cup {NoTask}] BY DEF ExecutorTypeOK
  <3>3. slab' \in [Tokens -> Tasks \cup {NoTask}] /\ \A k \in Tokens : slab'[k] = slab[k] \/ slab'[k] = NoTask
    BY <3>1, <3>2
  <3>4. fut' = fut /\ due' = due BY <2>2
  <3> QED BY <2>2, <3>3, <3>4, Zenon DEF ExecutorTypeOK
 <2> QED BY <2>1, <2>2
<1>u. UNCHANGED <<token, join, queued, queue, nextTask, remoteQ, parkVars, rootReady, wk>> /\ lp.pc = "batch"
  OBVIOUS
<1>c. lp.cur = NoTask /\ \A u \in Tasks : fut[u] # "polled" BY DEF LoopSound
<1> HIDE DEF poll_task, t
<1>1. ExecutorTypeOK' BY <1>t, <1>l, <1>f, <1>u DEF ExecutorTypeOK
<1>2. SeatsApart' BY <1>u DEF SeatsApart, Pushing
<1>3. FlagMeansSeat' BY <1>s, <1>i, <1>f, <1>u, <1>t, <1>l DEF FlagMeansSeat
<1>4. SlabSound'
 <2>1. \A k \in Tokens : slab'[k] # NoTask => token'[slab'[k]] = k /\ fut'[slab'[k]] # "unborn"
   BY <1>f, <1>u DEF SlabSound, ExecutorTypeOK
 <2>2. \A u \in Tasks : fut'[u] \in {"slot", "polled"} => InSlab(u)'
   BY <1>f, <1>i, <1>t, <1>c DEF SlabSound
 <2>3. \A u \in Tasks : InSlab(u)' /\ fut'[u] = "gone" => Seated(u)' \/ InBatch(u)'
   BY <1>f, <1>i, <1>s, <1>m, <1>t DEF SlabSound
 <2> QED BY <2>1, <2>2, <2>3 DEF SlabSound
<1>5. WakesKept' BY <1>s, <1>m, <1>f, <1>u, <1>t, <1>c DEF WakesKept
<1>6. LoopSound'
 <2>1. NoTask \notin Tasks /\ lp'.pc \in {"task", "batch"} BY <1>l
 <2>2. \A u \in Tasks : fut'[u] = "polled" <=> lp'.cur = u BY <1>c, <1>l, <1>f, <1>t, <2>1
 <2>3. lp'.pc = "task" <=> lp'.cur # NoTask BY <1>c, <1>l, <1>t, <2>1
 <2>4. \A u \in Tasks : join'[u].waker # NoTask => fut'[join'[u].waker] # "unborn"
   BY <1>f, <1>u, <1>t DEF LoopSound, ExecutorTypeOK, JoinType
 <2> QED BY <2>1, <2>2, <2>3, <2>4 DEF LoopSound
<1>7. ParkSound' BY <1>l DEF ParkSound
<1>8. NoSleepThroughWake' BY <1>l DEF NoSleepThroughWake
<1> QED BY <1>1, <1>2, <1>3, <1>4, <1>5, <1>6, <1>7, <1>8

\* poll_pending keeps the invariant.
LEMMA Step_poll_pending ==
    ASSUME ExecutorInv, poll_pending
    PROVE  ExecutorInv'
<1> USE DEF poll_pending
<1> USE DEF ExecutorInv
<1>s. \A u \in Tasks : Seated(u)' <=> Seated(u) BY DEF Seated, Pushing
<1>i. \A u \in Tasks : InSlab(u)' <=> InSlab(u) BY DEF InSlab
<1>c. lp.cur \in Tasks /\ fut[lp.cur] = "polled" /\ InSlab(lp.cur)
  BY DEF LoopSound, SlabSound, ExecutorTypeOK, LoopType
<1>m. \A u \in Tasks : InBatch(u)' <=> InBatch(u) BY DEF InBatch, ExecutorTypeOK, LoopType
<1>1. ExecutorTypeOK' BY DEF ExecutorTypeOK, LoopType, WakerType, JoinType
<1>2. SeatsApart' BY DEF SeatsApart, Pushing
<1>3. FlagMeansSeat' BY <1>s, <1>i DEF FlagMeansSeat, ExecutorTypeOK, LoopType
<1>4. SlabSound' BY <1>s, <1>i, <1>c, <1>m DEF SlabSound, ExecutorTypeOK
<1>5. WakesKept' BY <1>s, <1>c, <1>m DEF WakesKept, ExecutorTypeOK, LoopType
<1>6. LoopSound' BY DEF LoopSound, ExecutorTypeOK, LoopType, JoinType
<1>7. ParkSound' BY DEF ParkSound, ExecutorTypeOK, LoopType, WakerType
<1>8. NoSleepThroughWake' BY DEF NoSleepThroughWake, ParkSound, ExecutorTypeOK, LoopType, WakerType
<1> QED BY <1>1, <1>2, <1>3, <1>4, <1>5, <1>6, <1>7, <1>8

\* poll_ready keeps the invariant.
LEMMA Step_poll_ready ==
    ASSUME ExecutorInv, poll_ready
    PROVE  ExecutorInv'
<1> USE DEF poll_ready
<1> USE DEF ExecutorInv
<1>c. lp.cur \in Tasks /\ fut[lp.cur] = "polled" /\ InSlab(lp.cur)
  BY DEF LoopSound, SlabSound, ExecutorTypeOK, LoopType
<1> DEFINE x == join[lp.cur].waker
           wakes == ~join[lp.cur].canceled /\ x # NoTask
<1>x. wakes => x \in Tasks /\ fut[x] # "unborn" BY <1>c DEF LoopSound, ExecutorTypeOK, JoinType
<1>p. lp.pc = "task" /\ Entered BY Zenon DEF Entered
<1>e. /\ queue' \in Seq(Tasks) /\ remoteQ' \in Seq(Tasks) /\ nextTask' \in Tasks \cup {NoTask}
      /\ queued' = IF wakes THEN [queued EXCEPT ![x] = TRUE] ELSE queued
      /\ due' = IF wakes THEN [due EXCEPT ![x] = TRUE] ELSE due
      /\ SeatsApart'
      /\ \A u \in Tasks : Seated(u)' <=> Seated(u) \/ (wakes /\ u = x /\ ~queued[x] /\ InSlab(x))
 <2>1. CASE wakes
  <3>1. enqueue_if_needed(x) /\ UNCHANGED wk /\ x \in Tasks BY <2>1, <1>x, Zenon
  <3> QED BY <1>p, <2>1, <3>1, EnqueueFacts DEF FlagMeansSeat
 <2>2. CASE ~wakes
  <3>1. UNCHANGED queueVars /\ UNCHANGED wk BY <2>2
  <3> QED BY <2>2, <3>1 DEF ExecutorTypeOK, SeatsApart, Seated, Pushing
 <2> QED BY <2>1, <2>2, Zenon
<1>l. lp'.pc = "batch" /\ lp'.cur = NoTask /\ lp'.batch = lp.batch /\ lp' \in LoopType
  BY DEF ExecutorTypeOK, LoopType
<1>j. /\ join' \in [Tasks -> JoinType]
      /\ \A u \in Tasks : join'[u].waker \in {join[u].waker, NoTask}
 <2>1. join \in [Tasks -> JoinType] BY DEF ExecutorTypeOK
 <2>2. \/ join' = join
       \/ join' = [join EXCEPT ![lp.cur].output = TRUE, ![lp.cur].waker = NoTask]
   OBVIOUS
 <2>3. CASE join' = [join EXCEPT ![lp.cur].output = TRUE, ![lp.cur].waker = NoTask]
  <3>1. join'[lp.cur] = [join[lp.cur] EXCEPT !.output = TRUE, !.waker = NoTask]
        /\ \A u \in Tasks \ {lp.cur} : join'[u] = join[u]
    BY <1>c, <2>1, <2>3
  <3>2. join'[lp.cur] \in JoinType /\ join'[lp.cur].waker = NoTask
    <4> DEFINE j == join[lp.cur]
   <4>1. j \in JoinType BY <1>c, <2>1
   <4>2. join'[lp.cur] = [j EXCEPT !.output = TRUE, !.waker = NoTask] BY <3>1
   <4> HIDE DEF j
   <4> QED BY <4>1, <4>2, ResolvedJoin
  <3>3. DOMAIN join' = Tasks /\ join' = [u \in Tasks |-> join'[u]] BY <2>1, <2>3
  <3> QED BY <1>c, <2>1, <3>1, <3>2, <3>3
 <2>4. CASE join' = join BY <2>1, <2>4
 <2> QED BY <2>2, <2>3, <2>4
<1>f. /\ fut' = [fut EXCEPT ![lp.cur] = "gone"]
      /\ slab' = [slab EXCEPT ![token[lp.cur]] = NoTask]
      /\ UNCHANGED <<token, parkVars, rootReady, wk>>
  OBVIOUS
<1> HIDE DEF poll_ready, x, wakes
<1>q. /\ queued' \in [Tasks -> BOOLEAN] /\ due' \in [Tasks -> BOOLEAN]
      /\ \A u \in Tasks : queued'[u] <=> queued[u] \/ (wakes /\ u = x)
      /\ \A u \in Tasks : due'[u] <=> due[u] \/ (wakes /\ u = x)
  BY <1>e, <1>x DEF ExecutorTypeOK
<1>g. /\ fut' \in [Tasks -> {"unborn", "slot", "polled", "gone"}] /\ slab' \in [Tokens -> Tasks \cup {NoTask}]
      /\ \A u \in Tasks : fut'[u] = IF u = lp.cur THEN "gone" ELSE fut[u]
      /\ \A k \in Tokens : slab'[k] = slab[k] \/ slab'[k] = NoTask
  BY <1>c, <1>f DEF ExecutorTypeOK
<1>i. \A u \in Tasks : InSlab(u)' <=> InSlab(u) /\ u # lp.cur
  BY <1>c, <1>f DEF InSlab, ExecutorTypeOK
<1>m. \A u \in Tasks : InBatch(u)' <=> InBatch(u) BY <1>l DEF InBatch
<1>n. \A u \in Tasks : fut[u] = "polled" <=> u = lp.cur BY Zenon DEF LoopSound
<1>1. ExecutorTypeOK' BY <1>e, <1>l, <1>j, <1>q, <1>g, <1>f DEF ExecutorTypeOK
<1>2. SeatsApart' BY <1>e
<1>3. FlagMeansSeat' BY <1>e, <1>q, <1>g, <1>i, <1>l, <1>x, <1>p DEF FlagMeansSeat
<1>4. SlabSound'
 <2>1. \A k \in Tokens : slab'[k] # NoTask => token'[slab'[k]] = k /\ fut'[slab'[k]] # "unborn"
   BY <1>g, <1>f DEF SlabSound, ExecutorTypeOK
 <2>2. \A u \in Tasks : fut'[u] \in {"slot", "polled"} => InSlab(u)' BY <1>g, <1>i DEF SlabSound
 <2>3. \A u \in Tasks : InSlab(u)' /\ fut'[u] = "gone" => Seated(u)' \/ InBatch(u)'
   BY <1>g, <1>i, <1>e, <1>m, Zenon DEF SlabSound
 <2> QED BY <2>1, <2>2, <2>3 DEF SlabSound
<1>5. WakesKept' BY <1>e, <1>q, <1>g, <1>m, <1>p, <1>l, <1>x DEF WakesKept, SlabSound, FlagMeansSeat
<1>6. LoopSound'
 <2>1. \A u \in Tasks : fut'[u] # "polled" /\ u # NoTask BY <1>n, <1>g
 <2>2. \A u \in Tasks : join'[u].waker # NoTask => fut'[join'[u].waker] # "unborn"
   BY <1>j, <1>g DEF LoopSound, ExecutorTypeOK, JoinType
 <2> QED BY <2>1, <2>2, <1>l DEF LoopSound
<1>7. ParkSound' BY <1>l DEF ParkSound
<1>8. NoSleepThroughWake' BY <1>l DEF NoSleepThroughWake
<1> QED BY <1>1, <1>2, <1>3, <1>4, <1>5, <1>6, <1>7, <1>8

\* end_batch keeps the invariant.
LEMMA Step_end_batch ==
    ASSUME ExecutorInv, end_batch
    PROVE  ExecutorInv'
<1> USE DEF end_batch
<1> USE DEF ExecutorInv
<1>s. \A u \in Tasks : Seated(u)' <=> Seated(u) BY DEF Seated, Pushing
<1>i. \A u \in Tasks : InSlab(u)' <=> InSlab(u) BY DEF InSlab
<1>1. ExecutorTypeOK' BY DEF ExecutorTypeOK, LoopType, WakerType, JoinType
<1>2. SeatsApart' BY DEF SeatsApart, Pushing
<1>3. FlagMeansSeat' BY <1>s, <1>i DEF FlagMeansSeat, ExecutorTypeOK, LoopType
<1>4. SlabSound' BY <1>s, <1>i DEF SlabSound, ExecutorTypeOK, InBatch, InSlab, LoopType
<1>5. WakesKept' BY <1>s, <1>i DEF WakesKept, ExecutorTypeOK, InBatch, LoopType
<1>6. LoopSound' BY DEF LoopSound, ExecutorTypeOK, LoopType, JoinType
<1>7. ParkSound' BY DEF ParkSound, ExecutorTypeOK, LoopType, WakerType
<1>8. NoSleepThroughWake' BY DEF NoSleepThroughWake, ParkSound, ExecutorTypeOK, LoopType, WakerType
<1> QED BY <1>1, <1>2, <1>3, <1>4, <1>5, <1>6, <1>7, <1>8, Zenon

\* announce_wait keeps the invariant.
LEMMA Step_announce_wait ==
    ASSUME ExecutorInv, announce_wait
    PROVE  ExecutorInv'
<1> USE DEF announce_wait
<1> USE DEF ExecutorInv
<1>s. \A u \in Tasks : Seated(u)' <=> Seated(u) BY DEF Seated, Pushing
<1>i. \A u \in Tasks : InSlab(u)' <=> InSlab(u) BY DEF InSlab
<1>1. ExecutorTypeOK' BY ZenonT(60) DEF ExecutorTypeOK, LoopType, WakerType, JoinType
<1>2. SeatsApart' BY DEF SeatsApart, Pushing
<1>3. FlagMeansSeat' BY <1>s, <1>i DEF FlagMeansSeat, ExecutorTypeOK, LoopType
<1>4. SlabSound' BY <1>s, <1>i DEF SlabSound, ExecutorTypeOK, InBatch, InSlab, LoopType
<1>5. WakesKept' BY <1>s, <1>i DEF WakesKept, ExecutorTypeOK, InBatch, LoopType
<1>6. LoopSound' BY DEF LoopSound, ExecutorTypeOK, LoopType, JoinType
<1>7. ParkSound' BY DEF ParkSound, ExecutorTypeOK, LoopType, WakerType
<1>8. NoSleepThroughWake' BY DEF NoSleepThroughWake, ParkSound, ExecutorTypeOK, LoopType, WakerType
<1> QED BY <1>1, <1>2, <1>3, <1>4, <1>5, <1>6, <1>7, <1>8

\* recheck keeps the invariant.
LEMMA Step_recheck ==
    ASSUME ExecutorInv, recheck
    PROVE  ExecutorInv'
<1> USE DEF recheck, should_skip_wait
<1> USE DEF ExecutorInv
<1>s. \A u \in Tasks : Seated(u)' <=> Seated(u) BY DEF Seated, Pushing
<1>i. \A u \in Tasks : InSlab(u)' <=> InSlab(u) BY DEF InSlab
<1>1. ExecutorTypeOK' BY DEF ExecutorTypeOK, LoopType, WakerType, JoinType
<1>2. SeatsApart' BY DEF SeatsApart, Pushing
<1>3. FlagMeansSeat' BY <1>s, <1>i DEF FlagMeansSeat, ExecutorTypeOK, LoopType
<1>4. SlabSound' BY <1>s, <1>i DEF SlabSound, ExecutorTypeOK, InBatch, InSlab, LoopType
<1>5. WakesKept' BY <1>s, <1>i DEF WakesKept, ExecutorTypeOK, InBatch, LoopType
<1>6. LoopSound' BY DEF LoopSound, ExecutorTypeOK, LoopType, JoinType
<1>7. ParkSound' BY DEF ParkSound, ExecutorTypeOK, LoopType, WakerType
<1>8. NoSleepThroughWake' BY DEF NoSleepThroughWake, ParkSound, ExecutorTypeOK, LoopType, WakerType
<1> QED BY <1>1, <1>2, <1>3, <1>4, <1>5, <1>6, <1>7, <1>8

\* wait_interrupted keeps the invariant.
LEMMA Step_wait_interrupted ==
    ASSUME ExecutorInv, wait_interrupted
    PROVE  ExecutorInv'
<1> USE DEF wait_interrupted
<1> USE DEF ExecutorInv
<1>s. \A u \in Tasks : Seated(u)' <=> Seated(u) BY DEF Seated, Pushing
<1>i. \A u \in Tasks : InSlab(u)' <=> InSlab(u) BY DEF InSlab
<1>1. ExecutorTypeOK' BY DEF ExecutorTypeOK, LoopType, WakerType, JoinType
<1>2. SeatsApart' BY DEF SeatsApart, Pushing
<1>3. FlagMeansSeat' BY <1>s, <1>i DEF FlagMeansSeat, ExecutorTypeOK, LoopType
<1>4. SlabSound' BY <1>s, <1>i DEF SlabSound, ExecutorTypeOK, InBatch, InSlab, LoopType
<1>5. WakesKept' BY <1>s, <1>i DEF WakesKept, ExecutorTypeOK, InBatch, LoopType
<1>6. LoopSound' BY DEF LoopSound, ExecutorTypeOK, LoopType, JoinType
<1>7. ParkSound' BY DEF ParkSound, ExecutorTypeOK, LoopType, WakerType
<1>8. NoSleepThroughWake' BY DEF NoSleepThroughWake, ParkSound, ExecutorTypeOK, LoopType, WakerType
<1> QED BY <1>1, <1>2, <1>3, <1>4, <1>5, <1>6, <1>7, <1>8

\* wait_expired keeps the invariant.
LEMMA Step_wait_expired ==
    ASSUME ExecutorInv, wait_expired
    PROVE  ExecutorInv'
<1> USE DEF wait_expired
<1> USE DEF ExecutorInv
<1>s. \A u \in Tasks : Seated(u)' <=> Seated(u) BY DEF Seated, Pushing
<1>i. \A u \in Tasks : InSlab(u)' <=> InSlab(u) BY DEF InSlab
<1>1. ExecutorTypeOK' BY DEF ExecutorTypeOK, LoopType, WakerType, JoinType
<1>2. SeatsApart' BY DEF SeatsApart, Pushing
<1>3. FlagMeansSeat' BY <1>s, <1>i DEF FlagMeansSeat, ExecutorTypeOK, LoopType
<1>4. SlabSound' BY <1>s, <1>i DEF SlabSound, ExecutorTypeOK, InBatch, InSlab, LoopType
<1>5. WakesKept' BY <1>s, <1>i DEF WakesKept, ExecutorTypeOK, InBatch, LoopType
<1>6. LoopSound' BY DEF LoopSound, ExecutorTypeOK, LoopType, JoinType
<1>7. ParkSound' BY DEF ParkSound, ExecutorTypeOK, LoopType, WakerType
<1>8. NoSleepThroughWake' BY DEF NoSleepThroughWake, ParkSound, ExecutorTypeOK, LoopType, WakerType
<1> QED BY <1>1, <1>2, <1>3, <1>4, <1>5, <1>6, <1>7, <1>8

\* wait_completion keeps the invariant.
LEMMA Step_wait_completion ==
    ASSUME ExecutorInv, NEW t \in Tasks, wait_completion(t)
    PROVE  ExecutorInv'
<1> USE DEF wait_completion
<1> USE DEF ExecutorInv
<1>i. \A u \in Tasks : InSlab(u)' <=> InSlab(u) BY DEF InSlab
<1>e. /\ queue' \in Seq(Tasks) /\ remoteQ' \in Seq(Tasks) /\ nextTask' \in Tasks \cup {NoTask}
      /\ queued' = [queued EXCEPT ![t] = TRUE] /\ due' = [due EXCEPT ![t] = TRUE]
      /\ SeatsApart'
      /\ \A u \in Tasks : Seated(u)' <=>
           Seated(u) \/ (u = t /\ ~queued[t] /\ (~Entered \/ InSlab(t)))
  BY EnqueueFacts DEF FlagMeansSeat
<1>q. queued' \in [Tasks -> BOOLEAN] /\ due' \in [Tasks -> BOOLEAN] BY <1>e DEF ExecutorTypeOK
<1>1. ExecutorTypeOK' BY <1>e, <1>q DEF ExecutorTypeOK, LoopType
<1>2. SeatsApart' BY <1>e
<1>3. FlagMeansSeat' BY <1>e, <1>i DEF FlagMeansSeat, Born, ExecutorTypeOK, LoopType
<1>4. SlabSound' BY <1>e, <1>i DEF SlabSound, InBatch, ExecutorTypeOK, LoopType
<1>5. WakesKept'
  BY <1>e, <1>i DEF WakesKept, InBatch, SlabSound, FlagMeansSeat, ExecutorTypeOK, LoopType
<1>6. LoopSound' BY DEF LoopSound, ExecutorTypeOK, LoopType, JoinType
<1>7. ParkSound' BY DEF ParkSound, ExecutorTypeOK, LoopType, WakerType
<1>8. NoSleepThroughWake' BY DEF NoSleepThroughWake, OnLoop, ExecutorTypeOK, LoopType
<1> QED BY <1>1, <1>2, <1>3, <1>4, <1>5, <1>6, <1>7, <1>8

\* stop_waiting keeps the invariant.
LEMMA Step_stop_waiting ==
    ASSUME ExecutorInv, stop_waiting
    PROVE  ExecutorInv'
<1> USE DEF stop_waiting
<1> USE DEF ExecutorInv
<1>s. \A u \in Tasks : Seated(u)' <=> Seated(u) BY DEF Seated, Pushing
<1>i. \A u \in Tasks : InSlab(u)' <=> InSlab(u) BY DEF InSlab
<1>1. ExecutorTypeOK' BY DEF ExecutorTypeOK, LoopType, WakerType, JoinType
<1>2. SeatsApart' BY DEF SeatsApart, Pushing
<1>3. FlagMeansSeat' BY <1>s, <1>i DEF FlagMeansSeat, ExecutorTypeOK, LoopType
<1>4. SlabSound' BY <1>s, <1>i DEF SlabSound, ExecutorTypeOK, InBatch, InSlab, LoopType
<1>5. WakesKept' BY <1>s, <1>i DEF WakesKept, ExecutorTypeOK, InBatch, LoopType
<1>6. LoopSound' BY DEF LoopSound, ExecutorTypeOK, LoopType, JoinType
<1>7. ParkSound' BY DEF ParkSound, ExecutorTypeOK, LoopType, WakerType
<1>8. NoSleepThroughWake' BY DEF NoSleepThroughWake, ParkSound, ExecutorTypeOK, LoopType, WakerType
<1> QED BY <1>1, <1>2, <1>3, <1>4, <1>5, <1>6, <1>7, <1>8, Zenon

\* stop_pending keeps the invariant.
LEMMA Step_stop_pending ==
    ASSUME ExecutorInv, stop_pending
    PROVE  ExecutorInv'
<1> USE DEF stop_pending
<1> USE DEF ExecutorInv
<1>s. \A u \in Tasks : Seated(u)' <=> Seated(u) BY DEF Seated, Pushing
<1>i. \A u \in Tasks : InSlab(u)' <=> InSlab(u) BY DEF InSlab
<1>1. ExecutorTypeOK' BY DEF ExecutorTypeOK, LoopType, WakerType, JoinType
<1>2. SeatsApart' BY DEF SeatsApart, Pushing
<1>3. FlagMeansSeat' BY <1>s, <1>i DEF FlagMeansSeat, ExecutorTypeOK, LoopType
<1>4. SlabSound' BY <1>s, <1>i DEF SlabSound, ExecutorTypeOK, InBatch, InSlab, LoopType
<1>5. WakesKept' BY <1>s, <1>i DEF WakesKept, ExecutorTypeOK, InBatch, LoopType
<1>6. LoopSound' BY DEF LoopSound, ExecutorTypeOK, LoopType, JoinType
<1>7. ParkSound' BY DEF ParkSound, ExecutorTypeOK, LoopType, WakerType
<1>8. NoSleepThroughWake' BY DEF NoSleepThroughWake, ParkSound, ExecutorTypeOK, LoopType, WakerType
<1> QED BY <1>1, <1>2, <1>3, <1>4, <1>5, <1>6, <1>7, <1>8

\* poll_once keeps the invariant.
LEMMA Step_poll_once ==
    ASSUME ExecutorInv, poll_once
    PROVE  ExecutorInv'
<1> USE DEF poll_once
<1> USE DEF ExecutorInv
<1>s. \A u \in Tasks : Seated(u)' <=> Seated(u) BY DEF Seated, Pushing
<1>i. \A u \in Tasks : InSlab(u)' <=> InSlab(u) BY DEF InSlab
<1>1. ExecutorTypeOK' BY DEF ExecutorTypeOK, LoopType, WakerType, JoinType
<1>2. SeatsApart' BY DEF SeatsApart, Pushing
<1>3. FlagMeansSeat' BY <1>s, <1>i DEF FlagMeansSeat, ExecutorTypeOK, LoopType
<1>4. SlabSound' BY <1>s, <1>i DEF SlabSound, ExecutorTypeOK, InBatch, InSlab, LoopType
<1>5. WakesKept' BY <1>s, <1>i DEF WakesKept, ExecutorTypeOK, InBatch, LoopType
<1>6. LoopSound' BY DEF LoopSound, ExecutorTypeOK, LoopType, JoinType
<1>7. ParkSound' BY DEF ParkSound, ExecutorTypeOK, LoopType, WakerType
<1>8. NoSleepThroughWake' BY DEF NoSleepThroughWake, ParkSound, ExecutorTypeOK, LoopType, WakerType
<1> QED BY <1>1, <1>2, <1>3, <1>4, <1>5, <1>6, <1>7, <1>8

\* embed_completion keeps the invariant.
LEMMA Step_embed_completion ==
    ASSUME ExecutorInv, NEW t \in Tasks, embed_completion(t)
    PROVE  ExecutorInv'
<1> USE DEF embed_completion
<1> USE DEF ExecutorInv
<1>i. \A u \in Tasks : InSlab(u)' <=> InSlab(u) BY DEF InSlab
<1>e. /\ queue' \in Seq(Tasks) /\ remoteQ' \in Seq(Tasks) /\ nextTask' \in Tasks \cup {NoTask}
      /\ queued' = [queued EXCEPT ![t] = TRUE] /\ due' = [due EXCEPT ![t] = TRUE]
      /\ SeatsApart'
      /\ \A u \in Tasks : Seated(u)' <=>
           Seated(u) \/ (u = t /\ ~queued[t] /\ (~Entered \/ InSlab(t)))
  BY EnqueueFacts DEF FlagMeansSeat
<1>q. queued' \in [Tasks -> BOOLEAN] /\ due' \in [Tasks -> BOOLEAN] BY <1>e DEF ExecutorTypeOK
<1>1. ExecutorTypeOK' BY <1>e, <1>q DEF ExecutorTypeOK, LoopType
<1>2. SeatsApart' BY <1>e
<1>3. FlagMeansSeat' BY <1>e, <1>i DEF FlagMeansSeat, Born, ExecutorTypeOK, LoopType
<1>4. SlabSound' BY <1>e, <1>i DEF SlabSound, InBatch, ExecutorTypeOK, LoopType
<1>5. WakesKept'
  BY <1>e, <1>i DEF WakesKept, InBatch, SlabSound, FlagMeansSeat, ExecutorTypeOK, LoopType
<1>6. LoopSound' BY DEF LoopSound, ExecutorTypeOK, LoopType, JoinType
<1>7. ParkSound' BY DEF ParkSound, ExecutorTypeOK, LoopType, WakerType
<1>8. NoSleepThroughWake' BY DEF NoSleepThroughWake, OnLoop, ExecutorTypeOK, LoopType
<1> QED BY <1>1, <1>2, <1>3, <1>4, <1>5, <1>6, <1>7, <1>8

\* embed_enter keeps the invariant.
LEMMA Step_embed_enter ==
    ASSUME ExecutorInv, embed_enter
    PROVE  ExecutorInv'
<1> USE DEF embed_enter
<1> USE DEF ExecutorInv
<1>s. \A u \in Tasks : Seated(u)' <=> Seated(u) BY DEF Seated, Pushing
<1>i. \A u \in Tasks : InSlab(u)' <=> InSlab(u) BY DEF InSlab
<1>1. ExecutorTypeOK'
 <2>0. lp \in LoopType /\ BatchSize \in 0..BatchSize BY DEF ExecutorTypeOK
 <2>1. lp' \in LoopType BY <2>0 DEF LoopType
 <2> QED BY <2>1 DEF ExecutorTypeOK
<1>2. SeatsApart' BY DEF SeatsApart, Pushing
<1>3. FlagMeansSeat' BY <1>s, <1>i DEF FlagMeansSeat, ExecutorTypeOK, LoopType
<1>4. SlabSound' BY <1>s, <1>i DEF SlabSound, ExecutorTypeOK, InBatch, InSlab, LoopType
<1>5. WakesKept' BY <1>s, <1>i DEF WakesKept, ExecutorTypeOK, InBatch, LoopType
<1>6. LoopSound' BY DEF LoopSound, ExecutorTypeOK, LoopType, JoinType
<1>7. ParkSound' BY DEF ParkSound, ExecutorTypeOK, LoopType, WakerType
<1>8. NoSleepThroughWake' BY DEF NoSleepThroughWake, ParkSound, ExecutorTypeOK, LoopType, WakerType
<1> QED BY <1>1, <1>2, <1>3, <1>4, <1>5, <1>6, <1>7, <1>8, Zenon

\* drop_runtime keeps the invariant.
LEMMA Step_drop_runtime ==
    ASSUME ExecutorInv, drop_runtime
    PROVE  ExecutorInv'
<1> USE DEF drop_runtime
<1> USE DEF ExecutorInv
<1>s. \A u \in Tasks : Seated(u)' <=> Seated(u) BY DEF Seated, Pushing
<1>i. \A u \in Tasks : ~InSlab(u)' BY DEF InSlab
<1>f. \A u \in Tasks : fut'[u] \notin {"slot", "polled"} /\ (fut'[u] = "unborn" => fut[u] = "unborn")
  BY DEF SlabSound, ExecutorTypeOK
<1>c. lp.cur = NoTask BY DEF LoopSound
<1>1. ExecutorTypeOK' BY DEF ExecutorTypeOK, LoopType, WakerType, JoinType
<1>2. SeatsApart' BY DEF SeatsApart, Pushing
<1>3. FlagMeansSeat' BY <1>s, <1>f, <1>i DEF FlagMeansSeat, ExecutorTypeOK, LoopType
<1>4. SlabSound' BY <1>i, <1>f DEF SlabSound, ExecutorTypeOK
<1>5. WakesKept' BY <1>s, <1>i DEF WakesKept, ExecutorTypeOK, InBatch, LoopType
<1>6. LoopSound' BY <1>f, <1>c DEF LoopSound, ExecutorTypeOK, LoopType, JoinType
<1>7. ParkSound' BY DEF ParkSound, ExecutorTypeOK, LoopType, WakerType
<1>8. NoSleepThroughWake' BY DEF NoSleepThroughWake, ParkSound, ExecutorTypeOK, LoopType, WakerType
<1> QED BY <1>1, <1>2, <1>3, <1>4, <1>5, <1>6, <1>7, <1>8

\* remote_wake keeps the invariant.
LEMMA Step_remote_wake ==
    ASSUME ExecutorInv, NEW w \in Wakers, NEW t \in Tasks, remote_wake(w, t)
    PROVE  ExecutorInv'
<1> USE DEF remote_wake
<1> USE DEF ExecutorInv
<1>i. \A u \in Tasks : InSlab(u)' <=> InSlab(u) BY DEF InSlab
<1>w. /\ \A v \in Wakers : v # w => wk'[v] = wk[v]
      /\ wk'[w].pc = (IF queued[t] THEN "check" ELSE "push")
      /\ wk'[w].target = (IF queued[t] THEN Root ELSE t)
      /\ wk[w].pc = "idle" /\ wk' \in [Wakers -> WakerType]
  BY DEF ExecutorTypeOK, WakerType
<1>p. \A u \in Tasks : Pushing(u)' <=> Pushing(u) \/ (u = t /\ ~queued[t])
 <2>1. CASE queued[t] BY <1>w, <2>1 DEF Pushing
 <2>2. CASE ~queued[t] BY <1>w, <2>2 DEF Pushing
 <2> QED BY <2>1, <2>2
<1>s. \A u \in Tasks : Seated(u)' <=> Seated(u) \/ (u = t /\ ~queued[t]) BY <1>p DEF Seated
<1>1. ExecutorTypeOK' BY <1>w DEF ExecutorTypeOK
<1>2. SeatsApart'
 <2>0. /\ queue' = queue /\ remoteQ' = remoteQ /\ nextTask' = nextTask
       /\ ~queued[t] => ~Seated(t) /\ ~Pushing(t)
   BY DEF FlagMeansSeat, Seated
 <2>1. \A v1, v2 \in Wakers : wk'[v1].pc = "push" /\ wk'[v2].pc = "push"
                           /\ wk'[v1].target = wk'[v2].target => v1 = v2
  <3>1. \A v \in Wakers : ~queued[t] /\ wk[v].pc = "push" => wk[v].target # t BY <2>0 DEF Pushing
  <3> QED BY <1>w, <3>1 DEF SeatsApart
 <2>2. \A v \in Wakers : wk'[v].pc = "push" => wk'[v].target \in Tasks BY <1>w DEF SeatsApart
 <2> QED BY <1>p, <2>0, <2>1, <2>2 DEF SeatsApart, Seated
<1>3. FlagMeansSeat' BY <1>s, <1>i DEF FlagMeansSeat, Born, ExecutorTypeOK
<1>4. SlabSound' BY <1>s, <1>i DEF SlabSound, ExecutorTypeOK, InBatch, InSlab, LoopType
<1>5. WakesKept' BY <1>s, <1>i DEF WakesKept, InBatch, SlabSound, FlagMeansSeat, ExecutorTypeOK
<1>6. LoopSound' BY DEF LoopSound, ExecutorTypeOK, LoopType, JoinType
<1>7. ParkSound' BY <1>w DEF ParkSound
<1>8. NoSleepThroughWake' BY <1>w DEF NoSleepThroughWake
<1> QED BY <1>1, <1>2, <1>3, <1>4, <1>5, <1>6, <1>7, <1>8

\* remote_push keeps the invariant.
LEMMA Step_remote_push ==
    ASSUME ExecutorInv, NEW w \in Wakers, remote_push(w)
    PROVE  ExecutorInv'
<1> USE DEF remote_push
<1> USE DEF ExecutorInv
<1>i. \A u \in Tasks : InSlab(u)' <=> InSlab(u) BY DEF InSlab
<1> DEFINE t == wk[w].target
<1>t. t \in Tasks /\ wk[w].pc = "push" /\ Pushing(t) BY DEF SeatsApart, Pushing
<1>w. /\ \A v \in Wakers : v # w => wk'[v] = wk[v]
      /\ wk'[w].pc = (IF lp.pc = "dropped" THEN "idle" ELSE "check")
      /\ wk' \in [Wakers -> WakerType]
 <2>0. wk \in [Wakers -> WakerType] BY DEF ExecutorTypeOK
 <2>1. CASE lp.pc = "dropped"
  <3>1. wk' = [wk EXCEPT ![w].pc = "idle", ![w].target = Root] BY <2>1
  <3> QED BY <2>0, <2>1, <3>1 DEF WakerType
 <2>2. CASE lp.pc # "dropped"
  <3>1. wk' = [wk EXCEPT ![w].pc = "check", ![w].target = Root] BY <2>2
  <3> QED BY <2>0, <2>2, <3>1 DEF WakerType
 <2> QED BY <2>1, <2>2
<1>p. \A u \in Tasks : Pushing(u)' <=> Pushing(u) /\ u # t
 <2>1. \A v \in Wakers : wk[v].pc = "push" /\ wk[v].target = t => v = w BY <1>t DEF SeatsApart
 <2> QED BY <1>w, <1>t, <2>1 DEF Pushing
<1>r. /\ remoteQ' \in Seq(Tasks) /\ Distinct(remoteQ')
      /\ lp.pc # "dropped" => Elems(remoteQ') = Elems(remoteQ) \union {t}
      /\ lp.pc = "dropped" => remoteQ' = remoteQ
 <2>1. t \notin Elems(remoteQ) BY <1>t DEF SeatsApart
 <2>2. remoteQ \in Seq(Tasks) /\ Distinct(remoteQ) BY DEF ExecutorTypeOK, SeatsApart
 <2>3. CASE lp.pc = "dropped" BY <2>2, <2>3
 <2>4. CASE lp.pc # "dropped"
  <3>1. remoteQ' = Append(remoteQ, t) BY <2>4
  <3> QED BY <1>t, <2>1, <2>2, <2>4, <3>1, AppendElems
 <2> QED BY <2>3, <2>4
<1>u. UNCHANGED <<taskVars, queued, queue, nextTask, due, parkVars, rootReady, lp>> OBVIOUS
<1> HIDE DEF remote_push, t
<1>s. /\ \A u \in Tasks : Seated(u)' => Seated(u)
      /\ lp.pc # "dropped" => \A u \in Tasks : Seated(u) => Seated(u)'
  BY <1>p, <1>r, <1>t, <1>u DEF Seated
<1>d. lp.pc = "dropped" => \A u \in Tasks : ~InSlab(u) BY DEF FlagMeansSeat
<1>1. ExecutorTypeOK' BY <1>w, <1>r, <1>u DEF ExecutorTypeOK
<1>2. SeatsApart'
 <2>1. \A v1, v2 \in Wakers : wk'[v1].pc = "push" /\ wk'[v2].pc = "push"
                           /\ wk'[v1].target = wk'[v2].target => v1 = v2
   BY <1>w DEF SeatsApart
 <2>2. \A v \in Wakers : wk'[v].pc = "push" => wk'[v].target \in Tasks BY <1>w DEF SeatsApart
 <2> QED BY <1>p, <1>r, <1>t, <1>u, <2>1, <2>2 DEF SeatsApart
<1>3. FlagMeansSeat' BY <1>s, <1>i, <1>u DEF FlagMeansSeat
<1>4. SlabSound' BY <1>s, <1>i, <1>u, <1>d DEF SlabSound, InBatch
<1>5. WakesKept' BY <1>s, <1>u DEF WakesKept, InBatch
<1>6. LoopSound' BY <1>u DEF LoopSound
<1>7. ParkSound' BY <1>w, <1>u, <1>t DEF ParkSound
<1>8. NoSleepThroughWake' BY <1>w, <1>u DEF NoSleepThroughWake
<1> QED BY <1>1, <1>2, <1>3, <1>4, <1>5, <1>6, <1>7, <1>8, Zenon

\* notify_root keeps the invariant.
LEMMA Step_notify_root ==
    ASSUME ExecutorInv, NEW w \in Wakers, notify_root(w)
    PROVE  ExecutorInv'
<1> USE DEF notify_root
<1> USE DEF ExecutorInv
<1>s. \A u \in Tasks : Seated(u)' <=> Seated(u) BY DEF Seated, Pushing
<1>i. \A u \in Tasks : InSlab(u)' <=> InSlab(u) BY DEF InSlab
<1>1. ExecutorTypeOK' BY DEF ExecutorTypeOK, LoopType, WakerType, JoinType
<1>2. SeatsApart' BY DEF SeatsApart, Pushing
<1>3. FlagMeansSeat' BY <1>s, <1>i DEF FlagMeansSeat, ExecutorTypeOK, LoopType
<1>4. SlabSound' BY <1>s, <1>i DEF SlabSound, ExecutorTypeOK, InBatch, InSlab, LoopType
<1>5. WakesKept' BY <1>s, <1>i DEF WakesKept, ExecutorTypeOK, InBatch, LoopType
<1>6. LoopSound' BY DEF LoopSound, ExecutorTypeOK, LoopType, JoinType
<1>7. ParkSound' BY DEF ParkSound, ExecutorTypeOK, LoopType, WakerType
<1>8. NoSleepThroughWake' BY DEF NoSleepThroughWake, ParkSound, ExecutorTypeOK, LoopType, WakerType
<1> QED BY <1>1, <1>2, <1>3, <1>4, <1>5, <1>6, <1>7, <1>8

\* load_waiting keeps the invariant.
LEMMA Step_load_waiting ==
    ASSUME ExecutorInv, NEW w \in Wakers, load_waiting(w)
    PROVE  ExecutorInv'
<1> USE DEF load_waiting
<1> USE DEF ExecutorInv
<1>s. \A u \in Tasks : Seated(u)' <=> Seated(u) BY DEF Seated, Pushing
<1>i. \A u \in Tasks : InSlab(u)' <=> InSlab(u) BY DEF InSlab
<1>1. ExecutorTypeOK'
 <2>0. wk \in [Wakers -> WakerType] BY DEF ExecutorTypeOK
 <2>1. wk' \in [Wakers -> WakerType] BY <2>0 DEF WakerType
 <2> QED BY <2>1 DEF ExecutorTypeOK
<1>2. SeatsApart' BY DEF SeatsApart, Pushing
<1>3. FlagMeansSeat' BY <1>s, <1>i DEF FlagMeansSeat, ExecutorTypeOK, LoopType
<1>4. SlabSound' BY <1>s, <1>i DEF SlabSound, ExecutorTypeOK, InBatch, InSlab, LoopType
<1>5. WakesKept' BY <1>s, <1>i DEF WakesKept, ExecutorTypeOK, InBatch, LoopType
<1>6. LoopSound' BY DEF LoopSound, ExecutorTypeOK, LoopType, JoinType
<1>7. ParkSound' BY DEF ParkSound, ExecutorTypeOK, LoopType, WakerType
<1>8. NoSleepThroughWake' BY DEF NoSleepThroughWake, ParkSound, ExecutorTypeOK, LoopType, WakerType
<1> QED BY <1>1, <1>2, <1>3, <1>4, <1>5, <1>6, <1>7, <1>8, Zenon

\* claim_interrupt keeps the invariant.
LEMMA Step_claim_interrupt ==
    ASSUME ExecutorInv, NEW w \in Wakers, claim_interrupt(w)
    PROVE  ExecutorInv'
<1> USE DEF claim_interrupt
<1> USE DEF ExecutorInv
<1>s. \A u \in Tasks : Seated(u)' <=> Seated(u) BY DEF Seated, Pushing
<1>i. \A u \in Tasks : InSlab(u)' <=> InSlab(u) BY DEF InSlab
<1>1. ExecutorTypeOK'
 <2>0. wk \in [Wakers -> WakerType] BY DEF ExecutorTypeOK
 <2>1. wk' \in [Wakers -> WakerType] BY <2>0 DEF WakerType
 <2> QED BY <2>1 DEF ExecutorTypeOK
<1>2. SeatsApart' BY DEF SeatsApart, Pushing
<1>3. FlagMeansSeat' BY <1>s, <1>i DEF FlagMeansSeat, ExecutorTypeOK, LoopType
<1>4. SlabSound' BY <1>s, <1>i DEF SlabSound, ExecutorTypeOK, InBatch, InSlab, LoopType
<1>5. WakesKept' BY <1>s, <1>i DEF WakesKept, ExecutorTypeOK, InBatch, LoopType
<1>6. LoopSound' BY DEF LoopSound, ExecutorTypeOK, LoopType, JoinType
<1>7. ParkSound' BY DEF ParkSound, ExecutorTypeOK, LoopType, WakerType
<1>8. NoSleepThroughWake' BY DEF NoSleepThroughWake, ParkSound, ExecutorTypeOK, LoopType, WakerType
<1> QED BY <1>1, <1>2, <1>3, <1>4, <1>5, <1>6, <1>7, <1>8

\* interrupt keeps the invariant.
LEMMA Step_interrupt ==
    ASSUME ExecutorInv, NEW w \in Wakers, interrupt(w)
    PROVE  ExecutorInv'
<1> USE DEF interrupt
<1> USE DEF ExecutorInv
<1>s. \A u \in Tasks : Seated(u)' <=> Seated(u) BY DEF Seated, Pushing
<1>i. \A u \in Tasks : InSlab(u)' <=> InSlab(u) BY DEF InSlab
<1>1. ExecutorTypeOK' BY ZenonT(60) DEF ExecutorTypeOK, LoopType, WakerType, JoinType
<1>2. SeatsApart' BY DEF SeatsApart, Pushing
<1>3. FlagMeansSeat' BY <1>s, <1>i DEF FlagMeansSeat, ExecutorTypeOK, LoopType
<1>4. SlabSound' BY <1>s, <1>i DEF SlabSound, ExecutorTypeOK, InBatch, InSlab, LoopType
<1>5. WakesKept' BY <1>s, <1>i DEF WakesKept, ExecutorTypeOK, InBatch, LoopType
<1>6. LoopSound' BY DEF LoopSound, ExecutorTypeOK, LoopType, JoinType
<1>7. ParkSound' BY DEF ParkSound, ExecutorTypeOK, LoopType, WakerType
<1>8. NoSleepThroughWake' BY DEF NoSleepThroughWake, ParkSound, ExecutorTypeOK, LoopType, WakerType
<1> QED BY <1>1, <1>2, <1>3, <1>4, <1>5, <1>6, <1>7, <1>8, Zenon

-----------------------------------------------------------------------------
\* The theorems about the executor.

\* The executor starts with no task, no wake and no wait.
LEMMA ExecutorInitially == ExecutorInit => ExecutorInv
<1> SUFFICES ASSUME ExecutorInit PROVE ExecutorInv OBVIOUS
<1> USE DEF ExecutorInit
<1>0. Elems(<<>>) = {} /\ Distinct(<<>>) /\ <<>> \in Seq(Tasks) BY EmptySeq DEF Elems, Distinct
<1>1. \A t \in Tasks : ~Seated(t) /\ ~Pushing(t) /\ ~InSlab(t) BY <1>0 DEF Seated, Pushing, InSlab
<1>2. ExecutorTypeOK
 <2>1. lp \in LoopType BY <1>0 DEF LoopType
 <2>2. wk \in [Wakers -> WakerType] BY DEF WakerType
 <2>3. join \in [Tasks -> JoinType] BY DEF JoinType, NoJoin
 <2>4. rt_waiting \in BOOLEAN /\ pending \in BOOLEAN /\ irq \in BOOLEAN /\ rootReady \in BOOLEAN
   OBVIOUS
 <2> QED BY <1>0, <2>1, <2>2, <2>3, <2>4 DEF ExecutorTypeOK
<1>3. SeatsApart BY <1>0, <1>1 DEF SeatsApart
<1>4. FlagMeansSeat /\ SlabSound /\ WakesKept BY <1>1 DEF FlagMeansSeat, SlabSound, WakesKept
<1>5. LoopSound /\ ParkSound /\ NoSleepThroughWake
  BY DEF LoopSound, ParkSound, NoSleepThroughWake, NoJoin
<1> QED BY <1>2, <1>3, <1>4, <1>5 DEF ExecutorInv

\* Every step of the loop, the futures and the other threads keeps it.
LEMMA ExecutorStep == ExecutorInv /\ [ExecutorNext]_execVars => ExecutorInv'
<1> SUFFICES ASSUME ExecutorInv, [ExecutorNext]_execVars PROVE ExecutorInv' OBVIOUS
<1>1. CASE LoopStep
  BY <1>1, Step_take_ready, Step_root_done, Step_check_deadline, Step_take_next_task,
    Step_drain_remote, Step_drain_local, Step_poll_task, Step_poll_pending, Step_poll_ready,
    Step_end_batch, Step_announce_wait, Step_recheck, Step_wait_interrupted, Step_stop_waiting,
    Step_stop_pending, Step_embed_enter DEF LoopStep
<1>2. ASSUME NEW t \in Tasks, NEW k \in Tokens, spawn(t, k) PROVE ExecutorInv' BY <1>2, Step_spawn
<1>3. ASSUME NEW t \in Tasks, \/ wake_task(t) \/ cancel_task(t) \/ join_task(t)
                              \/ wait_completion(t) \/ embed_completion(t)
      PROVE  ExecutorInv'
  BY <1>3, Step_wake_task, Step_cancel_task, Step_join_task, Step_wait_completion,
    Step_embed_completion
<1>4. CASE \/ drive \/ root_done(TRUE) \/ check_deadline(TRUE) \/ wait_expired
           \/ poll_once \/ drop_runtime
  BY <1>4, Step_drive, Step_root_done, Step_check_deadline, Step_wait_expired, Step_poll_once,
    Step_drop_runtime
<1>5. ASSUME NEW w \in Wakers, WakerStep(w) \/ notify_root(w) PROVE ExecutorInv'
  BY <1>5, Step_remote_push, Step_load_waiting, Step_claim_interrupt, Step_interrupt,
    Step_notify_root DEF WakerStep
<1>6. ASSUME NEW w \in Wakers, NEW t \in Tasks, remote_wake(w, t) PROVE ExecutorInv'
  BY <1>6, Step_remote_wake
<1>7. CASE UNCHANGED execVars
 <2>1. \A t \in Tasks : /\ Seated(t)' <=> Seated(t)
                        /\ InSlab(t)' <=> InSlab(t)
                        /\ InBatch(t)' <=> InBatch(t)
                        /\ Pushing(t)' <=> Pushing(t)
   BY <1>7 DEF execVars, Seated, InSlab, InBatch, Pushing
 <2>2. ExecutorTypeOK' /\ SeatsApart' /\ FlagMeansSeat'
   BY <1>7, <2>1 DEF execVars, ExecutorInv, ExecutorTypeOK, SeatsApart, FlagMeansSeat
 <2>3. SlabSound' /\ WakesKept' /\ LoopSound'
   BY <1>7, <2>1 DEF execVars, ExecutorInv, SlabSound, WakesKept, LoopSound
 <2>4. ParkSound' /\ NoSleepThroughWake'
   BY <1>7 DEF execVars, ExecutorInv, ParkSound, NoSleepThroughWake
 <2> QED BY <2>2, <2>3, <2>4 DEF ExecutorInv
<1> QED BY <1>1, <1>2, <1>3, <1>4, <1>5, <1>6, <1>7 DEF ExecutorNext

LEMMA ExecutorInductive == ExecutorSpec => []ExecutorInv
  BY ExecutorInitially, ExecutorStep, PTL DEF ExecutorSpec

\* A task that has an entry has one, so that Seats counts 1 or 0.
LEMMA SeatsCounted ==
    ASSUME ExecutorTypeOK, SeatsApart, NEW t \in Tasks
    PROVE  Seats(t) = IF Seated(t) THEN 1 ELSE 0
<1> DEFINE pushers == {w \in Wakers : wk[w].pc = "push" /\ wk[w].target = t}
           here == {i \in DOMAIN queue : queue[i] = t}
           there == {i \in DOMAIN remoteQ : remoteQ[i] = t}
<1>1. /\ Cardinality(here) = IF t \in Elems(queue) THEN 1 ELSE 0
      /\ Cardinality(there) = IF t \in Elems(remoteQ) THEN 1 ELSE 0
 <2>1. /\ queue \in Seq(Tasks) /\ remoteQ \in Seq(Tasks) /\ Distinct(queue) /\ Distinct(remoteQ)
       /\ DOMAIN queue = 1..Len(queue) /\ DOMAIN remoteQ = 1..Len(remoteQ)
   BY DEF ExecutorTypeOK, SeatsApart
 <2> QED BY <2>1, Occurrences
<1>2. Cardinality(pushers) = IF Pushing(t) THEN 1 ELSE 0
 <2>1. CASE Pushing(t)
  <3>1. PICK w \in Wakers : wk[w].pc = "push" /\ wk[w].target = t BY <2>1 DEF Pushing
  <3>2. pushers = {w} BY <3>1 DEF SeatsApart
  <3> QED BY <2>1, <3>2, FS_Singleton
 <2>2. CASE ~Pushing(t)
  <3>1. pushers = {} BY <2>2 DEF Pushing
  <3> QED BY <2>2, <3>1, FS_EmptySet
 <2> QED BY <2>1, <2>2
<1> DEFINE slot == IF nextTask = t THEN 1 ELSE 0
<1>s. Seats(t) = Cardinality(here) + Cardinality(there) + slot + Cardinality(pushers) BY DEF Seats
<1> HIDE DEF here, there, pushers
<1>3. Seats(t) = (IF t \in Elems(queue) THEN 1 ELSE 0) + (IF t \in Elems(remoteQ) THEN 1 ELSE 0)
                    + slot + (IF Pushing(t) THEN 1 ELSE 0)
  BY <1>1, <1>2, <1>s
<1> QED BY <1>3 DEF Seated, SeatsApart

\* Whatever futures, wakers and other threads do, in any order: a wake is never lost between
\* the flag, the queues and the batch; the slab finds every future that is left, and keeps no
\* cancelled task without a wake to reclaim it; and the loop never sleeps through work.
THEOREM ExecutorIsSafe == ExecutorSpec => []ExecutorSafe
<1>1. ExecutorInv => ExecutorSafe
 <2> SUFFICES ASSUME ExecutorInv PROVE ExecutorSafe OBVIOUS
 <2>0. /\ ExecutorTypeOK /\ SeatsApart /\ FlagMeansSeat /\ SlabSound /\ WakesKept
       /\ NoSleepThroughWake
   BY DEF ExecutorInv
 <2>1. \A t \in Tasks : Seats(t) = IF Seated(t) THEN 1 ELSE 0 BY <2>0, SeatsCounted
 <2>2. \A t \in Tasks : InBatch(t) <=> \E i \in DOMAIN lp.batch : lp.batch[i] = t
  <3>1. DOMAIN lp.batch = 1..Len(lp.batch) BY <2>0 DEF ExecutorTypeOK, LoopType
  <3> QED BY <3>1 DEF InBatch, Elems
 <2>3. QueuedFlagExact BY <2>0, <2>1 DEF QueuedFlagExact, FlagMeansSeat
 <2>4. NoLostWake BY <2>0, <2>1, <2>2 DEF NoLostWake, WakesKept
 <2>5. SlabExact
  <3>1. ASSUME NEW k \in Tokens, slab[k] # NoTask, fut[slab[k]] = "gone"
        PROVE  Seats(slab[k]) > 0 \/ \E i \in DOMAIN lp.batch : lp.batch[i] = slab[k]
   <4>1. slab[k] \in Tasks /\ InSlab(slab[k]) BY <2>0, <3>1 DEF ExecutorTypeOK, SlabSound, InSlab
   <4> QED BY <2>0, <2>1, <2>2, <3>1, <4>1 DEF SlabSound
  <3> QED BY <2>0, <3>1 DEF SlabExact, SlabSound
 <2> QED BY <2>0, <2>3, <2>4, <2>5 DEF ExecutorSafe
<1> QED BY <1>1, ExecutorInductive, PTL

-----------------------------------------------------------------------------
(* The executor implements TaskService, step by step. *)

Live == {t \in Tasks : fut[t] \in {"slot", "polled"}}
Woken == {t \in Tasks : due[t] /\ fut[t] \in {"slot", "polled"}}

\* A step that only moves the loop's program counter enters, leaves, or does
\* not show.
LEMMA OnlyTheLoopMoves ==
    ASSUME ExecutorInv, UNCHANGED <<fut, due>>, lp'.cur = lp.cur,
           lp.pc # "task" \/ Entered'
    PROVE  [Service!TaskServiceNext]_(Service!serviceVars)
<1>1. lp.pc # "task" => lp.cur = NoTask BY DEF ExecutorInv, LoopSound
<1>2. lp.pc = "task" => Entered BY DEF Entered
<1>3. Entered \in BOOLEAN /\ Entered' \in BOOLEAN BY DEF Entered
<1>4. CASE Entered' = Entered BY <1>4 DEF Service!serviceVars
<1>5. CASE Entered' = ~Entered
 <2>1. lp.cur = NoTask BY <1>1, <1>2, <1>3, <1>5
 <2>2. Service!Serve BY <1>5, <2>1 DEF Service!Serve
 <2> QED BY <2>2 DEF Service!TaskServiceNext
<1> QED BY <1>3, <1>4, <1>5

\* A wake shows when the task is live.
LEMMA AWakeShows ==
    ASSUME NEW t \in Tasks, due \in [Tasks -> BOOLEAN], due' = [due EXCEPT ![t] = TRUE],
           UNCHANGED fut, lp'.cur = lp.cur, Entered' = Entered
    PROVE  [Service!TaskServiceNext]_(Service!serviceVars)
<1>1. Live' = Live BY DEF Live
<1>2. CASE t \in Live
 <2>1. Woken' = Woken \cup {t} BY <1>2 DEF Live, Woken
 <2>2. Service!Wake(t) BY <1>1, <1>2, <2>1 DEF Live, Woken, Service!Wake
 <2> QED BY <2>2 DEF Service!TaskServiceNext
<1>3. CASE t \notin Live
 <2>1. Woken' = Woken BY <1>3 DEF Live, Woken
 <2> QED BY <1>1, <2>1 DEF Live, Woken, Service!serviceVars
<1> QED BY <1>2, <1>3

LEMMA ServiceInitially == ExecutorInit => Service!TaskServiceInit
  BY DEF ExecutorInit, Service!TaskServiceInit, Entered

\* Each step of the executor is a step of the service, or changes nothing that
\* the service speaks of.
LEMMA ServiceStep ==
    ASSUME ExecutorInv, [ExecutorNext]_execVars
    PROVE  [Service!TaskServiceNext]_(Service!serviceVars)
<1> DEFINE goal == [Service!TaskServiceNext]_(Service!serviceVars)
<1>0. /\ ExecutorTypeOK /\ LoopSound /\ SlabSound
      /\ due \in [Tasks -> BOOLEAN] /\ lp \in LoopType /\ NoTask \notin Tasks
  BY DEF ExecutorInv, ExecutorTypeOK
<1>c. /\ \A t \in Tasks : fut[t] = "polled" <=> lp.cur = t
      /\ lp.pc = "task" <=> lp.cur # NoTask
      /\ lp.cur \in Tasks \cup {NoTask}
  BY <1>0 DEF LoopSound, LoopType
<1>1. ASSUME \/ drive \/ take_ready \/ root_done(FALSE) \/ root_done(TRUE)
             \/ check_deadline(FALSE) \/ check_deadline(TRUE) \/ take_next_task
             \/ drain_remote \/ drain_local
      PROVE  goal
 <2>1. UNCHANGED <<fut, due>> /\ lp'.cur = lp.cur /\ lp.pc # "task"
   BY <1>0, <1>1 DEF LoopType, drive, take_ready, root_done, check_deadline, take_next_task,
     drain_remote, drain_local
 <2> QED BY <2>1, OnlyTheLoopMoves
<1>2. ASSUME \/ end_batch \/ announce_wait \/ recheck \/ wait_interrupted \/ wait_expired
             \/ stop_waiting \/ stop_pending \/ poll_once \/ embed_enter
      PROVE  goal
 <2>1. UNCHANGED <<fut, due>> /\ lp'.cur = lp.cur /\ lp.pc # "task"
   BY <1>0, <1>2 DEF LoopType, end_batch, announce_wait, recheck, wait_interrupted, wait_expired,
     stop_waiting, stop_pending, poll_once, embed_enter
 <2> QED BY <2>1, OnlyTheLoopMoves
<1>3. CASE poll_task
 <2>0. Head(lp.batch) \in Tasks /\ lp.pc = "batch" /\ lp.cur = NoTask
   BY <1>0, <1>3, <1>c DEF poll_task, LoopType
 <2>1. PICK t \in Tasks : t = Head(lp.batch) /\ lp.pc = "batch" /\ lp.cur = NoTask BY <2>0
 <2>2. CASE fut[t] = "slot"
  <3>1. /\ fut' = [fut EXCEPT ![t] = "polled"] /\ due' = [due EXCEPT ![t] = FALSE]
        /\ lp'.cur = t /\ lp'.pc = "task"
    BY <1>0, <1>3, <2>1, <2>2 DEF poll_task, LoopType
  <3>2. Live' = Live /\ Woken' = Woken \ {t} /\ t \in Live
    BY <1>0, <2>1, <2>2, <3>1 DEF Live, Woken, ExecutorTypeOK
  <3>3. Entered /\ Entered' BY <2>1, <3>1 DEF Entered
  <3>4. Service!Poll(t) BY <2>1, <3>1, <3>2, <3>3 DEF Service!Poll, Live, Woken
  <3> QED BY <3>4 DEF Service!TaskServiceNext
 <2>3. CASE fut[t] # "slot"
  <3>1. UNCHANGED <<fut, due>> /\ lp'.cur = lp.cur
    BY <1>0, <1>3, <2>1, <2>3 DEF poll_task, LoopType
  <3> QED BY <2>1, <3>1, OnlyTheLoopMoves
 <2> QED BY <2>2, <2>3
<1>4. CASE poll_pending
 <2>1. /\ lp.pc = "task" /\ lp'.pc = "batch" /\ lp'.cur = NoTask
       /\ fut' = [fut EXCEPT ![lp.cur] = "slot"] /\ due' = due
   BY <1>0, <1>4 DEF poll_pending, LoopType
 <2>2. lp.cur \in Tasks /\ fut[lp.cur] = "polled" BY <1>c, <2>1
 <2>3. Live' = Live /\ Woken' = Woken /\ lp.cur \in Live
   BY <1>0, <2>1, <2>2 DEF Live, Woken, ExecutorTypeOK
 <2>4. Entered /\ Entered' BY <2>1 DEF Entered
 <2>5. Service!Suspend BY <2>1, <2>3, <2>4 DEF Service!Suspend, Live, Woken
 <2> QED BY <2>5 DEF Service!TaskServiceNext
<1>5. CASE poll_ready
  <2> DEFINE wakes == ~join[lp.cur].canceled /\ join[lp.cur].waker # NoTask
             x == join[lp.cur].waker
 <2>1. /\ lp.pc = "task" /\ lp'.pc = "batch" /\ lp'.cur = NoTask
       /\ fut' = [fut EXCEPT ![lp.cur] = "gone"]
       /\ due' = IF wakes THEN [due EXCEPT ![x] = TRUE] ELSE due
   BY <1>0, <1>5 DEF poll_ready, LoopType, enqueue_if_needed
 <2>2. lp.cur \in Tasks /\ fut[lp.cur] = "polled" BY <1>c, <2>1
 <2>x. wakes => x \in Tasks BY <1>0, <2>2 DEF ExecutorTypeOK, JoinType
 <2> HIDE DEF wakes, x
 <2>3. Live' = Live \ {lp.cur} /\ lp.cur \in Live BY <1>0, <2>1, <2>2 DEF Live, ExecutorTypeOK
 <2>4. Woken' = (Woken \ {lp.cur}) \cup (IF wakes THEN {x} \cap Live' ELSE {})
  <3>1. CASE wakes BY <1>0, <2>1, <2>2, <2>x, <3>1 DEF Live, Woken, ExecutorTypeOK
  <3>2. CASE ~wakes BY <1>0, <2>1, <2>2, <3>2 DEF Live, Woken, ExecutorTypeOK
  <3> QED BY <3>1, <3>2
 <2>5. \E joiners \in SUBSET Live' : Woken' = (Woken \ {lp.cur}) \cup joiners
   <3> DEFINE j == IF wakes THEN {x} \cap Live' ELSE {}
  <3>1. j \in SUBSET Live' OBVIOUS
  <3> QED BY <2>4, <3>1
 <2>6. Entered /\ Entered' BY <2>1 DEF Entered
 <2>7. Service!Complete BY <2>1, <2>3, <2>5, <2>6 DEF Service!Complete, Live, Woken
 <2> QED BY <2>7 DEF Service!TaskServiceNext
<1>6. ASSUME NEW t \in Tasks, NEW k \in Tokens, spawn(t, k) PROVE goal
 <2>1. /\ Live' = Live \cup {t} /\ Woken' = Woken \cup {t} /\ t \notin Live
       /\ Entered' = Entered /\ lp'.cur = lp.cur
   BY <1>0, <1>6 DEF spawn, OnLoop, Entered, Live, Woken, ExecutorTypeOK
 <2>2. Service!Spawn(t) BY <2>1 DEF Service!Spawn, Live, Woken
 <2> QED BY <2>2 DEF Service!TaskServiceNext
<1>7. ASSUME NEW t \in Tasks, wake_task(t) \/ wait_completion(t) \/ embed_completion(t) PROVE goal
 <2>1. due' = [due EXCEPT ![t] = TRUE] /\ fut' = fut /\ lp'.cur = lp.cur
   BY <1>0, <1>7 DEF wake_task, wait_completion, embed_completion, enqueue_if_needed, LoopType
 <2>2. Entered' = Entered
   BY <1>0, <1>7 DEF wake_task, wait_completion, embed_completion, Entered, LoopType
 <2> QED BY <1>0, <2>1, <2>2, AWakeShows
<1>8. ASSUME NEW t \in Tasks, cancel_task(t) PROVE goal
 <2>1. /\ fut' = [fut EXCEPT ![t] = IF @ = "slot" THEN "gone" ELSE @]
       /\ due' = IF InSlab(t) THEN [due EXCEPT ![t] = TRUE] ELSE due
       /\ lp' = lp /\ Entered' = Entered
   BY <1>8 DEF cancel_task, Unslot, enqueue_if_needed, OnLoop, Entered
 <2>2. CASE fut[t] = "slot"
  <3>1. Live' = Live \ {t} /\ Woken' = Woken \ {t} /\ t \in Live /\ t # lp.cur
    BY <1>0, <1>c, <2>1, <2>2 DEF Live, Woken, ExecutorTypeOK
  <3>2. Service!Cancel(t) BY <2>1, <3>1 DEF Service!Cancel, Live, Woken
  <3> QED BY <3>2 DEF Service!TaskServiceNext
 <2>3. CASE fut[t] # "slot"
  <3>1. fut' = fut BY <1>0, <2>1, <2>3 DEF ExecutorTypeOK
  <3>2. CASE InSlab(t) BY <1>0, <2>1, <3>1, <3>2, AWakeShows
  <3>3. CASE ~InSlab(t) BY <2>1, <3>1, <3>3 DEF Service!serviceVars
  <3> QED BY <3>2, <3>3
 <2> QED BY <2>2, <2>3
<1>9. ASSUME NEW t \in Tasks, join_task(t) PROVE goal
  BY <1>9 DEF join_task, Service!serviceVars, Entered
<1>10. CASE drop_runtime
 <2>1. /\ lp.pc = "outside" /\ lp'.pc = "dropped" /\ lp'.cur = lp.cur
       /\ fut' = [t \in Tasks |-> IF InSlab(t) THEN "gone" ELSE fut[t]]
   BY <1>0, <1>10 DEF drop_runtime, LoopType
 <2>2. Live' = {} /\ Woken' = {} BY <1>0, <2>1 DEF Live, Woken, SlabSound
 <2>3. ~Entered /\ Entered' = Entered BY <2>1 DEF Entered
 <2>4. Service!DropAll BY <2>1, <2>2, <2>3 DEF Service!DropAll, Live, Woken
 <2> QED BY <2>4 DEF Service!TaskServiceNext
<1>11. ASSUME NEW w \in Wakers, NEW t \in Tasks, remote_wake(w, t) PROVE goal
  BY <1>0, <1>11, AWakeShows DEF remote_wake, Entered
<1>12. ASSUME NEW w \in Wakers, WakerStep(w) \/ notify_root(w) PROVE goal
  BY <1>12 DEF WakerStep, remote_push, load_waiting, claim_interrupt, interrupt, notify_root,
    Service!serviceVars, Entered
<1>13. CASE UNCHANGED execVars BY <1>13 DEF execVars, Service!serviceVars, Entered
<1> QED BY <1>1, <1>2, <1>3, <1>4, <1>5, <1>6, <1>7, <1>8, <1>9, <1>10, <1>11, <1>12, <1>13 DEF
    ExecutorNext, LoopStep

\* The executor implements the safety part of TaskService (all but Served, which rests on
\* fairness): one task is polled at a time, no task is polled once it completed or was
\* canceled, and nothing but a poll, a completion or a cancel takes a wake away.
THEOREM ExecutorRefinesTaskService ==
    ExecutorSpec => Service!TaskServiceInit /\ [][Service!TaskServiceNext]_(Service!serviceVars)
  BY ServiceInitially, ServiceStep, ExecutorInductive, PTL DEF ExecutorSpec

-----------------------------------------------------------------------------
(* Sleep and Timeout: a handle is one Sleep's own, so that cancelling one    *)
(* registration through a slot that was reused strands no other.             *)

RegRecords == [deadline : 0..LastTime, gen : 1..Registrations, waker : Sleepers]
SleepRecords ==
  [phase : {"unborn", "new", "pending", "fired", "dropped"}, deadline : 0..LastTime,
   handle : [slot : TimerSlots \cup {NoReg}, gen : 0..Registrations],
   yield : {"off", "armed", "done"}, inner : {"none", "pending", "ready", "canceled"}]

\* What a registration record and a Sleep record are made of.
LEMMA SleepTypes ==
  ASSUME SleepsSafe
  PROVE  /\ clock \in 0..LastTime /\ lastGen \in 0..Registrations /\ roused \subseteq Sleepers
         /\ reg \in [TimerSlots -> RegRecords \cup {NoReg}] /\ sleep \in [Sleepers -> SleepRecords]
         /\ NoReg \notin RegRecords /\ NoReg \notin TimerSlots
         /\ LastTime \in Nat /\ Registrations \in Nat
  BY SleepsAssumption DEF SleepsSafe, SleepsTypeOK, RegRecords, SleepRecords

\* Releasing the handle of a Sleep takes out its registration, if it has one,
\* and no other.
LEMMA ReleaseOwn ==
  ASSUME SleepsSafe, NEW s \in Sleepers
  PROVE  /\ Without(reg, sleep[s].handle) \in [TimerSlots -> RegRecords \cup {NoReg}]
         /\ \A k \in TimerSlots : LET r == Without(reg, sleep[s].handle)[k] IN
              \/ r = NoReg /\ (reg[k] = NoReg \/ reg[k].waker = s)
              \/ r = reg[k] /\ reg[k] # NoReg /\ reg[k].waker # s
  <1> DEFINE h == sleep[s].handle
<1>1. /\ reg \in [TimerSlots -> RegRecords \cup {NoReg}] /\ sleep \in [Sleepers -> SleepRecords]
      /\ NoReg \notin RegRecords /\ NoReg \notin TimerSlots
  BY SleepTypes
<1>2. ASSUME NEW k \in TimerSlots, reg[k] # NoReg
      PROVE  /\ reg[k].waker \in Sleepers
             /\ sleep[reg[k].waker].handle = [slot |-> k, gen |-> reg[k].gen]
  BY <1>1, <1>2 DEF SleepsSafe, RegistrationsOwned, RegRecords
<1>3. h \in [slot : TimerSlots \cup {NoReg}, gen : 0..Registrations] BY <1>1 DEF SleepRecords
<1>4. CASE HandleValid(reg, h)
 <2>1. h.slot \in TimerSlots /\ reg[h.slot] # NoReg /\ reg[h.slot].gen = h.gen /\ h # NoHandle
   BY <1>3, <1>4 DEF HandleValid, NoHandle
 <2>2. reg[h.slot].waker = s
  <3>1. sleep[reg[h.slot].waker].handle = h /\ reg[h.slot].waker \in Sleepers
    BY <1>2, <1>3, <2>1
  <3>2. QED BY <2>1, <3>1, Zenon DEF SleepsSafe, HandlesOwn
 <2>3. ASSUME NEW k \in TimerSlots, reg[k] # NoReg, reg[k].waker = s PROVE k = h.slot
  <3>1. h = [slot |-> k, gen |-> reg[k].gen] BY <1>2, <2>3
  <3>2. QED BY <3>1
 <2>4. Without(reg, h) = [reg EXCEPT ![h.slot] = NoReg] BY <1>4 DEF Without
 <2>5. QED BY <1>1, <2>1, <2>2, <2>3, <2>4
<1>5. CASE ~HandleValid(reg, h)
 <2>1. Without(reg, h) = reg BY <1>5 DEF Without
 <2>2. ASSUME NEW k \in TimerSlots, reg[k] # NoReg PROVE reg[k].waker # s
  <3>1. SUFFICES ASSUME reg[k].waker = s PROVE FALSE OBVIOUS
  <3>2. h = [slot |-> k, gen |-> reg[k].gen] BY <1>2, <2>2, <3>1
  <3>3. QED BY <1>1, <1>5, <2>2, <3>2 DEF HandleValid, RegRecords
 <2>3. QED BY <1>1, <2>1, <2>2
<1>6. QED BY <1>4, <1>5

\* A Sleep that gives its registration up keeps every other one as it was.
LEMMA ReleaseStep ==
  ASSUME SleepsSafe, NEW s \in Sleepers, NEW z \in SleepRecords,
         reg' = Without(reg, sleep[s].handle), sleep' = [sleep EXCEPT ![s] = z],
         z.handle = NoHandle, z.phase = "pending" => s \in roused',
         z.phase = "fired" \/ z.inner = "canceled" => z.deadline <= clock,
         roused' = roused \cup {s} \/ roused' = roused \ {s},
         UNCHANGED <<clock, lastGen>>
  PROVE  SleepsSafe'
<1>1. /\ clock \in 0..LastTime /\ lastGen \in 0..Registrations /\ roused \subseteq Sleepers
      /\ reg \in [TimerSlots -> RegRecords \cup {NoReg}] /\ sleep \in [Sleepers -> SleepRecords]
      /\ NoReg \notin RegRecords /\ NoReg \notin TimerSlots
  BY SleepTypes
<1>2. /\ reg' \in [TimerSlots -> RegRecords \cup {NoReg}]
      /\ \A k \in TimerSlots : \/ reg'[k] = NoReg /\ (reg[k] = NoReg \/ reg[k].waker = s)
                               \/ reg'[k] = reg[k] /\ reg[k] # NoReg /\ reg[k].waker # s
  BY ReleaseOwn
<1>3. sleep' \in [Sleepers -> SleepRecords] /\ sleep'[s] = z BY <1>1
<1>4. \A t \in Sleepers : t # s => sleep'[t] = sleep[t] BY <1>1
<1>5. SleepsTypeOK' BY <1>1, <1>2, <1>3 DEF SleepsTypeOK, RegRecords, SleepRecords
<1>6. RegistrationsOwned' BY <1>1, <1>2, <1>4 DEF SleepsSafe, RegistrationsOwned, RegRecords
<1>7. HandlesOwn' BY <1>1, <1>3, <1>4 DEF SleepsSafe, HandlesOwn
<1>8. NoSleeperStranded' BY <1>1, <1>2, <1>3, <1>4 DEF SleepsSafe, NoSleeperStranded
<1>9. NeverEarly' BY <1>1, <1>3, <1>4 DEF SleepsSafe, NeverEarly
<1>10. QED BY <1>5, <1>6, <1>7, <1>8, <1>9 DEF SleepsSafe

\* A Sleep whose handle is retired, or that has none, is in no registration.
LEMMA SubmitStep ==
  ASSUME SleepsSafe, NEW s \in Sleepers, ~HandleValid(reg, sleep[s].handle),
         sleep[s].phase \in {"new", "pending"}, sleep[s].deadline > clock,
         submit(reg, s, sleep[s]), roused' = roused \ {s}, UNCHANGED clock
  PROVE  SleepsSafe'
<1>1. /\ clock \in 0..LastTime /\ lastGen \in 0..Registrations /\ roused \subseteq Sleepers
      /\ reg \in [TimerSlots -> RegRecords \cup {NoReg}] /\ sleep \in [Sleepers -> SleepRecords]
      /\ NoReg \notin RegRecords /\ NoReg \notin TimerSlots
      /\ LastTime \in Nat /\ Registrations \in Nat
  BY SleepTypes
<1>2. \A k \in TimerSlots : reg[k] # NoReg => reg[k].waker # s /\ reg[k].waker \in Sleepers
 <2>1. Without(reg, sleep[s].handle) = reg BY DEF Without
 <2>2. QED BY <2>1, ReleaseOwn, <1>1 DEF RegRecords
<1>3. PICK k \in TimerSlots :
        /\ reg[k] = NoReg
        /\ reg' = [reg EXCEPT ![k] = [deadline |-> sleep[s].deadline, gen |-> lastGen + 1,
                                      waker |-> s]]
        /\ sleep' = [sleep EXCEPT ![s] =
             [sleep[s] EXCEPT !.phase = "pending", !.handle = [slot |-> k, gen |-> lastGen + 1]]]
  BY DEF submit
<1>4. /\ lastGen' = lastGen + 1 /\ lastGen < Registrations
      /\ lastGen + 1 \in 1..Registrations /\ lastGen + 1 > lastGen /\ lastGen \in Nat
  BY <1>1 DEF submit
<1>5. /\ reg' \in [TimerSlots -> RegRecords \cup {NoReg}]
      /\ reg'[k] = [deadline |-> sleep[s].deadline, gen |-> lastGen + 1, waker |-> s]
      /\ \A j \in TimerSlots : j # k => reg'[j] = reg[j]
      /\ reg'[k] # NoReg
  BY <1>1, <1>3, <1>4 DEF RegRecords, SleepRecords
<1>6. /\ sleep' \in [Sleepers -> SleepRecords]
      /\ \A t \in Sleepers : t # s => sleep'[t] = sleep[t]
      /\ sleep'[s].phase = "pending" /\ sleep'[s].deadline = sleep[s].deadline
      /\ sleep'[s].handle = [slot |-> k, gen |-> lastGen + 1]
      /\ sleep'[s].inner = sleep[s].inner
  <2> DEFINE h == [slot |-> k, gen |-> lastGen + 1]
             z == [sleep[s] EXCEPT !.phase = "pending", !.handle = h]
 <2>1. h \in [slot : TimerSlots \cup {NoReg}, gen : 0..Registrations] BY <1>1, <1>4
 <2>2. sleep' = [sleep EXCEPT ![s] = z] BY <1>3
 <2> HIDE DEF h
 <2>3. sleep[s] \in SleepRecords BY <1>1
 <2>4. /\ z.phase = "pending" /\ z.deadline = sleep[s].deadline
       /\ z.handle = h /\ z.inner = sleep[s].inner
   BY <2>3 DEF SleepRecords
 <2>5. z \in SleepRecords BY <2>1, <2>3 DEF SleepRecords
 <2> HIDE DEF z
 <2>6. QED BY <1>1, <2>2, <2>4, <2>5 DEF h
<1>7. SleepsTypeOK'
 <2>1. lastGen' \in 0..Registrations /\ clock' \in 0..LastTime BY <1>1, <1>4
 <2>2. QED BY <1>1, <2>1, <1>5, <1>6 DEF SleepsTypeOK, RegRecords, SleepRecords
<1>8. RegistrationsOwned'
 <2>1. ASSUME NEW j \in TimerSlots, j # k, reg'[j] # NoReg
       PROVE  /\ sleep'[reg'[j].waker].phase = "pending"
              /\ sleep'[reg'[j].waker].deadline = reg'[j].deadline
              /\ sleep'[reg'[j].waker].handle = [slot |-> j, gen |-> reg'[j].gen]
   BY <1>2, <1>5, <1>6, <2>1 DEF SleepsSafe, RegistrationsOwned
 <2>2. reg'[k].waker = s /\ reg'[k].deadline = sleep'[s].deadline /\ reg'[k].gen = lastGen + 1
   BY <1>5, <1>6
 <2>3. QED BY <2>1, <2>2, <1>6 DEF RegistrationsOwned
<1>9. HandlesOwn'
 <2>1. \A t \in Sleepers : sleep[t].handle # NoHandle => sleep[t].handle.gen \in 1..lastGen
   BY DEF SleepsSafe, HandlesOwn
 <2>2. \A t \in Sleepers : t # s => sleep'[t].handle # sleep'[s].handle
  <3>1. SUFFICES ASSUME NEW t \in Sleepers, t # s, sleep'[t].handle = sleep'[s].handle
                 PROVE  FALSE
        OBVIOUS
  <3>2. sleep[t].handle.slot = k /\ sleep[t].handle.gen = lastGen + 1 BY <1>6, <3>1
  <3>3. sleep[t].handle # NoHandle BY <3>2, <1>1 DEF NoHandle
  <3>4. QED BY <2>1, <3>1, <3>2, <3>3, <1>4
 <2>3. \A t \in Sleepers : sleep'[t].handle # NoHandle =>
          /\ sleep'[t].phase = "pending" /\ sleep'[t].handle.slot \in TimerSlots
          /\ sleep'[t].handle.gen \in 1..(lastGen + 1)
  <3>1. TAKE t \in Sleepers
  <3>2. CASE t = s BY <1>4, <1>6, <3>2
  <3>3. CASE t # s
   <4>1. sleep'[t] = sleep[t] BY <1>6, <3>3
   <4>2. \A g \in 1..lastGen : g \in 1..(lastGen + 1) BY <1>4
   <4>3. QED BY <4>1, <4>2 DEF SleepsSafe, HandlesOwn
  <3>4. QED BY <3>2, <3>3
 <2>4. ASSUME NEW t \in Sleepers, NEW u \in Sleepers,
              sleep'[t].handle # NoHandle, sleep'[t].handle = sleep'[u].handle
       PROVE  t = u
   BY <2>2, <2>4, <1>6 DEF SleepsSafe, HandlesOwn
 <2>5. QED BY <2>3, <2>4, <1>4 DEF HandlesOwn
<1>10. NoSleeperStranded'
 <2>1. ASSUME NEW t \in Sleepers, sleep'[t].phase = "pending", t \notin roused'
       PROVE  \E j \in TimerSlots : /\ reg'[j] # NoReg /\ reg'[j].waker = t
                                    /\ reg'[j].deadline = sleep'[t].deadline
  <3>1. CASE t = s BY <3>1, <1>5, <1>6
  <3>2. CASE t # s
   <4>1. PICK j \in TimerSlots : /\ reg[j] # NoReg /\ reg[j].waker = t
                                 /\ reg[j].deadline = sleep[t].deadline
     BY <2>1, <3>2, <1>6 DEF SleepsSafe, NoSleeperStranded
   <4>2. QED BY <4>1, <3>2, <1>3, <1>5, <1>6
  <3>3. QED BY <3>1, <3>2
 <2>2. QED BY <2>1 DEF NoSleeperStranded
<1>11. NeverEarly'
 <2>1. sleep[s].inner # "canceled" BY <1>1 DEF SleepsSafe, NeverEarly, SleepRecords
 <2>2. QED BY <2>1, <1>1, <1>6 DEF SleepsSafe, NeverEarly
<1>12. QED BY <1>7, <1>8, <1>9, <1>10, <1>11 DEF SleepsSafe

\* A poll that leaves the Sleep pending puts the waker into its registration.
LEMMA UpdateWakerStep ==
  ASSUME SleepsSafe, NEW s \in Sleepers, HandleValid(reg, sleep[s].handle),
         reg' = [reg EXCEPT ![sleep[s].handle.slot].waker = s],
         roused' = roused \ {s}, UNCHANGED <<clock, lastGen, sleep>>
  PROVE  SleepsSafe'
  <1> DEFINE k == sleep[s].handle.slot
<1>1. /\ clock \in 0..LastTime /\ lastGen \in 0..Registrations /\ roused \subseteq Sleepers
      /\ reg \in [TimerSlots -> RegRecords \cup {NoReg}] /\ sleep \in [Sleepers -> SleepRecords]
      /\ NoReg \notin RegRecords /\ NoReg \notin TimerSlots
  BY SleepTypes
<1>2. k \in TimerSlots /\ reg[k] # NoReg /\ reg[k] \in RegRecords
  BY <1>1 DEF HandleValid, SleepRecords
<1>3. reg[k].waker = s
 <2>1. Without(reg, sleep[s].handle)[k] = NoReg BY <1>1, <1>2, Zenon DEF Without
 <2>2. QED BY <2>1, <1>2, ReleaseOwn
<1>4. reg' = reg BY <1>1, <1>2, <1>3 DEF RegRecords
<1>5. \E j \in TimerSlots :
        reg[j] # NoReg /\ reg[j].waker = s /\ reg[j].deadline = sleep[s].deadline
  BY <1>2, <1>3 DEF SleepsSafe, RegistrationsOwned
<1>6. SleepsTypeOK' /\ RegistrationsOwned' /\ HandlesOwn' /\ NeverEarly'
 <2>1. SleepsTypeOK' BY <1>4 DEF SleepsSafe, SleepsTypeOK
 <2>2. RegistrationsOwned' BY <1>4 DEF SleepsSafe, RegistrationsOwned
 <2>3. HandlesOwn' /\ NeverEarly' BY DEF SleepsSafe, HandlesOwn, NeverEarly
 <2>4. QED BY <2>1, <2>2, <2>3
<1>7. NoSleeperStranded'
 <2>1. SUFFICES ASSUME NEW t \in Sleepers, sleep'[t].phase = "pending", t \notin roused'
                PROVE  \E j \in TimerSlots : /\ reg'[j] # NoReg /\ reg'[j].waker = t
                                             /\ reg'[j].deadline = sleep'[t].deadline
   BY DEF NoSleeperStranded
 <2>2. sleep'[t] = sleep[t] /\ (t # s => t \notin roused) BY <2>1
 <2>3. PICK j \in TimerSlots :
         reg[j] # NoReg /\ reg[j].waker = t /\ reg[j].deadline = sleep[t].deadline
   BY <1>5, <2>1, <2>2 DEF SleepsSafe, NoSleeperStranded
 <2>4. QED BY <1>4, <2>2, <2>3
<1>8. QED BY <1>6, <1>7 DEF SleepsSafe

\* Sleep::poll keeps the invariant, whether it registers, fires or stays.
LEMMA PollSleepStep ==
  ASSUME SleepsSafe, NEW s \in Sleepers, poll_sleep(s)
  PROVE  SleepsSafe'
<1>1. /\ clock \in 0..LastTime /\ sleep[s] \in SleepRecords
      /\ reg \in [TimerSlots -> RegRecords \cup {NoReg}]
      /\ NoReg \notin RegRecords /\ NoReg \notin TimerSlots /\ LastTime \in Nat
  BY SleepTypes
<1>2. NoHandle \in [slot : TimerSlots \cup {NoReg}, gen : 0..Registrations]
  BY SleepsAssumption DEF NoHandle
<1>3. CASE poll_unregistered(s)
 <2>1. ~HandleValid(reg, sleep[s].handle) /\ Without(reg, sleep[s].handle) = reg
   BY <1>3 DEF poll_unregistered, HandleValid, NoHandle, Without
 <2>2. CASE ~Expired(sleep[s].deadline)
  <3>1. sleep[s].deadline > clock BY <1>1, <2>2 DEF Expired, SleepRecords
  <3>2. QED BY <1>3, <2>1, <2>2, <3>1, SubmitStep DEF poll_unregistered, poll_sleep
 <2>3. CASE Expired(sleep[s].deadline)
   <3> DEFINE z == IF sleep[s].yield = "armed"
                   THEN [sleep[s] EXCEPT !.yield = "done", !.phase = "pending"]
                   ELSE [sleep[s] EXCEPT !.phase = "fired",
                           !.inner = IF @ = "pending" THEN "canceled" ELSE @]
  <3>1. /\ sleep' = [sleep EXCEPT ![s] = z] /\ roused' = roused \cup {s}
        /\ reg' = Without(reg, sleep[s].handle) /\ UNCHANGED <<clock, lastGen>>
    BY <1>3, <2>1, <2>3 DEF poll_unregistered, poll_sleep, timerVars
  <3>2. z \in SleepRecords /\ z.handle = NoHandle /\ z.deadline <= clock
    BY <1>1, <1>3, <2>3 DEF poll_unregistered, Expired, SleepRecords
  <3> HIDE DEF z
  <3>3. QED BY <3>1, <3>2, ReleaseStep
 <2>4. QED BY <2>2, <2>3
<1>4. CASE poll_registered(s)
 <2>1. CASE clock >= sleep[s].deadline
   <3> DEFINE z == [sleep[s] EXCEPT !.phase = "fired", !.handle = NoHandle,
                      !.inner = IF @ = "pending" THEN "canceled" ELSE @]
  <3>1. /\ sleep' = [sleep EXCEPT ![s] = z] /\ roused' = roused \ {s}
        /\ reg' = Without(reg, sleep[s].handle) /\ UNCHANGED <<clock, lastGen>>
    BY <1>4, <2>1 DEF poll_registered, poll_sleep
  <3>2. z \in SleepRecords /\ z.handle = NoHandle /\ z.phase = "fired" /\ z.deadline <= clock
    BY <1>1, <1>2, <2>1 DEF SleepRecords
  <3> HIDE DEF z
  <3>3. QED BY <3>1, <3>2, ReleaseStep
 <2>2. CASE ~(clock >= sleep[s].deadline) /\ HandleValid(reg, sleep[s].handle)
   BY <1>4, <2>2, UpdateWakerStep DEF poll_registered, poll_sleep
 <2>3. CASE ~(clock >= sleep[s].deadline) /\ ~HandleValid(reg, sleep[s].handle)
  <3>1. sleep[s].deadline > clock BY <1>1, <2>3 DEF SleepRecords
  <3>2. Without(reg, sleep[s].handle) = reg BY <2>3 DEF Without
  <3>3. /\ submit(reg, s, sleep[s]) /\ roused' = roused \ {s}
        /\ sleep[s].phase \in {"new", "pending"} /\ UNCHANGED clock
    BY <1>4, <2>3, <3>2 DEF poll_registered, poll_sleep
  <3>4. QED BY <2>3, <3>1, <3>3, SubmitStep, Zenon
 <2>4. QED BY <2>1, <2>2, <2>3
<1>5. QED BY <1>3, <1>4 DEF poll_sleep

\* A Sleep that is created or reset has no registration.
LEMMA NewSleepStep ==
  ASSUME SleepsSafe, NEW s \in Sleepers, NEW d \in 1..LastTime, NEW y \in {"off", "armed"},
         NEW i \in {"none", "pending"},
         Create(s, d, y, i) \/ reset_sleep(s, d)
  PROVE  SleepsSafe'
<1>1. /\ sleep \in [Sleepers -> SleepRecords] /\ d \in 0..LastTime /\ 0 \in 0..LastTime
      /\ reg \in [TimerSlots -> RegRecords \cup {NoReg}] /\ NoReg \notin TimerSlots
  BY SleepTypes
<1>2. NoHandle \in [slot : TimerSlots \cup {NoReg}, gen : 0..Registrations]
  BY SleepsAssumption DEF NoHandle
<1>3. CASE Create(s, d, y, i)
 <2>1. sleep[s].handle = NoHandle BY <1>3 DEF SleepsSafe, HandlesOwn, Create
 <2>2. Without(reg, sleep[s].handle) = reg BY <2>1 DEF Without, HandleValid, NoHandle
 <2>3. /\ NewSleep(d, y, i) \in SleepRecords /\ NewSleep(d, y, i).handle = NoHandle
       /\ NewSleep(d, y, i).phase = "new" /\ NewSleep(d, y, i).inner # "canceled"
   BY <1>1, <1>2 DEF NewSleep, SleepRecords
 <2>4. QED BY <1>3, <2>2, <2>3, ReleaseStep DEF Create, timerVars
<1>4. CASE reset_sleep(s, d)
  <2> DEFINE z == [sleep[s] EXCEPT !.phase = "new", !.deadline = d, !.handle = NoHandle,
                                   !.yield = IF @ = "done" THEN "armed" ELSE @]
 <2>1. sleep' = [sleep EXCEPT ![s] = z] BY <1>1, <1>4 DEF reset_sleep, SleepRecords
 <2>2. sleep[s] \in SleepRecords /\ sleep[s].inner = "none" BY <1>1, <1>4 DEF reset_sleep
 <2>3. z.handle = NoHandle /\ z.phase = "new" /\ z.inner = "none" BY <2>2 DEF SleepRecords
 <2>4. z \in SleepRecords BY <1>1, <1>2, <2>2 DEF SleepRecords
 <2> HIDE DEF z
 <2>5. QED BY <1>4, <2>1, <2>3, <2>4, ReleaseStep DEF reset_sleep, Released
<1>5. QED BY <1>3, <1>4

\* The future of a Timeout that becomes ready wakes its task.
LEMMA InnerReadyStep ==
  ASSUME SleepsSafe, NEW s \in Sleepers, InnerReady(s)
  PROVE  SleepsSafe'
<1>1. /\ sleep \in [Sleepers -> SleepRecords] /\ roused \subseteq Sleepers BY SleepTypes
<1>2. /\ sleep' \in [Sleepers -> SleepRecords]
      /\ \A t \in Sleepers : /\ sleep'[t].phase = sleep[t].phase
                             /\ sleep'[t].deadline = sleep[t].deadline
                             /\ sleep'[t].handle = sleep[t].handle
                             /\ sleep'[t].inner = "canceled" => sleep[t].inner = "canceled"
  BY <1>1 DEF InnerReady, SleepRecords
<1>3. reg' = reg /\ lastGen' = lastGen /\ clock' = clock /\ roused' = roused \cup {s}
  BY DEF InnerReady, timerVars
<1>4. SleepsTypeOK' BY <1>1, <1>2, <1>3 DEF SleepsSafe, SleepsTypeOK, SleepRecords
<1>5. RegistrationsOwned' BY <1>2, <1>3 DEF SleepsSafe, SleepsTypeOK, RegistrationsOwned
<1>6. HandlesOwn' /\ NoSleeperStranded' /\ NeverEarly'
  BY <1>2, <1>3 DEF SleepsSafe, HandlesOwn, NoSleeperStranded, NeverEarly
<1>7. QED BY <1>4, <1>5, <1>6 DEF SleepsSafe

\* The wakers the timer takes out are woken, so that nobody is stranded.
LEMMA SpinStep ==
  ASSUME SleepsSafe, spin_and_get_deadline
  PROVE  SleepsSafe'
  <1> DEFINE gone == {k \in TimerSlots : reg[k] # NoReg /\ Expired(reg[k].deadline)}
<1>1. /\ reg \in [TimerSlots -> RegRecords \cup {NoReg}] /\ sleep \in [Sleepers -> SleepRecords]
      /\ NoReg \notin RegRecords /\ roused \subseteq Sleepers
  BY SleepTypes
<1>2. /\ reg' = [k \in TimerSlots |-> IF k \in gone THEN NoReg ELSE reg[k]]
      /\ roused' = roused \cup {reg[k].waker : k \in gone}
      /\ clock' = clock /\ lastGen' = lastGen /\ sleep' = sleep
  BY DEF spin_and_get_deadline
<1>3. \A k \in gone : reg[k].waker \in Sleepers BY <1>1 DEF RegRecords
<1> HIDE DEF gone
<1>4. /\ reg' \in [TimerSlots -> RegRecords \cup {NoReg}]
      /\ \A k \in TimerSlots : reg'[k] = NoReg \/ reg'[k] = reg[k]
      /\ \A k \in TimerSlots : k \notin gone => reg'[k] = reg[k]
  BY <1>1, <1>2
<1>5. SleepsTypeOK' BY <1>2, <1>3, <1>4 DEF SleepsSafe, SleepsTypeOK, RegRecords
<1>6. RegistrationsOwned' BY <1>2, <1>4 DEF SleepsSafe, RegistrationsOwned
<1>7. NoSleeperStranded'
 <2>1. SUFFICES ASSUME NEW s \in Sleepers, sleep[s].phase = "pending", s \notin roused'
                PROVE  \E k \in TimerSlots : /\ reg'[k] # NoReg /\ reg'[k].waker = s
                                             /\ reg'[k].deadline = sleep[s].deadline
   BY <1>2 DEF NoSleeperStranded
 <2>2. PICK k \in TimerSlots :
         reg[k] # NoReg /\ reg[k].waker = s /\ reg[k].deadline = sleep[s].deadline
   BY <1>2, <2>1 DEF SleepsSafe, NoSleeperStranded
 <2>3. k \notin gone BY <1>2, <2>1, <2>2
 <2>4. QED BY <1>4, <2>2, <2>3
<1>8. HandlesOwn' /\ NeverEarly' BY <1>2 DEF SleepsSafe, HandlesOwn, NeverEarly
<1>9. QED BY <1>5, <1>6, <1>7, <1>8 DEF SleepsSafe

\* A later clock fires nothing by itself.
LEMMA ElapseStep ==
  ASSUME SleepsSafe, Elapse
  PROVE  SleepsSafe'
<1>1. /\ clock \in 0..LastTime /\ LastTime \in Nat /\ sleep \in [Sleepers -> SleepRecords]
  BY SleepTypes
<1>2. clock + 1 \in 0..LastTime /\ clock' = clock + 1 BY <1>1 DEF Elapse
<1>3. reg' = reg /\ lastGen' = lastGen /\ sleep' = sleep /\ roused' = roused
  BY DEF Elapse, timerVars
<1>4. SleepsTypeOK' BY <1>2, <1>3, Zenon DEF SleepsSafe, SleepsTypeOK
<1>5. RegistrationsOwned' /\ HandlesOwn' /\ NoSleeperStranded'
  BY <1>3 DEF SleepsSafe, RegistrationsOwned, HandlesOwn, NoSleeperStranded
<1>6. NeverEarly'
 <2>1. \A s \in Sleepers : sleep[s].deadline <= clock => sleep[s].deadline <= clock + 1
   BY <1>1 DEF SleepRecords
 <2>2. QED BY <1>2, <1>3, <2>1 DEF SleepsSafe, NeverEarly
<1>7. QED BY <1>4, <1>5, <1>6 DEF SleepsSafe

\* A Sleep and a Timeout get the deadline they asked for, from registrations
\* that are their own (vibeio/time/sleep.rs, timeout.rs over timer.rs).
THEOREM SleepsAreSafe == SleepsSpec => []SleepsSafe
<1>1. SleepsInit => SleepsSafe
 <2>1. SUFFICES ASSUME SleepsInit PROVE SleepsSafe OBVIOUS
 <2>2. /\ Unborn \in SleepRecords /\ Unborn.phase = "unborn" /\ Unborn.handle = NoHandle
       /\ Unborn.inner = "none"
  <3>1. Unborn = [phase |-> "unborn", deadline |-> 0, handle |-> NoHandle, yield |-> "off",
                  inner |-> "none"]
   <4>1. Dropped = [phase |-> "dropped", deadline |-> 0, handle |-> NoHandle,
                    yield |-> "off", inner |-> "none"]
     BY DEF Dropped, NewSleep
   <4>2. QED BY <4>1 DEF Unborn
  <3>2. NoHandle \in [slot : TimerSlots \cup {NoReg}, gen : 0..Registrations]
    BY SleepsAssumption DEF NoHandle
  <3>3. 0 \in 0..LastTime BY SleepsAssumption
  <3>4. QED BY <3>1, <3>2, <3>3 DEF SleepRecords
 <2>3. SleepsTypeOK
  <3>1. sleep \in [Sleepers -> SleepRecords] BY <2>1, <2>2 DEF SleepsInit
  <3>2. clock \in 0..LastTime /\ lastGen \in 0..Registrations /\ roused \subseteq Sleepers
    BY <2>1, SleepsAssumption DEF SleepsInit
  <3>3. QED BY <2>1, <3>1, <3>2 DEF SleepsInit, SleepsTypeOK, SleepRecords
 <2>4. \A s \in Sleepers : sleep[s] = Unborn BY <2>1 DEF SleepsInit
 <2>5. RegistrationsOwned /\ HandlesOwn /\ NoSleeperStranded /\ NeverEarly
   BY <2>1, <2>2, <2>4 DEF SleepsInit, RegistrationsOwned, HandlesOwn, NoSleeperStranded,
     NeverEarly
 <2>6. QED BY <2>3, <2>5 DEF SleepsSafe
<1>2. SleepsSafe /\ [SleepsNext]_sleepVars => SleepsSafe'
 <2>1. SUFFICES ASSUME SleepsSafe, [SleepsNext]_sleepVars PROVE SleepsSafe' OBVIOUS
 <2>2. ASSUME NEW s \in Sleepers, poll_sleep(s) PROVE SleepsSafe' BY <2>1, <2>2, PollSleepStep
 <2>3. ASSUME NEW s \in Sleepers, poll_timeout_ready(s) \/ drop_sleep(s) PROVE SleepsSafe'
  <3>1. /\ Dropped \in SleepRecords /\ Dropped.handle = NoHandle
        /\ Dropped.phase = "dropped" /\ Dropped.inner = "none"
    BY SleepsAssumption DEF Dropped, NewSleep, NoHandle, SleepRecords
  <3>2. QED BY <2>1, <2>3, <3>1, ReleaseStep DEF drop_sleep, poll_timeout_ready, Released
 <2>4. ASSUME NEW s \in Sleepers, InnerReady(s) PROVE SleepsSafe' BY <2>1, <2>4, InnerReadyStep
 <2>5. ASSUME NEW s \in Sleepers, NEW d \in 1..LastTime, NEW y \in {"off", "armed"},
              NEW i \in {"none", "pending"}, reset_sleep(s, d) \/ Create(s, d, y, i)
       PROVE  SleepsSafe'
   BY <2>1, <2>5, NewSleepStep
 <2>6. CASE spin_and_get_deadline BY <2>1, <2>6, SpinStep
 <2>7. CASE Elapse BY <2>1, <2>7, ElapseStep
 <2>8. CASE UNCHANGED sleepVars
   BY <2>1, <2>8 DEF sleepVars, SleepsSafe, SleepsTypeOK, RegistrationsOwned, HandlesOwn,
     NoSleeperStranded, NeverEarly
 <2>9. QED BY <2>1, <2>2, <2>3, <2>4, <2>5, <2>6, <2>7, <2>8 DEF SleepsNext
<1>3. QED BY <1>1, <1>2, PTL DEF SleepsSpec

-----------------------------------------------------------------------------
(* Interval: the bisection of saturating_deadline ends at the platform's     *)
(* last instant, and no tick leaves the cadence of the first.                *)

\* A division with remainder, and what a multiple leaves.
LEMMA Remainder ==
  ASSUME NEW n \in Nat, NEW p \in Nat, p > 0
  PROVE  /\ n \div p \in Nat /\ n % p \in 0..(p - 1)
         /\ (n \div p) * p \in Nat /\ n = (n \div p) * p + (n % p)
  OBVIOUS

LEMMA MultipleRemainder ==
  ASSUME NEW k \in Int, NEW p \in Nat, p > 0
  PROVE  (k * p) % p = 0
  OBVIOUS

LEMMA CadenceStep ==
  ASSUME NEW x \in Int, NEW p \in Nat, p > 0, x % p = 0, NEW q \in Int
  PROVE  (x + q * p) % p = 0
<1>1. x = (x \div p) * p /\ x \div p \in Int OBVIOUS
<1>2. x + q * p = ((x \div p) + q) * p BY <1>1
<1>3. QED BY <1>1, <1>2, MultipleRemainder

\* The halves of the bisection are smaller than the range they are halves of.
LEMMA MiddleBetween ==
  ASSUME NEW low \in Int, NEW high \in Int, low < high
  PROVE  Middle(low, high) \in (low + 1)..high
<1>1. high - low + 1 \in Nat /\ high - low + 1 >= 2 OBVIOUS
<1>2. /\ (high - low + 1) \div 2 \in Nat /\ 1 <= (high - low + 1) \div 2
      /\ (high - low + 1) \div 2 <= high - low
  BY <1>1
<1>3. QED BY <1>1, <1>2 DEF Middle

\* The bisection finds the largest addition that fits, whatever it starts from:
\* the recursive function exists (its closed form satisfies the equation), and
\* there is no least range on which it would miss.
LEMMA BisectionFindsEdge ==
  ASSUME NEW base \in 0..MaxInstant, NEW d \in Nat, ~Fits(base, d)
  PROVE  saturating_deadline(base, d) = MaxInstant
  <1> DEFINE Ranges == [low : 0..d, high : -1..d]
             Half(r) == IF Fits(base, Middle(r.low, r.high))
                        THEN [low |-> Middle(r.low, r.high), high |-> r.high]
                        ELSE [low |-> r.low, high |-> Upper(Middle(r.low, r.high))]
             search == CHOOSE f : f = [r \in Ranges |-> IF r.low >= r.high THEN r.low ELSE f[Half(r)]]
             e == MaxInstant - base
             g == [r \in Ranges |-> IF r.low >= r.high \/ r.low > e THEN r.low
                                    ELSE IF r.high <= e THEN r.high ELSE e]
<1>1. saturating_deadline(base, d) = base + search[[low |-> 0, high |-> d]]
  BY DEF saturating_deadline
<1>2. e \in 0..d /\ e < d BY IntervalsAssumption DEF Fits
<1>3. ASSUME NEW r \in Ranges, ~(r.low >= r.high)
      PROVE  /\ Half(r) \in Ranges
             /\ \/ Half(r).low \in (r.low + 1)..r.high /\ Half(r).high = r.high /\ Half(r).low <= e
                \/ Half(r).low = r.low /\ Half(r).high \in r.low..(r.high - 1) /\ Half(r).high >= e
  <2> DEFINE m == Middle(r.low, r.high)
 <2>1. m \in (r.low + 1)..r.high /\ Upper(m) = m - 1 BY <1>3, MiddleBetween DEF Upper
 <2>2. Fits(base, m) <=> m <= e BY <2>1, IntervalsAssumption DEF Fits
 <2> HIDE DEF m
 <2>3. Half(r) = IF Fits(base, m) THEN [low |-> m, high |-> r.high]
                 ELSE [low |-> r.low, high |-> Upper(m)]
   BY DEF m
 <2> HIDE DEF Half, e
 <2>4. m \in 0..d /\ r.low \in 0..d /\ r.high \in -1..d BY <2>1, <1>3
 <2> QED BY <1>2, <1>3, <2>1, <2>2, <2>3, <2>4
<1> HIDE DEF Half, e
<1>4. ASSUME NEW r \in Ranges PROVE g[r] = IF r.low >= r.high THEN r.low ELSE g[Half(r)]
 <2>1. CASE r.low >= r.high BY <2>1
 <2>2. CASE ~(r.low >= r.high)
  <3>1. g[Half(r)] = IF Half(r).low >= Half(r).high \/ Half(r).low > e THEN Half(r).low
                     ELSE IF Half(r).high <= e THEN Half(r).high ELSE e
    BY <1>3, <2>2
  <3> QED BY <1>2, <1>3, <2>2, <3>1
 <2> QED BY <2>1, <2>2
<1>5. g = [r \in Ranges |-> IF r.low >= r.high THEN r.low ELSE g[Half(r)]] BY <1>4
<1> HIDE DEF g
<1>6. search = [r \in Ranges |-> IF r.low >= r.high THEN r.low ELSE search[Half(r)]] BY <1>5
<1> HIDE DEF search
<1>7. ASSUME NEW r \in Ranges PROVE search[r] = IF r.low >= r.high THEN r.low ELSE search[Half(r)]
  BY <1>6
<1> DEFINE Bad == {n \in Nat : \E r \in Ranges :
                     n = r.high - r.low /\ r.low <= e /\ e <= r.high /\ search[r] # e}
<1>8. Bad = {}
 <2> SUFFICES ASSUME Bad # {} PROVE FALSE OBVIOUS
 <2>1. PICK n \in Bad : \A k \in Bad : n <= k BY LeastNat
 <2>0. n \in Nat BY <2>1
 <2>2. PICK r \in Ranges : n = r.high - r.low /\ r.low <= e /\ e <= r.high /\ search[r] # e
   BY <2>1
 <2>3. CASE r.low >= r.high
  <3>1. search[r] = r.low /\ r.low = e BY <1>2, <1>7, <2>2, <2>3
  <3> QED BY <3>1, <2>2
 <2>4. CASE ~(r.low >= r.high)
  <3>1. search[Half(r)] # e BY <1>7, <2>2, <2>4, Zenon
  <3>2. /\ Half(r) \in Ranges /\ Half(r).low <= e /\ e <= Half(r).high
        /\ Half(r).high - Half(r).low \in Nat /\ Half(r).high - Half(r).low < n
    BY <1>2, <1>3, <2>2, <2>4
  <3>3. Half(r).high - Half(r).low \in Bad BY <3>1, <3>2
  <3> HIDE DEF Bad
  <3> QED BY <2>0, <3>2, <3>3, <2>1
 <2> QED BY <2>3, <2>4
<1>9. search[[low |-> 0, high |-> d]] = e
  <2> DEFINE r == [low |-> 0, high |-> d]
 <2>1. r \in Ranges /\ r.low = 0 /\ r.high = d /\ r.high - r.low \in Nat OBVIOUS
 <2> HIDE DEF r
 <2>2. search[r] = e BY <2>1, <1>2, <1>8
 <2> QED BY <2>2 DEF r
<1> QED BY <1>1, <1>9, IntervalsAssumption DEF e

\* deadline_after is addition that stops at the last instant.
LEMMA DeadlineAfter ==
  ASSUME NEW base \in 0..MaxInstant, NEW d \in Nat
  PROVE  /\ deadline_after(base, d) = Saturated(base + d)
         /\ Saturated(base + d) \in 0..MaxInstant /\ Saturated(base + d) >= base
<1>1. MaxInstant \in Nat /\ base \in Nat BY IntervalsAssumption
<1>2. CASE Fits(base, d) BY <1>1, <1>2 DEF deadline_after, Saturated, Fits
<1>3. CASE ~Fits(base, d)
 <2>1. deadline_after(base, d) = MaxInstant BY <1>3, BisectionFindsEdge DEF deadline_after
 <2>2. QED BY <1>1, <1>3, <2>1 DEF Saturated, Fits
<1>4. QED BY <1>2, <1>3

\* Saturating twice is saturating once.
LEMMA SaturateTwice ==
  ASSUME NEW x \in Nat, NEW d \in Nat
  PROVE  Saturated(Saturated(x) + d) = Saturated(x + d) /\ Saturated(x) \in 0..MaxInstant
  BY IntervalsAssumption DEF Saturated

\* Whatever the clock shows, the arithmetic of the deadlines is right.
LEMMA DeadlinesSaturate ==
  /\ ivClock \in 0..MaxInstant => DeadlineSaturates
  /\ ivClock' \in 0..MaxInstant => DeadlineSaturates'
<1>1. \A c \in 0..MaxInstant, d \in 0..(MaxInstant + 2) : deadline_after(c, d) = Saturated(c + d)
  BY DeadlineAfter, IntervalsAssumption
<1>2. QED BY <1>1 DEF DeadlineSaturates

\* The boundary after `now` of a cadence that has one at `n`.
LEMMA NextBoundary ==
  ASSUME NEW n \in Nat, NEW now \in Nat, n <= now, NEW p \in Nat, p > 0
  PROVE  LET q == (now - n) \div p
             t == p - ((now - n) % p)
         IN  q \in Nat /\ t \in 1..p /\ now + t = n + (q + 1) * p /\ (q + 1) * p \in Nat
  <1> DEFINE e == now - n
             q == e \div p
             r == e % p
<1>1. e \in Nat OBVIOUS
<1>2. q \in Nat /\ r \in 0..(p - 1) /\ q * p \in Nat /\ e = q * p + r BY <1>1, Remainder
<1>3. now = n + e OBVIOUS
<1> HIDE DEF q, r, e
<1>4. (q + 1) * p = q * p + p BY <1>2
<1>5. q \in Nat /\ p - r \in 1..p /\ now + (p - r) = n + (q + 1) * p /\ (q + 1) * p \in Nat
  <2> DEFINE m == q * p
 <2>1. m \in Nat /\ e = m + r /\ (q + 1) * p = m + p BY <1>2, <1>4
 <2> HIDE DEF m
 <2>2. QED BY <1>1, <1>2, <1>3, <2>1
<1>6. QED BY <1>5 DEF q, r, e

\* tick_at plans the next boundary, or reports the ones that went by.
LEMMA TickAtStep ==
  ASSUME IntervalSafe, tick_at
  PROVE  IntervalSafe'
  <1> DEFINE now == ivClock
             n == nextDeadline
             b == IF n = -1 THEN deadline_after(now, period) ELSE n
             pl == plan_tick(now)
<1>1. /\ MaxInstant \in Nat /\ now \in 0..MaxInstant /\ period \in Nat
      /\ period \in Periods /\ behavior \in Behaviors /\ behavior \in {"Skip", "CatchUp"}
      /\ n \in -1..MaxInstant /\ first \in -1..MaxInstant
      /\ ticks \in [reported : Nat, awaited : Nat]
  BY IntervalsAssumption DEF IntervalSafe, AwaitedOnCadence
<1>2. b \in 0..MaxInstant
 <2>1. CASE n = -1 BY <1>1, <2>1, DeadlineAfter
 <2>2. CASE n # -1 BY <1>1, <2>2
 <2>3. QED BY <2>1, <2>2
<1>3. /\ first' = IF n = -1 THEN b ELSE first
      /\ ivClock' = ivClock /\ period' = period /\ behavior' = behavior
      /\ awaiting = NoTick
  BY DEF tick_at, FirstOf
<1>4. first' \in 0..MaxInstant BY <1>1, <1>2, <1>3 DEF IntervalSafe, AwaitedOnCadence
<1>5. n = -1 => ticks.reported = 0 BY DEF IntervalSafe, AwaitedOnCadence
<1>6. ASSUME NEW k \in {"wait", "yield"}, NEW t \in 0..MaxInstant,
             pl.kind = k, pl.target = t,
             k = "yield" => period = 0,
             period > 0 => IF n = -1 THEN t = first'
                           ELSE \/ behavior = "CatchUp" /\ t = n
                                \/ behavior = "Skip" /\ (t = MaxInstant \/ (t - first) % period = 0)
      PROVE  IntervalSafe'
 <2>1. /\ awaiting' = [kind |-> k, target |-> t] /\ nextDeadline' = nextDeadline
       /\ ticks' = [ticks EXCEPT !.awaited = @ + 1]
   BY <1>6 DEF tick_at
 <2>2. ticks' \in [reported : Nat, awaited : Nat] /\ ticks'.reported = ticks.reported
   BY <1>1, <2>1
 <2>3. /\ awaiting'.kind = k /\ awaiting'.target = t
       /\ awaiting' \in [kind : {"none", "wait", "yield"}, target : 0..MaxInstant]
   BY <1>6, <2>1
 <2>4. n # -1 => first' = first BY <1>3
 <2>5. AwaitedOnCadence'
  <3>1. /\ ivClock' \in 0..MaxInstant /\ period' \in Periods /\ behavior' \in Behaviors
        /\ nextDeadline' \in -1..MaxInstant /\ first' \in -1..MaxInstant
    BY <1>1, <1>3, <1>4, <2>1
  <3>2. first' # -1 BY <1>4
  <3>3. awaiting'.kind = "wait" /\ period' > 0 =>
          IF nextDeadline' = -1 THEN awaiting'.target = first'
          ELSE \/ behavior' = "CatchUp" /\ awaiting'.target = nextDeadline'
               \/ behavior' = "Skip" /\ \/ awaiting'.target = MaxInstant
                                        \/ (awaiting'.target - first') % period' = 0
    BY <1>3, <1>6, <2>1, <2>3, <2>4
  <3>4. QED BY <3>1, <3>2, <3>3, <2>1, <2>2, <2>3, <1>3, <1>5, <1>6 DEF AwaitedOnCadence
 <2>6. CatchUpCountsEvery' /\ SkipKeepsCadence'
  <3>1. CASE n = -1 BY <2>1, <3>1 DEF CatchUpCountsEvery, SkipKeepsCadence
  <3>2. CASE n # -1
    BY <1>3, <2>1, <2>2, <2>4, <3>2 DEF IntervalSafe, CatchUpCountsEvery, SkipKeepsCadence,
      Saturated
  <3>3. QED BY <3>1, <3>2
 <2>7. DeadlineSaturates' BY <1>1, <1>3, DeadlinesSaturate
 <2>8. QED BY <2>5, <2>6, <2>7, Zenon DEF IntervalSafe
<1>7. CASE b > now
 <2>1. pl = [kind |-> "wait", target |-> b, ticks |-> 1] BY <1>7 DEF plan_tick
 <2>2. period > 0 => IF n = -1 THEN b = first'
                     ELSE \/ behavior = "CatchUp" /\ b = n
                          \/ behavior = "Skip" /\ (b = MaxInstant \/ (b - first) % period = 0)
   BY <1>1, <1>3 DEF IntervalSafe, SkipKeepsCadence
 <2>3. pl.kind = "wait" /\ pl.target = b BY <2>1
 <2> HIDE DEF b, pl
 <2>4. QED BY <1>2, <1>6, <2>2, <2>3
<1>8. CASE ~(b > now) /\ period = 0
 <2>1. pl.kind \in {"wait", "yield"} /\ pl.target = now BY <1>8 DEF plan_tick
 <2>2. ~(period > 0) BY <1>8
 <2> HIDE DEF b, pl
 <2>3. QED BY <1>1, <1>6, <1>8, <2>1, <2>2
<1>9. CASE ~(b > now) /\ period # 0
  <2> DEFINE q == (now - b) \div period
             t == period - ((now - b) % period)
             next == deadline_after(now, t)
 <2>1. period > 0 /\ b <= now /\ b \in Nat /\ now \in Nat BY <1>1, <1>2, <1>9
 <2>2. q \in Nat /\ t \in 1..period /\ now + t = b + (q + 1) * period /\ (q + 1) * period \in Nat
   BY <1>1, <2>1, NextBoundary
 <2>3. pl = IF behavior = "Skip" THEN [kind |-> "wait", target |-> next, ticks |-> 1]
            ELSE [kind |-> "catchup", target |-> next, ticks |-> q + 1]
   BY <1>9 DEF plan_tick, ToBoundary
 <2> HIDE DEF q, t
 <2>4. next = Saturated(now + t) /\ next \in 0..MaxInstant
  <3>1. t \in Nat BY <1>1, <2>2
  <3>2. QED BY <1>1, <3>1, DeadlineAfter
 <2>5. n = -1 => b = MaxInstant /\ now = MaxInstant
  <3>1. SUFFICES ASSUME n = -1 PROVE b = MaxInstant /\ now = MaxInstant OBVIOUS
  <3>2. b = Saturated(now + period) BY <1>1, <3>1, DeadlineAfter
  <3> HIDE DEF b
  <3>3. QED BY <1>1, <2>1, <3>2 DEF Saturated
 <2> HIDE DEF b, pl, next
 <2>6. b = MaxInstant => next = MaxInstant BY <1>1, <2>1, <2>2, <2>4 DEF Saturated
 <2>7. CASE behavior = "Skip"
  <3>1. pl.kind = "wait" /\ pl.target = next BY <2>3, <2>7
  <3>2. n # -1 /\ next # MaxInstant => (next - first) % period = 0
   <4>1. SUFFICES ASSUME n # -1, next # MaxInstant PROVE (next - first) % period = 0 OBVIOUS
   <4>2. b = n /\ n # MaxInstant BY <2>6, <4>1 DEF b
   <4>3. (n - first) % period = 0
     BY <2>1, <2>7, <4>1, <4>2, Zenon DEF IntervalSafe, SkipKeepsCadence
   <4>4. next = now + t BY <1>1, <2>2, <2>4, <4>1 DEF Saturated
   <4>5. next - first = (n - first) + (q + 1) * period
     <5> DEFINE m == (q + 1) * period
    <5>1. m \in Nat /\ now + t = b + m BY <2>2
    <5> HIDE DEF m
    <5>2. next - first = (n - first) + m BY <5>1, <4>2, <4>4, <1>1
    <5>3. QED BY <5>2 DEF m
  <4> DEFINE x == n - first
   <4>6. x \in Int /\ q + 1 \in Int /\ x % period = 0 BY <1>1, <2>2, <4>3
   <4> HIDE DEF x
   <4>7. (x + (q + 1) * period) % period = 0 BY <4>6, <1>1, <2>1, CadenceStep
   <4>8. QED BY <4>5, <4>7 DEF x
  <3>3. n = -1 => next = first' BY <1>3, <2>5, <2>6
  <3>4. period > 0 => IF n = -1 THEN next = first'
                      ELSE \/ behavior = "CatchUp" /\ next = n
                           \/ behavior = "Skip" /\ (next = MaxInstant \/ (next - first) % period = 0)
    BY <3>2, <3>3, <2>7
  <3>5. QED BY <1>6, <2>4, <3>1, <3>4, Zenon
 <2>8. CASE behavior = "CatchUp"
  <3>1. pl.kind = "catchup" /\ pl.target = next /\ pl.ticks = q + 1 BY <2>3, <2>8
  <3>2. /\ nextDeadline' = next /\ awaiting' = awaiting
        /\ ticks' = [reported |-> ticks.reported + (q + 1), awaited |-> ticks.awaited + 1]
    BY <3>1 DEF tick_at, pl
  <3>3. ticks' \in [reported : Nat, awaited : Nat] /\ ticks'.reported = ticks.reported + (q + 1)
    BY <1>1, <2>2, <3>2
  <3>4. next = Saturated(first' + (ticks.reported + (q + 1)) * period)
    <4> DEFINE f == first'
               w == ticks.reported
   <4>1. f \in Nat /\ w \in Nat /\ w * period \in Nat BY <1>1, <1>4
   <4>2. b = Saturated(f + w * period)
    <5>1. CASE n = -1
     <6>1. w = 0 /\ f = MaxInstant /\ b = MaxInstant BY <1>3, <1>5, <2>5, <5>1
     <6>2. QED BY <6>1, <1>1 DEF Saturated
    <5>2. CASE n # -1 BY <1>3, <2>1, <2>8, <5>2 DEF IntervalSafe, CatchUpCountsEvery, b
    <5>3. QED BY <5>1, <5>2
   <4> HIDE DEF f, w
   <4>3. f + (w + (q + 1)) * period = (f + w * period) + (q + 1) * period BY <4>1, <1>1, <2>2
   <4> DEFINE x == f + w * period
              m == (q + 1) * period
   <4>4. x \in Nat /\ m \in Nat /\ b = Saturated(x) /\ now + t = b + m BY <4>1, <4>2, <2>2
   <4>5. f + (w + (q + 1)) * period = x + m BY <4>3
   <4> HIDE DEF x, m
   <4>6. Saturated(b + m) = Saturated(x + m) BY <4>4, SaturateTwice
   <4>7. QED BY <4>4, <4>5, <4>6, <2>4 DEF f, w
  <3>5. CatchUpCountsEvery' BY <1>3, <3>2, <3>3, <3>4 DEF CatchUpCountsEvery, Saturated
  <3>6. SkipKeepsCadence' BY <1>3, <2>8 DEF SkipKeepsCadence
  <3>7. AwaitedOnCadence'
   <4>1. /\ ivClock' \in 0..MaxInstant /\ period' \in Periods /\ behavior' \in Behaviors
         /\ nextDeadline' \in 0..MaxInstant /\ first' \in 0..MaxInstant
     BY <1>1, <1>3, <1>4, <2>4, <3>2
   <4>2. nextDeadline' \in -1..MaxInstant /\ first' \in -1..MaxInstant /\ first' # -1
         /\ nextDeadline' # -1
     BY <4>1, <1>1
   <4>3. /\ awaiting' = NoTick /\ awaiting'.kind = "none"
         /\ awaiting' \in [kind : {"none", "wait", "yield"}, target : 0..MaxInstant]
     BY <1>1, <1>3, <3>2 DEF NoTick
   <4>4. QED BY <4>1, <4>2, <4>3, <3>3 DEF AwaitedOnCadence, NoTick
  <3>8. DeadlineSaturates' BY <1>1, <1>3, DeadlinesSaturate
  <3>9. QED BY <3>5, <3>6, <3>7, <3>8 DEF IntervalSafe
 <2>9. QED BY <1>1, <2>7, <2>8
<1>10. QED BY <1>7, <1>8, <1>9

\* A tick that was awaited is committed, and the next boundary follows it.
LEMMA TickDoneStep ==
  ASSUME IntervalSafe, tick_done
  PROVE  IntervalSafe'
  <1> DEFINE t == awaiting.target
             w == ticks.reported
             v == nextDeadline'
<1>1. /\ MaxInstant \in Nat /\ ivClock \in 0..MaxInstant /\ period \in Nat
      /\ period \in Periods /\ behavior \in Behaviors /\ behavior \in {"Skip", "CatchUp"}
      /\ nextDeadline \in -1..MaxInstant /\ first \in 0..MaxInstant
      /\ ticks \in [reported : Nat, awaited : Nat] /\ t \in 0..MaxInstant
      /\ awaiting.kind \in {"wait", "yield"}
  BY IntervalsAssumption DEF IntervalSafe, AwaitedOnCadence, tick_done
<1>2. /\ awaiting' = NoTick /\ first' = first
      /\ ivClock' = ivClock /\ period' = period /\ behavior' = behavior
      /\ ticks' = [ticks EXCEPT !.reported = @ + 1]
      /\ v = IF awaiting.kind = "yield" THEN ivClock ELSE deadline_after(t, period)
  BY DEF tick_done, Commit
<1>3. deadline_after(t, period) = Saturated(t + period) /\ Saturated(t + period) \in 0..MaxInstant
  BY <1>1, DeadlineAfter
<1>4. v \in 0..MaxInstant BY <1>1, <1>2, <1>3
<1>5. ticks' \in [reported : Nat, awaited : Nat] /\ ticks'.reported = w + 1 /\ w \in Nat
  BY <1>1, <1>2
<1>6. AwaitedOnCadence'
 <2>1. /\ v \in -1..MaxInstant /\ v # -1 /\ first' \in -1..MaxInstant /\ first' # -1
   BY <1>1, <1>2, <1>4
 <2>2. /\ awaiting'.kind = "none"
       /\ awaiting' \in [kind : {"none", "wait", "yield"}, target : 0..MaxInstant]
   BY <1>1, <1>2 DEF NoTick
 <2>3. QED BY <2>1, <2>2, <1>1, <1>2, <1>5 DEF AwaitedOnCadence, NoTick
<1>7. period > 0 => v = Saturated(t + period) /\ awaiting.kind = "wait"
  BY <1>1, <1>2, <1>3 DEF IntervalSafe, AwaitedOnCadence
<1>8. CatchUpCountsEvery'
 <2>1. SUFFICES ASSUME behavior = "CatchUp", period > 0
                PROVE  v = Saturated(first + (w + 1) * period)
   BY <1>2, <1>5 DEF CatchUpCountsEvery, Saturated
 <2>2. w * period \in Nat /\ (w + 1) * period = w * period + period BY <1>1, <1>5
 <2>3. t = Saturated(first + w * period)
  <3>1. CASE nextDeadline = -1
   <4>1. w = 0 /\ t = first BY <1>7, <2>1, <3>1 DEF IntervalSafe, AwaitedOnCadence
   <4>2. QED BY <1>1, <4>1 DEF Saturated
  <3>2. CASE nextDeadline # -1
   <4>1. t = nextDeadline BY <1>7, <2>1, <3>2 DEF IntervalSafe, AwaitedOnCadence
   <4>2. QED BY <2>1, <3>2, <4>1 DEF IntervalSafe, CatchUpCountsEvery
  <3>3. QED BY <3>1, <3>2, Zenon
<2> DEFINE x == first + w * period
 <2>4. x \in Nat /\ first + (w + 1) * period = x + period /\ t = Saturated(x) BY <1>1, <2>2, <2>3
 <2> HIDE DEF x, v, t
 <2>5. Saturated(t + period) = Saturated(x + period) BY <1>1, <2>4, SaturateTwice, Zenon
 <2>6. QED BY <1>7, <2>1, <2>4, <2>5, Zenon
<1>9. SkipKeepsCadence'
 <2>1. SUFFICES ASSUME behavior = "Skip", period > 0, v \notin {-1, MaxInstant}
                PROVE  (v - first) % period = 0
   BY <1>2 DEF SkipKeepsCadence
 <2>2. v = Saturated(t + period) BY <1>7, <2>1
 <2> HIDE DEF v
 <2>3. v = t + period /\ t # MaxInstant BY <1>1, <2>1, <2>2 DEF Saturated
 <2>4. (t - first) % period = 0
  <3>1. t = first \/ (t - first) % period = 0
    BY <1>7, <2>1, <2>3 DEF IntervalSafe, AwaitedOnCadence
  <3>2. CASE t = first
   <4>1. t - first = 0 * period BY <1>1, <3>2
   <4>2. QED BY <4>1, <1>1, <2>1, MultipleRemainder
  <3>3. QED BY <3>1, <3>2
 <2>5. v - first = (t - first) + 1 * period /\ t - first \in Int BY <1>1, <2>3
 <2> HIDE DEF t
 <2>6. QED BY <2>1, <2>4, <2>5, <1>1, CadenceStep
<1>10. DeadlineSaturates' BY <1>1, <1>2, DeadlinesSaturate
<1>11. QED BY <1>6, <1>8, <1>9, <1>10 DEF IntervalSafe

\* Dropping a tick, resetting and the passing of time.
LEMMA OtherIntervalStep ==
  ASSUME IntervalSafe, drop_tick \/ reset_interval \/ Advance \/ UNCHANGED intervalVars
  PROVE  IntervalSafe'
<1>1. /\ MaxInstant \in Nat /\ ivClock \in 0..MaxInstant
      /\ ticks \in [reported : Nat, awaited : Nat]
      /\ NoTick \in [kind : {"none", "wait", "yield"}, target : 0..MaxInstant]
      /\ NoTick.kind = "none" /\ -1 \in -1..MaxInstant
  BY IntervalsAssumption DEF IntervalSafe, AwaitedOnCadence, NoTick
<1>2. ivClock' \in 0..MaxInstant BY <1>1 DEF drop_tick, reset_interval, Advance, intervalVars
<1>3. DeadlineSaturates' BY <1>2, DeadlinesSaturate
<1>4. CASE drop_tick
 <2>1. UNCHANGED <<period, behavior, nextDeadline, first, ticks>> /\ awaiting' = NoTick
   BY <1>4 DEF drop_tick
 <2>2. CatchUpCountsEvery' /\ SkipKeepsCadence'
   BY <2>1 DEF IntervalSafe, CatchUpCountsEvery, SkipKeepsCadence, Saturated
 <2>3. AwaitedOnCadence' BY <1>1, <1>2, <2>1, Zenon DEF IntervalSafe, AwaitedOnCadence
 <2>4. QED BY <1>3, <2>2, <2>3 DEF IntervalSafe
<1>5. CASE reset_interval
 <2>1. /\ UNCHANGED <<period, behavior, awaiting>> /\ awaiting = NoTick
       /\ nextDeadline' = -1 /\ first' = -1 /\ ticks' = [ticks EXCEPT !.reported = 0]
   BY <1>5 DEF reset_interval
 <2>2. ticks' \in [reported : Nat, awaited : Nat] /\ ticks'.reported = 0 BY <1>1, <2>1
 <2>3. CatchUpCountsEvery' /\ SkipKeepsCadence' BY <2>1 DEF CatchUpCountsEvery, SkipKeepsCadence
 <2>4. AwaitedOnCadence' BY <1>1, <1>2, <2>1, <2>2, Zenon DEF IntervalSafe, AwaitedOnCadence
 <2>5. QED BY <1>3, <2>3, <2>4 DEF IntervalSafe
<1>6. CASE Advance \/ UNCHANGED intervalVars
 <2>1. UNCHANGED <<period, behavior, nextDeadline, awaiting, first, ticks>>
   BY <1>6 DEF Advance, intervalVars
 <2>2. CatchUpCountsEvery' /\ SkipKeepsCadence'
   BY <2>1 DEF IntervalSafe, CatchUpCountsEvery, SkipKeepsCadence, Saturated
 <2>3. AwaitedOnCadence' BY <1>2, <2>1 DEF IntervalSafe, AwaitedOnCadence, NoTick
 <2>4. QED BY <1>3, <2>2, <2>3 DEF IntervalSafe
<1>7. QED BY <1>4, <1>5, <1>6

\* Every boundary of an Interval is on its cadence, CatchUp reports each of them
\* once, and a deadline beyond the last instant is the last instant
\* (vibeio/time/interval.rs, mod.rs).
THEOREM IntervalsAreSafe == IntervalsSpec => []IntervalSafe
<1>1. IntervalsInit => IntervalSafe
 <2>1. SUFFICES ASSUME IntervalsInit PROVE IntervalSafe OBVIOUS
 <2>2. /\ MaxInstant \in Nat /\ 0 \in 0..MaxInstant /\ -1 \in -1..MaxInstant
       /\ NoTick \in [kind : {"none", "wait", "yield"}, target : 0..MaxInstant]
       /\ NoTick.kind = "none" /\ ticks \in [reported : Nat, awaited : Nat]
       /\ ticks.reported = 0
   BY <2>1, IntervalsAssumption DEF NoTick, IntervalsInit
 <2>3. DeadlineSaturates BY <2>1, <2>2, DeadlinesSaturate DEF IntervalsInit
 <2>4. CatchUpCountsEvery /\ SkipKeepsCadence
   BY <2>1 DEF IntervalsInit, CatchUpCountsEvery, SkipKeepsCadence
 <2>5. AwaitedOnCadence BY <2>1, <2>2 DEF IntervalsInit, AwaitedOnCadence
 <2>6. QED BY <2>3, <2>4, <2>5 DEF IntervalSafe
<1>2. IntervalSafe /\ [IntervalsNext]_intervalVars => IntervalSafe'
  BY TickAtStep, TickDoneStep, OtherIntervalStep DEF IntervalsNext
<1>3. QED BY <1>1, <1>2, PTL DEF IntervalsSpec

\* What the users of the runtime's timer are promised, the sleeps and the
\* intervals, which share no state.
THEOREM SleepersAreSafe == SleepsSpec /\ IntervalsSpec => []SleepersSafe
  BY SleepsAreSafe, IntervalsAreSafe, PTL DEF SleepersSafe

-----------------------------------------------------------------------------
(* Completion I/O.  An operation that was submitted is in one place, the   *)
(* queue, the kernel or the results, and its slot holds it without a       *)
(* result for as long; so no slot is freed or reused while an answer for   *)
(* it may come, and what the slot holds is what the entry points to.       *)

\* What a submission, an answer and an entry of the slab look like.
OpEntries == [slot : CSlots, op : OpIds]
AcceptEntries == [gen : Nat]
OpAnswers == [slot : CSlots, op : OpIds, res : -1..MaxFds]
AcceptAnswers == [gen : Nat, res : -1..MaxFds, more : BOOLEAN]
SlabRecords == [op : OpIds, waiter : BOOLEAN, result : {NoSlot} \cup -1..MaxFds, ignored : BOOLEAN]
FutureRecords == [pc : {"new", "wait", "done", "dropped"}, fd : BOOLEAN, slot : CSlots \cup {NoSlot},
                  woken : BOOLEAN]

StorageTypes ==
  /\ comps \in [CSlots -> SlabRecords \cup {NoSlot}] /\ opst \in [OpIds -> FutureRecords]
  /\ csq \subseteq OpEntries \cup AcceptEntries /\ IsFiniteSet(csq)
  /\ inflight \subseteq OpEntries \cup AcceptEntries /\ IsFiniteSet(inflight)
  /\ ccq \in Seq(OpAnswers \cup AcceptAnswers)
  /\ listen \in [gen : Nat, open : BOOLEAN, results : Seq(-1..MaxFds), waiter : BOOLEAN,
                 armed : BOOLEAN, woken : BOOLEAN]
  /\ opened \in -1..MaxFds /\ drv \in {"up", "quiesced", "leaked"} /\ file \in {"open", "closed"}

\* A slot that holds an operation without an answer.
Awaits(t, o) == comps[t] # NoSlot /\ comps[t].op = o /\ comps[t].result = NoSlot

\* An operation is queued, in flight or answered, in one of these and once, under a slot
\* that holds it and no result.
EntriesAnswered ==
  /\ csq \cap inflight = {}
  /\ \A e \in (csq \cup inflight) \cap OpEntries :
       Awaits(e.slot, e.op) /\ \A k \in DOMAIN ccq : ccq[k] \in OpAnswers => ccq[k].slot # e.slot
  /\ \A k \in DOMAIN ccq : ccq[k] \in OpAnswers => Awaits(ccq[k].slot, ccq[k].op)
  /\ \A j, k \in DOMAIN ccq :
       ccq[j] \in OpAnswers /\ ccq[k] \in OpAnswers /\ ccq[j].slot = ccq[k].slot => j = k

\* A slot belongs to the future that waits on it, or to nobody once that was dropped.
SlotOwners ==
  /\ \A t \in CSlots : comps[t] # NoSlot =>
       IF comps[t].ignored THEN opst[comps[t].op].pc = "dropped" /\ comps[t].result = NoSlot
       ELSE opst[comps[t].op].pc = "wait" /\ opst[comps[t].op].slot = t
  /\ drv # "quiesced" => \A o \in OpIds : opst[o].pc = "wait" =>
       opst[o].slot \in CSlots /\ comps[opst[o].slot] # NoSlot /\ comps[opst[o].slot].op = o

\* The end of an accept, by its generation.
EndsAccept(k, g) == ccq[k] \in AcceptAnswers /\ ccq[k].gen = g /\ ~ccq[k].more

\* The open listener's accept is queued, in flight or ended, in one of these and once, as
\* long as the listener is marked armed.
AcceptsOnce ==
  /\ \A e \in (csq \cup inflight) \cap AcceptEntries : e.gen <= listen.gen
  /\ \A k \in DOMAIN ccq : ccq[k] \in AcceptAnswers => ccq[k].gen <= listen.gen
  /\ listen.open => \A e \in (csq \cup inflight) \cap AcceptEntries : e.gen = listen.gen =>
       listen.armed /\ \A k \in DOMAIN ccq : ~EndsAccept(k, listen.gen)
  /\ listen.open => \A k \in DOMAIN ccq : EndsAccept(k, listen.gen) =>
       listen.armed /\ \A j \in DOMAIN ccq : EndsAccept(j, listen.gen) => j = k

\* What is queued names a descriptor that is open.
QueuedOpen ==
  /\ drv = "quiesced" => csq = {} /\ inflight = {}
  /\ drv = "up" => /\ \A e \in csq \cap OpEntries : file = "open"
                   /\ \A e \in csq \cap AcceptEntries : listen.open /\ listen.gen = e.gen

StorageInv == StorageTypes /\ EntriesAnswered /\ SlotOwners /\ AcceptsOnce /\ QueuedOpen

\* The two kinds of entries and of answers are told apart by their fields, and are given by them.
LEMMA EntryKinds ==
  /\ \A e \in OpEntries : "op" \in DOMAIN e /\ "gen" \notin DOMAIN e /\ e.slot \in CSlots /\ e.op \in OpIds
  /\ \A e \in AcceptEntries : "gen" \in DOMAIN e /\ "op" \notin DOMAIN e /\ e.gen \in Nat
  /\ \A e \in OpAnswers : "op" \in DOMAIN e /\ "gen" \notin DOMAIN e /\ e.slot \in CSlots /\ e.op \in OpIds
                          /\ e.res \in -1..MaxFds
  /\ \A e \in AcceptAnswers : "gen" \in DOMAIN e /\ "op" \notin DOMAIN e /\ e.gen \in Nat
                              /\ e.res \in -1..MaxFds /\ e.more \in BOOLEAN
<1>1. \A e \in OpEntries : DOMAIN e = {"slot", "op"} /\ e.slot \in CSlots /\ e.op \in OpIds
  BY DEF OpEntries
<1>2. \A e \in AcceptEntries : DOMAIN e = {"gen"} /\ e.gen \in Nat BY DEF AcceptEntries
<1>3. \A e \in OpAnswers : DOMAIN e = {"slot", "op", "res"} /\ e.slot \in CSlots /\ e.op \in OpIds
                           /\ e.res \in -1..MaxFds
  BY DEF OpAnswers
<1>4. \A e \in AcceptAnswers : DOMAIN e = {"gen", "res", "more"} /\ e.gen \in Nat
                               /\ e.res \in -1..MaxFds /\ e.more \in BOOLEAN
  BY DEF AcceptAnswers
<1>5. QED BY <1>1, <1>2, <1>3, <1>4

\* An entry is given by its fields.
LEMMA SameEntry ==
  /\ \A d, e \in OpEntries : d.slot = e.slot /\ d.op = e.op => d = e
  /\ \A d, e \in AcceptEntries : d.gen = e.gen => d = e
<1>1. ASSUME NEW d \in OpEntries, NEW e \in OpEntries, d.slot = e.slot, d.op = e.op PROVE d = e
  BY <1>1 DEF OpEntries
<1>2. ASSUME NEW d \in AcceptEntries, NEW e \in AcceptEntries, d.gen = e.gen PROVE d = e
  BY <1>2 DEF AcceptEntries
<1>3. QED BY <1>1, <1>2

\* No record is of both kinds.
LEMMA KindsApart ==
  /\ OpEntries \cap AcceptEntries = {}
  /\ OpAnswers \cap AcceptAnswers = {}
  BY EntryKinds, Zenon

\* The queue of results as a function.
LEMMA ResultsTyped ==
  ASSUME StorageTypes
  PROVE  /\ Len(ccq) \in Nat /\ DOMAIN ccq = 1..Len(ccq)
         /\ \A k \in 1..Len(ccq) : ccq[k] \in OpAnswers \cup AcceptAnswers
  BY DEF StorageTypes

-----------------------------------------------------------------------------
(* Entries go to the kernel, and some of what it holds is answered. *)

AnswerTo(a, e) ==
  \/ e \in OpEntries /\ a \in OpAnswers /\ a.slot = e.slot /\ a.op = e.op
  \/ e \in AcceptEntries /\ a \in AcceptAnswers /\ a.gen = e.gen /\ ~a.more

\* What is sent leaves the queue; f lists what is gone from the kernel, in the order of
\* the answers.
Moves(sent, gone, m, f) ==
  /\ sent \subseteq csq /\ gone \subseteq inflight \cup sent
  /\ csq' = csq \ sent /\ inflight' = (inflight \cup sent) \ gone
  /\ f \in [1..m -> gone] /\ \A i, j \in 1..m : f[i] = f[j] => i = j
  /\ ccq' \in Seq(OpAnswers \cup AcceptAnswers) /\ Len(ccq') = Len(ccq) + m
  /\ \A k \in 1..Len(ccq) : ccq'[k] = ccq[k]
  /\ \A i \in 1..m : AnswerTo(ccq'[Len(ccq) + i], f[i])

\* Result k answers the i-th entry that is gone.
Posted(k, i, gone, f) == k = Len(ccq) + i /\ AnswerTo(ccq'[k], f[i]) /\ f[i] \in gone

\* The queue and what is in flight keep their types and stay finite.
LEMMA MovedTypes ==
  ASSUME StorageTypes, NEW sent, NEW gone, NEW m \in Nat, NEW f, Moves(sent, gone, m, f)
  PROVE  /\ csq' \subseteq OpEntries \cup AcceptEntries /\ IsFiniteSet(csq')
         /\ inflight' \subseteq OpEntries \cup AcceptEntries /\ IsFiniteSet(inflight')
         /\ csq' \subseteq csq /\ csq' \cup inflight' \subseteq csq \cup inflight
<1>1. /\ csq' \subseteq csq /\ inflight' \subseteq csq \cup inflight BY DEF Moves
<1>2. IsFiniteSet(csq) /\ IsFiniteSet(csq \cup inflight) BY FS_Union DEF StorageTypes
<1>3. IsFiniteSet(csq') /\ IsFiniteSet(inflight') BY <1>1, <1>2, FS_Subset
<1>4. QED BY <1>1, <1>3 DEF StorageTypes

\* Where an entry of the queue of results comes from.
LEMMA MovedResults ==
  ASSUME StorageTypes, NEW sent, NEW gone, NEW m \in Nat, NEW f, Moves(sent, gone, m, f),
         NEW k \in DOMAIN ccq'
  PROVE  \/ k \in DOMAIN ccq /\ ccq'[k] = ccq[k]
         \/ \E i \in 1..m : Posted(k, i, gone, f)
<1>1. PICK n \in Nat : n = Len(ccq) BY ResultsTyped, Zenon
<1>2. DOMAIN ccq = 1..n /\ DOMAIN ccq' = 1..(n + m) BY <1>1, ResultsTyped DEF Moves
<1>3. CASE k \in 1..n BY <1>1, <1>2, <1>3 DEF Moves
<1>4. CASE k \notin 1..n
 <2>1. PICK i \in 1..m : k = n + i
  <3>1. k \in 1..(n + m) /\ k - n \in 1..m /\ k = n + (k - n) BY <1>2, <1>4
  <3>2. QED BY <3>1
 <2>2. AnswerTo(ccq'[n + i], f[i]) /\ f[i] \in gone BY <1>1 DEF Moves
 <2>3. QED BY <1>1, <2>1, <2>2, Zenon DEF Posted
<1>5. QED BY <1>3, <1>4

\* An answered operation leaves the kernel, so that it is still in one place.
LEMMA EntriesMoved ==
  ASSUME StorageTypes, EntriesAnswered, comps' = comps,
         NEW sent, NEW gone, NEW m \in Nat, NEW f, Moves(sent, gone, m, f)
  PROVE  EntriesAnswered'
<1>1. /\ csq' \cap inflight' = {}
      /\ csq' \cup inflight' \subseteq csq \cup inflight /\ (csq' \cup inflight') \cap gone = {}
  BY Zenon DEF EntriesAnswered, Moves
<1>2. gone \subseteq csq \cup inflight BY Zenon DEF Moves
<1>3. \A t, o : Awaits(t, o)' <=> Awaits(t, o) BY DEF Awaits
<1>4. \A e \in (csq \cup inflight) \cap OpEntries : Awaits(e.slot, e.op)
  BY Zenon DEF EntriesAnswered
<1>5. ASSUME NEW e \in (csq' \cup inflight') \cap OpEntries, NEW k \in DOMAIN ccq',
             ccq'[k] \in OpAnswers, ccq'[k].slot = e.slot
      PROVE  FALSE
 <2>1. e \in (csq \cup inflight) \cap OpEntries /\ e \notin gone BY <1>1, Zenon
 <2>2. CASE k \in DOMAIN ccq /\ ccq'[k] = ccq[k] BY <1>5, <2>1, <2>2, Zenon DEF EntriesAnswered
 <2>3. ASSUME NEW i \in 1..m, Posted(k, i, gone, f) PROVE FALSE
  <3>1. f[i] \in OpEntries /\ f[i].slot = e.slot /\ f[i] \in gone
    BY <1>5, <2>3, KindsApart, Zenon DEF AnswerTo, Posted
  <3>2. Awaits(f[i].slot, f[i].op) /\ Awaits(e.slot, e.op) BY <1>2, <1>4, <2>1, <3>1, Zenon
  <3>3. f[i] = e BY <2>1, <3>1, <3>2, SameEntry, Zenon DEF Awaits
  <3>4. QED BY <2>1, <3>1, <3>3, Zenon
 <2>4. QED BY <2>2, <2>3, MovedResults, Zenon
<1>6. ASSUME NEW k \in DOMAIN ccq', ccq'[k] \in OpAnswers PROVE Awaits(ccq'[k].slot, ccq'[k].op)
 <2>1. CASE k \in DOMAIN ccq /\ ccq'[k] = ccq[k] BY <1>6, <2>1, Zenon DEF EntriesAnswered
 <2>2. ASSUME NEW i \in 1..m, Posted(k, i, gone, f) PROVE Awaits(ccq'[k].slot, ccq'[k].op)
  <3>1. f[i] \in OpEntries /\ f[i].slot = ccq'[k].slot /\ f[i].op = ccq'[k].op /\ f[i] \in gone
    BY <1>6, <2>2, KindsApart, Zenon DEF AnswerTo, Posted
  <3>2. QED BY <1>2, <1>4, <3>1, Zenon
 <2>3. QED BY <2>1, <2>2, MovedResults, Zenon
<1>7. ASSUME NEW j \in DOMAIN ccq', NEW k \in DOMAIN ccq', ccq'[j] \in OpAnswers, ccq'[k] \in OpAnswers,
             ccq'[j].slot = ccq'[k].slot
      PROVE  j = k
 <2>1. ASSUME NEW h \in DOMAIN ccq', NEW l \in DOMAIN ccq, ccq'[h] \in OpAnswers, ccq[l] \in OpAnswers,
              ccq'[h].slot = ccq[l].slot, NEW i \in 1..m, AnswerTo(ccq'[h], f[i]), f[i] \in gone
       PROVE  FALSE
  <3>1. f[i] \in OpEntries /\ f[i].slot = ccq[l].slot /\ f[i] \in (csq \cup inflight) \cap OpEntries
    BY <1>2, <2>1, KindsApart, Zenon DEF AnswerTo
  <3>2. QED BY <2>1, <3>1, Zenon DEF EntriesAnswered
 <2>2. ASSUME NEW h \in 1..m, NEW i \in 1..m, AnswerTo(ccq'[j], f[h]), f[h] \in gone,
              AnswerTo(ccq'[k], f[i]), f[i] \in gone
       PROVE  h = i
  <3>1. f[h] \in OpEntries /\ f[i] \in OpEntries /\ f[h].slot = f[i].slot
    BY <1>7, <2>2, KindsApart, Zenon DEF AnswerTo
  <3>2. Awaits(f[h].slot, f[h].op) /\ Awaits(f[i].slot, f[i].op)
    BY <1>2, <1>4, <2>2, <3>1, Zenon
  <3>3. f[h] = f[i] BY <3>1, <3>2, SameEntry, Zenon DEF Awaits
  <3>4. QED BY <3>3, Zenon DEF Moves
 <2>3. CASE j \in DOMAIN ccq /\ ccq'[j] = ccq[j] /\ k \in DOMAIN ccq /\ ccq'[k] = ccq[k]
   BY <1>7, <2>3, Zenon DEF EntriesAnswered
 <2>4. CASE j \in DOMAIN ccq /\ ccq'[j] = ccq[j]
  <3>1. ASSUME NEW i \in 1..m, Posted(k, i, gone, f) PROVE FALSE
    BY <1>7, <2>1, <2>4, <3>1, Zenon DEF Posted
  <3>2. QED BY <2>3, <2>4, <3>1, MovedResults, Zenon
 <2>5. ASSUME NEW h \in 1..m, Posted(j, h, gone, f) PROVE j = k
  <3>1. CASE k \in DOMAIN ccq /\ ccq'[k] = ccq[k] BY <1>7, <2>1, <2>5, <3>1, Zenon DEF Posted
  <3>2. ASSUME NEW i \in 1..m, Posted(k, i, gone, f) PROVE j = k
    BY <2>2, <2>5, <3>2, Zenon DEF Posted
  <3>3. QED BY <3>1, <3>2, MovedResults, Zenon
 <2>6. QED BY <2>4, <2>5, MovedResults, Zenon
<1>8. QED BY <1>1, <1>3, <1>4, <1>5, <1>6, <1>7, Zenon DEF EntriesAnswered

\* The end of an accept leaves the kernel the same way.
LEMMA AcceptsMoved ==
  ASSUME StorageTypes, EntriesAnswered, AcceptsOnce, listen'.gen = listen.gen,
         listen'.open => listen' = listen,
         NEW sent, NEW gone, NEW m \in Nat, NEW f, Moves(sent, gone, m, f)
  PROVE  AcceptsOnce'
<1>1. csq' \cup inflight' \subseteq csq \cup inflight /\ (csq' \cup inflight') \cap gone = {}
  BY Zenon DEF EntriesAnswered, Moves
<1>2. gone \subseteq csq \cup inflight BY Zenon DEF Moves
<1>3. ASSUME NEW k \in DOMAIN ccq', ccq'[k] \in AcceptAnswers PROVE ccq'[k].gen <= listen.gen
 <2>1. CASE k \in DOMAIN ccq /\ ccq'[k] = ccq[k] BY <1>3, <2>1, Zenon DEF AcceptsOnce
 <2>2. ASSUME NEW i \in 1..m, Posted(k, i, gone, f) PROVE ccq'[k].gen <= listen.gen
  <3>1. f[i] \in (csq \cup inflight) \cap AcceptEntries /\ f[i].gen = ccq'[k].gen
    BY <1>2, <1>3, <2>2, KindsApart, Zenon DEF AnswerTo, Posted
  <3>2. f[i].gen <= listen.gen BY <3>1, Zenon DEF AcceptsOnce
  <3>3. QED BY <3>1, <3>2, Zenon
 <2>3. QED BY <2>1, <2>2, MovedResults, Zenon
<1>4. ASSUME NEW k \in DOMAIN ccq', EndsAccept(k, listen.gen)', NEW i \in 1..m, Posted(k, i, gone, f)
      PROVE  f[i] \in (csq \cup inflight) \cap AcceptEntries /\ f[i].gen = listen.gen /\ f[i] \in gone
  BY <1>2, <1>4, KindsApart, Zenon DEF AnswerTo, EndsAccept, Posted
<1>5. ASSUME NEW k \in DOMAIN ccq', ccq'[k] = ccq[k] PROVE EndsAccept(k, listen.gen)' <=> EndsAccept(k, listen.gen)
  BY <1>5 DEF EndsAccept
<1>6. ASSUME listen'.open, NEW e \in (csq' \cup inflight') \cap AcceptEntries, e.gen = listen.gen
      PROVE  listen.armed /\ \A k \in DOMAIN ccq' : ~EndsAccept(k, listen.gen)'
 <2>1. listen.open /\ e \in (csq \cup inflight) \cap AcceptEntries /\ e \notin gone
   BY <1>1, <1>6, Zenon
 <2>2. listen.armed /\ \A k \in DOMAIN ccq : ~EndsAccept(k, listen.gen)
   BY <1>6, <2>1, Zenon DEF AcceptsOnce
 <2>3. ASSUME NEW k \in DOMAIN ccq', EndsAccept(k, listen.gen)', NEW i \in 1..m, Posted(k, i, gone, f)
       PROVE  FALSE
  <3>1. f[i] \in AcceptEntries /\ f[i].gen = e.gen /\ f[i] \in gone BY <1>4, <1>6, <2>3, Zenon
  <3>2. f[i] = e BY <2>1, <3>1, SameEntry, Zenon
  <3>3. QED BY <2>1, <3>1, <3>2, Zenon
 <2>4. QED BY <1>5, <2>2, <2>3, MovedResults, Zenon
<1>7. ASSUME listen'.open, NEW k \in DOMAIN ccq', EndsAccept(k, listen.gen)'
      PROVE  listen.armed /\ \A j \in DOMAIN ccq' : EndsAccept(j, listen.gen)' => j = k
 <2>1. listen.open BY <1>7, Zenon
 <2>2. ASSUME NEW j \in DOMAIN ccq', EndsAccept(j, listen.gen)', NEW i \in 1..m, Posted(j, i, gone, f)
       PROVE  listen.armed /\ \A l \in DOMAIN ccq : ~EndsAccept(l, listen.gen)
  <3>1. f[i] \in (csq \cup inflight) \cap AcceptEntries /\ f[i].gen = listen.gen
    BY <1>4, <2>2, Zenon
  <3>2. QED BY <2>1, <3>1, Zenon DEF AcceptsOnce
 <2>3. ASSUME NEW h \in 1..m, NEW i \in 1..m, NEW j \in DOMAIN ccq', EndsAccept(j, listen.gen)',
              Posted(j, h, gone, f), Posted(k, i, gone, f)
       PROVE  j = k
  <3>1. f[h] \in AcceptEntries /\ f[i] \in AcceptEntries /\ f[h].gen = f[i].gen
    BY <1>4, <1>7, <2>3, Zenon
  <3>2. f[h] = f[i] BY <3>1, SameEntry, Zenon
  <3>3. QED BY <2>3, <3>2, Zenon DEF Moves, Posted
 <2>4. CASE k \in DOMAIN ccq /\ ccq'[k] = ccq[k]
  <3>1. EndsAccept(k, listen.gen) BY <1>5, <1>7, <2>4, Zenon
  <3>2. listen.armed /\ \A l \in DOMAIN ccq : EndsAccept(l, listen.gen) => l = k
    BY <2>1, <2>4, <3>1, Zenon DEF AcceptsOnce
  <3>3. QED BY <1>5, <2>2, <2>4, <3>1, <3>2, MovedResults, Zenon
 <2>5. ASSUME NEW i \in 1..m, Posted(k, i, gone, f)
       PROVE  listen.armed /\ \A j \in DOMAIN ccq' : EndsAccept(j, listen.gen)' => j = k
  <3>1. listen.armed /\ \A l \in DOMAIN ccq : ~EndsAccept(l, listen.gen)
    BY <1>7, <2>2, <2>5, Zenon
  <3>2. ASSUME NEW j \in DOMAIN ccq', EndsAccept(j, listen.gen)' PROVE j = k
   <4>1. ~(j \in DOMAIN ccq /\ ccq'[j] = ccq[j]) BY <1>5, <3>1, <3>2, Zenon
   <4>2. PICK h \in 1..m : Posted(j, h, gone, f) BY <4>1, MovedResults, Zenon
   <4>3. QED BY <2>3, <2>5, <3>2, <4>2, Zenon
  <3>3. QED BY <3>1, <3>2, Zenon
 <2>6. QED BY <2>4, <2>5, MovedResults, Zenon
<1>8. \A e \in (csq' \cup inflight') \cap AcceptEntries : e.gen <= listen.gen
  BY <1>1, Zenon DEF AcceptsOnce
<1>9. QED BY <1>3, <1>6, <1>7, <1>8 DEF AcceptsOnce, EndsAccept

\* Where the elements of two joined sequences are.
LEMMA ConcatSplit ==
  ASSUME NEW T, NEW s \in Seq(T), NEW q \in Seq(T), NEW m, m = Len(q)
  PROVE  /\ s \o q \in Seq(T) /\ Len(s \o q) = Len(s) + m
         /\ \A k \in 1..Len(s) : (s \o q)[k] = s[k]
         /\ \A i \in 1..m : (s \o q)[Len(s) + i] = q[i]
<1>1. PICK n \in Nat : n = Len(s) /\ m \in Nat OBVIOUS
<1>2. /\ s \o q \in Seq(T) /\ Len(s \o q) = n + m
      /\ \A i \in 1..(n + m) : (s \o q)[i] = IF i <= n THEN s[i] ELSE q[i - n]
  BY <1>1, ConcatProperties
<1>3. \A k \in 1..n : k \in 1..(n + m) /\ k <= n BY <1>1
<1>4. \A i \in 1..m : n + i \in 1..(n + m) /\ ~(n + i <= n) /\ (n + i) - n = i BY <1>1
<1>5. QED BY <1>1, <1>2, <1>3, <1>4

\* Sync cancellation answers exactly the entries it takes from the kernel, each once.
LEMMA CancelMoves ==
  ASSUME StorageTypes, NEW sent, NEW gone, sent \subseteq csq, gone \subseteq inflight \cup sent,
         csq' = csq \ sent, inflight' = (inflight \cup sent) \ gone, Cancelled(gone)
  PROVE  \E m \in Nat : \E f : Moves(sent, gone, m, f)
<1>1. IsFiniteSet(gone) /\ gone \subseteq OpEntries \cup AcceptEntries
 <2>1. IsFiniteSet(csq \cup inflight) /\ gone \subseteq csq \cup inflight
   BY FS_Union DEF StorageTypes
 <2>2. QED BY <2>1, FS_Subset DEF StorageTypes
<1>2. PICK m \in Nat : m = Cardinality(gone) BY <1>1, FS_CardinalityType, Zenon
<1> DEFINE answers(s) == [k \in DOMAIN s |->
             IF "op" \in DOMAIN s[k] THEN [slot |-> s[k].slot, op |-> s[k].op, res |-> -1]
             ELSE [gen |-> s[k].gen, res |-> -1, more |-> FALSE]]
<1>3. PICK f \in [1..m -> gone] : (\A e \in gone : \E k \in DOMAIN f : f[k] = e) /\ ccq' = ccq \o answers(f)
  BY <1>2, Zenon DEF Cancelled
<1>4. \A i, j \in 1..m : f[i] = f[j] => i = j
 <2>1. DOMAIN f = 1..m BY <1>3
 <2>2. f \in Surjection(1..m, gone) BY <1>3, <2>1, Zenon DEF Surjection
 <2>3. IsFiniteSet(1..m) /\ Cardinality(1..m) = Cardinality(gone) BY <1>2, IntervalFinite, Zenon
 <2>4. f \in Injection(1..m, gone) BY <2>2, <2>3, FS_SurjSameCardinalityImpliesInj, Zenon
 <2>5. QED BY <2>4, Zenon DEF Injection, IsInjective
<1>5. ASSUME NEW i \in 1..m
      PROVE  answers(f)[i] \in OpAnswers \cup AcceptAnswers /\ AnswerTo(answers(f)[i], f[i])
 <2>1. f[i] \in gone /\ DOMAIN f = 1..m BY <1>3
 <2>2. -1 \in -1..MaxFds BY CompletionAssumption
 <2>3. CASE f[i] \in OpEntries
  <3>1. "op" \in DOMAIN f[i] /\ f[i].slot \in CSlots /\ f[i].op \in OpIds
    BY <2>3, EntryKinds, Zenon
  <3>2. answers(f)[i] = [slot |-> f[i].slot, op |-> f[i].op, res |-> -1] BY <2>1, <3>1
  <3>3. QED BY <2>2, <2>3, <3>1, <3>2 DEF OpAnswers, AnswerTo
 <2>4. CASE f[i] \in AcceptEntries
  <3>1. "op" \notin DOMAIN f[i] /\ f[i].gen \in Nat BY <2>4, EntryKinds, Zenon
  <3>2. answers(f)[i] = [gen |-> f[i].gen, res |-> -1, more |-> FALSE] BY <2>1, <3>1
  <3>3. QED BY <2>2, <2>4, <3>1, <3>2 DEF AcceptAnswers, AnswerTo
 <2>5. QED BY <1>1, <2>1, <2>3, <2>4, Zenon
<1>6. DOMAIN answers(f) = 1..m BY <1>3
<1> HIDE DEF answers
<1>7. answers(f) \in Seq(OpAnswers \cup AcceptAnswers) /\ Len(answers(f)) = m
 <2>1. answers(f) = [k \in 1..m |-> answers(f)[k]] BY <1>6 DEF answers
 <2>2. answers(f) \in [1..m -> OpAnswers \cup AcceptAnswers] BY <1>5, <2>1
 <2>3. QED BY <1>6, <2>2
<1>8. PICK q \in Seq(OpAnswers \cup AcceptAnswers) :
        q = answers(f) /\ Len(q) = m /\ \A i \in 1..m : AnswerTo(q[i], f[i])
  BY <1>5, <1>7, Zenon
<1>9. ccq \in Seq(OpAnswers \cup AcceptAnswers) /\ ccq' = ccq \o q
  BY <1>3, <1>8, Zenon DEF StorageTypes
<1>10. /\ ccq' \in Seq(OpAnswers \cup AcceptAnswers) /\ Len(ccq') = Len(ccq) + m
       /\ \A k \in 1..Len(ccq) : ccq'[k] = ccq[k]
       /\ \A i \in 1..m : ccq'[Len(ccq) + i] = q[i]
 <2>1. m = Len(q) BY <1>8, Zenon
 <2>2. /\ ccq \o q \in Seq(OpAnswers \cup AcceptAnswers) /\ Len(ccq \o q) = Len(ccq) + m
       /\ \A k \in 1..Len(ccq) : (ccq \o q)[k] = ccq[k]
       /\ \A i \in 1..m : (ccq \o q)[Len(ccq) + i] = q[i]
  <3>1. ccq \in Seq(OpAnswers \cup AcceptAnswers) BY <1>9, Zenon
  <3>2. QED BY <2>1, <3>1, ConcatSplit
 <2>3. ccq' = ccq \o q BY <1>9, Zenon
 <2>4. QED BY <2>2, <2>3, Zenon
<1>11. \A i \in 1..m : AnswerTo(ccq'[Len(ccq) + i], f[i]) BY <1>8, <1>10, Zenon
<1>12. Moves(sent, gone, m, f) BY <1>3, <1>4, <1>10, <1>11, Zenon DEF Moves
<1>13. QED BY <1>12, Zenon

\* One answer is posted.
LEMMA OneAnswer ==
  ASSUME StorageTypes, NEW e \in inflight, NEW a \in OpAnswers \cup AcceptAnswers, AnswerTo(a, e),
         csq' = csq, inflight' = inflight \ {e}, ccq' = Append(ccq, a)
  PROVE  Moves({}, {e}, 1, [i \in 1..1 |-> e])
<1>1. ccq \in Seq(OpAnswers \cup AcceptAnswers) BY DEF StorageTypes
<1>2. /\ ccq' \in Seq(OpAnswers \cup AcceptAnswers) /\ Len(ccq') = Len(ccq) + 1
      /\ \A k \in 1..Len(ccq) : ccq'[k] = ccq[k]
      /\ ccq'[Len(ccq) + 1] = a
  BY <1>1
<1>3. \A i, j \in 1..1 : i = 1 /\ j = 1 OBVIOUS
<1>4. [i \in 1..1 |-> e] \in [1..1 -> {e}] /\ \A i \in 1..1 : [h \in 1..1 |-> e][i] = e OBVIOUS
<1>5. \A i \in 1..1 : AnswerTo(ccq'[Len(ccq) + i], [h \in 1..1 |-> e][i])
  BY <1>2, <1>3, <1>4, Zenon
<1>6. {} \subseteq csq /\ {e} \subseteq inflight \cup {} /\ csq' = csq \ {} /\ inflight' = (inflight \cup {}) \ {e}
  BY Zenon
<1>7. QED BY <1>2, <1>3, <1>4, <1>5, <1>6, Zenon DEF Moves

\* What such a step keeps, given that what stays queued names what is open.
LEMMA MoveStep ==
  ASSUME StorageInv, NEW sent, NEW gone, NEW m \in Nat, NEW f, Moves(sent, gone, m, f),
         UNCHANGED <<comps, opst, drv>>, drv # "quiesced",
         listen' = listen \/ listen' = Unlistened(listen.gen), opened' \in -1..MaxFds, file' \in {"open", "closed"},
         drv = "up" => /\ \A e \in csq' \cap OpEntries : file' = "open"
                       /\ \A e \in csq' \cap AcceptEntries : listen'.open /\ listen'.gen = e.gen
  PROVE  StorageInv'
<1> USE DEF StorageInv
<1>1. /\ listen' \in [gen : Nat, open : BOOLEAN, results : Seq(-1..MaxFds), waiter : BOOLEAN,
                      armed : BOOLEAN, woken : BOOLEAN]
      /\ listen'.gen = listen.gen /\ (listen'.open => listen' = listen)
 <2>1. listen \in [gen : Nat, open : BOOLEAN, results : Seq(-1..MaxFds), waiter : BOOLEAN,
                   armed : BOOLEAN, woken : BOOLEAN]
   BY DEF StorageTypes
 <2>2. CASE listen' = listen BY <2>1, <2>2, Zenon
 <2>3. CASE listen' = Unlistened(listen.gen)
  <3>1. listen.gen \in Nat /\ <<>> \in Seq(-1..MaxFds) BY <2>1
  <3>2. QED BY <2>3, <3>1 DEF Unlistened
 <2>4. QED BY <2>2, <2>3, Zenon
<1>2. StorageTypes'
 <2>1. /\ csq' \subseteq OpEntries \cup AcceptEntries /\ IsFiniteSet(csq')
       /\ inflight' \subseteq OpEntries \cup AcceptEntries /\ IsFiniteSet(inflight')
   BY MovedTypes, Zenon
 <2>2. ccq' \in Seq(OpAnswers \cup AcceptAnswers) BY Zenon DEF Moves
 <2>3. comps' = comps /\ opst' = opst /\ drv' = drv BY Zenon
 <2>4. QED BY <1>1, <2>1, <2>2, <2>3 DEF StorageTypes
<1>3. EntriesAnswered' BY EntriesMoved, Zenon
<1>4. SlotOwners' BY Zenon DEF SlotOwners
<1>5. AcceptsOnce' BY <1>1, AcceptsMoved, Zenon
<1>6. QueuedOpen' BY Zenon DEF QueuedOpen
<1>7. QED BY <1>2, <1>3, <1>4, <1>5, <1>6, Zenon

\* Every result the kernel posts is -1, 0 or the descriptor it opens.
LEMMA ResultsBounded ==
  ASSUME StorageTypes, NEW fd \in BOOLEAN, NEW r \in Results(fd), Opens(r)
  PROVE  r \in -1..MaxFds /\ opened' \in -1..MaxFds
<1>1. MaxFds \in Nat /\ opened \in -1..MaxFds BY CompletionAssumption DEF StorageTypes
<1>2. r \in -1..MaxFds BY <1>1 DEF Results
<1>3. opened' = opened \/ opened' = r BY Zenon DEF Opens
<1>4. QED BY <1>1, <1>2, <1>3, Zenon

\* The queue is handed to the kernel.
LEMMA SubmitRing ==
  ASSUME StorageInv, submit_ring
  PROVE  StorageInv'
  <1> DEFINE f == [i \in 1..0 |-> {}]
<1>1. StorageTypes /\ drv = "up" /\ csq' = {} /\ inflight' = inflight \cup csq
      /\ UNCHANGED <<comps, opst, ccq, file, listen, opened, drv>>
  BY Zenon DEF StorageInv, submit_ring
<1>2. f \in [1..0 -> {}] /\ \A i \in 1..0 : FALSE OBVIOUS
<1>3. ccq' \in Seq(OpAnswers \cup AcceptAnswers) /\ Len(ccq') = Len(ccq) + 0
  BY <1>1 DEF StorageTypes
<1> HIDE DEF f
<1>4. Moves(csq, {}, 0, f) BY <1>1, <1>2, <1>3, Zenon DEF Moves
<1>5. opened' \in -1..MaxFds /\ file' \in {"open", "closed"} /\ 0 \in Nat BY <1>1 DEF StorageTypes
<1>6. QED BY <1>1, <1>4, <1>5, MoveStep, Zenon

\* An operation is answered and leaves the kernel.
LEMMA Complete ==
  ASSUME StorageInv, NEW e \in inflight, complete(e)
  PROVE  StorageInv'
<1>1. PICK r \in Results(opst[e.op].fd) :
        ccq' = Append(ccq, [slot |-> e.slot, op |-> e.op, res |-> r]) /\ Opens(r)
  BY Zenon DEF complete
<1>2. StorageTypes /\ "op" \in DOMAIN e /\ drv # "quiesced" /\ inflight' = inflight \ {e}
      /\ UNCHANGED <<comps, opst, csq, file, listen, drv>>
  BY Zenon DEF StorageInv, complete
<1>3. e \in OpEntries /\ e.slot \in CSlots /\ e.op \in OpIds
  BY <1>2, EntryKinds, Zenon DEF StorageTypes
<1>4. opst[e.op].fd \in BOOLEAN BY <1>2, <1>3 DEF StorageTypes, FutureRecords
<1>5. r \in -1..MaxFds /\ opened' \in -1..MaxFds BY <1>1, <1>2, <1>4, ResultsBounded, Zenon
<1>6. PICK a \in OpAnswers : AnswerTo(a, e) /\ ccq' = Append(ccq, a)
 <2>1. [slot |-> e.slot, op |-> e.op, res |-> r] \in OpAnswers BY <1>3, <1>5 DEF OpAnswers
 <2>2. AnswerTo([slot |-> e.slot, op |-> e.op, res |-> r], e) BY <1>3, <2>1 DEF AnswerTo
 <2>3. QED BY <1>1, <2>1, <2>2, Zenon
<1>7. Moves({}, {e}, 1, [i \in 1..1 |-> e]) BY <1>2, <1>6, OneAnswer, Zenon
<1>8. file' \in {"open", "closed"} /\ 1 \in Nat BY <1>2 DEF StorageTypes
<1>9. drv = "up" => /\ \A d \in csq' \cap OpEntries : file' = "open"
                    /\ \A d \in csq' \cap AcceptEntries : listen'.open /\ listen'.gen = d.gen
  BY <1>2, Zenon DEF StorageInv, QueuedOpen
<1>10. QED BY <1>2, <1>5, <1>7, <1>8, <1>9, MoveStep, Zenon

\* An accept that goes on posts a descriptor and stays in flight.
LEMMA AcceptGoesOn ==
  ASSUME StorageInv, NEW e \in inflight \cap AcceptEntries, NEW a \in AcceptAnswers, a.gen = e.gen, a.more,
         ccq' = Append(ccq, a), UNCHANGED <<comps, opst, csq, inflight, file, listen, drv>>,
         opened' \in -1..MaxFds
  PROVE  StorageInv'
<1> USE DEF StorageInv
<1>1. PICK n \in Nat : /\ DOMAIN ccq = 1..n /\ DOMAIN ccq' = 1..(n + 1) /\ ccq'[n + 1] = a
                       /\ \A k \in 1..n : ccq'[k] = ccq[k]
                       /\ ccq' \in Seq(OpAnswers \cup AcceptAnswers)
 <2>1. ccq \in Seq(OpAnswers \cup AcceptAnswers) BY DEF StorageTypes
 <2>2. QED BY <2>1
<1>2. \A k \in DOMAIN ccq' : (k \in DOMAIN ccq /\ ccq'[k] = ccq[k]) \/ ccq'[k] = a
 <2>1. \A k \in 1..(n + 1) : k \in 1..n \/ k = n + 1 OBVIOUS
 <2>2. QED BY <1>1, <2>1, Zenon
<1>3. \A k \in DOMAIN ccq' : ccq'[k] \in OpAnswers => k \in DOMAIN ccq /\ ccq'[k] = ccq[k]
  BY <1>2, KindsApart, Zenon
<1>4. \A k \in DOMAIN ccq' : EndsAccept(k, listen.gen)' => k \in DOMAIN ccq /\ EndsAccept(k, listen.gen)
  BY <1>2, Zenon DEF EndsAccept
<1>5. StorageTypes' BY <1>1, Zenon DEF StorageTypes
<1>6. \A t, o : Awaits(t, o)' <=> Awaits(t, o) BY DEF Awaits
<1>7. EntriesAnswered'
 <2>1. ASSUME NEW d \in (csq' \cup inflight') \cap OpEntries
       PROVE  Awaits(d.slot, d.op) /\ \A k \in DOMAIN ccq' : ccq'[k] \in OpAnswers => ccq'[k].slot # d.slot
  <3>1. d \in (csq \cup inflight) \cap OpEntries BY Zenon
  <3>2. QED
   <4>1. Awaits(d.slot, d.op) /\ \A k \in DOMAIN ccq : ccq[k] \in OpAnswers => ccq[k].slot # d.slot
     BY <3>1, Zenon DEF EntriesAnswered
   <4>2. ASSUME NEW k \in DOMAIN ccq', ccq'[k] \in OpAnswers PROVE ccq'[k].slot # d.slot
     BY <1>3, <4>1, <4>2, Zenon
   <4>3. QED BY <4>1, <4>2, Zenon
 <2>2. ASSUME NEW k \in DOMAIN ccq', ccq'[k] \in OpAnswers PROVE Awaits(ccq'[k].slot, ccq'[k].op)
   BY <1>3, <2>2, Zenon DEF EntriesAnswered
 <2>3. ASSUME NEW j \in DOMAIN ccq', NEW k \in DOMAIN ccq', ccq'[j] \in OpAnswers, ccq'[k] \in OpAnswers,
              ccq'[j].slot = ccq'[k].slot
       PROVE  j = k
  <3>1. j \in DOMAIN ccq /\ ccq'[j] = ccq[j] /\ k \in DOMAIN ccq /\ ccq'[k] = ccq[k]
    BY <1>3, <2>3, Zenon
  <3>2. QED BY <2>3, <3>1, Zenon DEF EntriesAnswered
 <2>4. QED BY <1>6, <2>1, <2>2, <2>3, Zenon DEF EntriesAnswered
<1>8. AcceptsOnce'
 <2>1. e.gen <= listen.gen BY Zenon DEF AcceptsOnce
 <2>2. \A k \in DOMAIN ccq' : ccq'[k] \in AcceptAnswers => ccq'[k].gen <= listen.gen
   BY <1>2, <2>1, Zenon DEF AcceptsOnce
 <2>3. \A g : g = listen.gen => \A k \in DOMAIN ccq' : EndsAccept(k, g)' => k \in DOMAIN ccq /\ EndsAccept(k, g)
   BY <1>4, Zenon
 <2>4. QED BY <1>4, <2>2, Zenon DEF AcceptsOnce
<1>9. SlotOwners' /\ QueuedOpen' BY Zenon DEF SlotOwners, QueuedOpen
<1>10. QED BY <1>5, <1>7, <1>8, <1>9, Zenon

\* An accept posts a descriptor and goes on, or posts its last result.
LEMMA Accepted ==
  ASSUME StorageInv, NEW e \in inflight, accepted(e)
  PROVE  StorageInv'
<1>1. PICK r \in Results(TRUE), more \in BOOLEAN :
        /\ ccq' = Append(ccq, [gen |-> e.gen, res |-> r, more |-> more]) /\ Opens(r)
        /\ inflight' = IF more THEN inflight ELSE inflight \ {e}
  BY Zenon DEF accepted
<1>2. StorageTypes /\ "gen" \in DOMAIN e /\ drv # "quiesced"
      /\ UNCHANGED <<comps, opst, csq, file, listen, drv>>
  BY Zenon DEF StorageInv, accepted
<1>3. e \in AcceptEntries /\ e.gen \in Nat BY <1>2, EntryKinds, Zenon DEF StorageTypes
<1>4. r \in -1..MaxFds /\ opened' \in -1..MaxFds BY <1>1, <1>2, ResultsBounded, Zenon
<1>5. PICK a \in AcceptAnswers : a.gen = e.gen /\ a.more = more /\ ccq' = Append(ccq, a)
 <2>1. [gen |-> e.gen, res |-> r, more |-> more] \in AcceptAnswers
   BY <1>3, <1>4 DEF AcceptAnswers
 <2>2. QED BY <1>1, <2>1
<1>6. CASE more BY <1>1, <1>2, <1>3, <1>4, <1>5, <1>6, AcceptGoesOn, Zenon
<1>7. CASE ~more
 <2>1. AnswerTo(a, e) BY <1>3, <1>5, <1>7, Zenon DEF AnswerTo
 <2>2. Moves({}, {e}, 1, [i \in 1..1 |-> e]) BY <1>1, <1>2, <1>5, <1>7, <2>1, OneAnswer, Zenon
 <2>3. file' \in {"open", "closed"} /\ 1 \in Nat BY <1>2 DEF StorageTypes
 <2>4. drv = "up" => /\ \A d \in csq' \cap OpEntries : file' = "open"
                     /\ \A d \in csq' \cap AcceptEntries : listen'.open /\ listen'.gen = d.gen
   BY <1>2, Zenon DEF StorageInv, QueuedOpen
 <2>5. QED BY <1>2, <1>4, <2>2, <2>3, <2>4, MoveStep, Zenon
<1>8. QED BY <1>6, <1>7, Zenon

\* Dropping the handle leaves no entry of the file in the queue: either the queue was sent,
\* or no slot waits for an answer and so no entry is queued.
LEMMA DropHandle ==
  ASSUME StorageInv, drop_handle
  PROVE  StorageInv'
<1>1. PICK gone : /\ gone \subseteq inflight \cup SubmittedBefore(NeedsCancel)
                  /\ csq' = csq \ SubmittedBefore(NeedsCancel)
                  /\ inflight' = (inflight \cup SubmittedBefore(NeedsCancel)) \ gone /\ Cancelled(gone)
  BY Zenon DEF drop_handle
<1>2. StorageTypes /\ drv = "up" /\ file' = "closed" /\ UNCHANGED <<comps, opst, listen, opened, drv>>
  BY Zenon DEF StorageInv, drop_handle
<1>3. SubmittedBefore(NeedsCancel) \subseteq csq BY Zenon DEF SubmittedBefore
<1>4. PICK m \in Nat : \E f : Moves(SubmittedBefore(NeedsCancel), gone, m, f)
  BY <1>1, <1>2, <1>3, CancelMoves, Zenon
<1>5. csq' \cap OpEntries = {}
 <2>1. CASE NeedsCancel BY <1>1, <2>1, Zenon DEF SubmittedBefore
 <2>2. CASE ~NeedsCancel
  <3>1. \A d \in csq \cap OpEntries : NeedsCancel
    BY EntryKinds, Zenon DEF StorageInv, EntriesAnswered, Awaits, NeedsCancel, Vacant
  <3>2. QED BY <1>1, <2>2, <3>1, Zenon
 <2>3. QED BY <2>1, <2>2, Zenon
<1>6. \A d \in csq' \cap AcceptEntries : listen'.open /\ listen'.gen = d.gen
  BY <1>1, <1>2, Zenon DEF StorageInv, QueuedOpen
<1>7. opened' \in -1..MaxFds /\ file' \in {"open", "closed"} /\ drv # "quiesced" /\ listen' = listen
  BY <1>2 DEF StorageTypes
<1>8. PICK f : Moves(SubmittedBefore(NeedsCancel), gone, m, f) BY <1>4, Zenon
<1>9. UNCHANGED <<comps, opst, drv>> BY <1>2, Zenon
<1>10. drv = "up" => /\ \A d \in csq' \cap OpEntries : file' = "open"
                     /\ \A d \in csq' \cap AcceptEntries : listen'.open /\ listen'.gen = d.gen
  BY <1>5, <1>6, Zenon
<1>11. QED BY <1>7, <1>8, <1>9, <1>10, MoveStep, Zenon

\* The same for the listener: an accept is queued only while the listener is armed.
LEMMA DropListener ==
  ASSUME StorageInv, drop_listener
  PROVE  StorageInv'
  <1> DEFINE sent == IF listen.armed \/ NeedsCancel THEN csq ELSE {}
<1>1. PICK gone : /\ gone \subseteq inflight \cup sent
                  /\ csq' = csq \ sent /\ inflight' = (inflight \cup sent) \ gone /\ Cancelled(gone)
  BY Zenon DEF drop_listener
<1>2. StorageTypes /\ drv = "up" /\ listen' = Unlistened(listen.gen) /\ UNCHANGED <<comps, opst, file, opened, drv>>
  BY Zenon DEF StorageInv, drop_listener
<1>3. sent \subseteq csq BY Zenon
<1>4. csq' \cap AcceptEntries = {}
 <2>1. CASE listen.armed \/ NeedsCancel BY <1>1, <2>1, Zenon
 <2>2. CASE ~(listen.armed \/ NeedsCancel)
  <3>1. \A d \in csq \cap AcceptEntries : listen.armed
    BY <1>2, Zenon DEF StorageInv, QueuedOpen, AcceptsOnce
  <3>2. QED BY <1>1, <2>2, <3>1, Zenon
 <2>3. QED BY <2>1, <2>2, Zenon
<1> HIDE DEF sent
<1>5. PICK m \in Nat : \E f : Moves(sent, gone, m, f) BY <1>1, <1>2, <1>3, CancelMoves, Zenon
<1>6. PICK f : Moves(sent, gone, m, f) BY <1>5, Zenon
<1>7. opened' \in -1..MaxFds /\ file' \in {"open", "closed"} /\ drv # "quiesced"
  BY <1>2 DEF StorageTypes
<1>8. UNCHANGED <<comps, opst, drv>> BY <1>2, Zenon
<1>9. drv = "up" => /\ \A d \in csq' \cap OpEntries : file' = "open"
                    /\ \A d \in csq' \cap AcceptEntries : listen'.open /\ listen'.gen = d.gen
  BY <1>1, <1>2, <1>4, Zenon DEF StorageInv, QueuedOpen
<1>10. QED BY <1>2, <1>6, <1>7, <1>8, <1>9, MoveStep, Zenon

-----------------------------------------------------------------------------
(* The listener. *)

\* A step that leaves the entries, the results, the slab and the futures alone.
LEMMA ListenerStep ==
  ASSUME StorageInv, UNCHANGED <<comps, opst, inflight, ccq, file, opened, drv>>, StorageTypes',
         csq' = csq, AcceptsOnce', QueuedOpen'
  PROVE  StorageInv'
<1>1. EntriesAnswered'
 <2>1. \A t, o : Awaits(t, o)' <=> Awaits(t, o) BY DEF Awaits
 <2>2. QED BY <2>1, Zenon DEF EntriesAnswered, StorageInv
<1>2. SlotOwners' BY Zenon DEF SlotOwners, StorageInv
<1>3. QED BY <1>1, <1>2, Zenon DEF StorageInv

\* A new generation: no entry and no result names it yet.
LEMMA OpenListener ==
  ASSUME StorageInv, open_listener
  PROVE  StorageInv'
<1>1. StorageTypes /\ AcceptsOnce /\ QueuedOpen /\ drv = "up" /\ ~listen.open
      /\ listen' = [Unlistened(listen.gen + 1) EXCEPT !.open = TRUE]
      /\ UNCHANGED <<comps, opst, csq, inflight, ccq, file, opened, drv>>
  BY Zenon DEF StorageInv, open_listener
<1>2. listen.gen \in Nat /\ <<>> \in Seq(-1..MaxFds) BY <1>1 DEF StorageTypes
<1>3. listen' \in [gen : Nat, open : BOOLEAN, results : Seq(-1..MaxFds), waiter : BOOLEAN,
                   armed : BOOLEAN, woken : BOOLEAN] /\ listen'.gen = listen.gen + 1
 <2>1. listen' = [gen |-> listen.gen + 1, open |-> TRUE, results |-> <<>>, waiter |-> FALSE, armed |-> FALSE,
                  woken |-> FALSE]
   BY <1>1 DEF Unlistened
 <2>2. listen.gen + 1 \in Nat BY <1>2
 <2>3. QED BY <1>2, <2>1, <2>2
<1>4. StorageTypes' BY <1>1, <1>3, Zenon DEF StorageTypes
<1>5. \A g \in Nat : g <= listen.gen => g <= listen'.gen /\ g # listen'.gen BY <1>2, <1>3
<1>6. AcceptsOnce'
 <2>1. ASSUME NEW e \in (csq \cup inflight) \cap AcceptEntries PROVE e.gen <= listen'.gen /\ e.gen # listen'.gen
  <3>1. e.gen \in Nat /\ e.gen <= listen.gen BY <1>1, EntryKinds, Zenon DEF AcceptsOnce
  <3>2. QED BY <1>5, <3>1, Zenon
 <2>2. ASSUME NEW k \in DOMAIN ccq, ccq[k] \in AcceptAnswers
       PROVE  ccq[k].gen <= listen'.gen /\ ccq[k].gen # listen'.gen
  <3>1. ccq[k].gen \in Nat /\ ccq[k].gen <= listen.gen
    BY <1>1, <2>2, EntryKinds, Zenon DEF AcceptsOnce
  <3>2. QED BY <1>5, <3>1, Zenon
 <2>3. \A k \in DOMAIN ccq : ~EndsAccept(k, listen.gen)' BY <1>1, <2>2, Zenon DEF EndsAccept
 <2>4. QED BY <1>1, <2>1, <2>2, <2>3 DEF AcceptsOnce
<1>7. QueuedOpen' BY <1>1, Zenon DEF QueuedOpen
<1>8. QED BY <1>1, <1>4, <1>6, <1>7, ListenerStep, Zenon

\* A poll of the listener that does not arm it.
LEMMA ListenerPolled ==
  ASSUME StorageInv, UNCHANGED <<comps, opst, csq, inflight, ccq, file, opened, drv>>, StorageTypes',
         listen'.gen = listen.gen, listen'.open = listen.open, listen'.armed = listen.armed
  PROVE  StorageInv'
<1>1. AcceptsOnce'
 <2>1. \A k, g : EndsAccept(k, g)' <=> EndsAccept(k, g) BY DEF EndsAccept
 <2>2. QED BY <2>1 DEF AcceptsOnce, EndsAccept, StorageInv
<1>2. QueuedOpen' BY Zenon DEF QueuedOpen, StorageInv
<1>3. QED BY <1>1, <1>2, ListenerStep, Zenon

\* The listener is armed: its accept is queued, and was nowhere before.
LEMMA ListenerArmed ==
  ASSUME StorageInv, UNCHANGED <<comps, opst, inflight, ccq, file, opened, drv>>,
         drv = "up", listen.open, ~listen.armed, listen' \in [gen : Nat, open : BOOLEAN, results : Seq(-1..MaxFds),
           waiter : BOOLEAN, armed : BOOLEAN, woken : BOOLEAN],
         listen'.gen = listen.gen, listen'.open = listen.open, listen'.armed = TRUE,
         csq' = csq \cup {[gen |-> listen.gen]}
  PROVE  StorageInv'
<1> USE DEF StorageInv
<1>1. PICK d \in AcceptEntries : d.gen = listen.gen /\ csq' = csq \cup {d}
 <2>1. listen.gen \in Nat BY DEF StorageTypes
 <2>2. [gen |-> listen.gen] \in AcceptEntries /\ [gen |-> listen.gen].gen = listen.gen
   BY <2>1 DEF AcceptEntries
 <2>3. QED BY <2>2, Zenon
<1>2. \A e \in (csq \cup inflight) \cap AcceptEntries : e.gen # listen.gen
  BY Zenon DEF AcceptsOnce
<1>3. \A k \in DOMAIN ccq : ~EndsAccept(k, listen.gen) BY Zenon DEF AcceptsOnce
<1>4. StorageTypes'
 <2>1. IsFiniteSet(csq')
  <3>1. IsFiniteSet(csq) BY Zenon DEF StorageTypes
  <3>2. IsFiniteSet(csq \cup {d}) BY <3>1, FS_AddElement
  <3>3. QED BY <1>1, <3>2, Zenon
 <2>2. csq' \subseteq OpEntries \cup AcceptEntries BY <1>1, Zenon DEF StorageTypes
 <2>3. QED BY <2>1, <2>2, Zenon DEF StorageTypes
<1>5. EntriesAnswered'
 <2>1. \A t, o : Awaits(t, o)' <=> Awaits(t, o) BY DEF Awaits
 <2>2. (csq' \cup inflight') \cap OpEntries = (csq \cup inflight) \cap OpEntries
   BY <1>1, KindsApart, Zenon
 <2>3. csq' \cap inflight' = {} BY <1>1, <1>2, Zenon DEF EntriesAnswered
 <2>4. QED BY <2>1, <2>2, <2>3, Zenon DEF EntriesAnswered
<1>6. SlotOwners' BY Zenon DEF SlotOwners
<1>7. AcceptsOnce'
 <2>1. \A k \in DOMAIN ccq : ~EndsAccept(k, listen.gen)' BY <1>3 DEF EndsAccept
 <2>2. \A e \in (csq' \cup inflight') \cap AcceptEntries : e.gen <= listen'.gen
  <3>1. d.gen <= listen.gen BY <1>1 DEF StorageTypes
  <3>2. QED BY <1>1, <3>1, Zenon DEF AcceptsOnce
 <2>3. \A k \in DOMAIN ccq' : ccq'[k] \in AcceptAnswers => ccq'[k].gen <= listen'.gen
   BY Zenon DEF AcceptsOnce
 <2>4. QED BY <2>1, <2>2, <2>3 DEF AcceptsOnce, EndsAccept
<1>8. QueuedOpen' BY <1>1, KindsApart, Zenon DEF QueuedOpen
<1>9. QED BY <1>4, <1>5, <1>6, <1>7, <1>8, Zenon

\* A poll of the listener takes a result, or waits and arms the accept once.
LEMMA PollAccept ==
  ASSUME StorageInv, poll_multishot_accept
  PROVE  StorageInv'
<1>1. StorageTypes /\ drv = "up" /\ listen.open /\ UNCHANGED <<comps, opst, inflight, ccq, file, opened, drv>>
  BY Zenon DEF StorageInv, poll_multishot_accept
<1>2. listen \in [gen : Nat, open : BOOLEAN, results : Seq(-1..MaxFds), waiter : BOOLEAN,
                  armed : BOOLEAN, woken : BOOLEAN]
  BY <1>1 DEF StorageTypes
<1>3. CASE listen.results # <<>>
 <2>1. csq' = csq /\ listen' = [listen EXCEPT !.results = Tail(@), !.waiter = FALSE, !.woken = FALSE]
   BY <1>3, Zenon DEF poll_multishot_accept
 <2>2. Tail(listen.results) \in Seq(-1..MaxFds) BY <1>2, <1>3
 <2>3. listen' \in [gen : Nat, open : BOOLEAN, results : Seq(-1..MaxFds), waiter : BOOLEAN,
                    armed : BOOLEAN, woken : BOOLEAN]
       /\ listen'.gen = listen.gen /\ listen'.open = listen.open /\ listen'.armed = listen.armed
   BY <1>2, <2>1, <2>2
 <2>4. StorageTypes' BY <1>1, <2>1, <2>3, Zenon DEF StorageTypes
 <2>5. QED BY <1>1, <2>1, <2>3, <2>4, ListenerPolled, Zenon
<1>4. CASE listen.results = <<>>
 <2>1. listen' = [listen EXCEPT !.waiter = TRUE, !.armed = TRUE, !.woken = FALSE]
       /\ csq' = IF listen.armed THEN csq ELSE csq \cup {[gen |-> listen.gen]}
   BY <1>4, Zenon DEF poll_multishot_accept
 <2>2. listen' \in [gen : Nat, open : BOOLEAN, results : Seq(-1..MaxFds), waiter : BOOLEAN,
                    armed : BOOLEAN, woken : BOOLEAN]
       /\ listen'.gen = listen.gen /\ listen'.open = listen.open /\ listen'.armed = TRUE
       /\ listen.armed \in BOOLEAN
   BY <1>2, <2>1
 <2>3. CASE listen.armed = TRUE
  <3>1. csq' = csq BY <2>1, <2>3, Zenon
  <3>2. StorageTypes' BY <1>1, <2>2, <3>1, Zenon DEF StorageTypes
  <3>3. QED BY <1>1, <2>2, <2>3, <3>1, <3>2, ListenerPolled, Zenon
 <2>4. CASE listen.armed = FALSE BY <1>1, <2>1, <2>2, <2>4, ListenerArmed, Zenon
 <2>5. QED BY <2>2, <2>3, <2>4, Zenon
<1>5. QED BY <1>3, <1>4, Zenon

\* An accept that cannot be queued leaves the listener unarmed.
LEMMA AcceptFails ==
  ASSUME StorageInv, multishot_accept_fails
  PROVE  StorageInv'
<1>1. StorageTypes /\ listen' = [listen EXCEPT !.waiter = FALSE, !.woken = FALSE]
      /\ UNCHANGED <<comps, opst, csq, inflight, ccq, file, opened, drv>>
  BY Zenon DEF StorageInv, multishot_accept_fails
<1>2. listen' \in [gen : Nat, open : BOOLEAN, results : Seq(-1..MaxFds), waiter : BOOLEAN,
                   armed : BOOLEAN, woken : BOOLEAN]
      /\ listen'.gen = listen.gen /\ listen'.open = listen.open /\ listen'.armed = listen.armed
  BY <1>1 DEF StorageTypes
<1>3. StorageTypes' BY <1>1, <1>2, Zenon DEF StorageTypes
<1>4. QED BY <1>1, <1>2, <1>3, ListenerPolled, Zenon

-----------------------------------------------------------------------------
(* Results are drained. *)

\* The queue of results without its first.
LEMMA ResultsDrained ==
  ASSUME StorageTypes, ccq # <<>>, ccq' = Tail(ccq)
  PROVE  /\ ccq' \in Seq(OpAnswers \cup AcceptAnswers) /\ Head(ccq) = ccq[1] /\ 1 \in DOMAIN ccq
         /\ Head(ccq) \in OpAnswers \cup AcceptAnswers
         /\ \A k \in DOMAIN ccq' : k + 1 \in DOMAIN ccq /\ ccq'[k] = ccq[k + 1] /\ k + 1 # 1
         /\ \A j, k \in DOMAIN ccq' : j + 1 = k + 1 => j = k
<1>1. ccq \in Seq(OpAnswers \cup AcceptAnswers) BY DEF StorageTypes
<1>2. /\ ccq' \in Seq(OpAnswers \cup AcceptAnswers) /\ Head(ccq) \in OpAnswers \cup AcceptAnswers
      /\ Head(ccq) = ccq[1] /\ Len(ccq) \in Nat \ {0} /\ Len(ccq') = Len(ccq) - 1
      /\ \A i \in 1..(Len(ccq) - 1) : ccq'[i] = ccq[i + 1]
  BY <1>1
<1>3. DOMAIN ccq = 1..Len(ccq) /\ DOMAIN ccq' = 1..Len(ccq') BY <1>1, <1>2
<1>4. QED BY <1>2, <1>3

\* The entries stay answered when the first result is taken, if nobody else awaits its slot.
LEMMA EntriesDrained ==
  ASSUME StorageTypes, EntriesAnswered, ccq # <<>>, ccq' = Tail(ccq), UNCHANGED <<csq, inflight>>,
         \A t \in CSlots : \A o : Awaits(t, o) /\ (Head(ccq) \in OpAnswers => t # Head(ccq).slot) => Awaits(t, o)'
  PROVE  EntriesAnswered'
<1>1. \A k \in DOMAIN ccq' : k + 1 \in DOMAIN ccq /\ ccq'[k] = ccq[k + 1] /\ k + 1 # 1
  BY ResultsDrained, Zenon
<1>2. \A j, k \in DOMAIN ccq' : j + 1 = k + 1 => j = k BY ResultsDrained, Zenon
<1>3. Head(ccq) = ccq[1] /\ 1 \in DOMAIN ccq BY ResultsDrained, Zenon
<1>4. ASSUME NEW e \in (csq \cup inflight) \cap OpEntries
      PROVE  Awaits(e.slot, e.op)' /\ \A k \in DOMAIN ccq' : ccq'[k] \in OpAnswers => ccq'[k].slot # e.slot
 <2>1. Awaits(e.slot, e.op) /\ \A k \in DOMAIN ccq : ccq[k] \in OpAnswers => ccq[k].slot # e.slot
   BY Zenon DEF EntriesAnswered
 <2>2. Awaits(e.slot, e.op)' BY <1>3, <2>1, EntryKinds, Zenon
 <2>3. ASSUME NEW k \in DOMAIN ccq', ccq'[k] \in OpAnswers PROVE ccq'[k].slot # e.slot
   BY <1>1, <2>1, <2>3, Zenon
 <2>4. QED BY <2>2, <2>3, Zenon
<1>5. ASSUME NEW k \in DOMAIN ccq', ccq'[k] \in OpAnswers, NEW t, NEW o, t = ccq'[k].slot, o = ccq'[k].op
      PROVE  Awaits(t, o)'
 <2>1. Awaits(t, o) BY <1>1, <1>5, Zenon DEF EntriesAnswered
 <2>2. Head(ccq) \in OpAnswers => t # Head(ccq).slot
   BY <1>1, <1>3, <1>5, Zenon DEF EntriesAnswered
 <2>3. t \in CSlots BY <1>5, EntryKinds, Zenon
 <2>4. QED BY <2>1, <2>2, <2>3, Zenon
<1>6. ASSUME NEW j \in DOMAIN ccq', NEW k \in DOMAIN ccq', ccq'[j] \in OpAnswers, ccq'[k] \in OpAnswers,
             ccq'[j].slot = ccq'[k].slot
      PROVE  j = k
 <2>1. j + 1 \in DOMAIN ccq /\ k + 1 \in DOMAIN ccq /\ ccq'[j] = ccq[j + 1] /\ ccq'[k] = ccq[k + 1]
   BY <1>1, Zenon
 <2>2. j + 1 = k + 1 BY <1>6, <2>1, Zenon DEF EntriesAnswered
 <2>3. QED BY <1>2, <2>2, Zenon
<1>7. csq' \cap inflight' = {} /\ csq' \cup inflight' = csq \cup inflight
  BY Zenon DEF EntriesAnswered
<1>8. \A k \in DOMAIN ccq' : ccq'[k] \in OpAnswers =>
        comps'[ccq'[k].slot] # NoSlot /\ comps'[ccq'[k].slot].op = ccq'[k].op
        /\ comps'[ccq'[k].slot].result = NoSlot
  BY <1>5, Zenon DEF Awaits
<1>9. QED BY <1>4, <1>6, <1>7, <1>8, Zenon DEF EntriesAnswered, Awaits

\* The listener's end is taken with its mark: what stays in the queue is not the end of the
\* same accept.
LEMMA AcceptsDrained ==
  ASSUME StorageTypes, AcceptsOnce, ccq # <<>>, ccq' = Tail(ccq), UNCHANGED <<csq, inflight>>,
         listen'.gen = listen.gen, listen'.open = listen.open,
         listen.open => listen'.armed = listen.armed \/ listen'.armed \/ EndsAccept(1, listen.gen)
  PROVE  AcceptsOnce'
<1>1. \A k \in DOMAIN ccq' : k + 1 \in DOMAIN ccq /\ ccq'[k] = ccq[k + 1] /\ k + 1 # 1
  BY ResultsDrained, Zenon
<1>2. \A j, k \in DOMAIN ccq' : j + 1 = k + 1 => j = k BY ResultsDrained, Zenon
<1>3. Head(ccq) = ccq[1] /\ 1 \in DOMAIN ccq BY ResultsDrained, Zenon
<1>4. ASSUME NEW k \in DOMAIN ccq' PROVE EndsAccept(k, listen.gen)' <=> EndsAccept(k + 1, listen.gen)
  BY <1>1 DEF EndsAccept
<1>5. ASSUME NEW k \in DOMAIN ccq', ccq'[k] \in AcceptAnswers PROVE ccq'[k].gen <= listen'.gen
  BY <1>1, <1>5, Zenon DEF AcceptsOnce
<1>6. ASSUME listen.open, NEW e \in (csq \cup inflight) \cap AcceptEntries, e.gen = listen.gen
      PROVE  listen'.armed /\ \A k \in DOMAIN ccq' : ~EndsAccept(k, listen.gen)'
 <2>1. listen.armed /\ \A k \in DOMAIN ccq : ~EndsAccept(k, listen.gen)
   BY <1>6, Zenon DEF AcceptsOnce
 <2>2. listen'.armed BY <1>3, <1>6, <2>1, Zenon
 <2>3. QED BY <1>1, <1>4, <2>1, <2>2, Zenon
<1>7. ASSUME listen.open, NEW k \in DOMAIN ccq', EndsAccept(k, listen.gen)'
      PROVE  listen'.armed /\ \A j \in DOMAIN ccq' : EndsAccept(j, listen.gen)' => j = k
 <2>1. k + 1 \in DOMAIN ccq /\ EndsAccept(k + 1, listen.gen) /\ k + 1 # 1
   BY <1>1, <1>4, <1>7, Zenon
 <2>2. listen.armed /\ \A j \in DOMAIN ccq : EndsAccept(j, listen.gen) => j = k + 1
   BY <1>7, <2>1, Zenon DEF AcceptsOnce
 <2>3. listen'.armed BY <1>3, <1>7, <2>1, <2>2, Zenon
 <2>4. ASSUME NEW j \in DOMAIN ccq', EndsAccept(j, listen.gen)' PROVE j = k
   BY <1>1, <1>2, <1>4, <2>2, <2>4, Zenon
 <2>5. QED BY <2>3, <2>4, Zenon
<1>8. QED BY <1>5, <1>6, <1>7 DEF AcceptsOnce, EndsAccept

\* The listener's result is queued at it, and its last one clears the mark.
LEMMA DrainAccept ==
  ASSUME StorageInv, drain_accept
  PROVE  StorageInv'
<1> USE DEF StorageInv
<1> DEFINE e == Head(ccq)
<1>1. drv = "up" /\ ccq # <<>> /\ ccq' = Tail(ccq) /\ UNCHANGED <<comps, opst, csq, inflight, file, opened, drv>>
  BY Zenon DEF drain_accept
<1>2. e \in AcceptAnswers /\ e = ccq[1] /\ e.gen \in Nat /\ e.res \in -1..MaxFds /\ e.more \in BOOLEAN
      /\ ccq' \in Seq(OpAnswers \cup AcceptAnswers)
 <2>1. "gen" \in DOMAIN e BY Zenon DEF drain_accept
 <2>2. QED BY <1>1, <2>1, ResultsDrained, EntryKinds, Zenon
<1>3. listen \in [gen : Nat, open : BOOLEAN, results : Seq(-1..MaxFds), waiter : BOOLEAN,
                  armed : BOOLEAN, woken : BOOLEAN]
  BY DEF StorageTypes
<1>4. \/ OwnAccept(e) /\ listen' = [listen EXCEPT !.armed = e.more, !.results = Append(@, e.res),
                                                  !.waiter = FALSE, !.woken = listen.waiter \/ @]
      \/ listen' = listen
  BY Zenon DEF drain_accept
<1> HIDE DEF e
<1>5. /\ listen' \in [gen : Nat, open : BOOLEAN, results : Seq(-1..MaxFds), waiter : BOOLEAN,
                      armed : BOOLEAN, woken : BOOLEAN]
      /\ listen'.gen = listen.gen /\ listen'.open = listen.open
      /\ listen'.armed = listen.armed \/ (listen'.armed = e.more /\ OwnAccept(e))
 <2>1. CASE listen' = listen BY <1>3, <2>1, Zenon
 <2>2. CASE OwnAccept(e) /\ listen' = [listen EXCEPT !.armed = e.more, !.results = Append(@, e.res),
                                                     !.waiter = FALSE, !.woken = listen.waiter \/ @]
  <3>1. Append(listen.results, e.res) \in Seq(-1..MaxFds) BY <1>2, <1>3
  <3>2. listen' \in [gen : Nat, open : BOOLEAN, results : Seq(-1..MaxFds), waiter : BOOLEAN,
                    armed : BOOLEAN, woken : BOOLEAN]
        /\ listen'.gen = listen.gen /\ listen'.open = listen.open /\ listen'.armed = e.more
    BY <1>2, <1>3, <2>2, <3>1
  <3>3. QED BY <2>2, <3>2, Zenon
 <2>3. QED BY <1>4, <2>1, <2>2, Zenon
<1>6. StorageTypes' BY <1>1, <1>2, <1>5, Zenon DEF StorageTypes
<1>7. EntriesAnswered'
 <2>1. \A t, o : Awaits(t, o) => Awaits(t, o)' BY <1>1 DEF Awaits
 <2>2. QED BY <1>1, <2>1, EntriesDrained, Zenon
<1>8. AcceptsOnce'
 <2>1. listen.open => listen'.armed = listen.armed \/ listen'.armed \/ EndsAccept(1, listen.gen)
   BY <1>2, <1>5 DEF EndsAccept, OwnAccept
 <2>2. QED BY <1>1, <1>5, <2>1, AcceptsDrained, Zenon
<1>9. SlotOwners' BY <1>1, Zenon DEF SlotOwners
<1>10. QueuedOpen' BY <1>1, <1>5, Zenon DEF QueuedOpen
<1>11. QED BY <1>6, <1>7, <1>8, <1>9, <1>10, Zenon

-----------------------------------------------------------------------------
(* The slab. *)

\* What a slot holds, by the types.
LEMMA SlotTyped ==
  ASSUME StorageTypes
  PROVE  /\ \A t \in CSlots : comps[t] # NoSlot => comps[t] \in SlabRecords /\ comps[t].op \in OpIds
         /\ \A o \in OpIds : opst[o] \in FutureRecords
         /\ NoSlot \notin SlabRecords
  BY CompletionAssumption DEF StorageTypes, SlabRecords

\* A slot and the future that owns it change together.
LEMMA OwnersKept ==
  ASSUME StorageTypes, SlotOwners, drv = "up", drv' = drv, NEW t \in CSlots, NEW o \in OpIds,
         \A u \in CSlots : u # t => comps'[u] = comps[u],
         \A u \in CSlots : u # t /\ comps[u] # NoSlot => comps[u].op # o,
         \A p \in OpIds : p # o => opst'[p] = opst[p],
         comps[t] # NoSlot => comps[t].op = o,
         comps'[t] # NoSlot => /\ comps'[t].op = o
                               /\ IF comps'[t].ignored THEN opst'[o].pc = "dropped" /\ comps'[t].result = NoSlot
                                  ELSE opst'[o].pc = "wait" /\ opst'[o].slot = t,
         opst'[o].pc = "wait" => opst'[o].slot = t /\ comps'[t] # NoSlot
  PROVE  SlotOwners'
<1>1. ASSUME NEW u \in CSlots, comps'[u] # NoSlot
      PROVE  IF comps'[u].ignored THEN opst'[comps'[u].op].pc = "dropped" /\ comps'[u].result = NoSlot
             ELSE opst'[comps'[u].op].pc = "wait" /\ opst'[comps'[u].op].slot = u
 <2>1. CASE u = t BY <1>1, <2>1, Zenon
 <2>2. CASE u # t
  <3>1. comps'[u] = comps[u] /\ comps[u] # NoSlot /\ comps[u].op # o /\ comps[u].op \in OpIds
    BY <1>1, <2>2, SlotTyped, Zenon
  <3>2. opst'[comps[u].op] = opst[comps[u].op] BY <3>1, Zenon
  <3>3. IF comps[u].ignored THEN opst[comps[u].op].pc = "dropped" /\ comps[u].result = NoSlot
        ELSE opst[comps[u].op].pc = "wait" /\ opst[comps[u].op].slot = u
    BY <3>1, Zenon DEF SlotOwners
  <3>4. QED BY <3>1, <3>2, <3>3, Zenon
 <2>3. QED BY <2>1, <2>2, Zenon
<1>2. ASSUME NEW p \in OpIds, opst'[p].pc = "wait"
      PROVE  opst'[p].slot \in CSlots /\ comps'[opst'[p].slot] # NoSlot /\ comps'[opst'[p].slot].op = p
 <2>1. CASE p = o BY <1>2, <2>1, Zenon
 <2>2. CASE p # o
  <3>1. opst'[p] = opst[p] /\ opst[p].slot \in CSlots /\ comps[opst[p].slot] # NoSlot /\ comps[opst[p].slot].op = p
    BY <1>2, <2>2 DEF SlotOwners
  <3>2. opst[p].slot # t BY <2>2, <3>1, Zenon
  <3>3. comps'[opst[p].slot] = comps[opst[p].slot] BY <3>1, <3>2, Zenon
  <3>4. QED BY <3>1, <3>3, Zenon
 <2>3. QED BY <2>1, <2>2, Zenon
<1>3. QED BY <1>1, <1>2, Zenon DEF SlotOwners

\* The slot of a waiting future is the only one that holds its operation.
LEMMA OwnerAlone ==
  ASSUME StorageInv, drv = "up", NEW o \in OpIds, opst[o].pc = "wait"
  PROVE  LET t == opst[o].slot
         IN  /\ t \in CSlots /\ comps[t] \in SlabRecords /\ comps[t] # NoSlot /\ comps[t].op = o
             /\ comps[t].ignored = FALSE
             /\ \A u \in CSlots : u # t /\ comps[u] # NoSlot => comps[u].op # o
  <1> DEFINE t == opst[o].slot
<1>1. t \in CSlots /\ comps[t] # NoSlot /\ comps[t].op = o BY DEF StorageInv, SlotOwners
<1>2. comps[t] \in SlabRecords BY <1>1, SlotTyped, Zenon DEF StorageInv
<1>3. comps[t].ignored = FALSE
 <2>1. comps[t].ignored \in BOOLEAN BY <1>2 DEF SlabRecords
 <2>2. comps[t].ignored => opst[o].pc = "dropped" BY <1>1, Zenon DEF StorageInv, SlotOwners
 <2>3. QED BY <2>1, <2>2
<1>4. ASSUME NEW u \in CSlots, u # t, comps[u] # NoSlot, comps[u].op = o PROVE FALSE
 <2>1. opst[o].pc = "dropped" \/ opst[o].slot = u BY <1>4, Zenon DEF StorageInv, SlotOwners
 <2>2. QED BY <1>4, <2>1
<1>5. QED BY <1>1, <1>2, <1>3, <1>4, Zenon

\* A step of the slab that keeps what awaits an answer leaves entries and results as they are.
LEMMA SlabStep ==
  ASSUME StorageInv, UNCHANGED <<csq, inflight, ccq, file, listen, opened, drv>>,
         comps' \in [CSlots -> SlabRecords \cup {NoSlot}], opst' \in [OpIds -> FutureRecords],
         \A t, o : t \in CSlots /\ Awaits(t, o) => Awaits(t, o)', SlotOwners'
  PROVE  StorageInv'
<1> USE DEF StorageInv
<1>1. StorageTypes' BY Zenon DEF StorageTypes
<1>2. EntriesAnswered'
 <2>1. ASSUME NEW e \in (csq \cup inflight) \cap OpEntries PROVE Awaits(e.slot, e.op)'
   BY EntryKinds, Zenon DEF EntriesAnswered
 <2>2. ASSUME NEW k \in DOMAIN ccq, ccq[k] \in OpAnswers, NEW t, NEW o, t = ccq[k].slot, o = ccq[k].op
       PROVE  Awaits(t, o)'
   BY <2>2, EntryKinds, Zenon DEF EntriesAnswered
 <2>3. \A k \in DOMAIN ccq : ccq[k] \in OpAnswers =>
         comps'[ccq[k].slot] # NoSlot /\ comps'[ccq[k].slot].op = ccq[k].op
         /\ comps'[ccq[k].slot].result = NoSlot
   BY <2>2, Zenon DEF Awaits
 <2>4. \A k \in DOMAIN ccq' : ccq'[k] \in OpAnswers => Awaits(ccq[k].slot, ccq[k].op)'
   BY <2>3, Zenon DEF Awaits
 <2>5. /\ csq' \cap inflight' = {} /\ (csq' \cup inflight') \cap OpEntries = (csq \cup inflight) \cap OpEntries
       /\ \A e \in (csq \cup inflight) \cap OpEntries :
            \A k \in DOMAIN ccq : ccq[k] \in OpAnswers => ccq[k].slot # e.slot
       /\ \A j, k \in DOMAIN ccq :
            ccq[j] \in OpAnswers /\ ccq[k] \in OpAnswers /\ ccq[j].slot = ccq[k].slot => j = k
   BY Zenon DEF EntriesAnswered
 <2>6. QED BY <2>1, <2>4, <2>5 DEF EntriesAnswered
<1>3. AcceptsOnce' BY DEF AcceptsOnce, EndsAccept
<1>4. QueuedOpen' BY Zenon DEF QueuedOpen
<1>5. QED BY <1>1, <1>2, <1>3, <1>4, Zenon

\* A submission that fails keeps no slot.
LEMMA SubmitError ==
  ASSUME StorageInv, NEW o \in OpIds, submit_error(o)
  PROVE  StorageInv'
<1>1. StorageTypes /\ opst[o].pc = "new" /\ opst' = [opst EXCEPT ![o].pc = "done"] /\ comps' = comps
      /\ UNCHANGED <<csq, inflight, ccq, file, listen, opened, drv>>
  BY Zenon DEF StorageInv, submit_error
<1>2. opst' \in [OpIds -> FutureRecords] /\ opst'[o].pc = "done"
      /\ \A p \in OpIds : p # o => opst'[p] = opst[p]
  BY <1>1 DEF StorageTypes, FutureRecords
<1>3. \A t \in CSlots : comps[t] # NoSlot => comps[t].op # o /\ comps[t].op \in OpIds
  BY <1>1, SlotTyped DEF StorageInv, SlotOwners
<1>4. SlotOwners'
 <2>1. ASSUME NEW u \in CSlots, comps[u] # NoSlot PROVE opst'[comps[u].op] = opst[comps[u].op]
   BY <1>2, <1>3, <2>1, Zenon
 <2>2. \A p \in OpIds : opst'[p].pc = "wait" => opst'[p] = opst[p] BY <1>2
 <2>3. ASSUME NEW u \in CSlots, comps[u] # NoSlot
       PROVE  IF comps[u].ignored THEN opst'[comps[u].op].pc = "dropped" /\ comps[u].result = NoSlot
              ELSE opst'[comps[u].op].pc = "wait" /\ opst'[comps[u].op].slot = u
   BY <2>1, <2>3, Zenon DEF StorageInv, SlotOwners
 <2>4. ASSUME NEW p \in OpIds, opst'[p].pc = "wait", drv # "quiesced"
       PROVE  opst'[p].slot \in CSlots /\ comps[opst'[p].slot] # NoSlot /\ comps[opst'[p].slot].op = p
   BY <2>2, <2>4, Zenon DEF StorageInv, SlotOwners
 <2>5. QED BY <1>1, <2>3, <2>4 DEF SlotOwners
<1>5. comps' \in [CSlots -> SlabRecords \cup {NoSlot}] /\ \A t, p : Awaits(t, p) => Awaits(t, p)'
  BY <1>1 DEF StorageTypes, Awaits
<1>6. QED BY <1>1, <1>2, <1>4, <1>5, SlabStep, Zenon

\* A poll takes the result and frees the slot, or waits on.
LEMMA PollCompletion ==
  ASSUME StorageInv, NEW o \in OpIds, poll_completion(o)
  PROVE  StorageInv'
  <1> DEFINE t == opst[o].slot
<1>1. StorageTypes /\ drv = "up" /\ opst[o].pc = "wait" /\ SlotOwners
      /\ UNCHANGED <<csq, inflight, ccq, file, listen, opened, drv>>
  BY Zenon DEF StorageInv, poll_completion
<1>2. /\ t \in CSlots /\ comps[t] \in SlabRecords /\ comps[t] # NoSlot /\ comps[t].op = o
      /\ comps[t].ignored = FALSE
      /\ \A u \in CSlots : u # t /\ comps[u] # NoSlot => comps[u].op # o
  BY <1>1, OwnerAlone, Zenon
<1>3. comps \in [CSlots -> SlabRecords \cup {NoSlot}] /\ opst \in [OpIds -> FutureRecords]
  BY <1>1 DEF StorageTypes
<1>4. \/ /\ comps[t].result = NoSlot /\ comps' = [comps EXCEPT ![t].waiter = TRUE]
         /\ opst' = [opst EXCEPT ![o].woken = FALSE]
      \/ /\ comps[t].result # NoSlot /\ comps' = [comps EXCEPT ![t] = NoSlot]
         /\ opst' = [opst EXCEPT ![o] = [@ EXCEPT !.pc = "done", !.slot = NoSlot]]
  BY Zenon DEF poll_completion
<1> HIDE DEF t
<1>5. t = opst[o].slot BY Zenon DEF t
<1>6. CASE /\ comps[t].result = NoSlot /\ comps' = [comps EXCEPT ![t].waiter = TRUE]
           /\ opst' = [opst EXCEPT ![o].woken = FALSE]
 <2>1. comps'[t] \in SlabRecords /\ comps'[t].op = o /\ comps'[t].ignored = FALSE /\ comps'[t].result = NoSlot
   BY <1>2, <1>3, <1>6 DEF SlabRecords
 <2>2. comps' \in [CSlots -> SlabRecords \cup {NoSlot}] /\ \A u \in CSlots : u # t => comps'[u] = comps[u]
   BY <1>2, <1>3, <1>6, <2>1
 <2>3. opst' \in [OpIds -> FutureRecords] /\ opst'[o].pc = "wait" /\ opst'[o].slot = t
       /\ \A p \in OpIds : p # o => opst'[p] = opst[p]
   BY <1>1, <1>3, <1>5, <1>6 DEF FutureRecords
 <2>4. comps'[t] # NoSlot BY <1>1, <2>1, SlotTyped, Zenon
 <2>5. SlotOwners'
  <3>1. comps'[t] # NoSlot => /\ comps'[t].op = o
                              /\ IF comps'[t].ignored THEN opst'[o].pc = "dropped" /\ comps'[t].result = NoSlot
                                 ELSE opst'[o].pc = "wait" /\ opst'[o].slot = t
    BY <2>1, <2>3
  <3>2. opst'[o].pc = "wait" => opst'[o].slot = t /\ comps'[t] # NoSlot BY <2>3, <2>4, Zenon
  <3>3. QED BY <1>1, <1>2, <2>2, <2>3, <3>1, <3>2, OwnersKept, Zenon
 <2>6. \A u, p : u \in CSlots /\ Awaits(u, p) => Awaits(u, p)'
   BY <1>2, <2>1, <2>2, <2>4, Zenon DEF Awaits
 <2>7. QED BY <1>1, <2>2, <2>3, <2>5, <2>6, SlabStep, Zenon
<1>7. CASE /\ comps[t].result # NoSlot /\ comps' = [comps EXCEPT ![t] = NoSlot]
           /\ opst' = [opst EXCEPT ![o] = [@ EXCEPT !.pc = "done", !.slot = NoSlot]]
 <2>1. comps' \in [CSlots -> SlabRecords \cup {NoSlot}] /\ comps'[t] = NoSlot
       /\ \A u \in CSlots : u # t => comps'[u] = comps[u]
   BY <1>2, <1>3, <1>7
 <2>2. opst' \in [OpIds -> FutureRecords] /\ opst'[o].pc = "done"
       /\ \A p \in OpIds : p # o => opst'[p] = opst[p]
   BY <1>3, <1>7 DEF FutureRecords
 <2>3. SlotOwners'
  <3>1. opst'[o].pc = "wait" => opst'[o].slot = t /\ comps'[t] # NoSlot BY <2>2
  <3>2. comps'[t] # NoSlot => /\ comps'[t].op = o
                              /\ IF comps'[t].ignored THEN opst'[o].pc = "dropped" /\ comps'[t].result = NoSlot
                                 ELSE opst'[o].pc = "wait" /\ opst'[o].slot = t
    BY <2>1, Zenon
  <3>3. QED BY <1>1, <1>2, <2>1, <2>2, <3>1, <3>2, OwnersKept, Zenon
 <2>4. \A u, p : u \in CSlots /\ Awaits(u, p) => Awaits(u, p)' BY <1>7, <2>1, Zenon DEF Awaits
 <2>5. QED BY <1>1, <2>1, <2>2, <2>3, <2>4, SlabStep, Zenon
<1>8. QED BY <1>4, <1>6, <1>7, Zenon

\* Dropping a future leaves its slot to the kernel, or frees an answered one.
LEMMA CancelCompletion ==
  ASSUME StorageInv, NEW o \in OpIds, cancel_completion(o)
  PROVE  StorageInv'
  <1> DEFINE t == opst[o].slot
<1>1. StorageTypes /\ drv = "up" /\ opst[o].pc = "wait" /\ SlotOwners
      /\ UNCHANGED <<csq, inflight, ccq, file, listen, opened, drv>>
  BY Zenon DEF StorageInv, cancel_completion
<1>2. /\ t \in CSlots /\ comps[t] \in SlabRecords /\ comps[t] # NoSlot /\ comps[t].op = o
      /\ \A u \in CSlots : u # t /\ comps[u] # NoSlot => comps[u].op # o
  BY <1>1, OwnerAlone, Zenon
<1>3. comps \in [CSlots -> SlabRecords \cup {NoSlot}] /\ opst \in [OpIds -> FutureRecords]
  BY <1>1 DEF StorageTypes
<1>4. comps' = [comps EXCEPT ![t] = AfterIgnore(@)] /\ opst' = [opst EXCEPT ![o] = [@ EXCEPT !.pc = "dropped"]]
  BY Zenon DEF cancel_completion
<1> HIDE DEF t
<1>5. opst' \in [OpIds -> FutureRecords] /\ opst'[o].pc = "dropped"
      /\ \A p \in OpIds : p # o => opst'[p] = opst[p]
  BY <1>3, <1>4 DEF FutureRecords
<1>6. comps'[t] = AfterIgnore(comps[t]) /\ \A u \in CSlots : u # t => comps'[u] = comps[u]
  BY <1>2, <1>3, <1>4
<1>7. /\ AfterIgnore(comps[t]) \in SlabRecords \cup {NoSlot}
      /\ AfterIgnore(comps[t]) # NoSlot =>
           /\ AfterIgnore(comps[t]).op = o /\ AfterIgnore(comps[t]).ignored /\ AfterIgnore(comps[t]).result = NoSlot
      /\ comps[t].result = NoSlot => AfterIgnore(comps[t]) \in SlabRecords
  BY <1>2 DEF AfterIgnore, SlabRecords
<1>8. comps' \in [CSlots -> SlabRecords \cup {NoSlot}] BY <1>2, <1>3, <1>4, <1>6, <1>7
<1>9. SlotOwners'
 <2>1. opst'[o].pc = "wait" => opst'[o].slot = t /\ comps'[t] # NoSlot BY <1>5
 <2>2. comps'[t] # NoSlot => /\ comps'[t].op = o
                             /\ IF comps'[t].ignored THEN opst'[o].pc = "dropped" /\ comps'[t].result = NoSlot
                                ELSE opst'[o].pc = "wait" /\ opst'[o].slot = t
   BY <1>5, <1>6, <1>7, Zenon
 <2>3. \A u \in CSlots : u # t => comps'[u] = comps[u] BY <1>6, Zenon
 <2>4. \A p \in OpIds : p # o => opst'[p] = opst[p] BY <1>5, Zenon
 <2>5. QED BY <1>1, <1>2, <2>1, <2>2, <2>3, <2>4, OwnersKept, Zenon
<1>10. \A u, p : u \in CSlots /\ Awaits(u, p) => Awaits(u, p)'
 <2>1. comps[t].result = NoSlot => comps'[t] # NoSlot /\ comps'[t].op = o /\ comps'[t].result = NoSlot
   BY <1>1, <1>6, <1>7, SlotTyped, Zenon
 <2>2. QED BY <1>2, <1>6, <2>1, Zenon DEF Awaits
<1>11. QED BY <1>1, <1>5, <1>8, <1>9, <1>10, SlabStep, Zenon

\* A slot is taken: nothing under way names it, since what is under way awaits in its slot.
LEMMA SubmitCompletion ==
  ASSUME StorageInv, NEW o \in OpIds, NEW t \in CSlots, NEW fd \in BOOLEAN, submit_completion(o, t, fd)
  PROVE  StorageInv'
<1> USE DEF StorageInv
<1>1. drv = "up" /\ file = "open" /\ opst[o].pc = "new" /\ comps[t] = NoSlot
      /\ UNCHANGED <<ccq, file, listen, opened, drv>>
      /\ comps' = [comps EXCEPT ![t] = NewCompletion(o)]
      /\ opst' = [opst EXCEPT ![o] = [pc |-> "wait", fd |-> fd, slot |-> t, woken |-> FALSE]]
  BY Zenon DEF submit_completion, Vacant
<1>2. PICK d \in OpEntries : /\ d.slot = t /\ d.op = o
                             /\ \/ csq' = csq \cup {d} /\ inflight' = inflight
                                \/ csq' = csq /\ inflight' = inflight \cup {d}
 <2>1. [slot |-> t, op |-> o] \in OpEntries /\ [slot |-> t, op |-> o].slot = t /\ [slot |-> t, op |-> o].op = o
   BY DEF OpEntries
 <2>2. \/ csq' = csq \cup {[slot |-> t, op |-> o]} /\ inflight' = inflight
       \/ csq' = csq /\ inflight' = inflight \cup {[slot |-> t, op |-> o]}
   BY Zenon DEF submit_completion
 <2>3. QED BY <2>1, <2>2, Zenon
<1>3. comps \in [CSlots -> SlabRecords \cup {NoSlot}] /\ opst \in [OpIds -> FutureRecords]
  BY DEF StorageTypes
<1>4. /\ NewCompletion(o) \in SlabRecords /\ NewCompletion(o) # NoSlot /\ NewCompletion(o).op = o
      /\ NewCompletion(o).ignored = FALSE /\ NewCompletion(o).result = NoSlot
 <2>1. NewCompletion(o) \in SlabRecords /\ NewCompletion(o).op = o
       /\ NewCompletion(o).ignored = FALSE /\ NewCompletion(o).result = NoSlot
   BY DEF NewCompletion, SlabRecords
 <2>2. QED BY <2>1, SlotTyped, Zenon
<1>5. comps' \in [CSlots -> SlabRecords \cup {NoSlot}] /\ comps'[t] = NewCompletion(o)
      /\ \A u \in CSlots : u # t => comps'[u] = comps[u]
  BY <1>1, <1>3, <1>4
<1>6. opst' \in [OpIds -> FutureRecords] /\ opst'[o].pc = "wait" /\ opst'[o].slot = t
      /\ \A p \in OpIds : p # o => opst'[p] = opst[p]
  BY <1>1, <1>3 DEF FutureRecords
<1>7. \A u, p : u \in CSlots /\ Awaits(u, p) => u # t /\ Awaits(u, p)'
  BY <1>1, <1>5, Zenon DEF Awaits
<1>8. \A e \in (csq \cup inflight) \cap OpEntries : Awaits(e.slot, e.op)' /\ e.slot # t
  BY <1>7, EntryKinds, Zenon DEF EntriesAnswered
<1>9. \A k \in DOMAIN ccq : ccq[k] \in OpAnswers => Awaits(ccq[k].slot, ccq[k].op) /\ ccq[k].slot # t
 <2>1. ASSUME NEW k \in DOMAIN ccq, ccq[k] \in OpAnswers PROVE Awaits(ccq[k].slot, ccq[k].op) /\ ccq[k].slot # t
   BY <1>7, <2>1, EntryKinds, Zenon DEF EntriesAnswered
 <2>2. QED BY <2>1, Zenon
<1>10. StorageTypes'
 <2>1. IsFiniteSet(csq) /\ IsFiniteSet(inflight) BY Zenon DEF StorageTypes
 <2>2. IsFiniteSet(csq \cup {d}) /\ IsFiniteSet(inflight \cup {d}) BY <2>1, FS_AddElement
 <2>3. IsFiniteSet(csq') /\ IsFiniteSet(inflight') BY <1>2, <2>1, <2>2, Zenon
 <2>4. csq' \subseteq OpEntries \cup AcceptEntries /\ inflight' \subseteq OpEntries \cup AcceptEntries
   BY <1>2, Zenon DEF StorageTypes
 <2>5. QED BY <1>1, <1>5, <1>6, <2>3, <2>4, Zenon DEF StorageTypes
<1>11. (csq' \cup inflight') = (csq \cup inflight) \cup {d} BY <1>2, Zenon
<1>12. EntriesAnswered'
 <2>1. d \notin csq \cup inflight BY <1>2, <1>8, Zenon
 <2>2. csq' \cap inflight' = {} BY <1>2, <2>1, Zenon DEF EntriesAnswered
 <2>3. Awaits(d.slot, d.op)' BY <1>2, <1>4, <1>5, Zenon DEF Awaits
 <2>4. ASSUME NEW e \in (csq' \cup inflight') \cap OpEntries
       PROVE  Awaits(e.slot, e.op)' /\ \A k \in DOMAIN ccq : ccq[k] \in OpAnswers => ccq[k].slot # e.slot
  <3>1. CASE e = d BY <1>2, <1>9, <2>3, <3>1, Zenon
  <3>2. CASE e \in (csq \cup inflight) \cap OpEntries BY <1>8, <3>2, Zenon DEF EntriesAnswered
  <3>3. QED BY <1>11, <3>1, <3>2, Zenon
 <2>5. ASSUME NEW k \in DOMAIN ccq, ccq[k] \in OpAnswers, NEW u, NEW p, u = ccq[k].slot, p = ccq[k].op
       PROVE  Awaits(u, p)'
   BY <1>7, <1>9, <2>5, EntryKinds, Zenon
 <2>6. \A k \in DOMAIN ccq : ccq[k] \in OpAnswers => Awaits(ccq[k].slot, ccq[k].op)'
  <3>1. \A k \in DOMAIN ccq : ccq[k] \in OpAnswers =>
          comps'[ccq[k].slot] # NoSlot /\ comps'[ccq[k].slot].op = ccq[k].op
          /\ comps'[ccq[k].slot].result = NoSlot
    BY <2>5, Zenon DEF Awaits
  <3>2. ccq' = ccq BY <1>1, Zenon
  <3>3. QED BY <3>1, <3>2 DEF Awaits
 <2>7. \A j, k \in DOMAIN ccq :
         ccq[j] \in OpAnswers /\ ccq[k] \in OpAnswers /\ ccq[j].slot = ccq[k].slot => j = k
   BY Zenon DEF EntriesAnswered
 <2>8. QED BY <1>1, <2>2, <2>4, <2>6, <2>7 DEF EntriesAnswered
<1>13. SlotOwners'
 <2>1. \A u \in CSlots : u # t /\ comps[u] # NoSlot => comps[u].op # o BY <1>1 DEF SlotOwners
 <2>2. comps'[t] # NoSlot => /\ comps'[t].op = o
                             /\ IF comps'[t].ignored THEN opst'[o].pc = "dropped" /\ comps'[t].result = NoSlot
                                ELSE opst'[o].pc = "wait" /\ opst'[o].slot = t
   BY <1>4, <1>5, <1>6
 <2>3. opst'[o].pc = "wait" => opst'[o].slot = t /\ comps'[t] # NoSlot BY <1>4, <1>5, <1>6, Zenon
 <2>4. drv' = drv /\ drv = "up" /\ (comps[t] # NoSlot => comps[t].op = o) BY <1>1, Zenon
 <2>5. \A u \in CSlots : u # t => comps'[u] = comps[u] BY <1>5, Zenon
 <2>6. \A p \in OpIds : p # o => opst'[p] = opst[p] BY <1>6, Zenon
 <2>7. QED BY <2>1, <2>2, <2>3, <2>4, <2>5, <2>6, OwnersKept, Zenon
<1>14. AcceptsOnce'
 <2>1. (csq' \cup inflight') \cap AcceptEntries = (csq \cup inflight) \cap AcceptEntries
   BY <1>11, KindsApart, Zenon
 <2>2. QED BY <1>1, <2>1 DEF AcceptsOnce, EndsAccept
<1>15. QueuedOpen'
 <2>1. csq' \cap AcceptEntries = csq \cap AcceptEntries BY <1>2, KindsApart, Zenon
 <2>2. drv' = "up" /\ file' = "open" /\ listen' = listen BY <1>1, Zenon
 <2>3. QED BY <1>1, <2>1, <2>2 DEF QueuedOpen
<1>16. QED BY <1>10, <1>12, <1>13, <1>14, <1>15, Zenon

\* A result goes to its slot, or frees it when nobody waits any more.
LEMMA DrainCompletion ==
  ASSUME StorageInv, drain_completion
  PROVE  StorageInv'
<1> USE DEF StorageInv
<1> DEFINE e == Head(ccq)
           c == comps[e.slot]
           d == [c EXCEPT !.result = e.res, !.waiter = FALSE]
<1>1. drv = "up" /\ ccq # <<>> /\ ccq' = Tail(ccq) /\ UNCHANGED <<csq, inflight, file, listen, opened, drv>>
  BY Zenon DEF drain_completion
<1>2. e \in OpAnswers /\ e.slot \in CSlots /\ e.res \in -1..MaxFds /\ ccq' \in Seq(OpAnswers \cup AcceptAnswers)
      /\ Awaits(e.slot, e.op)
 <2>1. "op" \in DOMAIN e BY Zenon DEF drain_completion
 <2>2. e \in OpAnswers /\ e = ccq[1] /\ 1 \in DOMAIN ccq /\ ccq' \in Seq(OpAnswers \cup AcceptAnswers)
   BY <1>1, <2>1, ResultsDrained, EntryKinds, Zenon
 <2>3. QED BY <2>2, EntryKinds, Zenon DEF EntriesAnswered
<1>3. c # NoSlot /\ c.result = NoSlot /\ c \in SlabRecords /\ c.op \in OpIds
  BY <1>2, SlotTyped, Zenon DEF Awaits
<1>4. \/ c.ignored /\ comps' = [comps EXCEPT ![e.slot] = NoSlot] /\ opst' = opst
      \/ ~c.ignored /\ comps' = [comps EXCEPT ![e.slot] = d] /\ opst' = [opst EXCEPT ![c.op].woken = @ \/ Wakes(c)]
  BY <1>3, Zenon DEF drain_completion
<1>5. d \in SlabRecords /\ d.op = c.op /\ d.ignored = c.ignored BY <1>2, <1>3 DEF SlabRecords
<1>6. d # NoSlot BY <1>5, SlotTyped, Zenon
<1>7. comps \in [CSlots -> SlabRecords \cup {NoSlot}] /\ opst \in [OpIds -> FutureRecords]
  BY DEF StorageTypes
<1> HIDE DEF d, c, e
<1>8. c = comps[e.slot] /\ e = Head(ccq) BY Zenon DEF c, e
<1>9. comps' \in [CSlots -> SlabRecords \cup {NoSlot}] /\ \A u \in CSlots : u # e.slot => comps'[u] = comps[u]
  BY <1>2, <1>4, <1>5, <1>7
<1>10. opst' \in [OpIds -> FutureRecords] /\ \A p \in OpIds : opst'[p].pc = opst[p].pc /\ opst'[p].slot = opst[p].slot
 <2>1. CASE opst' = opst BY <1>7, <2>1, Zenon
 <2>2. CASE opst' = [opst EXCEPT ![c.op].woken = @ \/ Wakes(c)]
  <3>1. opst[c.op].woken \/ Wakes(c) \in BOOLEAN BY <1>3 DEF Wakes, SlabRecords
  <3>2. PICK w \in BOOLEAN : opst' = [opst EXCEPT ![c.op].woken = w] BY <1>3, <1>7, <2>2, <3>1
  <3>3. QED BY <1>3, <1>7, <3>2 DEF FutureRecords
 <2>3. QED BY <1>4, <2>1, <2>2, Zenon
<1>11. StorageTypes' BY <1>1, <1>2, <1>9, <1>10, Zenon DEF StorageTypes
<1>12. EntriesAnswered'
 <2>1. \A t \in CSlots : \A p : Awaits(t, p) /\ t # e.slot => Awaits(t, p)'
   BY <1>9, Zenon DEF Awaits
 <2>2. QED BY <1>1, <1>2, <1>8, <2>1, EntriesDrained, Zenon
<1>13. SlotOwners'
 <2>1. ASSUME NEW u \in CSlots, comps'[u] # NoSlot
       PROVE  /\ comps[u] # NoSlot /\ comps'[u].op = comps[u].op /\ comps[u].op \in OpIds
              /\ comps'[u].ignored = comps[u].ignored /\ (comps[u].ignored => comps'[u].result = comps[u].result)
  <3>1. CASE u # e.slot BY <1>9, <2>1, <3>1, SlotTyped, Zenon
  <3>2. CASE u = e.slot BY <1>2, <1>3, <1>4, <1>5, <1>7, <1>8, <2>1, <3>2
  <3>3. QED BY <3>1, <3>2, Zenon
 <2>2. ASSUME NEW u \in CSlots, comps'[u] # NoSlot
       PROVE  IF comps'[u].ignored THEN opst'[comps'[u].op].pc = "dropped" /\ comps'[u].result = NoSlot
              ELSE opst'[comps'[u].op].pc = "wait" /\ opst'[comps'[u].op].slot = u
  <3>1. IF comps[u].ignored THEN opst[comps[u].op].pc = "dropped" /\ comps[u].result = NoSlot
        ELSE opst[comps[u].op].pc = "wait" /\ opst[comps[u].op].slot = u
    BY <2>1, <2>2, Zenon DEF SlotOwners
  <3>2. opst'[comps[u].op].pc = opst[comps[u].op].pc /\ opst'[comps[u].op].slot = opst[comps[u].op].slot
    BY <1>10, <2>1, <2>2, Zenon
  <3>3. QED BY <2>1, <2>2, <3>1, <3>2
 <2>3. ASSUME NEW p \in OpIds, opst'[p].pc = "wait"
       PROVE  opst'[p].slot \in CSlots /\ comps'[opst'[p].slot] # NoSlot /\ comps'[opst'[p].slot].op = p
  <3>1. /\ opst'[p].slot = opst[p].slot /\ opst[p].pc = "wait" /\ opst[p].slot \in CSlots
        /\ comps[opst[p].slot] # NoSlot /\ comps[opst[p].slot].op = p
    BY <1>1, <1>10, <2>3 DEF SlotOwners
  <3>2. CASE opst[p].slot # e.slot BY <1>9, <3>1, <3>2, Zenon
  <3>3. CASE opst[p].slot = e.slot
   <4>1. comps[e.slot].ignored => opst[p].pc = "dropped"
     BY <1>2, <3>1, <3>3, Zenon DEF SlotOwners
   <4>2. ~c.ignored BY <1>8, <3>1, <4>1
   <4>3. comps'[e.slot] = d BY <1>2, <1>4, <1>7, <4>2
   <4>4. QED BY <1>5, <1>6, <1>8, <3>1, <3>3, <4>3, Zenon
  <3>4. QED BY <3>2, <3>3, Zenon
 <2>4. QED BY <2>2, <2>3, Zenon DEF SlotOwners
<1>14. AcceptsOnce' BY <1>1, AcceptsDrained, Zenon
<1>15. QueuedOpen' BY <1>1, Zenon DEF QueuedOpen
<1>16. QED BY <1>11, <1>12, <1>13, <1>14, <1>15, Zenon

-----------------------------------------------------------------------------
(* The end of the driver, and the whole. *)

\* After shutdown no future can lose its slot: there is none left.
LEMMA Quiesced ==
  ASSUME StorageInv, quiesce
  PROVE  StorageInv'
<1> USE DEF StorageInv
<1>1. /\ file = "closed" /\ ~listen.open /\ csq = {} /\ inflight = {}
      /\ comps' = [t \in CSlots |-> NoSlot] /\ ccq' = <<>> /\ drv' = "quiesced"
      /\ UNCHANGED <<opst, csq, inflight, file, listen, opened>>
  BY Zenon DEF quiesce, NoHandles
<1>2. StorageTypes' BY <1>1 DEF StorageTypes
<1>3. EntriesAnswered' /\ AcceptsOnce' BY <1>1 DEF EntriesAnswered, AcceptsOnce
<1>4. SlotOwners' /\ QueuedOpen' BY <1>1 DEF SlotOwners, QueuedOpen
<1>5. QED BY <1>2, <1>3, <1>4, Zenon

\* Shutdown without the kernel's answer changes nothing but the mark.
LEMMA QuiesceFails ==
  ASSUME StorageInv, quiesce_fails
  PROVE  StorageInv'
<1> USE DEF StorageInv
<1>1. drv = "up" /\ drv' = "leaked" /\ UNCHANGED <<comps, opst, csq, inflight, ccq, file, listen, opened>>
  BY Zenon DEF quiesce_fails
<1>2. StorageTypes' BY <1>1 DEF StorageTypes
<1>3. EntriesAnswered' BY <1>1 DEF EntriesAnswered, Awaits
<1>4. AcceptsOnce' BY <1>1 DEF AcceptsOnce, EndsAccept
<1>5. SlotOwners' /\ QueuedOpen' BY <1>1 DEF SlotOwners, QueuedOpen
<1>6. QED BY <1>2, <1>3, <1>4, <1>5, Zenon

\* Initially nothing is under way.
LEMMA StorageStarts ==
  ASSUME CompletionInit
  PROVE  StorageInv
<1>1. PICK used \in SUBSET OpIds, g \in {0, AcceptGens} :
        /\ opst = [o \in OpIds |-> [Unstarted EXCEPT !.pc = IF o \in used THEN "new" ELSE "done"]]
        /\ listen = Unlistened(g)
  BY Zenon DEF CompletionInit
<1>2. comps = [t \in CSlots |-> NoSlot] /\ csq = {} /\ inflight = {} /\ ccq = <<>> /\ file = "open" /\ opened = 0
      /\ drv = "up"
  BY Zenon DEF CompletionInit
<1>3. g \in Nat /\ <<>> \in Seq(-1..MaxFds) /\ 0 \in -1..MaxFds BY CompletionAssumption
<1>4. listen \in [gen : Nat, open : BOOLEAN, results : Seq(-1..MaxFds), waiter : BOOLEAN,
                  armed : BOOLEAN, woken : BOOLEAN]
  BY <1>1, <1>3 DEF Unlistened
<1>5. opst \in [OpIds -> FutureRecords] /\ \A o \in OpIds : opst[o].pc # "wait"
  BY <1>1 DEF Unstarted, FutureRecords
<1>6. IsFiniteSet({}) BY FS_EmptySet, Zenon
<1>7. StorageTypes BY <1>2, <1>3, <1>4, <1>5, <1>6 DEF StorageTypes
<1>8. EntriesAnswered /\ AcceptsOnce BY <1>2 DEF EntriesAnswered, AcceptsOnce
<1>9. SlotOwners /\ QueuedOpen BY <1>2, <1>5 DEF SlotOwners, QueuedOpen
<1>10. QED BY <1>7, <1>8, <1>9, Zenon DEF StorageInv

\* Every step keeps the invariant.
LEMMA StorageStep ==
  ASSUME StorageInv, [CompletionNext]_compVars
  PROVE  StorageInv'
<1>1. CASE UNCHANGED compVars
 <2>1. UNCHANGED <<comps, opst, csq, inflight, ccq, file, listen, opened, drv>>
   BY <1>1, Zenon DEF compVars
 <2>2. StorageTypes' /\ SlotOwners' /\ QueuedOpen'
   BY <2>1 DEF StorageInv, StorageTypes, SlotOwners, QueuedOpen
 <2>3. EntriesAnswered' /\ AcceptsOnce'
   BY <2>1 DEF StorageInv, EntriesAnswered, Awaits, AcceptsOnce, EndsAccept
 <2>4. QED BY <2>2, <2>3, Zenon DEF StorageInv
<1>2. CASE submit_ring \/ drop_handle \/ open_listener \/ poll_multishot_accept \/ multishot_accept_fails
  BY <1>2, SubmitRing, DropHandle, OpenListener, PollAccept, AcceptFails, Zenon
<1>3. CASE drop_listener \/ drain_accept \/ drain_completion \/ quiesce \/ quiesce_fails
  BY <1>3, DropListener, DrainAccept, DrainCompletion, Quiesced, QuiesceFails, Zenon
<1>4. CASE \E e \in inflight : complete(e) \/ accepted(e) BY <1>4, Complete, Accepted, Zenon
<1>5. CASE \E o \in OpIds : \/ \E t \in CSlots, fd \in BOOLEAN : submit_completion(o, t, fd)
                            \/ submit_error(o) \/ poll_completion(o) \/ cancel_completion(o)
  BY <1>5, SubmitCompletion, SubmitError, PollCompletion, CancelCompletion, Zenon
<1>6. QED BY <1>1, <1>2, <1>3, <1>4, <1>5, Zenon DEF CompletionNext

\* Each operation of vibeio/op hands over, when dropped, all the storage its entry points to.
LEMMA StorageHandedOver == \A k \in Operations : k.points \subseteq k.keeps
<1>1. \A w, p, f : Operation(w, p, p, f).points \subseteq Operation(w, p, p, f).keeps
  BY DEF Operation
<1>2. \A k \in {ReadOp, ReadvOp, RecvOp, RecvfromOp, WriteOp, WritevOp, SendOp} : k.points \subseteq k.keeps
  BY <1>1, Zenon DEF ReadOp, ReadvOp, RecvOp, RecvfromOp, WriteOp, WritevOp, WritevKeeps, SendOp
<1>3. \A k \in {SendtoOp, AcceptExOp, ConnectOp, SpliceOp, ReadatOp, WriteatOp, FsyncOp} : k.points \subseteq k.keeps
  BY <1>1, Zenon DEF SendtoOp, AcceptExOp, ConnectOp, SpliceOp, ReadatOp, WriteatOp, FsyncOp
<1>4. \A k \in {OpenOp, MkDirOp, UnlinkOp, HardLinkOp, RenameOp, SymlinkOp, StatxOp} : k.points \subseteq k.keeps
  BY <1>1, Zenon DEF OpenOp, MkDirOp, UnlinkOp, HardLinkOp, RenameOp, SymlinkOp, StatxOp
<1>5. QED BY <1>2, <1>3, <1>4, Zenon DEF Operations

\* The invariant gives what the run checks.
LEMMA StorageHolds ==
  ASSUME StorageInv
  PROVE  StorageSafe
<1> USE DEF StorageInv
<1>1. \A e \in Submitted : e \in (csq \cup inflight) \cap OpEntries
  BY EntryKinds, Zenon DEF Submitted, StorageTypes
<1>2. \A k \in DOMAIN ccq : "op" \in DOMAIN ccq[k] => ccq[k] \in OpAnswers
  BY ResultsTyped, EntryKinds
<1>3. AnswersMatchSlots
  BY <1>1, <1>2 DEF AnswersMatchSlots, EntriesAnswered, Awaits, SlotOwners, Vacant
<1>4. ASSUME NEW e \in Submitted, opst[e.op].pc # "wait"
      PROVE  /\ drv \in {"up", "leaked"} /\ ~Vacant(e.slot) /\ comps[e.slot].op = e.op /\ comps[e.slot].ignored
             /\ \A k \in Operations : k.fd = opst[e.op].fd => k.points \subseteq k.keeps
 <2>1. e.slot \in CSlots /\ Awaits(e.slot, e.op) /\ csq \cup inflight # {}
   BY <1>1, EntryKinds, Zenon DEF EntriesAnswered
 <2>2. drv \in {"up", "leaked"} BY <2>1 DEF StorageTypes, QueuedOpen
 <2>3. comps[e.slot].ignored
  <3>1. comps[e.slot] # NoSlot /\ comps[e.slot].op = e.op BY <2>1, Zenon DEF Awaits
  <3>2. comps[e.slot].ignored \/ opst[comps[e.slot].op].pc = "wait"
    BY <2>1, <3>1, Zenon DEF SlotOwners
  <3>3. QED BY <1>4, <3>1, <3>2
 <2>4. QED BY <2>1, <2>2, <2>3, StorageHandedOver, Zenon DEF Awaits, Vacant
<1>5. StorageRetained BY <1>4, Zenon DEF StorageRetained
<1>6. NoClosedDescriptorQueued
  BY EntryKinds, Zenon DEF NoClosedDescriptorQueued, QueuedOpen, StorageTypes
<1>7. QED BY <1>3, <1>5, <1>6, Zenon DEF StorageSafe

\* Whatever the kernel may still use or answer, on io_uring and on IOCP, for any operations,
\* slots and descriptors: an answer always meets the slot of its own operation, the storage of
\* an operation under way is held by its future, its slot or the leak, whether the future was
\* dropped or the handle closed, and no entry is sent for a descriptor that was closed.
THEOREM KernelStorageIsSafe == CompletionSpec => []StorageSafe
<1>1. CompletionInit => StorageInv BY StorageStarts
<1>2. StorageInv /\ [CompletionNext]_compVars => StorageInv' BY StorageStep
<1>3. StorageInv => StorageSafe BY StorageHolds
<1>4. QED BY <1>1, <1>2, <1>3, PTL DEF CompletionSpec

=============================================================================
