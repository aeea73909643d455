---------------------------- MODULE BoundedPool ----------------------------
(***************************************************************************)
(* spawn_bounded of src/src/blocking.rs: blocking jobs (name lookups) on   *)
(* the shared pool, at most limit of them at once.  Any thread submits; a  *)
(* worker that finishes a job passes its slot to the next waiting one.     *)
(*                                                                         *)
(* A job stands for the worker that runs it.  The critical sections under  *)
(* Bounded::state are single steps; the pool thread starting, the job and  *)
(* its end come apart.  A job that panics ends like one that returns.      *)
(***************************************************************************)
EXTENDS Naturals, Sequences, FiniteSets

CONSTANTS
    Jobs,     \* bound: the jobs submitted, each once
    limit     \* min(32, CPUs + 4)

ASSUME PoolAssumption == limit \in Nat \ {0} /\ IsFiniteSet(Jobs)

VARIABLES
    running, waiting,   \* BoundedState
    job_pc,             \* where each job is
    submitted, taken    \* history: jobs by submission, and by slot taken

poolVars == <<running, waiting, job_pc, submitted, taken>>

JobPcs == {"new", "waiting", "spawned", "executing", "finished", "done"}

\* Every variable has its type, and the count is a usize that never wraps.
TypeOK ==
    /\ running \in Nat
    /\ waiting \in Seq(Jobs)
    /\ job_pc \in [Jobs -> JobPcs]
    /\ submitted \in Seq(Jobs) /\ taken \in Seq(Jobs)

PoolInit ==
    /\ running = 0 /\ waiting = <<>>
    /\ job_pc = [j \in Jobs |-> "new"]
    /\ submitted = <<>> /\ taken = <<>>

\* Bounded::submit: every slot is held.
Full == running >= limit

\* Bounded::submit of a job that has to wait.
submit_waits(j) ==
    /\ job_pc[j] = "new"
    /\ Full
    /\ waiting' = Append(waiting, j)
    /\ job_pc' = [job_pc EXCEPT ![j] = "waiting"]
    /\ submitted' = Append(submitted, j)
    /\ UNCHANGED <<running, taken>>

\* Bounded::submit of a job that takes a slot and goes to the shared pool.
submit_spawns(j) ==
    /\ job_pc[j] = "new"
    /\ ~Full
    /\ running' = running + 1
    /\ job_pc' = [job_pc EXCEPT ![j] = "spawned"]
    /\ submitted' = Append(submitted, j)
    /\ taken' = Append(taken, j)
    /\ UNCHANGED waiting

\* A pool thread picks the job up: run_slot starts.
run_slot(j) ==
    /\ job_pc[j] = "spawned"
    /\ job_pc' = [job_pc EXCEPT ![j] = "executing"]
    /\ UNCHANGED <<running, waiting, submitted, taken>>

\* The job returns or panics.
finish_job(j) ==
    /\ job_pc[j] = "executing"
    /\ job_pc' = [job_pc EXCEPT ![j] = "finished"]
    /\ UNCHANGED <<running, waiting, submitted, taken>>

\* Mutant: the latest waiting job is next, which is removed from the front.
NextWaiting_Last == waiting[Len(waiting)]

\* run_slot: the job waiting.pop_front() returns.
NextWaiting == Head(waiting)

\* run_slot: a job waits.
MayPassOn == waiting # <<>>

\* run_slot: the worker goes on with the next waiting job.
pass_slot(j) ==
    /\ job_pc[j] = "finished"
    /\ MayPassOn
    /\ waiting' = Tail(waiting)
    /\ job_pc' = [job_pc EXCEPT ![j] = "done", ![NextWaiting] = "executing"]
    /\ taken' = Append(taken, NextWaiting)
    /\ UNCHANGED <<running, submitted>>

\* run_slot: the slot is given up.
release_slot(j) ==
    /\ job_pc[j] = "finished"
    /\ ~MayPassOn
    /\ running' = running - 1
    /\ job_pc' = [job_pc EXCEPT ![j] = "done"]
    /\ UNCHANGED <<waiting, submitted, taken>>

WorkerStep(j) == run_slot(j) \/ finish_job(j) \/ pass_slot(j) \/ release_slot(j)

PoolNext == \E j \in Jobs : submit_waits(j) \/ submit_spawns(j) \/ WorkerStep(j)

PoolSpec == PoolInit /\ [][PoolNext]_poolVars

\* Pool threads start and keep running, and jobs end; submissions may not come.
PoolFairSpec == PoolSpec /\ \A j \in Jobs : WF_poolVars(WorkerStep(j))

-----------------------------------------------------------------------------
\* Properties.

SlotHolders == {j \in Jobs : job_pc[j] \in {"spawned", "executing", "finished"}}

\* At most limit jobs run at once, and running counts exactly the workers that
\* hold a slot, from the submit that took it to the run_slot that gives it up
\* (blocking.rs:107-109, "at most min(32, CPUs + 4) of these running at once").
SlotsCounted == running = Cardinality(SlotHolders) /\ running <= limit

\* No job waits while a slot is free: a submit that queues its job never misses
\* the last worker giving up its slot (blocking.rs:42-43, "A worker that
\* finishes a bounded job takes the next of these itself").
NoJobStranded == waiting # <<>> => running = limit

\* Slots are taken in submission order, and no job is dropped or taken twice
\* (blocking.rs:109, "waits in submission order").
TakenInOrder == taken \o waiting = submitted

\* Every submitted job runs, also behind jobs that panic.
PoolOwed == \E j \in Jobs : job_pc[j] \notin {"new", "done"}
EveryJobRuns == []<>~PoolOwed

\* The waiting queue holds the waiting jobs, each once.
WaitingJobs ==
    /\ \A i \in 1..Len(waiting) : job_pc[waiting[i]] = "waiting"
    /\ \A i, k \in 1..Len(waiting) : waiting[i] = waiting[k] => i = k

\* The inductive invariant behind the slot theorems: a slot passed on goes to a
\* job that held none, so the count of blocking.rs:39-40 stays exact when
\* run_slot keeps it unchanged.
PoolInvariant == TypeOK /\ WaitingJobs /\ SlotsCounted /\ NoJobStranded

\* What spawn_bounded promises (blocking.rs:107-109): the limit, no idle slot
\* beside a waiting job, and submission order.
PoolSafe == PoolInvariant /\ TakenInOrder
=============================================================================
