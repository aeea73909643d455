------------------------------ MODULE MCRuntime ------------------------------
(***************************************************************************)
(* The executor, the blocking pool, the timers and the drivers of the      *)
(* runtime (vibeio), checked side by side: a behaviour exercises one part, *)
(* and the others stay in their initial states.                            *)
(***************************************************************************)
EXTENDS Executor, BoundedPool, Sleeps, PollDriver, CompletionDriver

VARIABLE part

runtimeVars == <<part, execVars, poolVars, sleepVars, intervalVars, pollVars, compVars>>

\* A part that is not exercised starts, and stays, in one of its initial states.
RuntimeInit ==
    /\ part \in {"executor", "pool", "sleeps", "intervals", "poll", "completion"}
    /\ ExecutorInit
    /\ PoolInit
    /\ SleepsInit
    /\ IntervalsInit /\ (part # "intervals" => period = 1 /\ behavior = "Skip")
    /\ PollDriverInit /\ (part # "poll" => backend = "uring")
    /\ CompletionInit /\ (part # "completion" => platform = "uring" /\ listen.gen = 0
                                              /\ \A o \in OpIds : opst[o].pc = "done")

RuntimeNext ==
    /\ UNCHANGED part
    /\ \/ /\ part = "executor" /\ ExecutorNext
          /\ UNCHANGED <<poolVars, sleepVars, intervalVars, pollVars, compVars>>
       \/ /\ part = "pool" /\ PoolNext
          /\ UNCHANGED <<execVars, sleepVars, intervalVars, pollVars, compVars>>
       \/ /\ part = "sleeps" /\ SleepsNext
          /\ UNCHANGED <<execVars, poolVars, intervalVars, pollVars, compVars>>
       \/ /\ part = "intervals" /\ IntervalsNext
          /\ UNCHANGED <<execVars, poolVars, sleepVars, pollVars, compVars>>
       \/ /\ part = "poll" /\ PollDriverNext
          /\ UNCHANGED <<execVars, poolVars, sleepVars, intervalVars, compVars>>
       \/ /\ part = "completion" /\ CompletionNext
          /\ UNCHANGED <<execVars, poolVars, sleepVars, intervalVars, pollVars>>

\* The fairness of each part, while it is the one exercised.
RuntimeFairness ==
    /\ WF_execVars(part = "executor" /\ LoopStep)
    /\ \A w \in Wakers : WF_execVars(part = "executor" /\ WakerStep(w))
    /\ \A j \in Jobs : WF_poolVars(part = "pool" /\ WorkerStep(j))
    /\ WF_sleepVars(part = "sleeps" /\ Elapse)
    /\ WF_sleepVars(part = "sleeps" /\ spin_and_get_deadline)
    /\ \A s \in Sleepers : WF_sleepVars(part = "sleeps" /\ PollRoused(s))
    /\ WF_pollVars(part = "poll" /\ submit_sq) /\ WF_pollVars(part = "poll" /\ drain_cq)
    /\ \A h \in Handles : /\ WF_pollVars(part = "poll" /\ RetryIo(h))
                          /\ WF_pollVars(part = "poll" /\ submit_poll(h))
    /\ WF_compVars(part = "completion" /\ submit_ring)
    /\ WF_compVars(part = "completion" /\ drain_accept)
    /\ WF_compVars(part = "completion" /\ drain_completion)
    /\ \A o \in OpIds, t \in CSlots :
         WF_compVars(part = "completion" /\ complete([slot |-> t, op |-> o]))
    /\ \A o \in OpIds : WF_compVars(part = "completion" /\ opst[o].woken /\ poll_completion(o))

RuntimeSpec == RuntimeInit /\ [][RuntimeNext]_runtimeVars /\ RuntimeFairness

-----------------------------------------------------------------------------
\* No driver wakes a task for a registration or an operation that is not its
\* own, or frees what the kernel still uses.
DriversSafe == (part = "poll" => PollDriverSafe) /\ (part = "completion" => CompletionSafe)

\* A pooled job runs, a pending sleep ends, and a task that waits for I/O is
\* polled again once its file is ready or its operation complete: none of it
\* stays owed for ever.
RuntimeOwes ==
    \/ part = "pool" /\ PoolOwed
    \/ part = "poll" /\ ReadinessOwed
    \/ part = "completion" /\ CompletionOwed
RuntimeServed == []<>~RuntimeOwes /\ SleepEnds

=============================================================================
