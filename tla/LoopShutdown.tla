---------------------------- MODULE LoopShutdown ----------------------------
(***************************************************************************)
(* What a loop hands to other threads and must wind up: run_in_executor    *)
(* and getaddrinfo jobs, the default executor and the asynchronous         *)
(* generators that were started on it (bindings/loop_api: executor.rs,     *)
(* resolver.rs, asyncgens.rs, lifecycle.rs).  A job goes to the executor   *)
(* the user has set, to the blocking pool, or, a plain lookup, to the      *)
(* bounded resolver slots; its future is completed by a callback on the    *)
(* loop.  shutdown_default_executor closes the door first and then waits,  *)
(* for ever or up to a timeout.                                            *)
(***************************************************************************)
EXTENDS Naturals, Sequences, FiniteSets, SequencesExt

CONSTANTS LoopJobs,     \* jobs
          Gens,         \* asynchronous generators
          PoolThreads         \* lookups at a time (blocking.rs)

ASSUME LoopShutdownAssumption == PoolThreads \in Nat \ {0}

VARIABLES phase,        \* the loop: "running", "stopped" or "closed"
          userExec,     \* where the user's executor is: "none", "set", "taken", "joined", "gone"
          execOpen,     \* whether it takes jobs
          called,       \* executor_shutdown_called
          job,          \* job[j]: [via, st, fut, flag]
          winding,      \* the shutdown_default_executor future
          posted,       \* completions on their way to the loop
          gen,          \* gen[g]
          gensCalled,   \* asyncgens_shutdown_called
          late          \* history: jobs accepted after shutdown was called

shutdownVars == <<phase, userExec, execOpen, called, job, winding, posted, gen, gensCalled, late>>

NoJob == [via |-> "none", st |-> "none", fut |-> "none", flag |-> FALSE]

LoopShutdownInit ==
  /\ phase = "running" /\ userExec \in {"none", "set"} /\ execOpen = TRUE /\ called = FALSE
  /\ job = [j \in LoopJobs |-> NoJob]
  /\ winding = [pc |-> "no", limit |-> "none", warned |-> FALSE]
  /\ posted = <<>>
  /\ gen = [g \in Gens |-> "new"] /\ gensCalled = FALSE
  /\ late = {}

Accepted(j, via, st, fut) ==
  /\ job' = [job EXCEPT ![j] = [via |-> via, st |-> st, fut |-> fut, flag |-> FALSE]]
  /\ late' = IF called THEN late \cup {j} ELSE late
Refused(j) == job' = [job EXCEPT ![j].st = "refused"] /\ UNCHANGED late

-----------------------------------------------------------------------------
(* executor.rs and resolver.rs *)

\* submit of an executor that was shut down raises.
Submitted(j) == IF execOpen THEN Accepted(j, "user", "queued", "pending") ELSE Refused(j)

Barred == called
\* run_in_executor(None, ...).
RunDefault(j) ==
  IF Barred THEN Refused(j)
  ELSE IF userExec = "set" THEN Submitted(j) ELSE Accepted(j, "pool", "queued", "pending")

run_in_executor(j) ==
  /\ phase # "closed" /\ job[j] = NoJob /\ RunDefault(j)
  /\ UNCHANGED <<phase, userExec, execOpen, called, winding, posted, gen, gensCalled>>

\* An executor of the caller's own is not the loop's business.
run_in_own_executor(j) ==
  /\ phase # "closed" /\ job[j] = NoJob
  /\ job' = [job EXCEPT ![j] = [via |-> "own", st |-> "queued", fut |-> "pending", flag |-> FALSE]]
  /\ UNCHANGED <<phase, userExec, execOpen, called, winding, posted, gen, gensCalled, late>>

\* What a request's arguments are: an address in digits, names the resolver
\* encodes as the socket module would (and the socket module is the unpatched
\* one), or anything else.
Shapes == {"numeric", "plain", "odd"}

\* Both short cuts are for a loop with no executor set and none shut down.
Direct == userExec # "set" /\ ~called

\* The list is built and the future set at once.
numeric_addrinfo(j, shape) ==
  Direct /\ shape = "numeric" /\ Accepted(j, "numeric", "done", "set")
\* resolver::getaddrinfo: the audit hook may veto, else a lookup is queued.
\* (A numeric host with options the first short cut declines comes here as
\* "plain".)
resolver_getaddrinfo(j, shape) ==
  /\ Direct /\ shape = "plain"
  /\ \/ Accepted(j, "lookup", "queued", "pending")
     \/ Accepted(j, "numeric", "done", "set")

getaddrinfo(j, shape) ==
  /\ phase # "closed" /\ job[j] = NoJob
  /\ \/ numeric_addrinfo(j, shape)
     \/ resolver_getaddrinfo(j, shape)
     \/ ~(Direct /\ shape # "odd") /\ RunDefault(j)
  /\ UNCHANGED <<phase, userExec, execOpen, called, winding, posted, gen, gensCalled>>

Running(via) == {j \in LoopJobs : job[j].via = via /\ job[j].st = "running"}

\* A worker takes the job up; a lookup waits for a slot and looks at the flag.
job_starts(j) ==
  /\ job[j].st = "queued"
  /\ job[j].via = "lookup" => Cardinality(Running("lookup")) < PoolThreads
  /\ job' = [job EXCEPT ![j].st = IF job[j].via = "lookup" /\ job[j].flag THEN "done" ELSE "running"]
  /\ UNCHANGED <<phase, userExec, execOpen, called, winding, posted, gen, gensCalled, late>>

job_ends(j) ==
  /\ job[j].st = "running"
  /\ job' = [job EXCEPT ![j].st = "done"]
  /\ posted' = IF (job[j].via = "lookup" /\ job[j].flag) \/ phase = "closed"
                 THEN posted ELSE Append(posted, j)
  /\ UNCHANGED <<phase, userExec, execOpen, called, winding, gen, gensCalled, late>>

cancel_job(j) ==
  /\ phase = "running" /\ job[j].fut = "pending"
  /\ job' = [job EXCEPT ![j].fut = "cancelled"]
  /\ UNCHANGED <<phase, userExec, execOpen, called, winding, posted, gen, gensCalled, late>>

\* CancelLookup.__call__, queued by the cancellation.
cancel_lookup(j) ==
  /\ phase = "running" /\ job[j].via = "lookup" /\ job[j].fut = "cancelled" /\ ~job[j].flag
  /\ job' = [job EXCEPT ![j].flag = TRUE]
  /\ UNCHANGED <<phase, userExec, execOpen, called, winding, posted, gen, gensCalled, late>>

\* complete, or the bridge's callback: only a pending future is set.
complete ==
  /\ phase = "running" /\ posted # <<>>
  /\ LET j == Head(posted) IN
       job' = [job EXCEPT ![j].fut = IF @ = "pending" THEN "set" ELSE @]
  /\ posted' = Tail(posted)
  /\ UNCHANGED <<phase, userExec, execOpen, called, winding, gen, gensCalled, late>>

set_default_executor ==
  /\ phase # "closed" /\ userExec \in {"none", "set"} /\ execOpen
  /\ userExec' = IF userExec = "none" THEN "set" ELSE "none"
  /\ UNCHANGED <<phase, execOpen, called, job, winding, posted, gen, gensCalled, late>>

-----------------------------------------------------------------------------
(* shutdown_default_executor *)

\* The executor is taken; a call that finds none, a second one too, is done at once.
shutdown_default_executor(limit) ==
  /\ phase = "running" /\ called' = TRUE
  /\ IF userExec = "set"
     THEN /\ userExec' = "taken"
          /\ winding' = [pc |-> "asked", limit |-> limit, warned |-> FALSE]
     ELSE /\ UNCHANGED userExec
          /\ winding' = IF winding.pc = "no" THEN [winding EXCEPT !.pc = "ok"] ELSE winding
  /\ UNCHANGED <<phase, execOpen, job, posted, gen, gensCalled, late>>

\* A thread enters executor.shutdown(wait=True).
executor_shuts ==
  /\ winding.pc = "asked"
  /\ execOpen' = FALSE
  /\ winding' = [winding EXCEPT !.pc = IF winding.limit = "zero" THEN "timedout" ELSE "joining"]
  /\ UNCHANGED <<phase, userExec, called, job, posted, gen, gensCalled, late>>

Unfinished == {j \in LoopJobs : job[j].via = "user" /\ job[j].st \in {"queued", "running"}}

\* The join returns when the executor has no job left.
executor_joined ==
  /\ winding.pc = "joining" /\ Unfinished = {}
  /\ winding' = [winding EXCEPT !.pc = "ok"] /\ userExec' = "joined"
  /\ UNCHANGED <<phase, execOpen, called, job, posted, gen, gensCalled, late>>

\* The timer wins: warn, then shutdown(wait=False) and no more waiting.
join_times_out ==
  /\ winding.pc = "timedout" \/ (winding.pc = "joining" /\ winding.limit = "finite")
  /\ winding' = [winding EXCEPT !.pc = "ok", !.warned = TRUE] /\ userExec' = "gone"
  /\ UNCHANGED <<phase, execOpen, called, job, posted, gen, gensCalled, late>>

-----------------------------------------------------------------------------
(* asyncgens.rs: weak references to the generators iterated on this loop. *)

firstiter(g) ==
  /\ phase = "running" /\ gen[g] = "new"
  /\ gen' = [gen EXCEPT ![g] = IF gensCalled THEN "late" ELSE "active"]
  /\ UNCHANGED <<phase, userExec, execOpen, called, job, winding, posted, gensCalled, late>>

\* The last reference goes: the hook forgets the generator and closes it on
\* the loop, if there is one.
finalizer(g) ==
  /\ gen[g] \in {"active", "late"}
  /\ gen' = [gen EXCEPT ![g] = IF phase = "closed" THEN "abandoned" ELSE "closing"]
  /\ UNCHANGED <<phase, userExec, execOpen, called, job, winding, posted, gensCalled, late>>
aclose_task(g) ==
  /\ phase = "running" /\ gen[g] = "closing"
  /\ gen' = [gen EXCEPT ![g] = "closed"]
  /\ UNCHANGED <<phase, userExec, execOpen, called, job, winding, posted, gensCalled, late>>

\* The snapshot holds the generators; they are then closed one by one.
shutdown_asyncgens ==
  /\ phase = "running"
  /\ gen' = [g \in Gens |-> IF gen[g] \in {"active", "late"} THEN "held" ELSE gen[g]]
  /\ gensCalled' = TRUE
  /\ UNCHANGED <<phase, userExec, execOpen, called, job, winding, posted, late>>
\* An aclose() that raises instead of returning an awaitable, or a failing
\* exception handler, ends the sweep: the rest is left to its other references.
held_closed(g) ==
  /\ phase = "running" /\ gen[g] = "held"
  /\ \/ \E how \in {"closed", "reported"} : gen' = [gen EXCEPT ![g] = how]
     \/ gen' = [h \in Gens |-> IF gen[h] = "held" THEN "late" ELSE gen[h]]
  /\ UNCHANGED <<phase, userExec, execOpen, called, job, winding, posted, gensCalled, late>>

-----------------------------------------------------------------------------
(* lifecycle.rs *)
stop ==
  /\ phase = "running" /\ phase' = "stopped"
  /\ UNCHANGED <<userExec, execOpen, called, job, winding, posted, gen, gensCalled, late>>
run_forever ==
  /\ phase = "stopped" /\ phase' = "running"
  /\ UNCHANGED <<userExec, execOpen, called, job, winding, posted, gen, gensCalled, late>>

\* close: not while running; the executor is shut without waiting.
close ==
  /\ phase = "stopped" /\ phase' = "closed"
  /\ called' = TRUE /\ posted' = <<>>
  /\ userExec' = IF userExec = "set" THEN "gone" ELSE userExec
  /\ execOpen' = (execOpen /\ userExec # "set")
  /\ UNCHANGED <<job, winding, gen, gensCalled, late>>

ShutdownWorks == executor_shuts \/ executor_joined \/ join_times_out
LoopShutdownNext ==
  \/ \E j \in LoopJobs :
       \/ run_in_executor(j) \/ run_in_own_executor(j) \/ cancel_job(j) \/ cancel_lookup(j)
       \/ \E shape \in Shapes : getaddrinfo(j, shape)
       \/ job_starts(j) \/ job_ends(j)
  \/ complete \/ set_default_executor \/ ShutdownWorks
  \/ \E limit \in {"none", "zero", "finite"} : shutdown_default_executor(limit)
  \/ \E g \in Gens : firstiter(g) \/ finalizer(g) \/ aclose_task(g) \/ held_closed(g)
  \/ shutdown_asyncgens \/ stop \/ run_forever \/ close

LoopShutdownSpec == LoopShutdownInit /\ [][LoopShutdownNext]_shutdownVars

-----------------------------------------------------------------------------
LoopShutdownTypeOK ==
  /\ phase \in {"running", "stopped", "closed"} /\ userExec \in {"none", "set", "taken", "joined", "gone"}
  /\ \A j \in LoopJobs : job[j].st \in {"none", "refused", "queued", "running", "done"}
  /\ Cardinality(Running("lookup")) <= PoolThreads

\* Once shutdown has been asked for, nothing new is put on the default
\* executor, the blocking pool or a resolver slot, even by a call that finds
\* a user's executor in place again.
NothingAfterShutdown == late = {}

\* A shutdown that ends without its warning has waited: every job the user's
\* executor had taken is finished.
ShutdownWaited ==
  userExec = "joined" => winding.pc = "ok" /\ ~winding.warned /\ Unfinished = {}

\* After shutdown_asyncgens no generator is left in the set of active ones: each
\* was handed to the sweep or, started later, warned of.
GeneratorsSwept == gensCalled => \A g \in Gens : gen[g] # "active"

\* The warning is given only where a timeout was asked for.
WarnsOnTimeoutOnly == winding.warned => winding.limit # "none"

\* A completion on its way belongs to a finished job, and no job has two: the
\* future is set at most once, never after its job was cut off by the flag.
CompletionsExact ==
  /\ \A i, k \in 1..Len(posted) : i # k => posted[i] # posted[k]
  /\ \A i \in 1..Len(posted) : job[posted[i]].st = "done" /\ job[posted[i]].fut # "set"
  /\ \A j \in LoopJobs : job[j].fut = "pending" /\ job[j].st = "done" /\ phase # "closed"
                           => \E i \in 1..Len(posted) : posted[i] = j

\* What winding up a loop promises.
ShutdownSafe ==
  /\ LoopShutdownTypeOK /\ NothingAfterShutdown /\ ShutdownWaited /\ WarnsOnTimeoutOnly
  /\ GeneratorsSwept /\ CompletionsExact
=============================================================================
