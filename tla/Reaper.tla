------------------------------- MODULE Reaper -------------------------------
(***************************************************************************)
(* Child processes of the runtime (vibeio/process/mod.rs, reaper.rs,       *)
(* op/waitpid.rs): the Child object and its stdin pipe, the reaper task    *)
(* with its channel (pidfd, SIGCHLD or thread flavour), the background     *)
(* threads it falls back to, and the death of the runtime under all of     *)
(* them.  The operating system keeps a zombie until somebody waits for it; *)
(* after that the process id may belong to another process.                *)
(***************************************************************************)
EXTENDS Integers, Sequences, SequencesExt, FiniteSets

CONSTANTS
    Kids,           \* the child processes
    EofKids         \* the ones that exit when their standard input ends

ASSUME ReaperAssumption == IsFiniteSet(Kids) /\ EofKids \subseteq Kids

VARIABLES
    os,             \* the kernel: "none", "running", "zombie", "reaped"
    holder,         \* who owns the std Child: "child", "queue", "list", "task", "thread",
                    \* "reapthread", or "none"
    known,          \* the std Child remembers the status try_wait took
    waiter,         \* Child::wait: "idle", "waiting", "status", "error", "gone"
    stdin,          \* the pipe: "none", "held", "pool" (a blocking write), "lent"
                    \* (the same, its future dropped), "closed"
    flavour,        \* "pidfd", "signal" or "threads"
    reapQueue,      \* the channel to the reaper task
    sigchld,        \* the SIGCHLD stream has an unseen signal
    alive           \* the runtime

reaperVars == <<os, holder, known, waiter, stdin, flavour, reapQueue, sigchld, alive>>

\* zombie_reaper_fn: pidfds when the kernel has them, else SIGCHLD, else threads.
ReaperInit ==
    /\ os = [k \in Kids |-> "none"] /\ holder = [k \in Kids |-> "none"]
    /\ known = [k \in Kids |-> FALSE] /\ waiter = [k \in Kids |-> "idle"]
    /\ stdin = [k \in Kids |-> "none"]
    /\ flavour \in {"pidfd", "signal", "threads"}
    /\ reapQueue = <<>> /\ sigchld = FALSE /\ alive = TRUE

KidExited(k) == os[k] = "zombie" \/ known[k]
Answered(k, how) == IF waiter[k] = "waiting" THEN how ELSE waiter[k]

\* What becomes of the children the reaper lets go of: the status of those in D was taken
\* from the kernel and sent; those in T go to a thread with their sender
\* (wait_in_background); those in S are dropped.  Drop for ReapChild: try_wait, else a thread
\* of its own; a thread that cannot be started leaves the child with the caller, who waits
\* for it there.
Settle(D, T, S) ==
    LET reaped == D \cup {k \in S : KidExited(k)} IN
    /\ os' = [k \in Kids |-> IF k \in reaped THEN "reaped" ELSE os[k]]
    /\ holder' = [k \in Kids |-> CASE k \in reaped -> "none" [] k \in T -> "thread"
                                   [] k \in S \ reaped -> "reapthread" [] OTHER -> holder[k]]
    /\ waiter' = [k \in Kids |-> CASE k \in D -> Answered(k, "status")
                                   [] k \in S -> Answered(k, "error") [] OTHER -> waiter[k]]

DropReapChild(S) == Settle({}, {}, S)
Deliver(S) == Settle(S, {}, {})

\* wait_in_background: a thread each, or, where it cannot start, the drop of both.
WaitInBackground(S) == \E T \in SUBSET S : Settle({}, T, S \ T)

(* ------------------------------ the program ----------------------------- *)

\* Command::spawn, Child::from_std.
spawn_child(k) ==
    /\ os[k] = "none" /\ os' = [os EXCEPT ![k] = "running"]
    /\ holder' = [holder EXCEPT ![k] = "child"] /\ stdin' = [stdin EXCEPT ![k] = "held"]
    /\ UNCHANGED <<known, waiter, flavour, reapQueue, sigchld, alive>>

\* ChildStdin::write through the blocking pool: the pipe moves into the job and comes
\* back; a future dropped meanwhile leaves it there.
stdin_write(k) ==
    /\ holder[k] = "child" /\ stdin[k] = "held" /\ stdin' = [stdin EXCEPT ![k] = "pool"]
    /\ UNCHANGED <<os, holder, known, waiter, flavour, reapQueue, sigchld, alive>>

stdin_write_done(k) ==
    /\ stdin[k] \in {"pool", "lent"}
    /\ stdin' = [stdin EXCEPT ![k] = IF @ = "pool" THEN "held" ELSE "closed"]
    /\ UNCHANGED <<os, holder, known, waiter, flavour, reapQueue, sigchld, alive>>

stdin_write_dropped(k) ==
    /\ stdin[k] = "pool" /\ stdin' = [stdin EXCEPT ![k] = "lent"]
    /\ UNCHANGED <<os, holder, known, waiter, flavour, reapQueue, sigchld, alive>>

\* stdin.take() of wait and of Drop: the pipe is closed unless a job still holds it.
StdinTaken(k) == [stdin EXCEPT ![k] = IF @ = "lent" THEN "lent" ELSE "closed"]

\* Child::wait, ZombieReaper::wait.
wait(k) ==
    /\ holder[k] = "child" /\ stdin[k] # "pool"
    /\ stdin' = StdinTaken(k)
    /\ IF alive
       THEN /\ holder' = [holder EXCEPT ![k] = "queue"] /\ reapQueue' = Append(reapQueue, k)
            /\ waiter' = [waiter EXCEPT ![k] = "waiting"] /\ UNCHANGED os
       ELSE /\ \/ /\ holder' = [holder EXCEPT ![k] = "thread"]
                  /\ waiter' = [waiter EXCEPT ![k] = "waiting"] /\ UNCHANGED os
               \/ /\ os' = IF KidExited(k) THEN [os EXCEPT ![k] = "reaped"] ELSE os
                  /\ holder' = [holder EXCEPT ![k] = IF KidExited(k) THEN "none" ELSE "reapthread"]
                  /\ waiter' = [waiter EXCEPT ![k] = "error"]
            /\ UNCHANGED reapQueue
    /\ UNCHANGED <<known, flavour, sigchld, alive>>

\* Child::try_wait: a zombie is reaped and its status remembered.
try_wait(k) ==
    /\ holder[k] = "child" /\ os[k] = "zombie"
    /\ os' = [os EXCEPT ![k] = "reaped"] /\ known' = [known EXCEPT ![k] = TRUE]
    /\ UNCHANGED <<holder, waiter, stdin, flavour, reapQueue, sigchld, alive>>

cancel_wait(k) ==
    /\ waiter[k] = "waiting" /\ waiter' = [waiter EXCEPT ![k] = "gone"]
    /\ UNCHANGED <<os, holder, known, stdin, flavour, reapQueue, sigchld, alive>>

\* Drop for Child, reap_on_drop.
drop_child(k) ==
    /\ holder[k] = "child" /\ stdin[k] # "pool"
    /\ stdin' = [stdin EXCEPT ![k] = IF @ = "lent" THEN "lent" ELSE "closed"]
    /\ IF ~KidExited(k) /\ alive
       THEN /\ holder' = [holder EXCEPT ![k] = "queue"] /\ reapQueue' = Append(reapQueue, k)
            /\ UNCHANGED <<os, waiter>>
       ELSE DropReapChild({k}) /\ UNCHANGED reapQueue
    /\ UNCHANGED <<known, flavour, sigchld, alive>>

(* --------------------------- kernel and reaper -------------------------- *)

child_exits(k) ==
    /\ os[k] = "running" /\ (k \in EofKids => stdin[k] = "closed")
    /\ os' = [os EXCEPT ![k] = "zombie"] /\ sigchld' = TRUE
    /\ UNCHANGED <<holder, known, waiter, stdin, flavour, reapQueue, alive>>

\* The reaper task takes a message: try_wait first, then its flavour's way of waiting.  An
\* error of try_wait is sent, and the child dropped.
FirstLook(k) == KidExited(k)

reaper_takes ==
    /\ alive /\ reapQueue # <<>> /\ reapQueue' = Tail(reapQueue)
    /\ LET k == Head(reapQueue) IN
       \/ flavour # "threads" /\ FirstLook(k) /\ Deliver({k})
       \/ /\ flavour # "threads" /\ ~FirstLook(k)
          /\ holder' = [holder EXCEPT ![k] = IF flavour = "pidfd" THEN "task" ELSE "list"]
          /\ UNCHANGED <<os, waiter>>
       \/ flavour # "threads" /\ DropReapChild({k})
       \/ flavour = "threads" /\ WaitInBackground({k})
    /\ UNCHANGED <<known, stdin, flavour, sigchld, alive>>

\* zombie_reaper_fn_unix: one signal may stand for several exits, so all are looked at.
reaper_signal ==
    /\ alive /\ flavour = "signal" /\ sigchld /\ sigchld' = FALSE
    /\ LET listed == {k \in Kids : holder[k] = "list"} IN
       \E errors \in SUBSET listed : Settle({k \in listed \ errors : KidExited(k)}, {}, errors)
    /\ UNCHANGED <<known, stdin, flavour, reapQueue, alive>>

\* The signal stream fails: everybody gets a thread, now and from now on.
reaper_signal_fails ==
    /\ alive /\ flavour = "signal" /\ flavour' = "threads"
    /\ WaitInBackground({k \in Kids : holder[k] = "list"})
    /\ UNCHANGED <<known, stdin, reapQueue, sigchld, alive>>

\* WaitPidOp: the pidfd is readable once the child has exited; waitpid reaps it by number,
\* so the std Child must be forgotten.
\* Mutant: the std Child is dropped after the operation reaped its process.
AfterPidReap_Dropped == "reapthread"
AfterPidReap == "none"

pidfd_ready(k) ==
    /\ alive /\ holder[k] = "task" /\ os[k] = "zombie"
    /\ os' = [os EXCEPT ![k] = "reaped"] /\ holder' = [holder EXCEPT ![k] = AfterPidReap]
    /\ waiter' = [waiter EXCEPT ![k] = Answered(k, "status")]
    /\ UNCHANGED <<known, stdin, flavour, reapQueue, sigchld, alive>>

\* pidfd_open or its registration fails.
pidfd_fails(k) ==
    /\ alive /\ holder[k] = "task" /\ WaitInBackground({k})
    /\ UNCHANGED <<known, stdin, flavour, reapQueue, sigchld, alive>>

\* A background thread's wait returns.
thread_waits(k) ==
    /\ holder[k] \in {"thread", "reapthread"} /\ KidExited(k)
    /\ Deliver({k})
    /\ UNCHANGED <<known, stdin, flavour, reapQueue, sigchld, alive>>

\* Drop for Runtime: the channel is closed, the reaper task and the pidfd tasks are
\* dropped with everything they own.
drop_reaper_runtime ==
    /\ alive /\ alive' = FALSE /\ reapQueue' = <<>>
    /\ DropReapChild({k \in Kids : holder[k] \in {"queue", "list", "task"}})
    /\ UNCHANGED <<known, stdin, flavour, sigchld>>

ReaperTaskStep == reaper_takes \/ reaper_signal \/ reaper_signal_fails
KidStep(k) ==
    \/ spawn_child(k) \/ stdin_write(k) \/ stdin_write_done(k) \/ stdin_write_dropped(k)
    \/ wait(k) \/ try_wait(k) \/ cancel_wait(k) \/ drop_child(k) \/ child_exits(k)
    \/ pidfd_ready(k) \/ pidfd_fails(k) \/ thread_waits(k)
ReaperNext == ReaperTaskStep \/ drop_reaper_runtime \/ \E k \in Kids : KidStep(k)

\* Nobody but a std Child that remembers the status holds a process that was reaped: a
\* wait by number never meets a process id that has been given to somebody else.
NoWaitAfterReap == \A k \in Kids : os[k] = "reaped" /\ holder[k] # "none" => known[k]

\* A caller gets a status only of a process that ended, and one that waits is backed by
\* somebody who holds the child and the sender.
WaiterBacked ==
    \A k \in Kids :
        /\ waiter[k] = "status" => os[k] = "reaped"
        /\ waiter[k] = "waiting" => holder[k] \in {"queue", "list", "task", "thread"}
        /\ (holder[k] = "queue") = (k \in Range(reapQueue))

\* A child parked for the next SIGCHLD has not exited since the last look, or one is due.
ListWaitsForSignal ==
    (\E k \in Kids : holder[k] = "list" /\ KidExited(k)) => sigchld

ReaperSafe == NoWaitAfterReap /\ WaiterBacked /\ ListWaitsForSignal

\* A child that was waited for or let go is reaped once it has exited, and a caller of wait
\* whose child ends at the end of its input gets an answer, runtime or no runtime.
ReaperOwes(k) ==
    \/ os[k] = "zombie" /\ holder[k] # "child"
    \/ waiter[k] = "waiting" /\ (k \in EofKids \/ os[k] # "running")
ReaperOwed == \E k \in Kids : ReaperOwes(k)
=============================================================================
