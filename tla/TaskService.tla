---------------------------- MODULE TaskService -----------------------------
(***************************************************************************)
(* What a future may rely on, whatever the executor does with queues,      *)
(* slots and threads: one task is polled at a time, a task that completed  *)
(* or was canceled is never polled again, and a task that was woken is     *)
(* polled once more while the loop is being served.                        *)
(***************************************************************************)
CONSTANTS Tasks, NoTask

VARIABLES live,     \* tasks whose future exists
          woken,    \* live tasks woken since their last poll began
          running,  \* the task being polled
          serving   \* the loop is inside block_on or poll_once

serviceVars == <<live, woken, running, serving>>

TaskServiceInit ==
  live = {} /\ woken = {} /\ running = NoTask /\ serving = FALSE

Spawn(t) ==
  /\ t \notin live
  /\ live' = live \cup {t} /\ woken' = woken \cup {t}
  /\ UNCHANGED <<running, serving>>

\* Wakes of tasks that are gone leave no trace.
Wake(t) ==
  /\ t \in live /\ woken' = woken \cup {t}
  /\ UNCHANGED <<live, running, serving>>

Poll(t) ==
  /\ serving /\ running = NoTask /\ t \in live
  /\ running' = t /\ woken' = woken \ {t}
  /\ UNCHANGED <<live, serving>>

\* Pending, or complete, in which case the task it was joined by is woken.
Suspend == /\ running \in live /\ running' = NoTask
           /\ UNCHANGED <<live, woken, serving>>
Complete ==
  /\ running \in live /\ running' = NoTask
  /\ live' = live \ {running}
  /\ \E joiners \in SUBSET live' : woken' = (woken \ {running}) \cup joiners
  /\ UNCHANGED serving

\* A task that is not running is dropped.
Cancel(t) ==
  /\ t \in live /\ t # running
  /\ live' = live \ {t} /\ woken' = woken \ {t}
  /\ UNCHANGED <<running, serving>>

\* Entering, leaving, and dropping the runtime with all of its tasks.
Serve == serving' = ~serving /\ running = NoTask /\ UNCHANGED <<live, woken, running>>
DropAll == /\ ~serving /\ live' = {} /\ woken' = {} /\ UNCHANGED <<running, serving>>

TaskServiceNext ==
  \/ \E t \in Tasks : Spawn(t) \/ Wake(t) \/ Poll(t) \/ Cancel(t)
  \/ Suspend \/ Complete \/ Serve \/ DropAll

\* While it is served, a woken task is polled or dropped.
Served == \A t \in Tasks :
  []<>~(serving /\ t \in woken)

TaskServiceSpec == TaskServiceInit /\ [][TaskServiceNext]_serviceVars /\ Served

=============================================================================
