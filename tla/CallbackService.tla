--------------------------- MODULE CallbackService ---------------------------
(***************************************************************************)
(* What an event loop promises to the callers of call_soon and             *)
(* call_soon_threadsafe, without threads, channels or queues: an accepted  *)
(* callback runs at most once, and the callbacks of one thread other than  *)
(* the loop thread run in the order that thread scheduled them.            *)
(* LoopEngine implements it.                                               *)
(***************************************************************************)
EXTENDS Naturals

CONSTANT Producers     \* threads whose callbacks keep their order

VARIABLES accepted, executed     \* sets of callbacks [by, n]

vars == <<accepted, executed>>

Init == accepted = {} /\ executed = {}

\* A thread numbers its callbacks in the order it schedules them.
Schedulable(x) ==
    /\ x.n \in Nat \ {0}
    /\ \A y \in accepted : y.by = x.by => y.n < x.n

Runnable(x) ==
    /\ x \in accepted \ executed
    /\ x.by \in Producers =>
           \A y \in accepted : y.by = x.by /\ y.n < x.n => y \in executed

Schedule(x) ==
    /\ Schedulable(x)
    /\ accepted' = accepted \union {x}
    /\ UNCHANGED executed

Run(x) ==
    /\ Runnable(x)
    /\ executed' = executed \union {x}
    /\ UNCHANGED accepted

\* A callback that schedules another one while it runs.
RunAndSchedule(x, y) ==
    /\ Runnable(x) /\ Schedulable(y)
    /\ executed' = executed \union {x}
    /\ accepted' = accepted \union {y}

Next ==
    \/ \E x \in accepted' \ accepted : Schedule(x)
    \/ \E x \in executed' \ executed : Run(x)
    \/ \E x \in executed' \ executed, y \in accepted' \ accepted :
           RunAndSchedule(x, y)

Spec == Init /\ [][Next]_vars
=============================================================================
