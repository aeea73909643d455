------------------------------- MODULE Timers -------------------------------
(***************************************************************************)
(* call_later and call_at: the timer queue of the running loop             *)
(* (LocalTimers in src/src/engine/loop_core.rs, TimerQueue in              *)
(* timer_entry.rs), the heap other threads publish into, cancellation      *)
(* (TimerCallback in callbacks.rs) and what run_forever does between two   *)
(* parks.                                                                  *)
(*                                                                         *)
(* A timer is its callback id, which is also its tie breaker.  The flag    *)
(* and waker of LoopWake are one Boolean here: LoopEngine shows that a     *)
(* raised flag wakes the parked loop.                                      *)
(***************************************************************************)
EXTENDS Integers, Sequences, FiniteSets

CONSTANTS
    Remotes,        \* threads other than the loop thread that call call_later
    MaxTimers,      \* bound: timers scheduled
    MaxTime,        \* bound: the clock
    Delays,         \* the delays timers are scheduled with
    MaxRuns,        \* bound: calls of run_forever
    CompactFloor    \* the 100 tombstones small queues may keep

ASSUME TimersAssumption ==
    /\ "loop" \notin Remotes
    /\ MaxTimers \in Nat /\ MaxTime \in Nat /\ MaxRuns \in Nat
    /\ Delays \subseteq Nat /\ CompactFloor \in Nat

Timer == 1..MaxTimers
Threads == Remotes \union {"loop"}

VARIABLES
    now,                      \* the monotonic clock
    scheduled,                \* ids handed out
    when,                     \* deadlines
    ordered, unordered,       \* TimerQueue of the active run
    pending_timers,           \* the heap other threads publish into
    pending_timers_dirty,
    has_payload, queued, cancelled,   \* TimerCallback
    cancelled_timers,         \* the tombstone counter
    ready,                    \* TimerCallback items in the ready queue
    ready_pending,
    closed,
    loop_pc, collect_now, deadline, runs,
    call_pc, call_timer,      \* enqueue_timer off the loop thread
    fired, released           \* history: callbacks run, and shells let go

queue_vars == <<ordered, unordered, pending_timers, pending_timers_dirty>>
timer_vars == <<has_payload, queued, cancelled, cancelled_timers>>
call_vars == <<call_pc, call_timer>>
timerVars == <<now, scheduled, when, queue_vars, timer_vars, ready, ready_pending,
          closed, loop_pc, collect_now, deadline, runs, call_vars, fired,
          released>>

LoopPcs == {"idle", "collect", "append", "compact", "pop", "drain", "check",
            "asleep", "closing", "closed"}

Local == {ordered[i] : i \in 1..Len(ordered)} \union unordered

\* Every variable has the type of the field it stands for; the tombstone counter
\* is a usize (loop_core.rs:240) that must not be decremented below zero.
TimersTypeOK ==
    /\ now \in 0..MaxTime /\ scheduled \in 0..MaxTimers
    /\ when \in [Timer -> 0..MaxTime]
    /\ ordered \in Seq(Timer) /\ unordered \subseteq Timer
    /\ pending_timers \subseteq Timer /\ pending_timers_dirty \in BOOLEAN
    /\ has_payload \subseteq Timer /\ queued \subseteq Timer
    /\ cancelled \subseteq Timer /\ cancelled_timers \in Nat
    /\ ready \in Seq(Timer) /\ ready_pending \in BOOLEAN /\ closed \in BOOLEAN
    /\ loop_pc \in LoopPcs /\ collect_now \in 0..MaxTime
    /\ deadline \in 0..(MaxTime + 1) /\ runs \in 0..MaxRuns
    /\ call_pc \in [Threads -> {"idle", "push", "dirty", "signal"}]
    /\ call_timer \in [Threads -> 0..MaxTimers]
    /\ fired \subseteq Timer /\ released \subseteq Timer

TimersInit ==
    /\ now = 0 /\ scheduled = 0 /\ when = [t \in Timer |-> 0]
    /\ ordered = <<>> /\ unordered = {} /\ pending_timers = {}
    /\ pending_timers_dirty = FALSE
    /\ has_payload = {} /\ queued = {} /\ cancelled = {}
    /\ cancelled_timers = 0
    /\ ready = <<>> /\ ready_pending = FALSE /\ closed = FALSE
    /\ loop_pc = "idle" /\ collect_now = 0 /\ deadline = 0 /\ runs = 0
    /\ call_pc = [c \in Threads |-> "idle"]
    /\ call_timer = [c \in Threads |-> 0]
    /\ fired = {} /\ released = {}

-----------------------------------------------------------------------------
\* TimerQueue.

\* compare_timer_parts: the earlier deadline, then the lower id.
Before(a, b) == when[a] < when[b] \/ (when[a] = when[b] /\ a < b)

First(S) == CHOOSE t \in S : \A u \in S \ {t} : Before(t, u)

\* Mutant: the heap is looked at only when the FIFO is empty.
Peek_FifoFirst == IF ordered # <<>> THEN Head(ordered) ELSE First(unordered)

\* TimerQueue::peek and pop: the FIFO's front unless the heap's top is earlier.
Peek ==
    IF ordered = <<>> THEN First(unordered)
    ELSE IF unordered # {} /\ Before(First(unordered), Head(ordered))
         THEN First(unordered)
         ELSE Head(ordered)

\* TimerQueue::pop, of the entry Peek names.
Pop ==
    IF ordered # <<>> /\ Peek = Head(ordered)
    THEN ordered' = Tail(ordered) /\ UNCHANGED unordered
    ELSE unordered' = unordered \ {Peek} /\ UNCHANGED ordered

\* TimerCallback::new with a new id and a deadline.
NewTimer(t, d) ==
    /\ scheduled < MaxTimers /\ now + d <= MaxTime
    /\ t = scheduled + 1
    /\ scheduled' = t
    /\ when' = [when EXCEPT ![t] = now + d]
    /\ has_payload' = has_payload \union {t}
    /\ queued' = queued \union {t}

\* enqueue_timer inside a callback of the run: TimerQueue::push.
enqueue_timer_local(t, d) ==
    /\ loop_pc = "drain"
    /\ NewTimer(t, d)
    /\ IF d = 0 /\ (ordered = <<>>
                    \/ LET last == ordered[Len(ordered)] IN when[last] <= now)
       THEN ordered' = Append(ordered, t) /\ UNCHANGED unordered
       ELSE unordered' = unordered \union {t} /\ UNCHANGED ordered
    /\ UNCHANGED <<now, pending_timers, pending_timers_dirty, cancelled,
                   cancelled_timers, ready, ready_pending, closed, loop_pc,
                   collect_now, deadline, runs, call_vars, fired, released>>

-----------------------------------------------------------------------------
\* enqueue_timer from another thread, or on the loop thread between runs.

enqueue_timer(c, t, d) ==
    /\ call_pc[c] = "idle" /\ (c = "loop" => loop_pc = "idle")
    /\ NewTimer(t, d)
    /\ call_timer' = [call_timer EXCEPT ![c] = t]
    /\ call_pc' = [call_pc EXCEPT ![c] = "push"]
    /\ UNCHANGED <<now, queue_vars, cancelled, cancelled_timers, ready,
                   ready_pending, closed, loop_pc, collect_now, deadline, runs,
                   fired, released>>

\* The state lock is held from the closed check to the dirty flag.
StateLocked == \E c \in Threads : call_pc[c] = "dirty"

\* TimerCallback::drop: the shell is let go, with its tombstone.
Dropped(S) ==
    /\ cancelled_timers' = cancelled_timers - Cardinality(S \cap queued \cap cancelled)
    /\ queued' = queued \ S
    /\ has_payload' = has_payload \ S
    /\ released' = released \union S

\* The closed check and the push, under the state lock.
publish_timer(c) ==
    /\ call_pc[c] = "push" /\ ~StateLocked
    /\ IF closed
       THEN /\ Dropped({call_timer[c]})
            /\ call_pc' = [call_pc EXCEPT ![c] = "idle"]
            /\ call_timer' = [call_timer EXCEPT ![c] = 0]
            /\ UNCHANGED pending_timers
       ELSE /\ pending_timers' = pending_timers \union {call_timer[c]}
            /\ call_pc' = [call_pc EXCEPT ![c] = "dirty"]
            /\ call_timer' = [call_timer EXCEPT ![c] = 0]
            /\ UNCHANGED <<cancelled_timers, queued, has_payload, released>>
    /\ UNCHANGED <<now, scheduled, when, ordered, unordered,
                   pending_timers_dirty, cancelled, ready, ready_pending,
                   closed, loop_pc, collect_now, deadline, runs, fired>>

\* The dirty flag, and the state lock released.
publish_dirty(c) ==
    /\ call_pc[c] = "dirty"
    /\ pending_timers_dirty' = TRUE
    /\ call_pc' = [call_pc EXCEPT ![c] = "signal"]
    /\ UNCHANGED <<now, scheduled, when, ordered, unordered, pending_timers,
                   timer_vars, ready, ready_pending, closed, loop_pc,
                   collect_now, deadline, runs, call_timer, fired, released>>

\* wake.signal().
publish_signal(c) ==
    /\ call_pc[c] = "signal"
    /\ ready_pending' = TRUE
    /\ call_pc' = [call_pc EXCEPT ![c] = "idle"]
    /\ UNCHANGED <<now, scheduled, when, queue_vars, timer_vars, ready, closed,
                   loop_pc, collect_now, deadline, runs, call_timer, fired,
                   released>>

\* TimerCallback::cancel counts a timer that is still queued.
Tombstone(t) == IF t \in queued THEN 1 ELSE 0

\* TimerCallback::cancel, by any thread that holds the handle, under the
\* timer's lock; the handle's weak reference is dead once the shell is let go.
timer_cancel(t) ==
    /\ t \in 1..scheduled /\ t \notin released /\ t \notin cancelled
    /\ cancelled' = cancelled \union {t}
    /\ cancelled_timers' = cancelled_timers + Tombstone(t)
    /\ has_payload' = has_payload \ {t}
    /\ UNCHANGED <<now, scheduled, when, queue_vars, queued, ready,
                   ready_pending, closed, loop_pc, collect_now, deadline, runs,
                   call_vars, fired, released>>

-----------------------------------------------------------------------------
\* The loop thread.

\* run_forever: a fresh LocalTimers; the flag is lowered at the start.
timers_run_forever ==
    /\ loop_pc = "idle" /\ call_pc["loop"] = "idle" /\ ~StateLocked
    /\ ~closed /\ runs < MaxRuns
    /\ runs' = runs + 1
    /\ ready_pending' = FALSE
    /\ loop_pc' = "collect"
    /\ UNCHANGED <<now, scheduled, when, queue_vars, timer_vars, ready, closed,
                   collect_now, deadline, call_vars, fired, released>>

\* LocalTimers::collect: the dirty flag is taken before the heap's lock.
collect ==
    /\ loop_pc = "collect"
    /\ pending_timers_dirty' = FALSE
    /\ loop_pc' = IF pending_timers_dirty THEN "append" ELSE "compact"
    /\ UNCHANGED <<now, scheduled, when, ordered, unordered, pending_timers,
                   timer_vars, ready, ready_pending, closed, collect_now,
                   deadline, runs, call_vars, fired, released>>

\* TimerQueue::append_heap, under the heap's lock.
append_heap ==
    /\ loop_pc = "append"
    /\ unordered' = unordered \union pending_timers
    /\ pending_timers' = {}
    /\ loop_pc' = "compact"
    /\ UNCHANGED <<now, scheduled, when, ordered, pending_timers_dirty,
                   timer_vars, ready, ready_pending, closed, collect_now,
                   deadline, runs, call_vars, fired, released>>

\* TimerCallback::dequeue, of each timer of S.
Dequeue(S) ==
    /\ queued' = queued \ S
    /\ cancelled_timers' = cancelled_timers - Cardinality(S \cap queued \cap cancelled)

IsLive(t) == t \notin cancelled

\* The orders in which TimerQueue::compact_cancelled may hand over its shells:
\* the heap is walked in no particular order.
HandedOver(S) ==
    {q \in [1..Cardinality(S) -> S] : \A i, j \in DOMAIN q : i # j => q[i] # q[j]}

\* VecDeque::retain keeps the entries it keeps in their order: the increasing
\* enumeration of the positions P.
InOrder(P) ==
    {p \in [1..Cardinality(P) -> P] : \A i, j \in DOMAIN p : i < j => p[i] < p[j]}

\* LocalTimers::collect: once tombstones outnumber live entries, all leave.
compact_cancelled ==
    /\ loop_pc = "compact"
    /\ LET dead == {t \in Local : ~IsLive(t)}
           kept == {i \in 1..Len(ordered) : IsLive(ordered[i])} IN
       IF /\ cancelled_timers > CompactFloor
          /\ cancelled_timers > Cardinality(Local) \div 2
       THEN /\ \E p \in InOrder(kept) :
                  ordered' = [i \in 1..Cardinality(kept) |-> ordered[p[i]]]
            /\ unordered' = unordered \ dead
            /\ Dequeue(dead)
            /\ \E q \in HandedOver(dead) : ready' = ready \o q
       ELSE UNCHANGED <<ordered, unordered, queued, cancelled_timers, ready>>
    /\ collect_now' = now
    /\ loop_pc' = "pop"
    /\ UNCHANGED <<now, scheduled, when, pending_timers, pending_timers_dirty,
                   has_payload, cancelled, ready_pending, closed, deadline,
                   runs, call_vars, fired, released>>

\* LocalTimers::collect: due at the time read once, or a tombstone.
IsDue(t) == when[t] <= collect_now \/ ~IsLive(t)

DueNow == IF Local = {} THEN FALSE ELSE IsDue(Peek)

\* LocalTimers::collect: the head leaves the queue for the ready queue.
pop_due ==
    /\ loop_pc = "pop"
    /\ DueNow
    /\ Pop
    /\ Dequeue({Peek})
    /\ ready' = Append(ready, Peek)
    /\ UNCHANGED <<now, scheduled, when, pending_timers, pending_timers_dirty,
                   has_payload, cancelled, ready_pending, closed, loop_pc,
                   collect_now, deadline, runs, call_vars, fired, released>>

\* The ready drain starts; it lowers the flag.
end_collect ==
    /\ loop_pc = "pop"
    /\ ~DueNow
    /\ ready_pending' = FALSE
    /\ loop_pc' = "drain"
    /\ collect_now' = 0
    /\ UNCHANGED <<now, scheduled, when, queue_vars, timer_vars, ready, closed,
                   deadline, runs, call_vars, fired, released>>

\* Mutant: the payload is not asked for again.
MayFire_Unchecked(t) == TRUE

\* TimerCallback::take_ready found the payload.
MayFire(t) == t \in has_payload

\* The drain runs a timer callback, or drops the shell of a cancelled one.
run_timer ==
    /\ loop_pc = "drain" /\ ready # <<>>
    /\ LET t == Head(ready) IN
       /\ fired' = IF MayFire(t) THEN fired \union {t} ELSE fired
       /\ has_payload' = has_payload \ {t}
       /\ released' = released \union {t}
    /\ ready' = Tail(ready)
    /\ UNCHANGED <<now, scheduled, when, queue_vars, queued, cancelled,
                   cancelled_timers, ready_pending, closed, loop_pc,
                   collect_now, deadline, runs, call_vars>>

end_drain ==
    /\ loop_pc = "drain" /\ ready = <<>>
    /\ loop_pc' = "check"
    /\ UNCHANGED <<now, scheduled, when, queue_vars, timer_vars, ready,
                   ready_pending, closed, collect_now, deadline, runs,
                   call_vars, fired, released>>

\* Mutant: the loop parks without looking at the dirty flag.
MayPark_Always == TRUE

\* run_forever never parks before importing a published timer.
MayPark == ~pending_timers_dirty

\* LocalTimers::deadline; MaxTime + 1 stands for no timer.
SleepUntil == IF Local = {} THEN MaxTime + 1 ELSE when[Peek]

\* The turn ends: another one, or a park until the first deadline.
park ==
    /\ loop_pc = "check"
    /\ IF MayPark
       THEN /\ deadline' = SleepUntil
            /\ loop_pc' = "asleep"
       ELSE loop_pc' = "collect" /\ UNCHANGED deadline
    /\ UNCHANGED <<now, scheduled, when, queue_vars, timer_vars, ready,
                   ready_pending, closed, collect_now, runs, call_vars, fired,
                   released>>

\* WaitForWake and block_on_until: the flag or the deadline.
wake_up ==
    /\ loop_pc = "asleep"
    /\ ready_pending \/ now >= deadline
    /\ loop_pc' = "collect"
    /\ deadline' = 0
    /\ UNCHANGED <<now, scheduled, when, queue_vars, timer_vars, ready,
                   ready_pending, closed, collect_now, runs, call_vars, fired,
                   released>>

\* block_on_until may return early: SIGNAL_POLL_INTERVAL bounds the park.
signal_deadline ==
    /\ loop_pc = "asleep"
    /\ loop_pc' = "collect"
    /\ deadline' = 0
    /\ UNCHANGED <<now, scheduled, when, queue_vars, timer_vars, ready,
                   ready_pending, closed, collect_now, runs, call_vars, fired,
                   released>>

\* Mutant: only the heap is returned, the FIFO is forgotten.
Returned_HeapOnly == unordered

\* TimerQueue::drain_into returns the heap's entries and the FIFO's.
Returned == Local

\* The run ends, before or after it drained its batch (an error keeps it for
\* the next run): LocalTimers::drop returns what is left.
end_run ==
    /\ loop_pc \in {"drain", "check"}
    /\ pending_timers' = pending_timers \union Returned
    /\ pending_timers_dirty' = (pending_timers_dirty \/ Local # {})
    /\ ordered' = <<>> /\ unordered' = {}
    /\ loop_pc' = "idle"
    /\ UNCHANGED <<now, scheduled, when, timer_vars, ready, ready_pending,
                   closed, collect_now, deadline, runs, call_vars, fired,
                   released>>

\* close: the closed flag, under the state lock.
timer_close ==
    /\ loop_pc = "idle" /\ call_pc["loop"] = "idle" /\ ~StateLocked /\ ~closed
    /\ closed' = TRUE
    /\ loop_pc' = "closing"
    /\ UNCHANGED <<now, scheduled, when, queue_vars, timer_vars, ready,
                   ready_pending, collect_now, deadline, runs, call_vars,
                   fired, released>>

\* close: outstanding timers are released.
release_timers ==
    /\ loop_pc = "closing"
    /\ pending_timers' = {} /\ pending_timers_dirty' = FALSE
    /\ Dropped(pending_timers)
    /\ loop_pc' = "closed"
    /\ UNCHANGED <<now, scheduled, when, ordered, unordered, cancelled, ready,
                   ready_pending, closed, collect_now, deadline, runs,
                   call_vars, fired>>

tick ==
    /\ now < MaxTime
    /\ now' = now + 1
    /\ UNCHANGED <<scheduled, when, queue_vars, timer_vars, ready,
                   ready_pending, closed, loop_pc, collect_now, deadline, runs,
                   call_vars, fired, released>>

CallerStep(c) == publish_timer(c) \/ publish_dirty(c) \/ publish_signal(c)

TimerLoopStep ==
    \/ collect \/ append_heap \/ compact_cancelled \/ pop_due \/ end_collect
    \/ run_timer \/ end_drain \/ park \/ wake_up \/ release_timers

TimersNext ==
    \/ TimerLoopStep \/ signal_deadline \/ tick \/ timers_run_forever \/ end_run \/ timer_close
    \/ \E c \in Threads : CallerStep(c)
    \/ \E t \in Timer : timer_cancel(t)
    \/ \E t \in Timer, d \in Delays : enqueue_timer_local(t, d)
    \/ \E c \in Threads, t \in Timer, d \in Delays : enqueue_timer(c, t, d)

TimersSpec == TimersInit /\ [][TimersNext]_timerVars

\* Threads keep running and time passes; calls, stops and cancels may not come.
TimersFairSpec ==
    /\ TimersSpec
    /\ WF_timerVars(TimerLoopStep) /\ WF_timerVars(tick)
    /\ \A c \in Threads : WF_timerVars(CallerStep(c))

-----------------------------------------------------------------------------
\* Properties.

Held == {t \in 1..scheduled : \E c \in Threads :
            call_pc[c] = "push" /\ call_timer[c] = t}

Copies(t) ==
    Cardinality({i \in 1..Len(ordered) : ordered[i] = t})
    + Cardinality({i \in 1..Len(ready) : ready[i] = t})
    + Cardinality({S \in {unordered} : t \in S})
    + Cardinality({S \in {pending_timers} : t \in S})
    + Cardinality({S \in {Held} : t \in S})
    + Cardinality({S \in {released} : t \in S})

\* A timer is in one place: with its caller, on a queue, in the ready queue or
\* let go; it is neither lost nor fires twice when heaps are merged, compacted
\* or returned at the end of a run (loop_core.rs:209-211).
TimersConserved == \A t \in 1..scheduled : Copies(t) = 1

\* cancelled_timers counts each tombstone once (callbacks.rs:541, "count each
\* tombstone once"): repeated cancels, removal and shutdown leave it exact, so
\* it never wraps below zero.
TombstonesExact == cancelled_timers = Cardinality(queued \cap cancelled)

\* A cancelled timer that had not been claimed never runs.
CancelledNeverRuns ==
    [][\A t \in fired' \ fired : t \notin cancelled]_timerVars

\* A live timer is made ready no earlier than its deadline, and no live timer
\* of the run with an earlier (deadline, id) is passed over, whichever of the
\* FIFO and the heap either is in (timer_entry.rs:1, "stable ordering").
DeadlineOrder ==
    [][\A t \in Local \ Local' :
           loop_pc = "pop" /\ IsLive(t) =>
               /\ when[t] <= now
               /\ \A u \in Local' : Before(t, u)]_timerVars

\* A published timer never waits for a parked loop: it is flagged, or its
\* publisher is about to do so (loop_core.rs:1108-1110, "Never park before
\* importing it").
NoTimerStranded ==
    loop_pc = "asleep" /\ pending_timers # {} =>
        ready_pending \/ \E c \in Threads : call_pc[c] \in {"dirty", "signal"}

\* The loop never sleeps past the first deadline of its own queue.
WakesForDeadline ==
    loop_pc = "asleep" => \A t \in Local : IsLive(t) => deadline <= when[t]

\* The queues hold every pending timer once, count their tombstones exactly,
\* and the loop parks neither on a published timer nor past a deadline.
TimersSafe ==
    TimersTypeOK /\ TimersConserved /\ TombstonesExact /\ NoTimerStranded /\ WakesForDeadline

TimerRunning == loop_pc \notin {"idle", "closing", "closed"}

\* A timer fires once its time has come, unless it is cancelled or the run ends.
TimersFire ==
    \A t \in Timer :
        []<>(t <= scheduled /\ t \notin cancelled /\ TimerRunning => t \in fired)
=============================================================================
