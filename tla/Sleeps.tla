------------------------------- MODULE Sleeps -------------------------------
(***************************************************************************)
(* The users of the runtime's timer: Sleep (vibeio/time/sleep.rs) and      *)
(* Timeout (vibeio/time/timeout.rs) over Timer (vibeio/timer.rs), whose    *)
(* heap is TimerHeap's: here it is the set of registrations.  Everything   *)
(* runs on the loop's thread; a poll is one step.                          *)
(* The second half is Interval::tick (vibeio/time/interval.rs) and the     *)
(* saturating deadline arithmetic below it (vibeio/time/mod.rs).  A tick   *)
(* plans, waits and commits; the caller may drop it while it waits.        *)
(***************************************************************************)
EXTENDS Integers, FiniteSets

CONSTANTS Sleepers,   \* Sleep futures, each polled by a task of its own
          TimerSlots, \* keys of the slab, reused
          LastTime,   \* the clock stops here
          Registrations, \* registrations a behaviour makes
          NoReg

ASSUME SleepsAssumption ==
  /\ LastTime \in Nat /\ Registrations \in Nat /\ IsFiniteSet(Sleepers)
  /\ NoReg \notin TimerSlots
  /\ NoReg \notin [deadline : 0..LastTime, gen : 1..Registrations, waker : Sleepers]

VARIABLES clock,
          reg,        \* the timer's entries: slot -> [deadline, gen, waker]
          lastGen,    \* next_generation
          sleep,      \* Sleep: [phase, deadline, handle, yield, inner]
          roused      \* tasks woken and not polled since

sleepVars == <<clock, reg, lastGen, sleep, roused>>
timerVars == <<reg, lastGen>>

NoHandle == [slot |-> NoReg, gen |-> 0]
\* inner is the future of a Timeout, "none" for a plain Sleep; yield is the
\* one-shot pending poll of ZeroBehavior::Yield ("off" for Immediate).
NewSleep(d, y, i) ==
  [phase |-> "new", deadline |-> d, handle |-> NoHandle, yield |-> y, inner |-> i]
Dropped == [NewSleep(0, "off", "none") EXCEPT !.phase = "dropped"]
Unborn == [Dropped EXCEPT !.phase = "unborn"]

SleepsInit ==
  /\ clock = 0 /\ reg = [k \in TimerSlots |-> NoReg] /\ lastGen = 0
  /\ sleep = [s \in Sleepers |-> Unborn] /\ roused = {}

-----------------------------------------------------------------------------
(* The timer as a set of registrations, which TimerHeap implements. *)

\* Mutant: a slot that is occupied is taken to be the handle's.
HandleValid_AnyGeneration(r, h) == h.slot # NoReg /\ r[h.slot] # NoReg
HandleValid(r, h) ==
  h.slot # NoReg /\ r[h.slot] # NoReg /\ r[h.slot].gen = h.gen
Without(r, h) == IF HandleValid(r, h) THEN [r EXCEPT ![h.slot] = NoReg] ELSE r

-----------------------------------------------------------------------------
(* Sleep and Timeout. *)

Expired(d) == d <= clock

Create(s, d, y, i) ==
  /\ sleep[s].phase = "unborn"
  /\ sleep' = [sleep EXCEPT ![s] = NewSleep(d, y, i)]
  /\ roused' = roused \cup {s}
  /\ UNCHANGED <<clock, timerVars>>

\* Timer::submit for s, whose Sleep becomes `z` with the new handle; the slab
\* chooses the slot.
submit(r, s, z) ==
  /\ lastGen < Registrations /\ lastGen' = lastGen + 1
  /\ \E k \in {k \in TimerSlots : r[k] = NoReg} :
       /\ reg' = [r EXCEPT ![k] = [deadline |-> z.deadline, gen |-> lastGen + 1, waker |-> s]]
       /\ sleep' = [sleep EXCEPT ![s] =
            [z EXCEPT !.phase = "pending", !.handle = [slot |-> k, gen |-> lastGen + 1]]]

\* Sleep::poll, when the Sleep has no registration yet.  submit wakes the task
\* of a deadline that has passed; with ZeroBehavior::Yield it is pending once.
poll_unregistered(s) ==
  LET z == sleep[s] IN
  /\ z.phase \in {"new", "pending"} /\ z.handle = NoHandle
  /\ IF ~Expired(z.deadline)
     THEN submit(reg, s, z) /\ roused' = roused \ {s}
     ELSE /\ sleep' = [sleep EXCEPT ![s] =
               IF z.yield = "armed" THEN [z EXCEPT !.yield = "done", !.phase = "pending"]
               ELSE [z EXCEPT !.phase = "fired",
                              !.inner = IF @ = "pending" THEN "canceled" ELSE @]]
          /\ roused' = roused \cup {s}
          /\ UNCHANGED timerVars

\* Sleep::poll of a registered Sleep: fired by the clock (the registration may
\* still be in the heap), or pending with update_waker, which fails for a
\* handle that was retired.
poll_registered(s) ==
  LET z == sleep[s] IN
  /\ z.phase = "pending" /\ z.handle # NoHandle
  /\ roused' = roused \ {s}
  /\ IF clock >= z.deadline
     THEN /\ reg' = Without(reg, z.handle)
          /\ sleep' = [sleep EXCEPT ![s] =
               [z EXCEPT !.phase = "fired", !.handle = NoHandle,
                         !.inner = IF @ = "pending" THEN "canceled" ELSE @]]
          /\ UNCHANGED lastGen
     ELSE IF HandleValid(reg, z.handle)
          THEN /\ reg' = [reg EXCEPT ![z.handle.slot].waker = s]
               /\ UNCHANGED <<lastGen, sleep>>
          ELSE submit(Without(reg, z.handle), s, z)

\* Timeout::poll looks at its future first; a plain Sleep has none.
poll_sleep(s) ==
  /\ sleep[s].inner # "ready"
  /\ poll_unregistered(s) \/ poll_registered(s)
  /\ UNCHANGED clock

Released(s) == Without(reg, sleep[s].handle)

\* The future of a Timeout is ready: the Sleep is dropped with its handle.
poll_timeout_ready(s) ==
  /\ sleep[s].phase \in {"new", "pending"} /\ sleep[s].inner = "ready"
  /\ reg' = Released(s)
  /\ sleep' = [sleep EXCEPT ![s] = Dropped]
  /\ roused' = roused \ {s} /\ UNCHANGED <<clock, lastGen>>

\* The future of a Timeout becomes ready and wakes the task.
InnerReady(s) ==
  /\ sleep[s].phase \in {"new", "pending"} /\ sleep[s].inner = "pending"
  /\ sleep' = [sleep EXCEPT ![s].inner = "ready"]
  /\ roused' = roused \cup {s} /\ UNCHANGED <<clock, timerVars>>

\* Sleep::reset; the owner polls it again.
reset_sleep(s, d) ==
  /\ sleep[s].phase \in {"pending", "fired"} /\ sleep[s].inner = "none"
  /\ reg' = Released(s)
  /\ sleep' = [sleep EXCEPT ![s].phase = "new", ![s].deadline = d, ![s].handle = NoHandle,
                            ![s].yield = IF @ = "done" THEN "armed" ELSE @]
  /\ roused' = roused \cup {s} /\ UNCHANGED <<clock, lastGen>>

drop_sleep(s) ==
  /\ sleep[s].phase \in {"new", "pending", "fired"}
  /\ reg' = Released(s)
  /\ sleep' = [sleep EXCEPT ![s] = Dropped]
  /\ roused' = roused \ {s} /\ UNCHANGED <<clock, lastGen>>

\* The loop's turn: expired wakers are taken out, then woken.
spin_and_get_deadline ==
  LET due == {k \in TimerSlots : reg[k] # NoReg /\ Expired(reg[k].deadline)} IN
  /\ due # {}
  /\ reg' = [k \in TimerSlots |-> IF k \in due THEN NoReg ELSE reg[k]]
  /\ roused' = roused \cup {reg[k].waker : k \in due}
  /\ UNCHANGED <<clock, lastGen, sleep>>

Elapse == /\ clock < LastTime /\ clock' = clock + 1
          /\ UNCHANGED <<timerVars, sleep, roused>>

PollRoused(s) == s \in roused /\ (poll_sleep(s) \/ poll_timeout_ready(s))

SleepsNext ==
  \/ \E s \in Sleepers : \/ poll_sleep(s) \/ poll_timeout_ready(s)
                         \/ InnerReady(s) \/ drop_sleep(s)
                         \/ \E d \in 1..LastTime :
                              \/ reset_sleep(s, d)
                              \/ \E y \in {"off", "armed"} : Create(s, d, y, "none")
                              \/ Create(s, d, "off", "pending")
  \/ spin_and_get_deadline
  \/ Elapse

\* Time passes, the loop turns, and a woken task is polled (Executor).
SleepsFairness ==
  /\ WF_sleepVars(Elapse) /\ WF_sleepVars(spin_and_get_deadline)
  /\ \A s \in Sleepers : WF_sleepVars(PollRoused(s))

SleepsSpec == SleepsInit /\ [][SleepsNext]_sleepVars /\ SleepsFairness

-----------------------------------------------------------------------------
SleepsTypeOK ==
  /\ clock \in 0..LastTime /\ lastGen \in 0..Registrations
  /\ reg \in [TimerSlots ->
       [deadline : 0..LastTime, gen : 1..Registrations, waker : Sleepers] \cup {NoReg}]
  /\ sleep \in [Sleepers ->
       [phase : {"unborn", "new", "pending", "fired", "dropped"}, deadline : 0..LastTime,
        handle : [slot : TimerSlots \cup {NoReg}, gen : 0..Registrations],
        yield : {"off", "armed", "done"}, inner : {"none", "pending", "ready", "canceled"}]]
  /\ roused \subseteq Sleepers

\* A registration belongs to the Sleep whose handle names it and carries its
\* deadline: nothing dropped, reset or completed leaves one behind.
RegistrationsOwned ==
  \A k \in TimerSlots : reg[k] = NoReg \/ LET s == reg[k].waker IN
     /\ sleep[s].phase = "pending" /\ sleep[s].deadline = reg[k].deadline
     /\ sleep[s].handle = [slot |-> k, gen |-> reg[k].gen]

\* A Sleep that reported Pending is registered under its own deadline or has
\* its task woken: cancelling one through a reused slot never strands another.
NoSleeperStranded ==
  \A s \in Sleepers : sleep[s].phase = "pending" /\ s \notin roused =>
     \E k \in TimerSlots : reg[k] # NoReg /\ reg[k].waker = s /\ reg[k].deadline = sleep[s].deadline

\* A Sleep is never ready before its deadline, and a Timeout gives its future
\* up only then.
NeverEarly ==
  \A s \in Sleepers : sleep[s].phase = "fired" \/ sleep[s].inner = "canceled" =>
                        sleep[s].deadline <= clock

\* A handle, retired ones included, is of one Sleep only and of a generation
\* that was given out; a Sleep that is not pending has none.
HandlesOwn ==
  /\ \A s \in Sleepers : sleep[s].handle # NoHandle =>
       /\ sleep[s].phase = "pending" /\ sleep[s].handle.slot \in TimerSlots
       /\ sleep[s].handle.gen \in 1..lastGen
  /\ \A s, t \in Sleepers : sleep[s].handle # NoHandle /\ sleep[s].handle = sleep[t].handle => s = t

\* What a Sleep and its registration guarantee together.
SleepsSafe ==
  SleepsTypeOK /\ RegistrationsOwned /\ HandlesOwn /\ NoSleeperStranded /\ NeverEarly

\* A pending Sleep ends: it fires, is dropped, or is set to another deadline.
SleepEnds ==
  \A s \in Sleepers : []<>(sleep[s].phase # "pending")

-----------------------------------------------------------------------------
(* Interval. *)

CONSTANTS MaxInstant,   \* the largest Instant of the platform
          Periods,
          Behaviors,    \* subset of {"Skip", "CatchUp"}
          MaxTicks      \* ticks a behaviour awaits

ASSUME IntervalsAssumption ==
  MaxInstant \in Nat /\ Periods \subseteq Nat /\ Behaviors \subseteq {"Skip", "CatchUp"}

VARIABLES ivClock, period, behavior,
          nextDeadline,  \* Interval.next_deadline, -1 for None
          awaiting,      \* the tick being awaited: [kind, target]
          first,         \* history: the first deadline of the schedule
          ticks          \* history: ticks reported since, and ticks awaited

intervalVars == <<ivClock, period, behavior, nextDeadline, awaiting, first, ticks>>

NoTick == [kind |-> "none", target |-> 0]

IntervalsInit ==
  /\ ivClock = 0 /\ period \in Periods /\ behavior \in Behaviors
  /\ nextDeadline = -1 /\ awaiting = NoTick /\ first = -1
  /\ ticks = [reported |-> 0, awaited |-> 0]

-----------------------------------------------------------------------------
Fits(base, d) == base + d <= MaxInstant

Upper(middle) == middle - 1

Middle(low, high) == low + ((high - low + 1) \div 2)

\* Bisection for the largest addition that is representable.
saturating_deadline(base, d) ==
  LET search[r \in [low : 0..d, high : -1..d]] ==
        LET middle == Middle(r.low, r.high) IN
        IF r.low >= r.high THEN r.low
        ELSE search[IF Fits(base, middle) THEN [low |-> middle, high |-> r.high]
                    ELSE [low |-> r.low, high |-> Upper(middle)]]
  IN  base + search[[low |-> 0, high |-> d]]

deadline_after(base, d) ==
  IF Fits(base, d) THEN base + d ELSE saturating_deadline(base, d)

ToBoundary(elapsed) == period - (elapsed % period)

plan_tick(now) ==
  LET base == IF nextDeadline = -1 THEN deadline_after(now, period) ELSE nextDeadline
      elapsed == now - base
  IN  IF base > now THEN [kind |-> "wait", target |-> base, ticks |-> 1]
      ELSE IF period = 0
           THEN [kind |-> IF behavior = "Skip" THEN "wait" ELSE "yield",
                 target |-> now, ticks |-> 1]
           ELSE LET next == deadline_after(now, ToBoundary(elapsed)) IN
                IF behavior = "Skip" THEN [kind |-> "wait", target |-> next, ticks |-> 1]
                ELSE [kind |-> "catchup", target |-> next, ticks |-> (elapsed \div period) + 1]

Commit(next, n) ==
  /\ nextDeadline' = next /\ awaiting' = NoTick
  /\ ticks' = [ticks EXCEPT !.reported = @ + n]

FirstOf(now) == IF nextDeadline = -1 THEN deadline_after(now, period) ELSE first

\* tick_at: a catch-up returns at once, the others wait.
tick_at ==
  LET p == plan_tick(ivClock) IN
  /\ awaiting = NoTick /\ ticks.awaited < MaxTicks
  /\ first' = FirstOf(ivClock)
  /\ IF p.kind = "catchup"
     THEN /\ nextDeadline' = p.target /\ UNCHANGED awaiting
          /\ ticks' = [reported |-> ticks.reported + p.ticks, awaited |-> ticks.awaited + 1]
     ELSE /\ awaiting' = [kind |-> p.kind, target |-> p.target]
          /\ ticks' = [ticks EXCEPT !.awaited = @ + 1]
          /\ UNCHANGED nextDeadline
  /\ UNCHANGED <<ivClock, period, behavior>>

tick_done ==
  /\ awaiting.kind # "none" /\ ivClock >= awaiting.target
  /\ Commit(IF awaiting.kind = "yield" THEN ivClock
            ELSE deadline_after(awaiting.target, period), 1)
  /\ UNCHANGED <<ivClock, period, behavior, first>>

\* A tick that is dropped before anything was committed leaves no schedule,
\* and the next one starts it anew.
drop_tick ==
  /\ awaiting.kind # "none" /\ awaiting' = NoTick
  /\ UNCHANGED <<ivClock, period, behavior, nextDeadline, first, ticks>>

reset_interval ==
  /\ awaiting = NoTick /\ nextDeadline # -1
  /\ nextDeadline' = -1 /\ first' = -1 /\ ticks' = [ticks EXCEPT !.reported = 0]
  /\ UNCHANGED <<ivClock, period, behavior, awaiting>>

Advance == /\ ivClock < MaxInstant /\ ivClock' = ivClock + 1
           /\ UNCHANGED <<period, behavior, nextDeadline, awaiting, first, ticks>>

IntervalsNext == tick_at \/ tick_done \/ drop_tick \/ reset_interval \/ Advance

IntervalsSpec == IntervalsInit /\ [][IntervalsNext]_intervalVars

-----------------------------------------------------------------------------
Saturated(x) == IF x < MaxInstant THEN x ELSE MaxInstant

\* deadline_after is addition that stops at the platform's last Instant: the
\* bisection finds the edge exactly, from whatever instant it starts.
DeadlineSaturates ==
  \A d \in 0..(MaxInstant + 2) : deadline_after(ivClock, d) = Saturated(ivClock + d)

\* With CatchUp every boundary of the cadence is reported exactly once, however
\* late ticks are awaited and however many are dropped while they wait.
CatchUpCountsEvery ==
  behavior = "CatchUp" /\ period > 0 /\ nextDeadline # -1 =>
    nextDeadline = Saturated(first + ticks.reported * period)

\* With Skip the schedule stays on the cadence of its first deadline.
SkipKeepsCadence ==
  behavior = "Skip" /\ period > 0 /\ nextDeadline \notin {-1, MaxInstant} =>
    (nextDeadline - first) % period = 0

\* The tick that is awaited is the next boundary of the schedule, on the cadence
\* of the first one, and a schedule that was not begun has reported none.
AwaitedOnCadence ==
  /\ ivClock \in 0..MaxInstant /\ period \in Periods /\ behavior \in Behaviors
  /\ nextDeadline \in -1..MaxInstant /\ first \in -1..MaxInstant
  /\ ticks \in [reported : Nat, awaited : Nat]
  /\ awaiting \in [kind : {"none", "wait", "yield"}, target : 0..MaxInstant]
  /\ awaiting.kind = "none" => awaiting = NoTick
  /\ awaiting.kind = "yield" => period = 0
  /\ nextDeadline = -1 => ticks.reported = 0
  /\ nextDeadline # -1 \/ awaiting.kind # "none" => first # -1
  /\ awaiting.kind = "wait" /\ period > 0 =>
       IF nextDeadline = -1 THEN awaiting.target = first
       ELSE \/ behavior = "CatchUp" /\ awaiting.target = nextDeadline
            \/ behavior = "Skip" /\ \/ awaiting.target = MaxInstant
                                    \/ (awaiting.target - first) % period = 0

\* What an interval promises.
IntervalSafe ==
  DeadlineSaturates /\ CatchUpCountsEvery /\ SkipKeepsCadence /\ AwaitedOnCadence

\* A sleep, a timeout and an interval get the deadlines they asked for, and
\* leave nothing of theirs in the timer.
SleepersSafe == SleepsSafe /\ IntervalSafe

=============================================================================
