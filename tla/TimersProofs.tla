---------------------------- MODULE TimersProofs ----------------------------
(***************************************************************************)
(* Proofs about Timers for every number of threads, timers, runs, delays   *)
(* and every compaction floor: a timer is in one place at a time, the      *)
(* tombstone counter is exact, the loop parks neither on a published timer *)
(* nor past a deadline, a cancelled timer never runs, and live timers      *)
(* become ready in the order of their deadlines.                           *)
(***************************************************************************)
EXTENDS Timers, SequenceFacts

USE TimersAssumption
USE DEF queue_vars, timer_vars, call_vars, Timer, Threads

-----------------------------------------------------------------------------
\* The inductive invariant.

\* The FIFO is sorted, so that its front is its first deadline; collect reads
\* the clock once, and the clock never goes back.
FifoSorted ==
    /\ \A i, j \in 1..Len(ordered) : i < j => Before(ordered[i], ordered[j])
    /\ collect_now <= now

\* A thread inside enqueue_timer holds a timer of its own.
HeldOnce ==
    /\ \A c \in Threads : call_pc[c] = "push" => call_timer[c] \in 1..scheduled
    /\ \A c, d \in Threads :
           /\ call_pc[c] = "push" /\ call_pc[d] = "push"
           /\ call_timer[c] = call_timer[d]
           => c = d

\* The places a timer can be in are disjoint and hold the issued timers.
Placed ==
    /\ Distinct(ordered) /\ Distinct(ready)
    /\ 1..scheduled = Elems(ordered) \union unordered \union pending_timers
                         \union Elems(ready) \union Held \union released
    /\ Elems(ordered) \cap (unordered \union pending_timers \union Elems(ready)
                             \union Held \union released) = {}
    /\ unordered \cap (pending_timers \union Elems(ready) \union Held \union released) = {}
    /\ pending_timers \cap (Elems(ready) \union Held \union released) = {}
    /\ Elems(ready) \cap (Held \union released) = {}
    /\ Held \cap released = {}

\* Only issued timers are cancelled; cancelling takes the payload.
PayloadLive ==
    /\ cancelled \subseteq 1..scheduled
    /\ has_payload \cap cancelled = {}

\* A timer in the published heap is flagged, about to be, or about to be taken.
Flagged ==
    pending_timers # {} =>
        \/ pending_timers_dirty
        \/ loop_pc = "append"
        \/ \E c \in Threads : call_pc[c] = "dirty"

TimersInv ==
    /\ TimersTypeOK /\ FifoSorted /\ HeldOnce /\ Placed /\ PayloadLive /\ Flagged
    /\ TombstonesExact /\ NoTimerStranded /\ WakesForDeadline

-----------------------------------------------------------------------------
\* Counting timers, and the first of them.

\* A set of timers is finite; counting one place says whether the timer is there.
LEMMA TimerSets ==
    ASSUME NEW S, S \subseteq Timer
    PROVE  IsFiniteSet(S) /\ Cardinality(S) \in Nat
<1>1. IsFiniteSet(Timer) BY FS_Interval
<1> QED BY <1>1, FS_Subset, FS_CardinalityType

LEMMA SetCount ==
    ASSUME NEW X, NEW t
    PROVE  Cardinality({S \in {X} : t \in S}) = IF t \in X THEN 1 ELSE 0
<1>1. CASE t \in X
 <2>1. {S \in {X} : t \in S} = {X} BY <1>1
 <2> QED BY <2>1, <1>1, FS_Singleton
<1>2. CASE t \notin X
 <2>1. {S \in {X} : t \in S} = {} BY <1>2
 <2> QED BY <2>1, <1>2, FS_EmptySet
<1> QED BY <1>1, <1>2

\* A timer that is in one place is counted once.
LEMMA OneCopy ==
    ASSUME TimersTypeOK, Placed
    PROVE  TimersConserved
<1> SUFFICES ASSUME NEW t \in 1..scheduled PROVE Copies(t) = 1 BY DEF TimersConserved
<1> DEFINE In(X) == IF t \in X THEN 1 ELSE 0
<1>1. ordered \in Seq(Timer) /\ ready \in Seq(Timer) BY DEF TimersTypeOK
<1>2. Cardinality({i \in 1..Len(ordered) : ordered[i] = t}) = In(Elems(ordered))
  BY <1>1, Occurrences DEF Placed
<1>3. Cardinality({i \in 1..Len(ready) : ready[i] = t}) = In(Elems(ready))
  BY <1>1, Occurrences DEF Placed
<1>4. Copies(t) = In(Elems(ordered)) + In(Elems(ready)) + In(unordered)
                     + In(pending_timers) + In(Held) + In(released)
  BY <1>2, <1>3, SetCount DEF Copies
<1> QED BY <1>4 DEF Placed

\* Timers that leave the queued set take their tombstones with them.
LEMMA TombstonesLeave ==
    ASSUME NEW Q, Q \subseteq Timer, NEW C, NEW S
    PROVE  /\ Cardinality((Q \ S) \cap C) = Cardinality(Q \cap C) - Cardinality(S \cap Q \cap C)
           /\ Cardinality((Q \ S) \cap C) \in Nat
<1>1. IsFiniteSet(Q \cap C) BY TimerSets
<1>2. Cardinality((Q \cap C) \ S) = Cardinality(Q \cap C) - Cardinality((Q \cap C) \cap S)
  BY <1>1, FS_Difference, Zenon
<1>3. (Q \cap C) \ S = (Q \ S) \cap C /\ (Q \cap C) \cap S = S \cap Q \cap C OBVIOUS
<1>4. (Q \ S) \cap C \subseteq Timer OBVIOUS
<1> QED BY <1>2, <1>3, <1>4, TimerSets

\* Among timers the earliest deadline, lowest id exists and is unique.
LEMMA FirstIsFirst ==
    ASSUME when \in [Timer -> 0..MaxTime], NEW S, S \subseteq Timer, S # {}
    PROVE  First(S) \in S /\ \A u \in S \ {First(S)} : Before(First(S), u)
<1> DEFINE W == {when[t] : t \in S}
<1>1. W \subseteq Nat /\ W # {} OBVIOUS
<1>2. PICK w \in W : \A y \in W : w <= y BY <1>1, LeastNat
<1> DEFINE E == {t \in S : when[t] = w}
<1>3. E \subseteq Nat /\ E # {}
 <2>1. PICK t \in S : when[t] = w OBVIOUS
 <2>2. S \subseteq Nat OBVIOUS
 <2>3. E \subseteq S OBVIOUS
 <2> QED BY <2>1, <2>2, <2>3
<1>4. PICK e \in E : \A y \in E : e <= y BY <1>3, LeastNat
<1>5. \A u \in S \ {e} : Before(e, u)
 <2> SUFFICES ASSUME NEW u \in S, u # e PROVE Before(e, u) OBVIOUS
 <2>1. w <= when[u] /\ when[e] = w /\ when[u] \in Nat /\ w \in Nat /\ u \in Nat /\ e \in Nat
   BY <1>2, <1>4, <1>1
 <2>2. when[u] = w => e <= u BY <1>4
 <2> QED BY <2>1, <2>2 DEF Before
<1> QED BY <1>4, <1>5 DEF First

\* peek names the first timer of the queue, whichever half holds it.
LEMMA PeekIsFirst ==
    ASSUME TimersTypeOK, FifoSorted, Placed, Local # {}
    PROVE  /\ Peek \in Local /\ Peek \in Timer
           /\ \A u \in Local \ {Peek} : Before(Peek, u)
           /\ ordered # <<>> /\ Peek = Head(ordered) => Peek \notin unordered
           /\ ~(ordered # <<>> /\ Peek = Head(ordered)) => Peek \in unordered /\ Peek \notin Elems(ordered)
<1>1. /\ when \in [Timer -> 0..MaxTime] /\ unordered \subseteq Timer /\ ordered \in Seq(Timer)
      /\ Local = Elems(ordered) \union unordered /\ Elems(ordered) \cap unordered = {}
  BY DEF TimersTypeOK, Local, Placed, Elems
<1>2. unordered # {} => /\ First(unordered) \in unordered
                        /\ \A u \in unordered \ {First(unordered)} : Before(First(unordered), u)
  BY <1>1, FirstIsFirst
<1>3. ASSUME ordered # <<>>
      PROVE  /\ Head(ordered) \in Elems(ordered) /\ Head(ordered) \in Timer
             /\ \A u \in Elems(ordered) \ {Head(ordered)} : Before(Head(ordered), u)
 <2>1. Head(ordered) = ordered[1] /\ Len(ordered) \in Nat \ {0} /\ Head(ordered) \in Timer
   BY <1>1, <1>3, TailElems
 <2> QED BY <2>1 DEF Elems, FifoSorted
<1>4. ordered = <<>> => Elems(ordered) = {} BY DEF Elems
<1>5. ASSUME NEW a \in Timer, NEW b \in Timer, NEW c \in Timer
      PROVE  /\ Before(a, b) /\ Before(b, c) => Before(a, c)
             /\ a # b => Before(a, b) \/ Before(b, a)
  BY <1>1 DEF Before
<1>6. Elems(ordered) \subseteq Timer BY <1>1 DEF Elems
<1>7. CASE ordered = <<>> BY <1>1, <1>2, <1>4, <1>7 DEF Peek
<1>8. CASE ordered # <<>> /\ unordered # {} /\ Before(First(unordered), Head(ordered))
 <2>1. Peek = First(unordered) BY <1>8 DEF Peek
 <2>2. \A u \in Elems(ordered) : Before(Peek, u) BY <2>1, <1>8, <1>1, <1>2, <1>3, <1>5, <1>6
 <2> QED BY <2>1, <2>2, <1>1, <1>2, <1>3, <1>8
<1>9. CASE ordered # <<>> /\ ~(unordered # {} /\ Before(First(unordered), Head(ordered)))
 <2>1. Peek = Head(ordered) BY <1>9 DEF Peek
 <2>2. \A u \in unordered : Before(Peek, u) BY <2>1, <1>9, <1>1, <1>2, <1>3, <1>5, ZenonT(30)
 <2> QED BY <2>1, <2>2, <1>1, <1>3, <1>9
<1> QED BY <1>7, <1>8, <1>9

-----------------------------------------------------------------------------
\* Every step keeps the invariant.

\* What the types say about the queues.
LEMMA QueueFacts ==
    ASSUME TimersTypeOK
    PROVE  /\ Len(ordered) \in Nat /\ \A i \in 1..Len(ordered) : ordered[i] \in Timer
           /\ Local = Elems(ordered) \union unordered
           /\ Elems(ordered) \subseteq Timer /\ Local \subseteq Timer
           /\ scheduled \in Nat /\ 1..scheduled \subseteq Timer /\ now \in Nat
           /\ \A t \in Timer : when[t] \in Nat
           /\ Elems(<<>>) = {} /\ Distinct(<<>>)
<1>1. Len(ordered) \in Nat /\ \A i \in 1..Len(ordered) : ordered[i] \in Timer
  BY LenProperties, ElementOfSeq DEF TimersTypeOK
<1>2. Elems(ordered) \subseteq Timer /\ unordered \subseteq Timer BY <1>1 DEF Elems, TimersTypeOK
<1>3. Local = Elems(ordered) \union unordered BY DEF Local, Elems
<1>4. scheduled \in Nat /\ 1..scheduled \subseteq Timer /\ now \in Nat /\ \A t \in Timer : when[t] \in Nat
  BY DEF TimersTypeOK
<1>5. Elems(<<>>) = {} /\ Distinct(<<>>) BY DEF Elems, Distinct
<1> QED BY <1>1, <1>2, <1>3, <1>4, <1>5

\* enqueue_timer_local keeps the invariant.
LEMMA Step_enqueue_timer_local ==
    ASSUME TimersInv, NEW t \in Timer, NEW d \in Delays, enqueue_timer_local(t, d)
    PROVE  TimersInv'
<1> USE DEF enqueue_timer_local, NewTimer
<1> USE DEF TimersInv
<1>t. /\ t = scheduled + 1 /\ scheduled \in Nat /\ t \notin 1..scheduled
      /\ 1..scheduled' = 1..scheduled \union {t}
  BY SMTT(40) DEF TimersTypeOK
<1>e. /\ t \notin Elems(ordered) /\ t \notin unordered /\ t \notin pending_timers
      /\ t \notin Elems(ready) /\ t \notin Held /\ t \notin released
      /\ t \notin cancelled /\ t \notin Local
  BY <1>t DEF Placed, PayloadLive, Local, Elems
<1>w. now + d \in 0..MaxTime /\ when' = [when EXCEPT ![t] = now + d] BY DEF TimersTypeOK
<1>s. ordered \in Seq(Timer) /\ Len(ordered) \in Nat
      /\ \A i \in 1..Len(ordered) : ordered[i] \in 1..scheduled /\ when'[ordered[i]] = when[ordered[i]]
 <2>1. ordered \in Seq(Timer) /\ Len(ordered) \in Nat BY LenProperties DEF TimersTypeOK
 <2>2. Elems(ordered) \subseteq 1..scheduled BY DEF Placed
 <2>3. \A i \in 1..Len(ordered) : ordered[i] \in 1..scheduled BY <2>2, Zenon DEF Elems
 <2>4. \A u \in 1..scheduled : when'[u] = when[u] BY <1>t, <1>w DEF TimersTypeOK
 <2> QED BY <2>1, <2>3, <2>4
<1>h. Held' = Held
 <2>1. \A c \in Threads : call_pc[c] = "push" => call_timer[c] # t BY <1>t DEF HeldOnce
 <2> QED BY <2>1, <1>t DEF Held
<1>a. \/ ordered' = ordered /\ unordered' = unordered \union {t}
      \/ /\ ordered' = Append(ordered, t) /\ unordered' = unordered
         /\ d = 0 /\ (ordered = <<>> \/ when[ordered[Len(ordered)]] <= now)
  OBVIOUS
<1>o. ordered' = Append(ordered, t) =>
        /\ ordered' \in Seq(Timer) /\ Elems(ordered') = Elems(ordered) \union {t}
        /\ Distinct(ordered) => Distinct(ordered')
        /\ Len(ordered') = Len(ordered) + 1 /\ ordered'[Len(ordered) + 1] = t
        /\ \A i \in 1..Len(ordered) : ordered'[i] = ordered[i]
  BY <1>s, <1>e, AppendElems, AppendProperties
<1>1. TimersTypeOK'
 <2>1. ordered' \in Seq(Timer) /\ unordered' \subseteq Timer BY <1>a, <1>o DEF TimersTypeOK
 <2>2. when' \in [Timer -> 0..MaxTime] /\ scheduled' \in 0..MaxTimers
   BY <1>w, <1>t DEF TimersTypeOK
 <2>3. has_payload' \subseteq Timer /\ queued' \subseteq Timer BY DEF TimersTypeOK
 <2> QED BY <2>1, <2>2, <2>3 DEF TimersTypeOK, LoopPcs
<1>2. FifoSorted'
 <2>1. CASE ordered' = ordered BY <1>s, <2>1 DEF FifoSorted, Before
 <2>2. CASE ordered' = Append(ordered, t) /\ d = 0
            /\ (ordered = <<>> \/ when[ordered[Len(ordered)]] <= now)
  <3>1. ASSUME NEW i \in 1..Len(ordered) PROVE when[ordered[i]] <= now /\ ordered[i] < t
   <4>1. i = Len(ordered) \/ Before(ordered[i], ordered[Len(ordered)]) BY <1>s DEF FifoSorted
   <4>2. when[ordered[i]] \in Nat /\ when[ordered[Len(ordered)]] \in Nat /\ now \in Nat
     BY <1>s, QueueFacts, SMTT(40)
   <4>3. ordered # <<>> /\ ordered[i] \in 1..scheduled BY <1>s
   <4> QED BY <4>1, <4>2, <4>3, <2>2, <1>t DEF Before
  <3>2. when'[t] = now BY <1>w, <2>2 DEF TimersTypeOK
  <3>3. now \in Nat /\ Len(ordered) \in Nat /\ \A i \in 1..Len(ordered) : when[ordered[i]] \in Nat
    BY QueueFacts
  <3>4. ASSUME NEW i \in 1..Len(ordered'), NEW j \in 1..Len(ordered'), i < j
        PROVE  \/ when'[ordered'[i]] < when'[ordered'[j]]
               \/ when'[ordered'[i]] = when'[ordered'[j]] /\ ordered'[i] < ordered'[j]
   <4>1. CASE j \in 1..Len(ordered)
    <5>1. i \in 1..Len(ordered) /\ ordered'[i] = ordered[i] /\ ordered'[j] = ordered[j]
      BY <1>s, <1>o, <2>2, <3>4, <4>1
    <5>2. Before(ordered[i], ordered[j]) BY <3>4, <4>1, <5>1 DEF FifoSorted
    <5> QED BY <1>s, <4>1, <5>1, <5>2 DEF Before
   <4>2. CASE j = Len(ordered) + 1
    <5>1. i \in 1..Len(ordered) /\ ordered'[i] = ordered[i] /\ ordered'[j] = t
      BY <1>s, <1>o, <2>2, <3>4, <4>2
    <5>2. when'[ordered[i]] = when[ordered[i]] /\ when[ordered[i]] \in Nat BY <1>s, <3>3, <5>1
    <5> QED BY <3>1, <3>2, <3>3, <5>1, <5>2
   <4>3. Len(ordered') = Len(ordered) + 1 /\ Len(ordered) \in Nat BY <1>s, <1>o, <2>2
   <4> QED BY <4>1, <4>2, <4>3
  <3> QED BY <3>4 DEF FifoSorted, Before, TimersTypeOK
 <2> QED BY <1>a, <2>1, <2>2
<1>3. HeldOnce' BY <1>t DEF HeldOnce
<1>4. Placed'
 <2>1. CASE ordered' = ordered /\ unordered' = unordered \union {t}
   BY <1>e, <1>t, <1>h, <2>1 DEF Placed
 <2>2. CASE ordered' = Append(ordered, t) /\ unordered' = unordered
   BY <1>e, <1>t, <1>h, <1>o, <2>2 DEF Placed
 <2> QED BY <1>a, <2>1, <2>2, Zenon
<1>5. PayloadLive' BY <1>e, <1>t DEF PayloadLive
<1>6. Flagged' BY DEF Flagged
<1>7. TombstonesExact'
 <2>1. queued' \cap cancelled' = queued \cap cancelled BY <1>e
 <2> QED BY <2>1 DEF TombstonesExact
<1>8. NoTimerStranded' BY DEF NoTimerStranded, Flagged
<1>9. WakesForDeadline' BY DEF WakesForDeadline, Local, IsLive
<1> QED BY <1>1, <1>2, <1>3, <1>4, <1>5, <1>6, <1>7, <1>8, <1>9

\* enqueue_timer keeps the invariant.
LEMMA Step_enqueue_timer ==
    ASSUME TimersInv, NEW c \in Threads, NEW t \in Timer, NEW d \in Delays, enqueue_timer(c, t, d)
    PROVE  TimersInv'
<1> USE DEF enqueue_timer, NewTimer
<1> USE DEF TimersInv
<1>t. /\ t = scheduled + 1 /\ scheduled \in Nat /\ t \notin 1..scheduled
      /\ 1..scheduled' = 1..scheduled \union {t}
  BY DEF TimersTypeOK
<1>e. /\ t \notin Elems(ordered) /\ t \notin unordered /\ t \notin pending_timers
      /\ t \notin Elems(ready) /\ t \notin Held /\ t \notin released
      /\ t \notin cancelled /\ t \notin Local
  BY <1>t DEF Placed, PayloadLive, Local, Elems
<1>w. now + d \in 0..MaxTime /\ when' = [when EXCEPT ![t] = now + d] BY DEF TimersTypeOK
<1>s. ordered \in Seq(Timer) /\ Len(ordered) \in Nat
      /\ \A i \in 1..Len(ordered) : ordered[i] \in 1..scheduled /\ when'[ordered[i]] = when[ordered[i]]
 <2>1. ordered \in Seq(Timer) /\ Len(ordered) \in Nat BY LenProperties DEF TimersTypeOK
 <2>2. Elems(ordered) \subseteq 1..scheduled BY DEF Placed
 <2>3. \A i \in 1..Len(ordered) : ordered[i] \in 1..scheduled BY <2>2, Zenon DEF Elems
 <2>4. \A u \in 1..scheduled : when'[u] = when[u] BY <1>t, <1>w DEF TimersTypeOK
 <2> QED BY <2>1, <2>3, <2>4, Zenon
<1>h. Held' = Held \union {t}
 <2>1. \A x \in Threads : call_pc'[x] = "push" /\ call_timer'[x] = t <=> x = c
   BY <1>t DEF HeldOnce, TimersTypeOK
 <2>2. \A x \in Threads, u \in 1..scheduled :
           call_pc'[x] = "push" /\ call_timer'[x] = u <=> call_pc[x] = "push" /\ call_timer[x] = u
   BY <1>t DEF TimersTypeOK
 <2> QED BY <2>1, <2>2, <1>t DEF Held
<1>1. TimersTypeOK' BY <1>w, <1>t, SMTT(40) DEF TimersTypeOK, LoopPcs
<1>2. FifoSorted' BY <1>s DEF FifoSorted, Before
<1>3. HeldOnce' BY <1>t DEF HeldOnce, TimersTypeOK
<1>4. Placed' BY <1>e, <1>t, <1>h DEF Placed
<1>5. PayloadLive' BY <1>e, <1>t DEF PayloadLive
<1>6. Flagged' BY DEF Flagged
<1>7. TombstonesExact'
 <2>1. queued' \cap cancelled' = queued \cap cancelled BY <1>e
 <2> QED BY <2>1 DEF TombstonesExact
<1>8. NoTimerStranded' BY DEF NoTimerStranded, Flagged
<1>9. WakesForDeadline'
 <2>1. \A u \in Local : u \in 1..scheduled /\ when'[u] = when[u]
   BY <1>t, <1>w DEF Local, Placed, Elems, TimersTypeOK
 <2> QED BY <2>1 DEF WakesForDeadline, Local, IsLive
<1> QED BY <1>1, <1>2, <1>3, <1>4, <1>5, <1>6, <1>7, <1>8, <1>9, Zenon

\* publish_timer keeps the invariant.
LEMMA Step_publish_timer ==
    ASSUME TimersInv, NEW c \in Threads, publish_timer(c)
    PROVE  TimersInv'
<1> USE DEF publish_timer, Dropped, StateLocked
<1> USE DEF TimersInv
<1>t. call_timer[c] \in 1..scheduled /\ call_timer[c] \in Timer /\ call_timer[c] \in Held
  BY DEF HeldOnce, TimersTypeOK, Held
<1>h. Held' = Held \ {call_timer[c]}
 <2>1. \A x \in Threads : x # c => (call_pc'[x] = call_pc[x] /\ call_timer'[x] = call_timer[x])
   BY DEF TimersTypeOK
 <2>2. call_pc'[c] # "push" BY DEF TimersTypeOK
 <2>3. \A x \in Threads : call_pc[x] = "push" /\ call_timer[x] = call_timer[c] => x = c
   BY DEF HeldOnce
 <2> QED BY <2>1, <2>2, <2>3 DEF Held
<1>c. /\ Cardinality((queued \ {call_timer[c]}) \cap cancelled)
           = Cardinality(queued \cap cancelled)
               - Cardinality({call_timer[c]} \cap queued \cap cancelled)
      /\ Cardinality((queued \ {call_timer[c]}) \cap cancelled) \in Nat
  BY TombstonesLeave DEF TimersTypeOK
<1>d. call_pc[c] = "push" /\ (~closed => call_pc'[c] = "dirty") BY DEF TimersTypeOK
<1>1. TimersTypeOK'
 <2>1. cancelled_timers' \in Nat BY <1>c DEF TombstonesExact, TimersTypeOK
 <2>2. call_pc' \in [Threads -> {"idle", "push", "dirty", "signal"}]
       /\ call_timer' \in [Threads -> 0..MaxTimers]
  <3>1. /\ call_pc' = [call_pc EXCEPT ![c] = IF closed THEN "idle" ELSE "dirty"]
        /\ call_timer' = [call_timer EXCEPT ![c] = 0]
    OBVIOUS
  <3> QED BY <3>1 DEF TimersTypeOK
 <2>3. /\ pending_timers' \subseteq Timer /\ queued' \subseteq Timer
       /\ has_payload' \subseteq Timer /\ released' \subseteq Timer
  <3>1. /\ pending_timers' \subseteq pending_timers \union {call_timer[c]}
        /\ queued' \subseteq queued /\ has_payload' \subseteq has_payload
        /\ released' \subseteq released \union {call_timer[c]}
    OBVIOUS
  <3> QED BY <1>t, <3>1 DEF TimersTypeOK
 <2> QED BY <2>1, <2>2, <2>3 DEF TimersTypeOK, LoopPcs
<1>2. FifoSorted' BY DEF FifoSorted, TimersTypeOK, Before
<1>3. HeldOnce' BY <1>t DEF HeldOnce, TimersTypeOK
<1>4. Placed' BY <1>t, <1>h DEF Placed
<1>5. PayloadLive' BY DEF PayloadLive
<1>6. Flagged' BY <1>d DEF Flagged, TimersTypeOK
<1>7. TombstonesExact' BY <1>c DEF TombstonesExact
<1>8. NoTimerStranded' BY <1>d DEF NoTimerStranded, TimersTypeOK
<1>9. WakesForDeadline' BY DEF WakesForDeadline, Local, IsLive
<1> QED BY <1>1, <1>2, <1>3, <1>4, <1>5, <1>6, <1>7, <1>8, <1>9

\* publish_dirty keeps the invariant.
LEMMA Step_publish_dirty ==
    ASSUME TimersInv, NEW c \in Threads, publish_dirty(c)
    PROVE  TimersInv'
<1> USE DEF publish_dirty
<1> USE DEF TimersInv
<1>h. Held' = Held BY DEF Held, TimersTypeOK
<1>1. TimersTypeOK' BY DEF TimersTypeOK, LoopPcs
<1>2. FifoSorted' BY DEF FifoSorted, TimersTypeOK, Before
<1>3. HeldOnce' BY Zenon DEF HeldOnce, TimersTypeOK
<1>4. Placed' BY <1>h DEF Placed
<1>5. PayloadLive' BY DEF PayloadLive, TimersTypeOK
<1>6. Flagged' BY DEF Flagged
<1>7. TombstonesExact' BY DEF TombstonesExact, TimersTypeOK
<1>8. NoTimerStranded' BY DEF NoTimerStranded, Flagged
<1>9. WakesForDeadline' BY DEF WakesForDeadline, Local, IsLive
<1> QED BY <1>1, <1>2, <1>3, <1>4, <1>5, <1>6, <1>7, <1>8, <1>9

\* publish_signal keeps the invariant.
LEMMA Step_publish_signal ==
    ASSUME TimersInv, NEW c \in Threads, publish_signal(c)
    PROVE  TimersInv'
<1> USE DEF publish_signal
<1> USE DEF TimersInv
<1>h. Held' = Held BY DEF Held, TimersTypeOK
<1>1. TimersTypeOK' BY DEF TimersTypeOK, LoopPcs
<1>2. FifoSorted' BY DEF FifoSorted, TimersTypeOK, Before
<1>3. HeldOnce' BY DEF HeldOnce, TimersTypeOK
<1>4. Placed' BY <1>h DEF Placed
<1>5. PayloadLive' BY DEF PayloadLive, TimersTypeOK
<1>6. Flagged' BY DEF Flagged
<1>7. TombstonesExact' BY DEF TombstonesExact, TimersTypeOK
<1>8. NoTimerStranded' BY DEF NoTimerStranded, Flagged
<1>9. WakesForDeadline' BY DEF WakesForDeadline, Local, IsLive
<1> QED BY <1>1, <1>2, <1>3, <1>4, <1>5, <1>6, <1>7, <1>8, <1>9

\* timer_cancel keeps the invariant.
LEMMA Step_timer_cancel ==
    ASSUME TimersInv, NEW t \in Timer, timer_cancel(t)
    PROVE  TimersInv'
<1> USE DEF timer_cancel, Tombstone
<1> USE DEF TimersInv
<1>h. Held' = Held BY DEF Held
<1>c. Cardinality(queued' \cap cancelled') = Cardinality(queued \cap cancelled) + Tombstone(t)
 <2>0. IsFiniteSet(queued \cap cancelled) /\ Cardinality(queued \cap cancelled) \in Nat
   BY TimerSets DEF TimersTypeOK
 <2>1. CASE t \in queued
  <3>1. queued' \cap cancelled' = (queued \cap cancelled) \union {t} /\ t \notin queued \cap cancelled
    BY <2>1
  <3> QED BY <2>0, <2>1, <3>1, FS_AddElement
 <2>2. CASE t \notin queued
  <3>1. queued' \cap cancelled' = queued \cap cancelled BY <2>2
  <3> QED BY <2>0, <2>2, <3>1
 <2> QED BY <2>1, <2>2
<1>1. TimersTypeOK' BY DEF TimersTypeOK, LoopPcs
<1>2. FifoSorted' BY DEF FifoSorted, TimersTypeOK, Before
<1>3. HeldOnce' BY DEF HeldOnce, TimersTypeOK
<1>4. Placed' BY <1>h DEF Placed
<1>5. PayloadLive' BY DEF PayloadLive, TimersTypeOK
<1>6. Flagged' BY DEF Flagged
<1>7. TombstonesExact' BY <1>c DEF TombstonesExact
<1>8. NoTimerStranded' BY DEF NoTimerStranded, Flagged
<1>9. WakesForDeadline' BY DEF WakesForDeadline, Local, IsLive
<1> QED BY <1>1, <1>2, <1>3, <1>4, <1>5, <1>6, <1>7, <1>8, <1>9

\* timers_run_forever keeps the invariant.
LEMMA Step_timers_run_forever ==
    ASSUME TimersInv, timers_run_forever
    PROVE  TimersInv'
<1> USE DEF timers_run_forever
<1> USE DEF TimersInv
<1>h. Held' = Held BY DEF Held, TimersTypeOK
<1>1. TimersTypeOK'
 <2>1. ready_pending' \in BOOLEAN OBVIOUS
 <2>2. runs' \in 0..MaxRuns /\ collect_now' \in 0..MaxTime BY DEF TimersTypeOK
 <2> QED BY <2>1, <2>2 DEF TimersTypeOK, LoopPcs
<1>2. FifoSorted' BY DEF FifoSorted, TimersTypeOK, Before
<1>3. HeldOnce' BY DEF HeldOnce, TimersTypeOK
<1>4. Placed' BY <1>h DEF Placed
<1>5. PayloadLive' BY DEF PayloadLive, TimersTypeOK
<1>6. Flagged' BY DEF Flagged
<1>7. TombstonesExact' BY DEF TombstonesExact, TimersTypeOK
<1>8. NoTimerStranded' BY DEF NoTimerStranded, Flagged
<1>9. WakesForDeadline' BY DEF WakesForDeadline, Local, IsLive
<1> QED BY <1>1, <1>2, <1>3, <1>4, <1>5, <1>6, <1>7, <1>8, <1>9, Zenon

\* collect keeps the invariant.
LEMMA Step_collect ==
    ASSUME TimersInv, collect
    PROVE  TimersInv'
<1> USE DEF collect
<1> USE DEF TimersInv
<1>h. Held' = Held BY DEF Held, TimersTypeOK
<1>1. TimersTypeOK' BY DEF TimersTypeOK, LoopPcs
<1>2. FifoSorted' BY DEF FifoSorted, TimersTypeOK, Before
<1>3. HeldOnce' BY DEF HeldOnce, TimersTypeOK
<1>4. Placed' BY <1>h DEF Placed
<1>5. PayloadLive' BY DEF PayloadLive, TimersTypeOK
<1>6. Flagged' BY DEF Flagged
<1>7. TombstonesExact' BY DEF TombstonesExact, TimersTypeOK
<1>8. NoTimerStranded' BY DEF NoTimerStranded, Flagged
<1>9. WakesForDeadline' BY DEF WakesForDeadline, Local, IsLive
<1> QED BY <1>1, <1>2, <1>3, <1>4, <1>5, <1>6, <1>7, <1>8, <1>9

\* append_heap keeps the invariant.
LEMMA Step_append_heap ==
    ASSUME TimersInv, append_heap
    PROVE  TimersInv'
<1> USE DEF append_heap
<1> USE DEF TimersInv
<1>h. Held' = Held BY DEF Held, TimersTypeOK
<1>1. TimersTypeOK' BY DEF TimersTypeOK, LoopPcs
<1>2. FifoSorted' BY DEF FifoSorted, TimersTypeOK, Before
<1>3. HeldOnce' BY DEF HeldOnce, TimersTypeOK
<1>4. Placed' BY <1>h DEF Placed
<1>5. PayloadLive' BY DEF PayloadLive, TimersTypeOK
<1>6. Flagged' BY DEF Flagged
<1>7. TombstonesExact' BY DEF TombstonesExact, TimersTypeOK
<1>8. NoTimerStranded' BY DEF NoTimerStranded, Flagged
<1>9. WakesForDeadline' BY DEF WakesForDeadline, Local, IsLive
<1> QED BY <1>1, <1>2, <1>3, <1>4, <1>5, <1>6, <1>7, <1>8, <1>9

\* compact_cancelled keeps the invariant.
LEMMA Step_compact_cancelled ==
    ASSUME TimersInv, compact_cancelled
    PROVE  TimersInv'
<1> USE DEF compact_cancelled
<1> USE DEF TimersInv
<1> DEFINE dead == {t \in Local : ~IsLive(t)}
           kept == {i \in 1..Len(ordered) : IsLive(ordered[i])}
<1>q. ordered \in Seq(Timer) /\ Len(ordered) \in Nat /\ ready \in Seq(Timer)
      /\ Local = Elems(ordered) \union unordered /\ Local \subseteq Timer
  BY QueueFacts DEF TimersTypeOK
<1>h. Held' = Held BY DEF Held
<1>a. \/ /\ ordered' = ordered /\ unordered' = unordered /\ ready' = ready
         /\ queued' = queued /\ cancelled_timers' = cancelled_timers
      \/ /\ \E p \in InOrder(kept) :
                ordered' = [i \in 1..Cardinality(kept) |-> ordered[p[i]]]
         /\ unordered' = unordered \ dead
         /\ Dequeue(dead)
         /\ \E q \in HandedOver(dead) : ready' = ready \o q
  OBVIOUS
<1> HIDE DEF compact_cancelled
<1>d. Cardinality(dead) \in Nat /\ IsFiniteSet(dead) /\ dead \subseteq Timer
  BY <1>q, TimerSets, Zenon
<1>k. Cardinality(kept) \in Nat /\ IsFiniteSet(kept)
 <2>0. 1 \in Int /\ Len(ordered) \in Int BY <1>q
 <2>1. IsFiniteSet(1..Len(ordered)) BY <2>0, FS_Interval
 <2>2. kept \subseteq 1..Len(ordered) OBVIOUS
 <2> QED BY <2>1, <2>2, FS_Subset, FS_CardinalityType
<1>o. ASSUME NEW p \in InOrder(kept), ordered' = [i \in 1..Cardinality(kept) |-> ordered[p[i]]]
      PROVE  /\ ordered' \in Seq(Timer) /\ Len(ordered') = Cardinality(kept)
             /\ \A i \in 1..Len(ordered') : p[i] \in 1..Len(ordered) /\ ordered'[i] = ordered[p[i]]
             /\ \A i, j \in 1..Len(ordered') : i < j => p[i] < p[j]
             /\ Elems(ordered') = Elems(ordered) \ dead
             /\ Distinct(ordered) => Distinct(ordered')
 <2>1. /\ p \in [1..Cardinality(kept) -> kept]
       /\ \A i, j \in 1..Cardinality(kept) : i < j => p[i] < p[j]
   BY DEF InOrder
 <2>a. \A x \in kept : x \in 1..Len(ordered) /\ x \in Nat /\ IsLive(ordered[x]) BY <1>q
 <2> HIDE DEF kept
 <2>2. \A i, j \in DOMAIN p : i # j => p[i] # p[j]
  <3> SUFFICES ASSUME NEW i \in 1..Cardinality(kept), NEW j \in 1..Cardinality(kept), i # j
               PROVE  p[i] # p[j]
    BY <2>1
  <3>1. p[i] \in Nat /\ p[j] \in Nat /\ (i < j \/ j < i) BY <2>1, <2>a, <1>k
  <3> QED BY <3>1, <2>1
 <2>3. \A x \in kept : \E i \in 1..Cardinality(kept) : p[i] = x BY <2>1, <2>2, <1>k, Enumerates
 <2>4. /\ ordered' \in Seq(Timer) /\ Len(ordered') = Cardinality(kept)
       /\ \A i \in 1..Len(ordered') : p[i] \in 1..Len(ordered) /\ ordered'[i] = ordered[p[i]]
  <3>1. \A i \in 1..Cardinality(kept) : p[i] \in 1..Len(ordered) /\ ordered[p[i]] \in Timer
    BY <2>1, <2>a, QueueFacts, Zenon
  <3> QED BY <1>o, <3>1, <1>k
 <2>5. Elems(ordered') \subseteq Elems(ordered) \ dead BY <2>1, <2>4, <2>a DEF Elems
 <2>6. ASSUME NEW t \in Elems(ordered) \ dead PROVE t \in Elems(ordered')
  <3>1. PICK n \in 1..Len(ordered) : ordered[n] = t BY DEF Elems
  <3>2. n \in kept BY <3>1, <1>q, Zenon DEF kept
  <3>3. PICK i \in 1..Cardinality(kept) : p[i] = n BY <3>2, <2>3
  <3> QED BY <3>1, <3>3, <2>4 DEF Elems
 <2>7. Distinct(ordered) => Distinct(ordered') BY <2>1, <2>2, <2>4, SMTT(40) DEF Distinct
 <2> QED BY <2>1, <2>4, <2>5, <2>6, <2>7
<1>r. ASSUME NEW q \in HandedOver(dead), ready' = ready \o q
      PROVE  /\ ready' \in Seq(Timer) /\ Elems(ready') = Elems(ready) \union dead
             /\ Distinct(ready) /\ Elems(ready) \cap dead = {} => Distinct(ready')
 <2>1. q \in [1..Cardinality(dead) -> dead] /\ \A i, j \in DOMAIN q : i # j => q[i] # q[j]
   BY DEF HandedOver
 <2>2. \A x \in dead : \E i \in 1..Cardinality(dead) : q[i] = x BY <2>1, <1>d, Enumerates
 <2> HIDE DEF dead
 <2>3. q \in Seq(Timer) /\ Len(q) = Cardinality(dead)
  <3>1. q \in [1..Cardinality(dead) -> Timer] BY <2>1, <1>d
  <3> QED BY <3>1, <1>d
 <2>4. Elems(q) = dead /\ Distinct(q) BY <2>1, <2>2, <2>3 DEF Elems, Distinct
 <2> QED BY <1>r, <1>q, <2>3, <2>4, ConcatElems
<1>c. /\ Cardinality((queued \ dead) \cap cancelled)
           = Cardinality(queued \cap cancelled) - Cardinality(dead \cap queued \cap cancelled)
      /\ Cardinality((queued \ dead) \cap cancelled) \in Nat
  BY TombstonesLeave DEF TimersTypeOK
<1> HIDE DEF dead, kept
<1> USE DEF compact_cancelled
<1>1. TimersTypeOK'
 <2>1. cancelled_timers' \in Nat BY <1>a, <1>c DEF TombstonesExact, TimersTypeOK, Dequeue
 <2>2. ordered' \in Seq(Timer) /\ ready' \in Seq(Timer) BY <1>a, <1>o, <1>r, <1>q
 <2> QED BY <1>a, <2>1, <2>2 DEF TimersTypeOK, LoopPcs, Dequeue
<1>2. FifoSorted'
 <2>1. now \in Nat BY DEF TimersTypeOK
 <2>2. CASE ordered' = ordered BY <2>1, <2>2 DEF FifoSorted, Before
 <2>3. CASE \E p \in InOrder(kept) : ordered' = [i \in 1..Cardinality(kept) |-> ordered[p[i]]]
  <3>1. PICK p \in InOrder(kept) : ordered' = [i \in 1..Cardinality(kept) |-> ordered[p[i]]]
    BY <2>3
  <3>2. /\ \A i \in 1..Len(ordered') : p[i] \in 1..Len(ordered) /\ ordered'[i] = ordered[p[i]]
        /\ \A i, j \in 1..Len(ordered') : i < j => p[i] < p[j]
    BY <1>o, <3>1
  <3>3. \A i, j \in 1..Len(ordered') : i < j => Before(ordered'[i], ordered'[j])
    BY <3>2 DEF FifoSorted
  <3> QED BY <3>3, <2>1 DEF FifoSorted, Before
 <2> QED BY <1>a, <2>2, <2>3
<1>3. HeldOnce' BY DEF HeldOnce, TimersTypeOK
<1>4. Placed'
 <2>1. CASE ordered' = ordered /\ unordered' = unordered /\ ready' = ready BY <1>h, <2>1 DEF Placed
 <2>2. CASE /\ \E p \in InOrder(kept) : ordered' = [i \in 1..Cardinality(kept) |-> ordered[p[i]]]
            /\ unordered' = unordered \ dead
            /\ \E q \in HandedOver(dead) : ready' = ready \o q
  <3>1. Elems(ordered') = Elems(ordered) \ dead /\ (Distinct(ordered) => Distinct(ordered'))
    BY <1>o, <2>2
  <3>2. /\ Elems(ready') = Elems(ready) \union dead
        /\ Distinct(ready) /\ Elems(ready) \cap dead = {} => Distinct(ready')
    BY <1>r, <2>2
  <3>3. dead \subseteq Elems(ordered) \union unordered BY <1>q DEF dead
  <3> QED BY <1>h, <2>2, <3>1, <3>2, <3>3 DEF Placed
 <2> QED BY <1>a, <2>1, <2>2
<1>5. PayloadLive' BY DEF PayloadLive, TimersTypeOK
<1>6. Flagged' BY DEF Flagged
<1>7. TombstonesExact' BY <1>a, <1>c DEF TombstonesExact, Dequeue
<1>8. NoTimerStranded' BY DEF NoTimerStranded, Flagged
<1>9. WakesForDeadline' BY DEF WakesForDeadline
<1> QED BY <1>1, <1>2, <1>3, <1>4, <1>5, <1>6, <1>7, <1>8, <1>9, Zenon

\* pop_due keeps the invariant.
LEMMA Step_pop_due ==
    ASSUME TimersInv, pop_due
    PROVE  TimersInv'
<1> USE DEF pop_due, Dequeue
<1> USE DEF TimersInv
<1>p. /\ Peek \in Timer
      /\ ordered # <<>> /\ Peek = Head(ordered) => Peek \notin unordered
      /\ ~(ordered # <<>> /\ Peek = Head(ordered)) => Peek \in unordered /\ Peek \notin Elems(ordered)
  BY PeekIsFirst DEF DueNow
<1>q. ordered \in Seq(Timer) /\ ready \in Seq(Timer) BY DEF TimersTypeOK
<1>o. \/ /\ ordered' = ordered /\ unordered' = unordered \ {Peek}
         /\ Peek \in unordered
      \/ /\ ordered' = Tail(ordered) /\ unordered' = unordered /\ ordered # <<>>
         /\ ordered' \in Seq(Timer) /\ Len(ordered) \in Nat \ {0} /\ Len(ordered') = Len(ordered) - 1
         /\ \A i \in 1..(Len(ordered) - 1) : ordered'[i] = ordered[i + 1]
         /\ Elems(ordered) = Elems(ordered') \union {Peek}
         /\ Distinct(ordered) => Distinct(ordered') /\ Peek \notin Elems(ordered')
 <2>1. CASE ordered # <<>> /\ Peek = Head(ordered)
  <3>1. ordered' = Tail(ordered) /\ unordered' = unordered BY <2>1 DEF Pop
  <3> QED BY <1>q, <2>1, <3>1, TailElems
 <2>2. CASE ~(ordered # <<>> /\ Peek = Head(ordered)) BY <1>p, <2>2 DEF Pop
 <2> QED BY <2>1, <2>2, Zenon
<1>r. /\ ready' \in Seq(Timer) /\ Elems(ready') = Elems(ready) \union {Peek}
      /\ Distinct(ready) /\ Peek \notin Elems(ready) => Distinct(ready')
  BY <1>p, <1>q, AppendElems
<1>c. /\ Cardinality((queued \ {Peek}) \cap cancelled)
           = Cardinality(queued \cap cancelled) - Cardinality({Peek} \cap queued \cap cancelled)
      /\ Cardinality((queued \ {Peek}) \cap cancelled) \in Nat
  BY TombstonesLeave DEF TimersTypeOK
<1>h. Held' = Held BY DEF Held
<1>1. TimersTypeOK'
 <2>1. cancelled_timers' \in Nat BY <1>c DEF TombstonesExact, TimersTypeOK
 <2> QED BY <1>o, <1>r, <2>1 DEF TimersTypeOK, LoopPcs
<1>2. FifoSorted'
 <2>1. CASE ordered' = ordered BY <2>1 DEF FifoSorted, Before
 <2>2. CASE /\ Len(ordered) \in Nat \ {0} /\ Len(ordered') = Len(ordered) - 1
            /\ \A i \in 1..(Len(ordered) - 1) : ordered'[i] = ordered[i + 1]
   BY <2>2 DEF FifoSorted, Before
 <2> QED BY <1>o, <2>1, <2>2
<1>3. HeldOnce' BY DEF HeldOnce, TimersTypeOK
<1>4. Placed' BY <1>o, <1>r, <1>h DEF Placed
<1>5. PayloadLive' BY Zenon DEF PayloadLive, TimersTypeOK
<1>6. Flagged' BY DEF Flagged
<1>7. TombstonesExact' BY <1>c DEF TombstonesExact
<1>8. NoTimerStranded' BY DEF NoTimerStranded, Flagged
<1>9. WakesForDeadline' BY DEF WakesForDeadline
<1> QED BY <1>1, <1>2, <1>3, <1>4, <1>5, <1>6, <1>7, <1>8, <1>9, Zenon

\* end_collect keeps the invariant.
LEMMA Step_end_collect ==
    ASSUME TimersInv, end_collect
    PROVE  TimersInv'
<1> USE DEF end_collect
<1> USE DEF TimersInv
<1>h. Held' = Held BY DEF Held, TimersTypeOK
<1>1. TimersTypeOK'
 <2>1. ready_pending' \in BOOLEAN OBVIOUS
 <2>2. runs' \in 0..MaxRuns /\ collect_now' \in 0..MaxTime BY DEF TimersTypeOK
 <2> QED BY <2>1, <2>2 DEF TimersTypeOK, LoopPcs
<1>2. FifoSorted' BY DEF FifoSorted, TimersTypeOK, Before
<1>3. HeldOnce' BY DEF HeldOnce, TimersTypeOK
<1>4. Placed' BY <1>h DEF Placed
<1>5. PayloadLive' BY DEF PayloadLive, TimersTypeOK
<1>6. Flagged' BY DEF Flagged
<1>7. TombstonesExact' BY DEF TombstonesExact, TimersTypeOK
<1>8. NoTimerStranded' BY DEF NoTimerStranded, Flagged
<1>9. WakesForDeadline' BY DEF WakesForDeadline, Local, IsLive
<1> QED BY <1>1, <1>2, <1>3, <1>4, <1>5, <1>6, <1>7, <1>8, <1>9

\* run_timer keeps the invariant.
LEMMA Step_run_timer ==
    ASSUME TimersInv, run_timer
    PROVE  TimersInv'
<1> USE DEF run_timer
<1> USE DEF TimersInv
<1>r. /\ ready' \in Seq(Timer) /\ Head(ready) \in Timer
      /\ Elems(ready) = Elems(ready') \union {Head(ready)}
      /\ Distinct(ready) => Distinct(ready') /\ Head(ready) \notin Elems(ready')
  BY TailElems DEF TimersTypeOK
<1>h. Held' = Held BY DEF Held
<1>1. TimersTypeOK' BY <1>r DEF TimersTypeOK, LoopPcs
<1>2. FifoSorted' BY DEF FifoSorted, TimersTypeOK, Before
<1>3. HeldOnce' BY DEF HeldOnce, TimersTypeOK
<1>4. Placed' BY <1>r, <1>h DEF Placed
<1>5. PayloadLive' BY DEF PayloadLive, TimersTypeOK
<1>6. Flagged' BY DEF Flagged
<1>7. TombstonesExact' BY DEF TombstonesExact, TimersTypeOK
<1>8. NoTimerStranded' BY DEF NoTimerStranded, Flagged
<1>9. WakesForDeadline' BY DEF WakesForDeadline, Local, IsLive
<1> QED BY <1>1, <1>2, <1>3, <1>4, <1>5, <1>6, <1>7, <1>8, <1>9

\* end_drain keeps the invariant.
LEMMA Step_end_drain ==
    ASSUME TimersInv, end_drain
    PROVE  TimersInv'
<1> USE DEF end_drain
<1> USE DEF TimersInv
<1>h. Held' = Held BY DEF Held, TimersTypeOK
<1>1. TimersTypeOK' BY DEF TimersTypeOK, LoopPcs
<1>2. FifoSorted' BY DEF FifoSorted, TimersTypeOK, Before
<1>3. HeldOnce' BY DEF HeldOnce, TimersTypeOK
<1>4. Placed' BY <1>h DEF Placed
<1>5. PayloadLive' BY DEF PayloadLive, TimersTypeOK
<1>6. Flagged' BY DEF Flagged
<1>7. TombstonesExact' BY DEF TombstonesExact, TimersTypeOK
<1>8. NoTimerStranded' BY DEF NoTimerStranded, Flagged
<1>9. WakesForDeadline' BY DEF WakesForDeadline, Local, IsLive
<1> QED BY <1>1, <1>2, <1>3, <1>4, <1>5, <1>6, <1>7, <1>8, <1>9

\* park keeps the invariant.
LEMMA Step_park ==
    ASSUME TimersInv, park
    PROVE  TimersInv'
<1> USE DEF park, MayPark
<1> USE DEF TimersInv
<1>h. Held' = Held BY DEF Held
<1>d. /\ SleepUntil \in 0..(MaxTime + 1)
      /\ \A t \in Local : SleepUntil <= when[t]
 <2>1. CASE Local = {} BY <2>1 DEF SleepUntil
 <2>2. CASE Local # {}
  <3>1. Peek \in Local /\ Peek \in Timer /\ \A u \in Local \ {Peek} : Before(Peek, u)
    BY <2>2, PeekIsFirst
  <3>2. Local \subseteq Timer BY QueueFacts
  <3>3. when \in [Timer -> 0..MaxTime] BY DEF TimersTypeOK
  <3> QED BY <2>2, <3>1, <3>2, <3>3, SMTT(40) DEF SleepUntil, Before
 <2> QED BY <2>1, <2>2
<1>1. TimersTypeOK' BY <1>d DEF TimersTypeOK, LoopPcs
<1>2. FifoSorted' BY DEF FifoSorted, TimersTypeOK, Before
<1>3. HeldOnce' BY DEF HeldOnce, TimersTypeOK
<1>4. Placed' BY <1>h DEF Placed
<1>5. PayloadLive' BY DEF PayloadLive, TimersTypeOK
<1>6. Flagged' BY DEF Flagged
<1>7. TombstonesExact' BY DEF TombstonesExact, TimersTypeOK
<1>8. NoTimerStranded' BY DEF NoTimerStranded, Flagged, TimersTypeOK
<1>9. WakesForDeadline' BY <1>d DEF WakesForDeadline, Local
<1> QED BY <1>1, <1>2, <1>3, <1>4, <1>5, <1>6, <1>7, <1>8, <1>9

\* wake_up keeps the invariant.
LEMMA Step_wake_up ==
    ASSUME TimersInv, wake_up
    PROVE  TimersInv'
<1> USE DEF wake_up
<1> USE DEF TimersInv
<1>h. Held' = Held BY DEF Held, TimersTypeOK
<1>1. TimersTypeOK' BY DEF TimersTypeOK, LoopPcs
<1>2. FifoSorted' BY DEF FifoSorted, TimersTypeOK, Before
<1>3. HeldOnce' BY DEF HeldOnce, TimersTypeOK
<1>4. Placed' BY <1>h DEF Placed
<1>5. PayloadLive' BY DEF PayloadLive, TimersTypeOK
<1>6. Flagged' BY DEF Flagged
<1>7. TombstonesExact' BY DEF TombstonesExact, TimersTypeOK
<1>8. NoTimerStranded' BY DEF NoTimerStranded, Flagged
<1>9. WakesForDeadline' BY DEF WakesForDeadline, Local, IsLive
<1> QED BY <1>1, <1>2, <1>3, <1>4, <1>5, <1>6, <1>7, <1>8, <1>9

\* signal_deadline keeps the invariant.
LEMMA Step_signal_deadline ==
    ASSUME TimersInv, signal_deadline
    PROVE  TimersInv'
<1> USE DEF signal_deadline
<1> USE DEF TimersInv
<1>h. Held' = Held BY DEF Held, TimersTypeOK
<1>1. TimersTypeOK' BY DEF TimersTypeOK, LoopPcs
<1>2. FifoSorted' BY DEF FifoSorted, TimersTypeOK, Before
<1>3. HeldOnce' BY DEF HeldOnce, TimersTypeOK
<1>4. Placed' BY <1>h DEF Placed
<1>5. PayloadLive' BY DEF PayloadLive, TimersTypeOK
<1>6. Flagged' BY DEF Flagged
<1>7. TombstonesExact' BY DEF TombstonesExact, TimersTypeOK
<1>8. NoTimerStranded' BY DEF NoTimerStranded, Flagged
<1>9. WakesForDeadline' BY DEF WakesForDeadline, Local, IsLive
<1> QED BY <1>1, <1>2, <1>3, <1>4, <1>5, <1>6, <1>7, <1>8, <1>9

\* end_run keeps the invariant.
LEMMA Step_end_run ==
    ASSUME TimersInv, end_run
    PROVE  TimersInv'
<1> USE DEF end_run, Returned
<1> USE DEF TimersInv
<1>h. Held' = Held BY DEF Held
<1>l. Local = Elems(ordered) \union unordered /\ Local \subseteq Timer
      /\ Elems(<<>>) = {} /\ Distinct(<<>>)
  BY QueueFacts
<1>1. TimersTypeOK'
 <2>1. pending_timers' \subseteq Timer /\ unordered' \subseteq Timer BY <1>l DEF TimersTypeOK
 <2>3. ordered' \in Seq(Timer) BY EmptySeq
 <2>2. pending_timers_dirty' \in BOOLEAN OBVIOUS
 <2> QED BY <2>1, <2>2, <2>3 DEF TimersTypeOK, LoopPcs
<1>2. FifoSorted' BY DEF FifoSorted
<1>3. HeldOnce' BY DEF HeldOnce, TimersTypeOK
<1>4. Placed' BY <1>l, <1>h DEF Placed
<1>5. PayloadLive' BY DEF PayloadLive, TimersTypeOK
<1>6. Flagged' BY DEF Flagged
<1>7. TombstonesExact' BY DEF TombstonesExact, TimersTypeOK
<1>8. NoTimerStranded' BY DEF NoTimerStranded, Flagged
<1>9. WakesForDeadline' BY DEF WakesForDeadline, Local, IsLive
<1> QED BY <1>1, <1>2, <1>3, <1>4, <1>5, <1>6, <1>7, <1>8, <1>9, Zenon

\* timer_close keeps the invariant.
LEMMA Step_timer_close ==
    ASSUME TimersInv, timer_close
    PROVE  TimersInv'
<1> USE DEF timer_close
<1> USE DEF TimersInv
<1>h. Held' = Held BY DEF Held, TimersTypeOK
<1>1. TimersTypeOK' BY DEF TimersTypeOK, LoopPcs
<1>2. FifoSorted' BY DEF FifoSorted, TimersTypeOK, Before
<1>3. HeldOnce' BY DEF HeldOnce, TimersTypeOK
<1>4. Placed' BY <1>h DEF Placed
<1>5. PayloadLive' BY DEF PayloadLive, TimersTypeOK
<1>6. Flagged' BY DEF Flagged
<1>7. TombstonesExact' BY DEF TombstonesExact, TimersTypeOK
<1>8. NoTimerStranded' BY DEF NoTimerStranded, Flagged
<1>9. WakesForDeadline' BY DEF WakesForDeadline, Local, IsLive
<1> QED BY <1>1, <1>2, <1>3, <1>4, <1>5, <1>6, <1>7, <1>8, <1>9

\* release_timers keeps the invariant.
LEMMA Step_release_timers ==
    ASSUME TimersInv, release_timers
    PROVE  TimersInv'
<1> USE DEF release_timers, Dropped
<1> USE DEF TimersInv
<1>h. Held' = Held BY DEF Held
<1>c. /\ Cardinality((queued \ pending_timers) \cap cancelled)
           = Cardinality(queued \cap cancelled) - Cardinality(pending_timers \cap queued \cap cancelled)
      /\ Cardinality((queued \ pending_timers) \cap cancelled) \in Nat
  BY TombstonesLeave DEF TimersTypeOK
<1>1. TimersTypeOK'
 <2>1. cancelled_timers' \in Nat BY <1>c DEF TombstonesExact, TimersTypeOK
 <2> QED BY <2>1 DEF TimersTypeOK, LoopPcs
<1>2. FifoSorted' BY DEF FifoSorted, TimersTypeOK, Before
<1>3. HeldOnce' BY DEF HeldOnce, TimersTypeOK
<1>4. Placed' BY <1>h DEF Placed
<1>5. PayloadLive' BY DEF PayloadLive
<1>6. Flagged' BY DEF Flagged
<1>7. TombstonesExact' BY <1>c DEF TombstonesExact
<1>8. NoTimerStranded' BY DEF NoTimerStranded, Flagged
<1>9. WakesForDeadline' BY DEF WakesForDeadline, Local, IsLive
<1> QED BY <1>1, <1>2, <1>3, <1>4, <1>5, <1>6, <1>7, <1>8, <1>9

\* tick keeps the invariant.
LEMMA Step_tick ==
    ASSUME TimersInv, tick
    PROVE  TimersInv'
<1> USE DEF tick
<1> USE DEF TimersInv
<1>h. Held' = Held BY DEF Held, TimersTypeOK
<1>1. TimersTypeOK' BY DEF TimersTypeOK, LoopPcs
<1>2. FifoSorted' BY DEF FifoSorted, TimersTypeOK, Before
<1>3. HeldOnce' BY DEF HeldOnce, TimersTypeOK
<1>4. Placed' BY <1>h DEF Placed
<1>5. PayloadLive' BY DEF PayloadLive, TimersTypeOK
<1>6. Flagged' BY DEF Flagged
<1>7. TombstonesExact' BY DEF TombstonesExact, TimersTypeOK
<1>8. NoTimerStranded' BY DEF NoTimerStranded, Flagged
<1>9. WakesForDeadline' BY DEF WakesForDeadline, Local, IsLive
<1> QED BY <1>1, <1>2, <1>3, <1>4, <1>5, <1>6, <1>7, <1>8, <1>9

-----------------------------------------------------------------------------
\* The theorems.

LEMMA TimersInitially == TimersInit => TimersInv
<1> SUFFICES ASSUME TimersInit PROVE TimersInv OBVIOUS
<1>0. Elems(<<>>) = {} /\ Distinct(<<>>) /\ 1..0 = {} /\ <<>> \in Seq(Timer)
  BY EmptySeq DEF Elems, Distinct
<1>1. TimersTypeOK
 <2>1. when \in [Timer -> 0..MaxTime] /\ call_timer \in [Threads -> 0..MaxTimers]
       /\ call_pc \in [Threads -> {"idle", "push", "dirty", "signal"}]
   BY DEF TimersInit
 <2>2. pending_timers_dirty \in BOOLEAN /\ ready_pending \in BOOLEAN /\ closed \in BOOLEAN
   BY DEF TimersInit
 <2> QED BY <1>0, <2>1, <2>2 DEF TimersInit, TimersTypeOK, LoopPcs
<1>2. Held = {} /\ Local = {} BY DEF TimersInit, Held, Local
<1>3. Placed BY <1>0, <1>2 DEF TimersInit, Placed
<1>4. TombstonesExact BY FS_EmptySet DEF TimersInit, TombstonesExact
<1>5. FifoSorted /\ HeldOnce /\ PayloadLive /\ Flagged /\ NoTimerStranded /\ WakesForDeadline
  BY <1>0 DEF TimersInit, FifoSorted, HeldOnce, PayloadLive, Flagged, NoTimerStranded,
    WakesForDeadline
<1> QED BY <1>1, <1>3, <1>4, <1>5 DEF TimersInv

LEMMA TimersStep == TimersInv /\ [TimersNext]_timerVars => TimersInv'
<1> SUFFICES ASSUME TimersInv, [TimersNext]_timerVars PROVE TimersInv' OBVIOUS
<1>1. CASE TimerLoopStep
  BY <1>1, Step_collect, Step_append_heap, Step_compact_cancelled, Step_pop_due, Step_end_collect,
    Step_run_timer, Step_end_drain, Step_park, Step_wake_up, Step_release_timers, Zenon DEF
    TimerLoopStep
<1>2. CASE signal_deadline \/ tick \/ timers_run_forever \/ end_run \/ timer_close
  BY <1>2, Step_signal_deadline, Step_tick, Step_timers_run_forever, Step_end_run,
    Step_timer_close
<1>3. ASSUME NEW c \in Threads, CallerStep(c) PROVE TimersInv'
  BY <1>3, Step_publish_timer, Step_publish_dirty, Step_publish_signal DEF CallerStep
<1>4. ASSUME NEW t \in Timer, timer_cancel(t) PROVE TimersInv' BY <1>4, Step_timer_cancel
<1>5. ASSUME NEW t \in Timer, NEW d \in Delays, enqueue_timer_local(t, d) PROVE TimersInv'
  BY <1>5, Step_enqueue_timer_local
<1>6. ASSUME NEW c \in Threads, NEW t \in Timer, NEW d \in Delays, enqueue_timer(c, t, d)
      PROVE  TimersInv'
  BY <1>6, Step_enqueue_timer
<1>7. CASE UNCHANGED timerVars
 <2>1. Held' = Held /\ Local' = Local BY <1>7 DEF timerVars, Held, Local
 <2>2. TimersTypeOK' /\ FifoSorted' /\ Placed'
   BY <1>7, <2>1, SMTT(40) DEF timerVars, TimersInv, TimersTypeOK, FifoSorted, Placed, Before
 <2>3. HeldOnce' /\ PayloadLive' /\ Flagged' /\ TombstonesExact' /\ NoTimerStranded' /\ WakesForDeadline'
   BY <1>7, <2>1 DEF timerVars, TimersInv, HeldOnce, PayloadLive, Flagged, TombstonesExact,
     NoTimerStranded, WakesForDeadline, IsLive
 <2> QED BY <2>2, <2>3 DEF TimersInv
<1> QED BY <1>1, <1>2, <1>3, <1>4, <1>5, <1>6, <1>7 DEF TimersNext

LEMMA TimersInductive == TimersSpec => []TimersInv
  BY TimersInitially, TimersStep, PTL DEF TimersSpec

\* Whatever the threads, delays and cancels: a timer is in one place, neither lost nor queued
\* twice, when heaps are merged, compacted, returned or released; cancelled_timers equals the
\* tombstones that are queued; and the loop parks neither on a published timer nor past a deadline.
THEOREM TimersAreSafe == TimersSpec => []TimersSafe
<1>1. TimersInv => TimersSafe BY OneCopy DEF TimersInv, TimersSafe
<1> QED BY <1>1, TimersInductive, PTL

\* TimerCallback::cancel before take_ready: the callback does not run.
THEOREM CancelledTimersStayOff == TimersSpec => CancelledNeverRuns
<1>1. TimersInv /\ [TimersNext]_timerVars
        => [\A t \in fired' \ fired : t \notin cancelled]_timerVars
 <2> SUFFICES ASSUME TimersInv, TimersNext, NEW t \in fired' \ fired PROVE t \notin cancelled
   OBVIOUS
 <2>1. CASE run_timer BY <2>1 DEF run_timer, MayFire, TimersInv, PayloadLive
 <2>2. CASE ~run_timer
  <3>1. fired' = fired
    BY <2>2 DEF TimersNext, TimerLoopStep, CallerStep, collect, append_heap, compact_cancelled,
      pop_due, end_collect, end_drain, park, wake_up, release_timers, signal_deadline, tick,
      timers_run_forever, end_run, timer_close, publish_timer, publish_dirty, publish_signal,
      timer_cancel, enqueue_timer_local, enqueue_timer
  <3> QED BY <3>1
 <2> QED BY <2>1, <2>2
<1> QED BY <1>1, TimersInductive, PTL DEF TimersSpec, CancelledNeverRuns

\* LocalTimers::collect hands live timers over in the order (deadline, id), none before its time.
THEOREM DeadlinesInOrder == TimersSpec => DeadlineOrder
<1>1. TimersInv /\ [TimersNext]_timerVars
        => [\A t \in Local \ Local' :
               loop_pc = "pop" /\ IsLive(t) =>
                   /\ when[t] <= now
                   /\ \A u \in Local' : Before(t, u)]_timerVars
 <2> SUFFICES ASSUME TimersInv, TimersNext, NEW t \in Local \ Local', loop_pc = "pop", IsLive(t)
              PROVE  when[t] <= now /\ \A u \in Local' : Before(t, u)
   OBVIOUS
 <2>1. CASE pop_due
  <3>0. TimersTypeOK /\ FifoSorted /\ Placed /\ Local # {} BY DEF TimersInv
  <3>1. Local = Elems(ordered) \union unordered /\ Local' = Elems(ordered') \union unordered'
    BY DEF Local, Elems
  <3>2. /\ Peek \in Local /\ Peek \in Timer
        /\ \A u \in Local \ {Peek} : Before(Peek, u)
        /\ ordered # <<>> /\ Peek = Head(ordered) => Peek \notin unordered
    BY <3>0, PeekIsFirst
  <3>3. Local' = Local \ {Peek}
   <4>1. CASE ordered # <<>> /\ Peek = Head(ordered)
    <5>1. /\ Elems(ordered) = Elems(Tail(ordered)) \union {Head(ordered)}
          /\ Head(ordered) \notin Elems(Tail(ordered))
      BY <3>0, <4>1, TailElems DEF TimersTypeOK, Placed
    <5>2. ordered' = Tail(ordered) /\ unordered' = unordered BY <2>1, <4>1 DEF pop_due, Pop
    <5> QED BY <4>1, <5>1, <5>2, <3>1, <3>2
   <4>2. CASE ~(ordered # <<>> /\ Peek = Head(ordered))
    <5>1. Peek \in unordered /\ Peek \notin Elems(ordered) BY <3>0, <4>2, PeekIsFirst
    <5>2. ordered' = ordered /\ unordered' = unordered \ {Peek} BY <2>1, <4>2 DEF pop_due, Pop
    <5> QED BY <5>1, <5>2, <3>1
   <4> QED BY <4>1, <4>2
  <3>4. t = Peek BY <3>3
  <3>5. when[t] <= collect_now BY <2>1, <3>4, <3>0 DEF pop_due, DueNow, IsDue
  <3>6. when[t] \in Nat /\ collect_now \in Nat /\ now \in Nat /\ collect_now <= now
    BY <3>0, <3>2, <3>4 DEF TimersTypeOK, FifoSorted
  <3> QED BY <3>2, <3>3, <3>4, <3>5, <3>6
 <2>2. CASE ~pop_due
  <3>1. ordered' = ordered /\ unordered' = unordered
    BY <2>2 DEF TimersNext, TimerLoopStep, CallerStep, collect, append_heap, compact_cancelled,
      run_timer, end_collect, end_drain, park, wake_up, release_timers, signal_deadline, tick,
      timers_run_forever, end_run, timer_close, publish_timer, publish_dirty, publish_signal,
      timer_cancel, enqueue_timer_local, enqueue_timer
  <3>2. Local' = Local BY <3>1 DEF Local
  <3> QED BY <3>2
 <2> QED BY <2>1, <2>2
<1> QED BY <1>1, TimersInductive, PTL DEF TimersSpec, DeadlineOrder

=============================================================================
