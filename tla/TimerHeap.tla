----------------------------- MODULE TimerHeap ------------------------------
(***************************************************************************)
(* DeadlineHeap of the runtime's timer (vibeio/timer.rs): a d-ary heap of  *)
(* deadlines over a slab whose slots are reused, with handles checked by   *)
(* generation.  Sleeps uses the timer as the set of registrations that     *)
(* HeapExact and SpinTakesDue show it to be.                               *)
(***************************************************************************)
EXTENDS Naturals, Sequences, FiniteSets, SequencesExt

CONSTANTS Slots,      \* keys of the slab
          Arity,      \* children of a heap node (4 in the code)
          MaxTime,    \* deadlines and the clock stay in 0..MaxTime
          Regs,       \* registrations a behaviour makes
          NoEntry

ASSUME TimerHeapAssumption ==
  /\ Arity \in Nat \ {0} /\ MaxTime \in Nat /\ Regs \in Nat
  /\ IsFiniteSet(Slots)

VARIABLES entry,      \* DeadlineHeap.entries: slot -> [deadline, gen]
          heap,       \* DeadlineHeap.heap, slots; heap[1] is the root
          heapIndex,  \* TimerEntry.heap_index, 1-based
          nextGen,    \* next_generation
          handles,    \* handles given out and not yet cancelled
          popped      \* history: keys the last pop_expired took, in order

heapVars == <<entry, heap, heapIndex, nextGen, handles, popped>>

TimerHeapInit ==
  /\ entry = [k \in Slots |-> NoEntry] /\ heap = <<>>
  /\ heapIndex = [k \in Slots |-> 0] /\ nextGen = 0
  /\ handles = {} /\ popped = <<>>

-----------------------------------------------------------------------------
(* DeadlineHeap, on a value t = [entry, heap, index]. *)

Heap == [entry |-> entry, heap |-> heap, index |-> heapIndex]
Key(e) == <<e.deadline, e.gen>>
KeyLess(p, q) == p[1] < q[1] \/ (p[1] = q[1] /\ p[2] < q[2])
Less(t, i, j) == KeyLess(Key(t.entry[t.heap[i]]), Key(t.entry[t.heap[j]]))
Parent(i) == ((i - 2) \div Arity) + 1
Children(t, i) ==
  {c \in (Arity * (i - 1) + 2)..(Arity * i + 1) : c <= Len(t.heap)}

swap_nodes(t, i, j) ==
  [t EXCEPT !.heap = [@ EXCEPT ![i] = t.heap[j], ![j] = t.heap[i]],
            !.index = [@ EXCEPT ![t.heap[j]] = i, ![t.heap[i]] = j]]

\* A loop of at most Len(heap) turns over [t, at], at = 0 when it has ended.
Repeat(Step(_), t, i) ==
  FoldLeft(LAMBDA st, n : IF st.at = 0 THEN st ELSE Step(st),
           [t |-> t, at |-> i], [n \in 1..Len(t.heap) |-> n]).t

sift_up(t, i) ==
  Repeat(LAMBDA st : IF st.at # 1 /\ Less(st.t, st.at, Parent(st.at))
                     THEN [t |-> swap_nodes(st.t, st.at, Parent(st.at)),
                           at |-> Parent(st.at)]
                     ELSE [st EXCEPT !.at = 0], t, i)

Smallest(t, i) == CHOOSE c \in Children(t, i) :
                    \A d \in Children(t, i) \ {c} : Less(t, c, d)
sift_down(t, i) ==
  Repeat(LAMBDA st : IF Children(st.t, st.at) # {}
                        /\ Less(st.t, Smallest(st.t, st.at), st.at)
                     THEN [t |-> swap_nodes(st.t, st.at, Smallest(st.t, st.at)),
                           at |-> Smallest(st.t, st.at)]
                     ELSE [st EXCEPT !.at = 0], t, i)

InsertNode(t, k, d, g) ==
  LET n == Len(t.heap) + 1 IN
  sift_up([entry |-> [t.entry EXCEPT ![k] = [deadline |-> d, gen |-> g]],
           heap |-> Append(t.heap, k),
           index |-> [t.index EXCEPT ![k] = n]], n)

\* The node at i leaves: the last one takes its place and moves up or down.
RemoveNode(t, i) ==
  LET last == Len(t.heap)
      k == t.heap[i]
      swapped == IF i = last THEN t ELSE swap_nodes(t, i, last)
      cut == [entry |-> [swapped.entry EXCEPT ![k] = NoEntry],
              heap |-> SubSeq(swapped.heap, 1, last - 1),
              index |-> swapped.index]
  IN  IF i > last - 1 THEN cut
      ELSE IF i # 1 /\ Less(cut, i, Parent(i)) THEN sift_up(cut, i)
      ELSE sift_down(cut, i)

\* Mutant: a slot that is occupied is taken to be the handle's.
HandleLive_AnyGeneration(t, h) == t.entry[h.slot] # NoEntry
HandleLive(t, h) == t.entry[h.slot] # NoEntry /\ t.entry[h.slot].gen = h.gen
RemoveHandle(t, h) == IF HandleLive(t, h) THEN RemoveNode(t, t.index[h.slot]) ELSE t

pop_expired(t, now) ==
  FoldLeft(LAMBDA st, n :
             IF st.t.heap = <<>> \/ st.t.entry[st.t.heap[1]].deadline > now THEN st
             ELSE [t |-> RemoveNode(st.t, 1),
                   out |-> Append(st.out, Key(st.t.entry[st.t.heap[1]]))],
           [t |-> t, out |-> <<>>], [n \in 1..Len(t.heap) |-> n])

SetHeap(t) == entry' = t.entry /\ heap' = t.heap /\ heapIndex' = t.index

-----------------------------------------------------------------------------
(* The timer's operations. *)

\* The slab hands out a vacant key; here the least one.
VacantKey == CHOOSE k \in Slots : /\ entry[k] = NoEntry
                                  /\ \A j \in Slots : entry[j] = NoEntry => k <= j

insert(d) ==
  /\ nextGen < Regs /\ \E k \in Slots : entry[k] = NoEntry
  /\ SetHeap(InsertNode(Heap, VacantKey, d, nextGen + 1)) /\ nextGen' = nextGen + 1
  /\ handles' = handles \cup {[slot |-> VacantKey, gen |-> nextGen + 1]}
  /\ popped' = <<>>

\* Timer::cancel; the handle may have expired and its slot be reused.
remove(h) ==
  /\ h \in handles /\ handles' = handles \ {h}
  /\ SetHeap(RemoveHandle(Heap, h))
  /\ popped' = <<>> /\ UNCHANGED nextGen

expire(now) ==
  LET r == pop_expired(Heap, now) IN
  /\ r.out # <<>>
  /\ SetHeap(r.t) /\ popped' = r.out /\ UNCHANGED <<nextGen, handles>>

TimerHeapNext ==
  \/ \E d \in 1..MaxTime : insert(d)
  \/ \E h \in handles : remove(h)
  \/ \E now \in 1..MaxTime : expire(now)

TimerHeapSpec == TimerHeapInit /\ [][TimerHeapNext]_heapVars

-----------------------------------------------------------------------------
UsedSlots == {k \in Slots : entry[k] # NoEntry}

TimerHeapTypeOK ==
  /\ \A k \in UsedSlots : entry[k] \in [deadline : 0..MaxTime, gen : 1..Regs]
  /\ heap \in Seq(Slots) /\ heapIndex \in [Slots -> 0..Cardinality(Slots)]
  /\ nextGen \in 0..Regs /\ handles \subseteq [slot : Slots, gen : 1..Regs]

\* The heap lists every occupied slot once, every entry knows its place in it,
\* and no node comes before its parent: what remove and pop_expired rely on
\* after any sequence of insertions, removals in the middle and expiries.
HeapExact ==
  /\ {heap[i] : i \in DOMAIN heap} = UsedSlots /\ Len(heap) = Cardinality(UsedSlots)
  /\ \A i \in DOMAIN heap :
       /\ heapIndex[heap[i]] = i
       /\ i # 1 => ~KeyLess(Key(entry[heap[i]]), Key(entry[heap[((i - 2) \div Arity) + 1]]))

\* A spin at time now takes exactly the entries whose deadline has come, in order of
\* deadline and then of registration, and leaves every other one as it was.
SpinTakesDue ==
  \A now \in 1..MaxTime : expire(now) =>
    LET due == {k \in UsedSlots : entry[k].deadline <= now} IN
    /\ ToSet(popped') = {Key(entry[k]) : k \in due} /\ Len(popped') = Cardinality(due)
    /\ \A i, j \in DOMAIN popped' : i < j => KeyLess(popped'[i], popped'[j])
    /\ entry' = [k \in Slots |-> IF k \in due THEN NoEntry ELSE entry[k]]

\* Cancelling through a stale handle removes nothing: only the expiry of an
\* entry or its own handle takes it out of the heap.
CancelsOnlyItsOwn ==
  \A k \in Slots : entry[k] # NoEntry /\ entry'[k] = NoEntry /\ popped' = <<>> =>
    [slot |-> k, gen |-> entry[k].gen] \in handles \ handles'

\* The heap is sound in every state of TimerHeap, whatever was inserted,
\* cancelled and expired before.
HeapSafe == TimerHeapTypeOK /\ HeapExact

\* Every step of the timer takes what is due and cancels only what it was
\* asked to, with slots reused and handles gone stale in between.
HeapSteps == [][SpinTakesDue /\ CancelsOnlyItsOwn]_heapVars

=============================================================================
