----------------------------- MODULE ReadyQueue -----------------------------
(***************************************************************************)
(* The queue of off-thread ready items of one run (PendingReady in         *)
(* src/src/engine/commands.rs) and the merge that starts a ready           *)
(* generation (merge_ready_generation in src/src/engine/loop_core.rs).     *)
(*                                                                         *)
(* An entry is [item, mark]: mark is the number of loop-thread enqueues    *)
(* the item was scheduled after.  The code stores a mark only where it     *)
(* changes; ReadyMerge shows that the literal loop over those segments     *)
(* computes what this module defines entry by entry.                       *)
(***************************************************************************)
EXTENDS Naturals, Sequences, FiniteSets

\* PendingReady::extend: items in order, all stamped with one mark.
Stamped(items, mark) ==
    [i \in 1..Len(items) |-> [item |-> items[i], mark |-> mark]]

\* PendingReady::push.
PendingPush(pending, item, mark) ==
    Append(pending, [item |-> item, mark |-> mark])

\* PendingReady::extend.
PendingExtend(pending, items, mark) == pending \o Stamped(items, mark)

\* PendingReady::take_items: the items without their marks.
Items(pending) == [i \in 1..Len(pending) |-> pending[i].item]

\* Local item k (numbered local_taken + k) was scheduled before pending entry
\* i, or before an earlier entry of the queue that entry i may not overtake.
DueBefore(k, i, taken, pending) ==
    \E j \in 1..i : taken + k <= pending[j].mark

\* How many local items run ahead of pending entry i.
DueCount(i, local, taken, pending) ==
    Cardinality({k \in 1..Len(local) : DueBefore(k, i, taken, pending)})

\* The place of pending entry i in the merged generation.
Slot(i, local, taken, pending) == i + DueCount(i, local, taken, pending)

\* How many pending entries are among the first p of the generation.
PendingAmong(p, local, taken, pending) ==
    Cardinality({i \in 1..Len(pending) : Slot(i, local, taken, pending) <= p})

\* merge_ready_generation: both queues as one generation, in scheduling order.
MergeGeneration(local, taken, pending) ==
    [p \in 1..(Len(local) + Len(pending)) |->
        LET c == PendingAmong(p, local, taken, pending) IN
        IF c # 0 /\ Slot(c, local, taken, pending) = p
        THEN pending[c].item
        ELSE local[p - c]]
=============================================================================
