----------------------------- MODULE ReadyMerge -----------------------------
(***************************************************************************)
(* PendingReady as it is stored (src/src/engine/commands.rs) and the loop  *)
(* of merge_ready_generation over it (src/src/engine/loop_core.rs): marks  *)
(* are (index, mark) segments, and the merge drains segment by segment.    *)
(* ReadyQueue says entry by entry what both compute.                       *)
(*                                                                         *)
(* A local item is numbered by its enqueue; an off-thread item carries a   *)
(* negative number.  A mark was read from local_enqueues at the push or    *)
(* earlier, so it may be stale by any amount.                              *)
(***************************************************************************)
EXTENDS Integers, ReadyQueue

CONSTANTS
    MaxPushed,     \* bound: items queued off the loop thread
    MaxEnqueued    \* bound: items queued by the loop thread

ASSUME MergeAssumption == MaxPushed \in Nat /\ MaxEnqueued \in Nat

VARIABLES
    items, marks,      \* PendingReady
    entries,           \* the same queue as ReadyQueue describes it
    local, local_taken, local_enqueues,
    pushed

mergeVars == <<items, marks, entries, local, local_taken, local_enqueues, pushed>>

MergeInit ==
    /\ items = <<>> /\ marks = <<>> /\ entries = <<>>
    /\ local = <<>> /\ local_taken = 0 /\ local_enqueues = 0 /\ pushed = 0

\* PendingReady::mark: a pair is stored only where the mark changes.
mark(m) ==
    IF marks # <<>> /\ marks[Len(marks)].mark = m
    THEN marks
    ELSE Append(marks, [start |-> Len(items), mark |-> m])

\* PendingReady::push.
push(m) ==
    /\ pushed < MaxPushed
    /\ pushed' = pushed + 1
    /\ marks' = mark(m)
    /\ items' = Append(items, -pushed')
    /\ entries' = PendingPush(entries, -pushed', m)
    /\ UNCHANGED <<local, local_taken, local_enqueues>>

\* PendingReady::extend: the mark is taken back when nothing was added.
extend(n, m) ==
    LET new == [i \in 1..n |-> -(pushed + i)] IN
    /\ pushed + n <= MaxPushed
    /\ pushed' = pushed + n
    /\ items' = items \o new
    /\ marks' = IF Len(items') = Len(items)
                THEN SubSeq(mark(m), 1, Len(marks))
                ELSE mark(m)
    /\ entries' = PendingExtend(entries, new, m)
    /\ UNCHANGED <<local, local_taken, local_enqueues>>

\* The loop thread queues one item of its own.
enqueue_local ==
    /\ local_enqueues < MaxEnqueued
    /\ local_enqueues' = local_enqueues + 1
    /\ local' = Append(local, local_enqueues')
    /\ UNCHANGED <<items, marks, entries, local_taken, pushed>>

Min2(a, b) == IF a <= b THEN a ELSE b
DropFirst(s, n) == SubSeq(s, n + 1, Len(s))

\* Mutant: the segment goes ahead of the local items it is due behind.
MergeSegment_ItemsFirst(w, k) ==
    LET len == IF k < Len(marks) THEN marks[k + 1].start - marks[k].start
                                 ELSE Len(w.items)
    IN [w EXCEPT !.batch = @ \o SubSeq(w.items, 1, len),
                 !.items = DropFirst(@, len)]

\* One pass of merge_ready_generation's loop: the local items that are due,
\* then the segment.  w is [batch, local, items, taken].
MergeSegment(w, k) ==
    LET len == IF k < Len(marks) THEN marks[k + 1].start - marks[k].start
                                 ELSE Len(w.items)
        ahead == IF marks[k].mark > w.taken THEN marks[k].mark - w.taken ELSE 0
        due == Min2(ahead, Len(w.local))
    IN [batch |-> w.batch \o SubSeq(w.local, 1, due) \o SubSeq(w.items, 1, len),
        local |-> DropFirst(w.local, due),
        items |-> DropFirst(w.items, len),
        taken |-> w.taken + due]

\* merge_ready_generation.
Merged ==
    LET start == [batch |-> <<>>, local |-> local, items |-> items,
                  taken |-> local_taken]
        after[k \in 0..Len(marks)] ==
            IF k = 0 THEN start ELSE MergeSegment(after[k - 1], k)
        end == after[Len(marks)]
    IN IF items = <<>>
       THEN [batch |-> local, local |-> <<>>, items |-> <<>>,
             taken |-> local_taken + Len(local)]
       ELSE IF local = <<>>
       THEN [batch |-> items, local |-> <<>>, items |-> <<>>,
             taken |-> local_taken]
       ELSE [batch |-> end.batch \o end.local, local |-> <<>>,
             items |-> end.items, taken |-> end.taken + Len(end.local)]

\* A generation starts.
merge_ready_generation ==
    /\ items # <<>> \/ local # <<>>
    /\ items' = Merged.items /\ marks' = <<>>
    /\ entries' = <<>>
    /\ local' = Merged.local /\ local_taken' = Merged.taken
    /\ UNCHANGED <<local_enqueues, pushed>>

\* PendingReady::take_items, at the end of a run.
take_items ==
    /\ items # <<>>
    /\ items' = <<>> /\ marks' = <<>> /\ entries' = <<>>
    /\ UNCHANGED <<local, local_taken, local_enqueues, pushed>>

MergeNext ==
    \/ \E m \in 0..local_enqueues : push(m)
    \/ \E m \in 0..local_enqueues, n \in 0..2 : extend(n, m)
    \/ enqueue_local
    \/ merge_ready_generation
    \/ take_items

MergeSpec == MergeInit /\ [][MergeNext]_mergeVars

-----------------------------------------------------------------------------
\* The segment that entry i belongs to.
SegmentOf(i) ==
    CHOOSE k \in 1..Len(marks) :
        /\ marks[k].start < i
        /\ k = Len(marks) \/ marks[k + 1].start >= i

\* The (index, mark) segments stand for one mark per item, through pushes,
\* empty extends and merges (commands.rs:100-102, "Marks are stored once per
\* change").
SegmentsStandForMarks ==
    /\ items = Items(entries)
    /\ \A i \in 1..Len(items) : marks[SegmentOf(i)].mark = entries[i].mark

\* The literal merge computes MergeGeneration, empties both queues and counts
\* every local item as taken.
MergeComputesGeneration ==
    /\ Merged.batch = MergeGeneration(local, local_taken, entries)
    /\ Merged.items = <<>>
    /\ Merged.taken = local_enqueues

Place(x) == CHOOSE p \in 1..Len(Merged.batch) : Merged.batch[p] = x

\* "It goes behind the local items numbered below m and ahead of the rest.
\* Each queue keeps its own order" (loop_core.rs:2102-2104): exact unless an
\* older mark arrives late, which may only push its item further back.
SchedulingOrderOfMerge ==
    \A i \in 1..Len(entries) :
        /\ \A l \in 1..Len(local) :
              local[l] <= entries[i].mark => Place(local[l]) < Place(items[i])
        /\ \A l \in 1..Len(local) :
              (\A j \in 1..i : local[l] > entries[j].mark) =>
                  Place(items[i]) < Place(local[l])
        /\ \A j \in 1..(i - 1) : Place(items[j]) < Place(items[i])
=============================================================================
