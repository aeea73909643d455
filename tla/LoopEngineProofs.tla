------------------------- MODULE LoopEngineProofs -------------------------
(***************************************************************************)
(* Proofs about ReadyQueue, what the merge of a ready generation returns   *)
(* for every pair of queues, and about LoopEngine for every number of      *)
(* producers, runs, callbacks and every budget: type correctness, the      *)
(* numbering of loop-thread enqueues, that neither the loop nor the        *)
(* dispatcher sleeps on work, that the gate of schedule_ready_handle and   *)
(* the handle count behind it are sound, that run_forever keeps its run    *)
(* state, that no callback is lost or run twice, that one producer's       *)
(* callbacks run in the order it scheduled them, and that the engine       *)
(* implements CallbackService.                                             *)
(***************************************************************************)
EXTENDS LoopEngine, SequenceFacts

-----------------------------------------------------------------------------
(* The merge of a ready generation, for every pair of queues.              *)

\* The number of local items ahead of a pending entry is at most their number
\* and never decreases along the pending queue.
LEMMA DueCountBounds ==
    ASSUME NEW local, Len(local) \in Nat, NEW taken, NEW pending,
           NEW i \in Nat, NEW j \in Nat, i <= j
    PROVE  /\ DueCount(i, local, taken, pending) \in 0..Len(local)
           /\ DueCount(i, local, taken, pending) \in Nat
           /\ DueCount(i, local, taken, pending)
                  <= DueCount(j, local, taken, pending)
<1> DEFINE D(m) == {k \in 1..Len(local) : DueBefore(k, m, taken, pending)}
<1>1. IsFiniteSet(1..Len(local)) /\ Cardinality(1..Len(local)) = Len(local) BY IntervalFinite
<1>2. \A m \in Nat : /\ IsFiniteSet(D(m))
                     /\ Cardinality(D(m)) \in Nat
                     /\ Cardinality(D(m)) <= Len(local)
 <2> TAKE m \in Nat
 <2>1. D(m) \in SUBSET (1..Len(local)) OBVIOUS
 <2> QED BY <1>1, <2>1, FS_Subset, FS_CardinalityType
<1>3. D(i) \in SUBSET D(j) BY DEF DueBefore
<1>4. Cardinality(D(i)) <= Cardinality(D(j)) BY <1>2, <1>3, FS_Subset
<1>5. /\ DueCount(i, local, taken, pending) = Cardinality(D(i))
      /\ DueCount(j, local, taken, pending) = Cardinality(D(j))
  BY DEF DueCount
<1> HIDE DEF D
<1> QED BY <1>2, <1>4, <1>5

\* Pending entries keep their order.
LEMMA SlotIncreasing ==
    ASSUME NEW local, Len(local) \in Nat, NEW taken, NEW pending,
           NEW i \in Nat, NEW j \in Nat
    PROVE  /\ Slot(i, local, taken, pending) \in i..(i + Len(local))
           /\ i < j => Slot(i, local, taken, pending)
                           < Slot(j, local, taken, pending)
           /\ i <= j => Slot(i, local, taken, pending)
                           <= Slot(j, local, taken, pending)
<1>1. /\ DueCount(i, local, taken, pending) \in 0..Len(local)
      /\ DueCount(j, local, taken, pending) \in 0..Len(local)
  BY DueCountBounds
<1>2. i <= j => DueCount(i, local, taken, pending)
                    <= DueCount(j, local, taken, pending)
  BY DueCountBounds
<1> QED BY <1>1, <1>2 DEF Slot

\* PendingAmong counts a prefix of the pending queue.
LEMMA PendingAmongPrefix ==
    ASSUME NEW local, Len(local) \in Nat, NEW taken, NEW pending,
           Len(pending) \in Nat, NEW p \in Nat
    PROVE  LET c == PendingAmong(p, local, taken, pending) IN
           /\ c \in 0..Len(pending)
           /\ c # 0 => Slot(c, local, taken, pending) <= p
           /\ c # Len(pending) => Slot(c + 1, local, taken, pending) > p
<1> DEFINE S == {i \in 1..Len(pending) : Slot(i, local, taken, pending) <= p}
           c == Cardinality(S)
<1>1. \A m \in Nat : IsFiniteSet(1..m) /\ Cardinality(1..m) = m BY IntervalFinite
<1>2. S \in SUBSET (1..Len(pending)) OBVIOUS
<1>3. IsFiniteSet(S) /\ c \in 0..Len(pending) BY <1>1, <1>2, FS_Subset, FS_CardinalityType
<1>4. ASSUME c # 0 PROVE Slot(c, local, taken, pending) <= p
 <2>1. SUFFICES ASSUME Slot(c, local, taken, pending) > p PROVE FALSE BY <1>3, SlotIncreasing
 <2>2. \A i \in S : i <= c - 1 BY <1>3, <1>4, <2>1, SlotIncreasing
 <2>3. c - 1 \in Nat /\ S \in SUBSET (1..(c - 1)) BY <1>3, <1>4, <2>2
 <2> HIDE DEF S
 <2>4. Cardinality(S) <= c - 1 BY <1>1, <2>3, FS_Subset
 <2> QED BY <1>3, <2>4
<1>5. ASSUME c # Len(pending) PROVE Slot(c + 1, local, taken, pending) > p
 <2>1. SUFFICES ASSUME Slot(c + 1, local, taken, pending) <= p PROVE FALSE
  <3>1. c + 1 \in Nat BY <1>3
  <3>2. Slot(c + 1, local, taken, pending) \in (c + 1)..(c + 1 + Len(local))
    BY <3>1, SlotIncreasing
  <3> QED BY <3>1, <3>2
 <2>2. \A i \in 1..(c + 1) : Slot(i, local, taken, pending) <= p BY <1>3, <2>1, SlotIncreasing
 <2>3. c + 1 \in Nat /\ 1..(c + 1) \in SUBSET S
  <3>1. c + 1 \in Nat /\ c + 1 <= Len(pending) BY <1>3, <1>5
  <3>2. \A i \in 1..(c + 1) : i \in 1..Len(pending) BY <3>1
  <3> QED BY <3>1, <3>2, <2>2
 <2> HIDE DEF S
 <2>4. Cardinality(1..(c + 1)) <= Cardinality(S) BY <1>3, <2>3, FS_Subset
 <2> QED BY <1>1, <1>3, <2>3, <2>4
<1> QED BY <1>3, <1>4, <1>5 DEF PendingAmong

\* Merging two queues of ready items yields a queue of ready items that is as
\* long as both together.
LEMMA MergeType ==
    ASSUME NEW S, NEW local \in Seq(S), NEW taken,
           NEW pending \in Seq([item : S, mark : Nat])
    PROVE  /\ MergeGeneration(local, taken, pending) \in Seq(S)
           /\ Len(MergeGeneration(local, taken, pending))
                  = Len(local) + Len(pending)
<1> DEFINE n == Len(local) + Len(pending)
           c(p) == PendingAmong(p, local, taken, pending)
           m == MergeGeneration(local, taken, pending)
<1>1. Len(local) \in Nat /\ Len(pending) \in Nat /\ n \in Nat BY LenProperties
<1>2. ASSUME NEW p \in 1..n PROVE m[p] \in S
 <2>1. /\ c(p) \in 0..Len(pending)
       /\ c(p) # 0 => Slot(c(p), local, taken, pending) <= p
       /\ c(p) # Len(pending) => Slot(c(p) + 1, local, taken, pending) > p
   BY <1>1, PendingAmongPrefix
 <2>2. /\ Slot(c(p), local, taken, pending) \in c(p)..(c(p) + Len(local))
       /\ Slot(c(p) + 1, local, taken, pending)
              \in (c(p) + 1)..(c(p) + 1 + Len(local))
  <3>1. c(p) \in Nat /\ c(p) + 1 \in Nat BY <1>1, <2>1
  <3> HIDE DEF c
  <3> QED BY <1>1, <3>1, SlotIncreasing
 <2> HIDE DEF c
 <2>3. CASE c(p) # 0 /\ Slot(c(p), local, taken, pending) = p
  <3>1. m[p] = pending[c(p)].item BY <2>3 DEF MergeGeneration, c
  <3>2. c(p) \in 1..Len(pending) BY <1>1, <2>1, <2>3
  <3>3. pending[c(p)] \in [item : S, mark : Nat] BY <3>2, ElementOfSeq
  <3> QED BY <3>1, <3>3
 <2>4. CASE ~(c(p) # 0 /\ Slot(c(p), local, taken, pending) = p)
  <3>1. m[p] = local[p - c(p)] BY <2>4 DEF MergeGeneration, c
  <3>2. p - c(p) \in 1..Len(local) BY <1>1, <2>1, <2>2, <2>4
  <3> QED BY <3>1, <3>2, ElementOfSeq
 <2> QED BY <2>3, <2>4
<1>3. m \in [1..n -> S]
 <2>1. m = [p \in 1..n |-> m[p]] BY DEF MergeGeneration
 <2> QED BY <1>2, <2>1
<1>4. m = [p \in 1..n |-> m[p]] /\ DOMAIN m = 1..n BY DEF MergeGeneration
<1> HIDE DEF m
<1>5. m \in Seq(S) /\ Len(m) = n BY <1>1, <1>3, <1>4
<1> QED BY <1>5 DEF m

\* The off-thread item i is merged behind the i - 1 off-thread items queued
\* before it and behind exactly the local items that its mark, or an earlier
\* one, says were scheduled before: merge_ready_generation neither lets it
\* overtake an earlier call_soon nor delays it behind a later one.
THEOREM MergePlacesPending ==
    ASSUME NEW S, NEW local \in Seq(S), NEW taken,
           NEW pending \in Seq([item : S, mark : Nat]),
           NEW i \in 1..Len(pending)
    PROVE  MergeGeneration(local, taken, pending)
               [i + DueCount(i, local, taken, pending)] = pending[i].item
<1> DEFINE p == Slot(i, local, taken, pending)
           c == PendingAmong(p, local, taken, pending)
<1>1. Len(local) \in Nat /\ Len(pending) \in Nat BY LenProperties
<1>2. p \in i..(i + Len(local)) /\ p \in 1..(Len(local) + Len(pending)) BY <1>1, SlotIncreasing
<1>3. /\ c \in 0..Len(pending)
      /\ c # 0 => Slot(c, local, taken, pending) <= p
      /\ c # Len(pending) => Slot(c + 1, local, taken, pending) > p
  BY <1>1, <1>2, PendingAmongPrefix
<1>4. c = i
 <2> HIDE DEF c
 <2>1. ~(c < i)
  <3>1. SUFFICES ASSUME c < i PROVE FALSE OBVIOUS
  <3>2. c + 1 \in Nat /\ c + 1 <= i /\ c # Len(pending) BY <1>1, <1>3, <3>1
  <3>3. Slot(c + 1, local, taken, pending) <= p BY <1>1, <3>2, SlotIncreasing
  <3>4. Slot(c + 1, local, taken, pending) \in (c + 1)..(c + 1 + Len(local))
    BY <1>1, <3>2, SlotIncreasing
  <3> QED BY <1>1, <1>2, <1>3, <3>2, <3>3, <3>4
 <2>2. ~(i < c)
  <3>1. SUFFICES ASSUME i < c PROVE FALSE OBVIOUS
  <3>2. c \in Nat /\ c # 0 BY <1>3, <3>1
  <3>3. p < Slot(c, local, taken, pending) BY <1>1, <3>1, <3>2, SlotIncreasing
  <3>4. Slot(c, local, taken, pending) \in c..(c + Len(local)) BY <1>1, <3>2, SlotIncreasing
  <3> QED BY <1>1, <1>2, <1>3, <3>2, <3>3, <3>4
 <2> QED BY <1>1, <1>3, <2>1, <2>2
<1>5. MergeGeneration(local, taken, pending)[p] = pending[i].item
  BY <1>1, <1>2, <1>4 DEF MergeGeneration
<1> QED BY <1>5 DEF Slot

\* The places of a generation that no pending entry takes, and the local item
\* that takes one.
FreePlaces(local, taken, pending) ==
    {p \in 1..(Len(local) + Len(pending)) :
        \A i \in 1..Len(pending) : Slot(i, local, taken, pending) # p}
LocalAt(p, local, taken, pending) == p - PendingAmong(p, local, taken, pending)

\* The places that no pending entry takes are taken by the local items, each
\* by one and in their order.
LEMMA MergePlacesLocal ==
    ASSUME NEW S, NEW local \in Seq(S), NEW taken,
           NEW pending \in Seq([item : S, mark : Nat])
    PROVE  /\ \A p \in FreePlaces(local, taken, pending) :
                 /\ LocalAt(p, local, taken, pending) \in 1..Len(local)
                 /\ MergeGeneration(local, taken, pending)[p]
                        = local[LocalAt(p, local, taken, pending)]
           /\ \A p, q \in FreePlaces(local, taken, pending) :
                 p < q => LocalAt(p, local, taken, pending) < LocalAt(q, local, taken, pending)
           /\ {LocalAt(p, local, taken, pending) : p \in FreePlaces(local, taken, pending)}
                  = 1..Len(local)
<1> DEFINE n == Len(local) + Len(pending)
           slot(i) == Slot(i, local, taken, pending)
           due(i) == DueCount(i, local, taken, pending)
           Free == {p \in 1..n : \A i \in 1..Len(pending) : slot(i) # p}
           c(p) == PendingAmong(p, local, taken, pending)
<1>1. Len(local) \in Nat /\ Len(pending) \in Nat /\ n \in Nat BY LenProperties
<1>2. /\ \A i \in Nat : /\ slot(i) \in Nat /\ i <= slot(i) /\ slot(i) <= i + Len(local)
                        /\ slot(i) = i + due(i) /\ due(i) \in Nat
      /\ \A i, j \in Nat : i <= j => due(i) <= due(j)
 <2>1. ASSUME NEW i \in Nat
       PROVE  /\ slot(i) \in Nat /\ i <= slot(i) /\ slot(i) <= i + Len(local)
              /\ slot(i) = i + due(i) /\ due(i) \in Nat
  <3>1. due(i) \in 0..Len(local) BY <1>1, DueCountBounds
  <3>2. slot(i) = i + due(i) BY DEF Slot
  <3> HIDE DEF slot, due
  <3> QED BY <1>1, <3>1, <3>2
 <2>2. \A i, j \in Nat : i <= j => due(i) <= due(j) BY <1>1, DueCountBounds
 <2> QED BY <2>1, <2>2
<1>3. \A p \in Nat : /\ c(p) \in 0..Len(pending)
                     /\ c(p) # 0 => slot(c(p)) <= p
                     /\ c(p) # Len(pending) => slot(c(p) + 1) > p
  BY <1>1, PendingAmongPrefix
<1> HIDE DEF slot, due, c
<1>4. ASSUME NEW p \in Free
      PROVE  /\ p \in 1..n /\ c(p) \in 0..Len(pending)
             /\ c(p) # 0 => slot(c(p)) < p
             /\ c(p) # Len(pending) => slot(c(p) + 1) > p
 <2>1. p \in 1..n /\ p \in Nat BY <1>1
 <2>2. /\ c(p) \in 0..Len(pending) /\ (c(p) # 0 => slot(c(p)) <= p)
       /\ c(p) # Len(pending) => slot(c(p) + 1) > p
   BY <1>3, <2>1
 <2>3. c(p) # 0 => c(p) \in 1..Len(pending) /\ c(p) \in Nat BY <1>1, <2>2
 <2>4. c(p) # 0 => slot(c(p)) # p /\ slot(c(p)) \in Nat BY <1>2, <2>3
 <2> QED BY <2>1, <2>2, <2>4
<1>5. ASSUME NEW p \in Free
      PROVE  /\ p - c(p) \in 1..Len(local)
             /\ MergeGeneration(local, taken, pending)[p] = local[p - c(p)]
 <2>1. p - c(p) <= Len(local)
  <3>1. CASE c(p) = Len(pending) BY <1>1, <1>4, <3>1
  <3>2. CASE c(p) # Len(pending)
   <4>0. c(p) + 1 \in Nat BY <1>1, <1>4
   <4>1. slot(c(p) + 1) <= c(p) + 1 + Len(local) BY <1>2, <4>0, Zenon
   <4>2. slot(c(p) + 1) \in Nat BY <1>2, <4>0
   <4> QED BY <1>1, <1>4, <3>2, <4>1, <4>2
  <3> QED BY <3>1, <3>2
 <2>2. p - c(p) >= 1
  <3>1. CASE c(p) = 0 BY <1>1, <1>4, <3>1
  <3>2. CASE c(p) # 0
   <4>0. c(p) \in Nat BY <1>1, <1>4
   <4>1. slot(c(p)) \in Nat /\ c(p) <= slot(c(p)) BY <1>2, <4>0
   <4> QED BY <1>1, <1>4, <3>2, <4>0, <4>1
  <3> QED BY <3>1, <3>2
 <2>3. ~(c(p) # 0 /\ slot(c(p)) = p)
  <3>0. c(p) \in Nat BY <1>1, <1>4
  <3>1. slot(c(p)) \in Nat BY <1>2, <3>0
  <3> QED BY <1>1, <1>4, <3>0, <3>1
 <2>4. MergeGeneration(local, taken, pending)[p] = local[p - c(p)]
   BY <1>1, <1>4, <2>3 DEF MergeGeneration, c, slot
 <2> QED BY <1>1, <1>4, <2>1, <2>2, <2>4
<1>6. ASSUME NEW p \in Free, NEW q \in Free, p < q PROVE p - c(p) < q - c(q)
 <2>0. /\ p \in Nat /\ q \in Nat /\ c(p) \in Nat /\ c(q) \in Nat
       /\ c(p) <= Len(pending) /\ c(q) <= Len(pending)
   BY <1>1, <1>4
 <2>1. CASE c(q) <= c(p) BY <1>6, <2>0, <2>1
 <2>2. CASE c(p) < c(q)
  <3>1. c(q) # 0 /\ c(p) # Len(pending) /\ c(p) + 1 <= c(q) /\ c(p) + 1 \in Nat
    BY <1>1, <2>0, <2>2
  <3>2. slot(c(q)) < q /\ slot(c(p) + 1) > p BY <1>4, <3>1, Zenon
  <3>3. /\ slot(c(q)) = c(q) + due(c(q)) /\ slot(c(p) + 1) = c(p) + 1 + due(c(p) + 1)
        /\ due(c(p) + 1) <= due(c(q)) /\ due(c(q)) \in Nat /\ due(c(p) + 1) \in Nat
    BY <1>2, <2>0, <3>1
  <3> QED BY <2>0, <3>2, <3>3
 <2> QED BY <2>0, <2>1, <2>2
\* There are as many free places as local items, so every item has one.
<1> DEFINE Taken == {slot(i) : i \in 1..Len(pending)}
           f == [i \in 1..Len(pending) |-> slot(i)]
           g == [p \in Free |-> p - c(p)]
<1>7. /\ IsFiniteSet(1..Len(pending)) /\ Cardinality(1..Len(pending)) = Len(pending)
      /\ IsFiniteSet(1..Len(local)) /\ Cardinality(1..Len(local)) = Len(local)
      /\ IsFiniteSet(1..n) /\ Cardinality(1..n) = n
  BY <1>1, IntervalFinite
<1>8. IsFiniteSet(Taken) /\ Cardinality(Taken) = Len(pending)
 <2>1. f \in [1..Len(pending) -> Taken] OBVIOUS
 <2>2. \A a, b \in 1..Len(pending) : f[a] = f[b] => a = b
  <3>1. \A a, b \in 1..Len(pending) : a < b => slot(a) < slot(b)
   <4>1. ASSUME NEW a \in 1..Len(pending), NEW b \in 1..Len(pending), a < b
         PROVE  slot(a) < slot(b)
    <5>1. /\ a \in Nat /\ b \in Nat /\ due(a) \in Nat /\ due(b) \in Nat /\ due(a) <= due(b)
          /\ slot(a) = a + due(a) /\ slot(b) = b + due(b)
      BY <1>1, <1>2, <4>1
    <5> QED BY <4>1, <5>1
   <4> QED BY <4>1
  <3>2. \A a \in 1..Len(pending) : slot(a) \in Nat /\ a \in Nat
   <4>1. \A a \in 1..Len(pending) : a \in Nat BY <1>1
   <4> QED BY <1>2, <4>1
  <3>3. \A a, b \in 1..Len(pending) : slot(a) = slot(b) => ~(a < b) /\ ~(b < a) BY <3>1, <3>2
  <3>4. \A a, b \in 1..Len(pending) : ~(a < b) /\ ~(b < a) => a = b BY <3>2
  <3> QED BY <3>3, <3>4
 <2>3. \A t \in Taken : \E a \in 1..Len(pending) : f[a] = t OBVIOUS
 <2> HIDE DEF f, Taken
 <2> QED BY <1>7, <2>1, <2>2, <2>3, SameSize
<1>9. IsFiniteSet(Free) /\ Cardinality(Free) = Len(local)
 <2>1. Taken \subseteq 1..n
  <3>1. ASSUME NEW i \in 1..Len(pending) PROVE slot(i) \in 1..n
   <4>1. i \in Nat /\ i >= 1 /\ i <= Len(pending) BY <1>1
   <4>2. slot(i) \in Nat /\ i <= slot(i) /\ slot(i) <= i + Len(local) BY <1>2, <4>1
   <4> QED BY <1>1, <4>1, <4>2
  <3> QED BY <3>1
 <2>2. Free = (1..n) \ Taken /\ (1..n) \cap Taken = Taken BY <2>1
 <2> HIDE DEF Free, Taken
 <2>3. /\ IsFiniteSet((1..n) \ Taken)
       /\ Cardinality((1..n) \ Taken) = Cardinality(1..n) - Cardinality((1..n) \cap Taken)
   BY <1>7, FS_Difference
 <2>4. Cardinality(Free) = n - Len(pending) BY <1>7, <1>8, <2>2, <2>3
 <2> QED BY <1>1, <2>2, <2>3, <2>4
<1>10. \A k \in 1..Len(local) : \E p \in Free : p - c(p) = k
 <2>1. g \in [Free -> 1..Len(local)] BY <1>5
 <2>2. \A a, b \in Free : g[a] = g[b] => a = b
  <3>1. \A a, b \in Free : a \in Nat /\ b \in Nat /\ g[a] \in Nat /\ g[b] \in Nat
    BY <1>1, <1>4, <1>5
  <3>2. \A a, b \in Free : a < b => g[a] < g[b] BY <1>6
  <3> HIDE DEF g, Free
  <3>3. \A a, b \in Free : g[a] = g[b] => ~(a < b) /\ ~(b < a) BY <3>1, <3>2
  <3> QED BY <3>1, <3>3
 <2>3. g \in Injection(Free, 1..Len(local)) BY <2>1, <2>2 DEF Injection, IsInjective
 <2>4. g \in Surjection(Free, 1..Len(local)) BY <1>7, <1>9, <2>3, FS_Injection
 <2> QED BY <2>4 DEF Surjection
<1>11. Free = FreePlaces(local, taken, pending) /\ \A p : p - c(p) = LocalAt(p, local, taken, pending)
  BY DEF c, slot, FreePlaces, LocalAt
<1> HIDE DEF Free
<1>12. {LocalAt(p, local, taken, pending) : p \in Free} = 1..Len(local) BY <1>5, <1>10, <1>11
<1> QED BY <1>5, <1>6, <1>11, <1>12

\* A generation holds every item as often as the two queues together: the merge
\* loses none and runs none twice.
THEOREM MergeKeepsAll ==
    ASSUME NEW S, NEW local \in Seq(S), NEW taken,
           NEW pending \in Seq([item : S, mark : Nat]), NEW C
    PROVE  CountIn(MergeGeneration(local, taken, pending), C)
               = CountIn(local, C) + CountIn(Items(pending), C)
<1>m. /\ MergeGeneration(local, taken, pending) \in Seq(S)
      /\ Len(MergeGeneration(local, taken, pending)) = Len(local) + Len(pending)
  BY MergeType, SMTT(40)
<1>t. MergeGeneration(local, taken, pending) \in Seq(S) BY <1>m
<1>u. Len(MergeGeneration(local, taken, pending)) = Len(local) + Len(pending) BY <1>m
<1>e. \A i \in 1..Len(pending) : pending[i] \in [item : S, mark : Nat] BY ElementOfSeq
<1>l. \A p \in FreePlaces(local, taken, pending) :
         /\ LocalAt(p, local, taken, pending) \in 1..Len(local)
         /\ MergeGeneration(local, taken, pending)[p] = local[LocalAt(p, local, taken, pending)]
  BY MergePlacesLocal
<1>o. \A p, q \in FreePlaces(local, taken, pending) :
         p < q => LocalAt(p, local, taken, pending) < LocalAt(q, local, taken, pending)
  BY MergePlacesLocal, Zenon
<1>k. {LocalAt(p, local, taken, pending) : p \in FreePlaces(local, taken, pending)} = 1..Len(local)
  BY MergePlacesLocal
<1> DEFINE n == Len(local) + Len(pending)
           m == MergeGeneration(local, taken, pending)
           slot(i) == Slot(i, local, taken, pending)
           Free == FreePlaces(local, taken, pending)
           at(p) == LocalAt(p, local, taken, pending)
           P == Spots(Items(pending), C)
           L == Spots(local, C)
           A == {slot(i) : i \in P}
           B == {p \in Free : m[p] \in C}
           f == [i \in P |-> slot(i)]
           g == [p \in B |-> at(p)]
<1>1. Len(local) \in Nat /\ Len(pending) \in Nat /\ n \in Nat BY LenProperties
<1>2. m \in Seq(S) /\ Len(m) = n BY <1>t, <1>u
<1>3. Items(pending) \in Seq(S) /\ Len(Items(pending)) = Len(pending)
 <2>1. \A i \in 1..Len(pending) : pending[i].item \in S BY <1>e
 <2> QED BY <1>1, <2>1 DEF Items
<1>4. \A i \in 1..Len(pending) : /\ slot(i) \in 1..n /\ m[slot(i)] = pending[i].item
                                 /\ Items(pending)[i] = pending[i].item
 <2>1. ASSUME NEW i \in 1..Len(pending) PROVE slot(i) \in 1..n /\ m[slot(i)] = pending[i].item
  <3>1. slot(i) \in i..(i + Len(local)) BY <1>1, SlotIncreasing
  <3>2. m[slot(i)] = pending[i].item BY MergePlacesPending DEF Slot
  <3> QED BY <1>1, <3>1, <3>2
 <2> QED BY <2>1 DEF Items
<1>5. \A i, j \in 1..Len(pending) : slot(i) = slot(j) => i = j
 <2>1. \A i, j \in Nat : /\ slot(i) \in i..(i + Len(local))
                         /\ i < j => slot(i) < slot(j)
   BY <1>1, SlotIncreasing
 <2>2. \A i \in 1..Len(pending) : i \in Nat /\ slot(i) \in Nat BY <1>1, <2>1
 <2> HIDE DEF slot
 <2>3. \A i, j \in 1..Len(pending) : slot(i) = slot(j) => ~(i < j) /\ ~(j < i)
  <3>1. ASSUME NEW i \in 1..Len(pending), NEW j \in 1..Len(pending), i < j PROVE slot(i) # slot(j)
   <4>1. slot(i) < slot(j) /\ slot(i) \in Nat /\ slot(j) \in Nat BY <2>1, <2>2, <3>1
   <4> QED BY <4>1
  <3> QED BY <3>1
 <2> QED BY <2>2, <2>3
<1>6. /\ \A p \in Free : at(p) \in 1..Len(local) /\ m[p] = local[at(p)]
      /\ \A p, q \in Free : p < q => at(p) < at(q)
      /\ \A k \in 1..Len(local) : \E p \in Free : at(p) = k
  BY <1>l, <1>o, <1>k, Zenon
<1>f. /\ \A p \in 1..n : p \notin Free => \E i \in 1..Len(pending) : slot(i) = p
      /\ \A p \in Free : p \in 1..n /\ \A i \in 1..Len(pending) : slot(i) # p
  BY DEF FreePlaces
<1> HIDE DEF slot, at, m, Free
<1>7. Spots(m, C) = A \union B /\ A \cap B = {}
 <2>1. ASSUME NEW p \in 1..n, m[p] \in C PROVE p \in A \union B
  <3>1. CASE p \in Free BY <2>1, <3>1
  <3>2. CASE p \notin Free
   <4>1. PICK i \in 1..Len(pending) : slot(i) = p BY <1>f, <3>2
   <4>2. i \in P BY <1>3, <1>4, <2>1, <4>1 DEF Spots
   <4> QED BY <4>1, <4>2
  <3> QED BY <3>1, <3>2
 <2>2. \A i \in P : slot(i) \in 1..n /\ m[slot(i)] \in C /\ i \in 1..Len(pending)
   BY <1>3, <1>4 DEF Spots
 <2>3. \A p \in Spots(m, C) : p \in A \union B BY <1>2, <2>1 DEF Spots
 <2>4. \A p \in A \union B : p \in Spots(m, C) BY <1>f, <1>2, <2>2 DEF Spots
 <2>5. \A p \in A : p \notin B BY <1>f, <2>2
 <2> HIDE DEF A, B
 <2> QED BY <2>3, <2>4, <2>5
<1>8. /\ IsFiniteSet(P) /\ IsFiniteSet(L) /\ CountIn(local, C) = Cardinality(L)
      /\ CountIn(Items(pending), C) = Cardinality(P)
  BY <1>3, CountType DEF CountIn
<1>9. IsFiniteSet(A) /\ Cardinality(A) = Cardinality(P)
 <2>1. f \in [P -> A] /\ \A t \in A : \E a \in P : f[a] = t OBVIOUS
 <2>2. \A a, b \in P : f[a] = f[b] => a = b BY <1>3, <1>5 DEF Spots
 <2> HIDE DEF f, A, P
 <2> QED BY <1>8, <2>1, <2>2, SameSize
<1>10. IsFiniteSet(B) /\ Cardinality(L) = Cardinality(B)
 <2>0. IsFiniteSet(B)
  <3>1. B \in SUBSET Spots(m, C) BY <1>7
  <3>2. IsFiniteSet(Spots(m, C)) BY <1>2, CountType
  <3> QED BY <3>1, <3>2, FS_Subset
 <2>1. g \in [B -> L] BY <1>6 DEF Spots
 <2>2. \A a, b \in B : g[a] = g[b] => a = b
  <3>1. \A a \in B : a \in Nat /\ g[a] \in Nat BY <1>1, <1>f, <1>6
  <3>2. \A a, b \in B : a < b => g[a] < g[b] BY <1>6
  <3> HIDE DEF g, B
  <3>3. \A a, b \in B : g[a] = g[b] => ~(a < b) /\ ~(b < a) BY <3>1, <3>2
  <3> QED BY <3>1, <3>3
 <2>3. \A t \in L : \E a \in B : g[a] = t
  <3>1. ASSUME NEW t \in L PROVE \E a \in B : g[a] = t
   <4>1. PICK p \in Free : at(p) = t BY <1>6 DEF Spots
   <4>2. p \in B BY <1>6, <4>1 DEF Spots
   <4> QED BY <4>1, <4>2
  <3> QED BY <3>1
 <2> HIDE DEF g, B, L
 <2> QED BY <2>0, <2>1, <2>2, <2>3, SameSize
<1> HIDE DEF A, B, P, L
<1>11. /\ A \cap B = {} /\ IsFiniteSet(A \union B)
       /\ Cardinality(A \union B) = Cardinality(A) + Cardinality(B) - Cardinality(A \cap B)
  BY <1>7, <1>9, <1>10, FS_Union
<1>12. Cardinality(A \cap B) = 0 /\ Cardinality(A) \in Nat /\ Cardinality(B) \in Nat
  BY <1>9, <1>10, <1>11, FS_EmptySet, FS_CardinalityType
<1>13. CountIn(m, C) = Cardinality(A \union B) BY <1>7 DEF CountIn
<1>14. CountIn(m, C) = CountIn(local, C) + CountIn(Items(pending), C)
  BY <1>8, <1>9, <1>10, <1>11, <1>12, <1>13
<1> QED BY <1>14 DEF m

\* The merged generation respects scheduling order: an item that is only in
\* the pending queue comes behind every item that is ahead of it there or that
\* was enqueued locally before it (merge_ready_generation).
THEOREM MergeKeepsOrder ==
    ASSUME NEW S, NEW local \in Seq(S), NEW taken \in Nat,
           NEW pending \in Seq([item : S, mark : Nat]), NEW x, NEW y,
           \A k \in 1..Len(local) : local[k] # y,
           \A j \in 1..Len(pending) : pending[j].item = y =>
              /\ \A i \in 1..Len(pending) : pending[i].item = x => i < j
              /\ \A k \in 1..Len(local) : local[k] = x => DueBefore(k, j, taken, pending)
    PROVE  \A p, q \in 1..Len(MergeGeneration(local, taken, pending)) :
              MergeGeneration(local, taken, pending)[p] = y
                  /\ MergeGeneration(local, taken, pending)[q] = x => q < p
<1>m. /\ MergeGeneration(local, taken, pending) \in Seq(S)
      /\ Len(MergeGeneration(local, taken, pending)) = Len(local) + Len(pending)
  BY MergeType, SMTT(40)
<1>l. \A r \in FreePlaces(local, taken, pending) :
         /\ LocalAt(r, local, taken, pending) \in 1..Len(local)
         /\ MergeGeneration(local, taken, pending)[r] = local[LocalAt(r, local, taken, pending)]
  BY MergePlacesLocal
<1> DEFINE m == MergeGeneration(local, taken, pending)
           slot(i) == Slot(i, local, taken, pending)
           due(i) == DueCount(i, local, taken, pending)
           c(p) == PendingAmong(p, local, taken, pending)
<1>1. Len(local) \in Nat /\ Len(pending) \in Nat /\ Len(m) = Len(local) + Len(pending)
  BY <1>m, LenProperties DEF m
<1>2. \A i \in 1..Len(pending) :
         slot(i) \in Nat /\ slot(i) = i + due(i) /\ due(i) \in Nat /\ m[slot(i)] = pending[i].item
 <2>1. ASSUME NEW i \in 1..Len(pending)
       PROVE  slot(i) = i + due(i) /\ due(i) \in Nat /\ m[slot(i)] = pending[i].item /\ i \in Nat
   BY <1>1, DueCountBounds, MergePlacesPending DEF Slot
 <2> HIDE DEF slot, due
 <2> QED BY <2>1
<1>3. \A i, j \in 1..Len(pending) : (i < j => slot(i) < slot(j)) /\ (i <= j => due(i) <= due(j))
  BY <1>1, SlotIncreasing, DueCountBounds
<1>4. \A p \in Nat : /\ c(p) \in 0..Len(pending)
                     /\ c(p) # 0 => slot(c(p)) <= p
                     /\ c(p) # Len(pending) => slot(c(p) + 1) > p
  BY <1>1, PendingAmongPrefix
<1>5. ASSUME NEW p \in 1..Len(m), \A i \in 1..Len(pending) : slot(i) # p
      PROVE  p - c(p) \in 1..Len(local) /\ m[p] = local[p - c(p)]
 <2>1. p \in FreePlaces(local, taken, pending) BY <1>1, <1>5 DEF FreePlaces
 <2> QED BY <1>l, <2>1 DEF LocalAt
<1>6. ASSUME NEW k \in 1..Len(local), NEW j \in 1..Len(pending), DueBefore(k, j, taken, pending)
      PROVE  k <= due(j)
  <2> DEFINE D == {h \in 1..Len(local) : DueBefore(h, j, taken, pending)}
 <2>1. PICK i \in 1..j : taken + k <= pending[i].mark BY <1>6 DEF DueBefore
 <2>i. i \in 1..Len(pending) BY <1>1, <2>1
 <2>2. i \in 1..Len(pending) /\ pending[i] \in [item : S, mark : Nat] BY <2>i, ElementOfSeq
 <2>3. \A h \in 1..k : h \in 1..Len(local) /\ taken + h <= pending[i].mark BY <1>1, <2>1, <2>2
 <2>4. 1..k \in SUBSET D BY <2>3 DEF DueBefore
 <2>5. D \in SUBSET (1..Len(local)) /\ due(j) = Cardinality(D) BY DEF DueCount
 <2> HIDE DEF D
 <2>k. k \in Nat BY <1>1
 <2>6. k \in Nat /\ IsFiniteSet(1..Len(local)) /\ Cardinality(1..k) = k
   BY <1>1, <2>k, IntervalFinite
 <2>8. IsFiniteSet(D) BY <2>5, <2>6, FS_Subset
 <2>7. Cardinality(1..k) <= Cardinality(D) BY <2>4, <2>8, FS_Subset
 <2> QED BY <2>5, <2>6, <2>7
<1> HIDE DEF m, slot, due, c
<1>7. ASSUME NEW p \in 1..Len(m), NEW q \in 1..Len(m), m[p] = y, m[q] = x PROVE q < p
 <2>1. PICK j \in 1..Len(pending) : slot(j) = p BY <1>5, <1>7
 <2>2. pending[j].item = y BY <1>2, <1>7, <2>1
 <2>3. CASE \E i \in 1..Len(pending) : slot(i) = q
  <3>1. PICK i \in 1..Len(pending) : slot(i) = q BY <2>3
  <3>2. i < j BY <1>2, <1>7, <2>2, <3>1
  <3> QED BY <1>3, <2>1, <3>1, <3>2
 <2>4. CASE \A i \in 1..Len(pending) : slot(i) # q
  <3>1. q - c(q) \in 1..Len(local) /\ local[q - c(q)] = x BY <1>5, <1>7, <2>4
  <3>2. q - c(q) <= due(j) BY <1>6, <2>2, <3>1
  <3>3. SUFFICES ASSUME p < q PROVE FALSE BY <1>1, <2>1, <2>4
  <3>4. q \in Nat /\ j \in Nat /\ j \in 1..Len(pending) /\ slot(j) \in Nat /\ due(j) \in Nat
    BY <1>1, <1>2
  <3>5. PICK n \in 0..Len(pending) : /\ n = c(q) /\ (n # 0 => slot(n) <= q)
                                     /\ n # Len(pending) => slot(n + 1) > q
    BY <1>4, <3>4
  <3>6. j <= n
   <4>1. SUFFICES ASSUME n < j PROVE FALSE BY <3>4
   <4>2. n + 1 \in 1..Len(pending) /\ n + 1 <= j /\ n # Len(pending) BY <1>1, <3>4, <4>1
   <4>3. (n + 1 = j \/ slot(n + 1) < slot(j)) /\ slot(n + 1) \in Nat /\ slot(n + 1) > q
     BY <1>2, <1>3, <3>4, <3>5, <4>2
   <4> QED BY <2>1, <3>3, <3>4, <4>3
  <3>7. n \in 1..Len(pending) /\ n # 0 BY <1>1, <3>4, <3>6
  <3>8. /\ slot(n) # q /\ due(j) <= due(n) /\ slot(n) = n + due(n) /\ due(n) \in Nat
    BY <1>2, <1>3, <2>4, <3>4, <3>6, <3>7
  <3>n. n \in Nat /\ n = c(q) /\ slot(n) <= q BY <1>1, <3>5, <3>7
  <3>c. q - n <= due(j) BY <3>2, <3>n, Zenon
  <3>9. \E a, b, e \in Nat : /\ a = due(j) /\ b = due(n) /\ e = slot(n)
                            /\ e # q /\ a <= b /\ e = n + b /\ e <= q /\ q - n <= a
    BY <3>4, <3>c, <3>n, <3>8
  <3> QED BY <3>4, <3>9, <3>n
 <2> QED BY <2>3, <2>4
<1> QED BY <1>7 DEF m

\* Each element of g is one of two queues' items.
FromQueues(g, local, pending) ==
    \A p \in 1..Len(g) : \/ \E k \in 1..Len(local) : g[p] = local[k]
                         \/ \E i \in 1..Len(pending) : g[p] = pending[i].item

\* A generation holds only items of the two queues.
LEMMA MergeElements ==
    ASSUME NEW S, NEW local \in Seq(S), NEW taken, NEW pending \in Seq([item : S, mark : Nat])
    PROVE  FromQueues(MergeGeneration(local, taken, pending), local, pending)
<1> SUFFICES ASSUME NEW p \in 1..Len(MergeGeneration(local, taken, pending))
             PROVE  \/ \E k \in 1..Len(local) : MergeGeneration(local, taken, pending)[p] = local[k]
                    \/ \E i \in 1..Len(pending) : MergeGeneration(local, taken, pending)[p] = pending[i].item
  BY Zenon DEF FromQueues
<1>m. /\ MergeGeneration(local, taken, pending) \in Seq(S)
      /\ Len(MergeGeneration(local, taken, pending)) = Len(local) + Len(pending)
  BY MergeType, SMTT(40)
<1>0. p \in 1..(Len(local) + Len(pending)) BY <1>m
<1>1. \A r \in FreePlaces(local, taken, pending) :
         /\ LocalAt(r, local, taken, pending) \in 1..Len(local)
         /\ MergeGeneration(local, taken, pending)[r] = local[LocalAt(r, local, taken, pending)]
  BY MergePlacesLocal
<1>2. CASE p \in FreePlaces(local, taken, pending) BY <1>1, <1>2
<1>3. ASSUME NEW i \in 1..Len(pending), Slot(i, local, taken, pending) = p
      PROVE  MergeGeneration(local, taken, pending)[p] = pending[i].item
 <2>1. MergeGeneration(local, taken, pending)[i + DueCount(i, local, taken, pending)] = pending[i].item
   BY MergePlacesPending, SMTT(40)
 <2> QED BY <1>3, <2>1 DEF Slot
<1> QED BY <1>0, <1>2, <1>3 DEF FreePlaces

-----------------------------------------------------------------------------
(* The engine.                                                             *)

USE EngineAssumption
USE DEF state_vars, shared_vars, loop_vars, disp_vars, call_vars, hist_vars,
        OnLoop, Set, MayCall
USE DEF schedule_callback, schedule_stop, schedule_ready_handle, try_enqueue_active_ready, signal,
    signal_wake, count_channel_handle, send_remote_command, wake_dispatcher, dispatcher_poll,
    drain_commands_empty, handle_ready, handle_enter_run, handle_finish_run, handle_close,
    finish_run_reset, finish_run_ack, dispatch_ready_batch, forward_ready_batch,
    channel_handles_forwarded, dispatcher_signal, dispatcher_wake, activate_ready_dispatch,
    run_forever, publish_ready_dispatch, send_enter_run, start_turn, end_turn, start_generation,
    run_stop_item, execute_ready, execute_ready_call_soon, execute_ready_stop,
    execute_ready_raises, execute_ready_handler_raises, end_run, check_signals_raises,
    poll_once, start_park, wait_for_wake_check, wait_for_wake_register, wait_for_wake_recheck,
    wake_up, park_deadline, parked_io, keep_leftover, retire_ready_dispatch, send_finish_run,
    finish_acknowledged, reset_run_state_after_finish_error, close, send_close,
    join_runtime_thread, RestOfTurn, Parked, EndOfRun, ClearLocalQueue, EnqueueLocal,
    BeginScheduling, SendFromLoop, CompleteIo, WakeLoopTask, TakeStop, ForwardThen, Receive,
    Execute, CountItem, HandleCount, TakeBackRun

-----------------------------------------------------------------------------
\* Facts the steps share.

\* The items that threads put on queues are ready items.
LEMMA ItemFacts ==
    /\ StopItem \in ReadyItem
    /\ Callback \subseteq ReadyItem
    /\ Callers \subseteq Sources /\ "loop" \in Callers /\ "io" \in Sources
    /\ HistoryType => \A s \in Sources : NextOf(s) \in Callback
    /\ \A x \in ReadyItem : x # StopItem => x \in Callback
  BY DEF ReadyItem, Callers, Sources, HistoryType, NextOf, Callback

\* The history grows by well-formed callbacks.
LEMMA BeginFacts ==
    ASSUME HistoryType, NEW s \in Sources
    PROVE  /\ Waiting \subseteq Callback
           /\ scheduled_before \union (Waiting \X {NextOf(s)})
                  \subseteq Callback \X Callback
           /\ [posted EXCEPT ![s] = @ + 1] \in [Sources -> Nat]
<1>1. Waiting \subseteq Callback BY DEF HistoryType, Waiting
<1>2. NextOf(s) \in Callback BY ItemFacts
<1>3. posted \in [Sources -> Nat] /\ scheduled_before \subseteq Callback \X Callback
  BY DEF HistoryType
<1> QED BY <1>1, <1>2, <1>3

\* The command at the head of the channel carries what its kind requires.
LEMMA HeadFacts ==
    ASSUME command_channel \in Seq(Command), command_channel # <<>>
    PROVE  LET c == Head(command_channel) IN
           /\ Tail(command_channel) \in Seq(Command)
           /\ c.op = "ready" => c.item \in ReadyItem
           /\ c.op = "enter" => c.run \in Runs /\ c.mark \in Nat
           /\ c.op = "finish" => c.run \in Runs
<1>1. Head(command_channel) \in Command /\ Tail(command_channel) \in Seq(Command)
  BY HeadTailProperties
<1> QED BY <1>1 DEF Command

\* Taking the items off a queue, and stamping items, keep them well formed.
LEMMA ItemsType ==
    ASSUME NEW S, NEW q \in Seq([item : S, mark : Nat])
    PROVE  Items(q) \in Seq(S)
<1>1. Len(q) \in Nat /\ \A i \in 1..Len(q) : q[i] \in [item : S, mark : Nat] BY LenProperties
<1> QED BY <1>1 DEF Items

LEMMA StampedType ==
    ASSUME NEW S, NEW items \in Seq(S), NEW m \in Nat
    PROVE  Stamped(items, m) \in Seq([item : S, mark : Nat])
  BY DEF Stamped

LEMMA ExtendType ==
    ASSUME NEW S, NEW q \in Seq([item : S, mark : Nat]),
           NEW items \in Seq(S), NEW m \in Nat
    PROVE  PendingExtend(q, items, m) \in Seq([item : S, mark : Nat])
  BY StampedType, ConcatProperties DEF PendingExtend

\* What finish_run takes back from the active run's queue are ready items.
LEMMA TakenBackType ==
    ASSUME TypeOK, active_run # 0
    PROVE  Items(pending_ready[active_run]) \in Seq(ReadyItem)
<1>1. active_run \in Runs BY DEF TypeOK, DispatcherType, Runs
<1>2. pending_ready[active_run] \in Seq(QueueEntry) BY <1>1 DEF TypeOK, PendingType
<1> QED BY <1>2, ItemsType DEF QueueEntry

\* What is on a channel after a receive or a send.
LEMMA TailElements ==
    ASSUME NEW S, NEW s \in Seq(S), s # <<>>
    PROVE  \A i \in 1..Len(Tail(s)) : \E j \in 1..Len(s) : s[j] = Tail(s)[i]
<1>1. Len(s) \in Nat /\ Len(Tail(s)) = Len(s) - 1 BY HeadTailProperties, LenProperties
<1>2. \A i \in 1..Len(Tail(s)) : i + 1 \in 1..Len(s) /\ Tail(s)[i] = s[i + 1]
  BY <1>1, HeadTailProperties
<1> QED BY <1>2

LEMMA AppendElements ==
    ASSUME NEW S, NEW s \in Seq(S), NEW x
    PROVE  \A i \in 1..Len(Append(s, x)) :
               \/ \E j \in 1..Len(s) : s[j] = Append(s, x)[i]
               \/ Append(s, x)[i] = x
  OBVIOUS

\* finish_run empties at most the active run's queue.
LEMMA TakenBackEmpty ==
    ASSUME TypeOK, TakeBackRun
    PROVE  \A r \in Runs : pending_ready'[r] \in {pending_ready[r], <<>>}
  BY DEF TypeOK, PendingType, DispatcherType, Runs

\* Replacing one run's queue keeps every queue well formed.
LEMMA PendingUpdate ==
    ASSUME PendingType, NEW r \in Runs, NEW q \in Seq(QueueEntry)
    PROVE  [pending_ready EXCEPT ![r] = q] \in [Runs -> Seq(QueueEntry)]
  BY DEF PendingType

\* The budget bounds what one turn processes.
LEMMA CountFacts ==
    ASSUME LoopType, loop_pc = "drain", NEW is_stopping, CountItem(is_stopping)
    PROVE  /\ processed_this_turn' \in 0..Budget
           /\ loop_pc' = "drain" => processed_this_turn' < Budget
           /\ loop_pc' \in {"drain", "after"}
  BY SMTT(30) DEF LoopType

\* A wake leaves the two flags Boolean.
LEMMA WakeFacts ==
    ASSUME FlagType, LoopType, WakeLoopTask
    PROVE  loop_woken' \in BOOLEAN /\ ready_waker' \in BOOLEAN
  BY Zenon DEF FlagType, LoopType
-----------------------------------------------------------------------------
\* A call that has not handed its callback over.
Posting == {"gate", "active", "count", "send"}

\* What a step may record.
Begins(t) ==
    /\ MayCall(t) /\ BeginScheduling(t) /\ UNCHANGED <<accepted, executed>>
    /\ UNCHANGED <<pending_ready, disp_batch, ready_batch, local_ready, command_channel>>
    /\ call_item' = [call_item EXCEPT ![t] = NextOf(t)] /\ Set(t, "gate")

Accepts(t) ==
    /\ call_pc[t] \in {"active", "send"} /\ accepted' = accepted \union ({call_item[t]} \ {StopItem})
    /\ UNCHANGED <<posted, executed, scheduled_before, call_item>>
    /\ \E p \in {"signal", "wake_dispatcher"} : Set(t, p)

EnqueuesIo ==
    EnqueueLocal("io") /\ UNCHANGED <<executed, call_pc, call_item>>

RunsHead ==
    /\ Execute /\ UNCHANGED <<posted, accepted>>
    /\ scheduled_before' = Forget(Head(ready_batch), scheduled_before) \/ (scheduled_before' = {} /\ loop_pc' = "returned_early")

RunsAndSchedules ==
    /\ Execute /\ posted' = [posted EXCEPT !["loop"] = @ + 1]
    /\ accepted' = accepted \union {NextOf("loop")}
    /\ scheduled_before' = Forget(Head(ready_batch),
                                  scheduled_before \union (Waiting \X {NextOf("loop")}))

GoesOn ==
    /\ UNCHANGED <<posted, accepted, executed, scheduled_before>>
    /\ \A t \in Callers :
          \/ call_item'[t] = StopItem
          \/ /\ call_item'[t] = call_item[t]
             /\ call_pc'[t] \in Posting =>
                   call_pc[t] \in Posting

LEMMA Recorded ==
    ASSUME TypeOK, Next
    PROVE  \/ GoesOn \/ EnqueuesIo \/ RunsHead \/ RunsAndSchedules
           \/ \E t \in Callers : Begins(t) \/ Accepts(t)
<1>c. call_pc \in [Callers -> CallPcs] /\ call_item \in [Callers -> ReadyItem] /\ "loop" \in Callers
  BY DEF TypeOK, CallerType, Callers
<1>u. \A t \in Callers : \A p : (p \in Posting => call_pc[t] \in Posting) /\ call_pc' = [call_pc EXCEPT ![t] = p] =>
         \A u \in Callers : call_pc'[u] \in Posting => call_pc[u] \in Posting
  BY <1>c
<1>1. ASSUME UNCHANGED <<posted, accepted, executed, scheduled_before, call_item>>,
             \/ UNCHANGED call_pc
             \/ \E t \in Callers : \E p : (p \in Posting => call_pc[t] \in Posting) /\ call_pc' = [call_pc EXCEPT ![t] = p]
      PROVE  GoesOn
 <2>1. \A u \in Callers : call_pc'[u] \in Posting => call_pc[u] \in Posting BY <1>u, <1>1
 <2> QED BY <1>1, <2>1 DEF GoesOn
<1>2. ASSUME NEW t \in Callers, schedule_callback(t) PROVE Begins(t) BY <1>2 DEF Begins
<1>3. ASSUME NEW t \in Callers, schedule_stop(t) PROVE GoesOn BY <1>3, <1>c DEF GoesOn
<1>4. ASSUME NEW t \in Callers, try_enqueue_active_ready(t) PROVE GoesOn \/ Accepts(t)
  BY <1>1, <1>4 DEF Accepts, Posting
<1>5. ASSUME NEW t \in Callers, send_remote_command(t) PROVE GoesOn \/ Accepts(t)
  BY <1>1, <1>5 DEF Accepts, Posting
<1>6. CASE start_turn \/ poll_once \/ parked_io BY <1>1, <1>6 DEF EnqueuesIo
<1>7. CASE execute_ready \/ execute_ready_stop \/ execute_ready_raises \/ execute_ready_handler_raises
  BY <1>7 DEF RunsHead
<1>8. CASE execute_ready_call_soon BY <1>8 DEF RunsAndSchedules
<1>9. CASE send_enter_run \/ send_finish_run \/ send_close BY <1>1, <1>9, <1>c DEF Posting
<1>10. CASE LoopStep
 <2> HIDE DEF Execute
 <2> QED BY <1>1, <1>6, <1>7, <1>8, <1>9, <1>10, ZenonT(40) DEF LoopStep
<1>11. CASE DispatcherStep BY <1>1, <1>11, Zenon DEF DispatcherStep
<1>12. CASE Environment BY <1>1, <1>2, <1>3, <1>6, <1>12, Zenon DEF Environment
<1>13. ASSUME NEW t \in Callers, CallerStep(t) PROVE GoesOn \/ Accepts(t)
 <2>1. CASE schedule_ready_handle(t) \/ signal(t) \/ signal_wake(t) \/ count_channel_handle(t) \/ wake_dispatcher(t)
   BY <1>1, <2>1 DEF Posting
 <2> QED BY <1>4, <1>5, <1>13, <2>1, Zenon DEF CallerStep
<1> QED BY <1>10, <1>11, <1>12, <1>13 DEF Next

-----------------------------------------------------------------------------
\* Type correctness, one lemma for each group of variables.

\* The loop state stays Boolean.
LEMMA StepStateType ==
    ASSUME StateType, Next
    PROVE  StateType'
<1>1. CASE UNCHANGED <<state_vars>> BY <1>1 DEF StateType
<1>2. CASE finish_run_reset BY <1>2 DEF StateType
<1>3. CASE handle_close BY <1>3 DEF StateType
<1>4. CASE run_forever BY <1>4 DEF StateType
<1>5. CASE run_stop_item BY <1>5 DEF StateType
<1>6. CASE reset_run_state_after_finish_error BY <1>6 DEF StateType
<1>7. CASE close BY <1>7 DEF StateType
<1> QED
  BY <1>1, <1>2, <1>3, <1>4, <1>5, <1>6, <1>7 DEF Next, CallerStep, DispatcherStep, LoopStep,
    Environment, PendingPush

\* The dispatch cell names no run or one that began.
LEMMA StepDispatchType ==
    ASSUME DispatchType, LoopType, Next
    PROVE  DispatchType'
<1>1. CASE UNCHANGED <<active_ready_dispatch>> BY <1>1 DEF DispatchType
<1>2. CASE activate_ready_dispatch BY <1>2 DEF DispatchType, LoopType
<1>3. CASE publish_ready_dispatch BY <1>3 DEF DispatchType, LoopType
<1>4. CASE retire_ready_dispatch BY <1>4, SMTT(30) DEF DispatchType, LoopType
<1> QED
  BY <1>1, <1>2, <1>3, <1>4 DEF Next, CallerStep, DispatcherStep, LoopStep, Environment,
    PendingPush

\* Every run's queue holds stamped ready items.
LEMMA StepPendingType ==
    ASSUME TypeOK, RunsConsistent, Next
    PROVE  PendingType'
<1>1. CASE UNCHANGED <<pending_ready>> BY <1>1 DEF TypeOK, PendingType
<1>2. ASSUME NEW t \in Callers, try_enqueue_active_ready(t) PROVE PendingType'
 <2>1. CASE active_ready_dispatch.run # 0 /\ active_ready_dispatch.accepting
   <3> DEFINE r == active_ready_dispatch.run
              q == PendingPush(pending_ready[r], call_item[t], local_enqueues)
  <3>1. r \in Runs /\ pending_ready[r] \in Seq(QueueEntry)
    BY <2>1 DEF TypeOK, DispatchType, PendingType, Runs
  <3>2. call_item[t] \in ReadyItem /\ local_enqueues \in Nat BY DEF TypeOK, CallerType, FlagType
  <3>3. q \in Seq(QueueEntry) BY <3>1, <3>2 DEF PendingPush, QueueEntry
  <3>4. pending_ready' = [pending_ready EXCEPT ![r] = q] BY <1>2, <2>1
  <3> QED BY <3>1, <3>3, <3>4, PendingUpdate DEF TypeOK, PendingType
 <2>2. CASE ~(active_ready_dispatch.run # 0 /\ active_ready_dispatch.accepting)
   BY <1>2, <2>2 DEF TypeOK, PendingType
 <2> QED BY <2>1, <2>2
<1>3. CASE handle_finish_run
 <2>1. active_run # 0 => active_run \in Runs BY DEF TypeOK, DispatcherType, Runs
 <2>2. <<>> \in Seq(QueueEntry) OBVIOUS
 <2> QED BY <1>3, <2>1, <2>2, PendingUpdate DEF TypeOK, PendingType
<1>4. CASE handle_close
 <2>1. active_run # 0 => active_run \in Runs BY DEF TypeOK, DispatcherType, Runs
 <2>2. <<>> \in Seq(QueueEntry) OBVIOUS
 <2> QED BY <1>4, <2>1, <2>2, PendingUpdate DEF TypeOK, PendingType
<1>5. CASE forward_ready_batch
 <2>1. active_run \in Runs BY <1>5 DEF RunsConsistent, DispatcherRun, TypeOK, DispatcherType, Runs
 <2>2. /\ pending_ready[active_run] \in Seq(QueueEntry)
       /\ disp_batch \in Seq(ReadyItem) /\ disp_mark \in Nat
   BY <2>1 DEF TypeOK, PendingType, DispatcherType
 <2>3. PendingExtend(pending_ready[active_run], disp_batch, disp_mark)
           \in Seq(QueueEntry)
   BY <2>2, ExtendType DEF QueueEntry
 <2> QED BY <1>5, <2>1, <2>3, PendingUpdate DEF TypeOK, PendingType
<1>6. CASE start_generation
 <2>1. run \in Runs BY <1>6 DEF RunsConsistent, LoopRun, TypeOK, LoopType, Runs
 <2>2. <<>> \in Seq(QueueEntry) OBVIOUS
 <2> QED BY <1>6, <2>1, <2>2, PendingUpdate DEF TypeOK, PendingType
<1>7. CASE keep_leftover
  <2> DEFINE m == MergeGeneration(local_ready, local_taken, pending_ready[run])
 <2>1. run \in Runs BY <1>7 DEF RunsConsistent, LoopRun, TypeOK, LoopType, Runs
 <2>2. /\ pending_ready[run] \in Seq([item : ReadyItem, mark : Nat])
       /\ local_ready \in Seq(ReadyItem) /\ ready_batch \in Seq(ReadyItem)
   BY <2>1 DEF TypeOK, PendingType, LoopType, QueueEntry
 <2>3. m \in Seq(ReadyItem) BY <2>2, MergeType
 <2>4. ready_batch \o m \in Seq(ReadyItem) BY <2>2, <2>3, ConcatProperties
 <2>5. Stamped(ready_batch \o m, 0) \in Seq(QueueEntry) BY <2>4, StampedType DEF QueueEntry
 <2>6. \/ pending_ready' =
              [pending_ready EXCEPT ![run] = Stamped(ready_batch \o m, 0)]
       \/ pending_ready' = pending_ready
   BY <1>7 DEF Leftover
 <2> QED BY <2>1, <2>5, <2>6, PendingUpdate DEF TypeOK, PendingType
<1> QED
  BY <1>1, <1>2, <1>3, <1>4, <1>5, <1>6, <1>7 DEF Next, CallerStep, DispatcherStep, LoopStep,
    Environment

\* The channel holds commands.
LEMMA StepChannelType ==
    ASSUME TypeOK, RunsConsistent, Next
    PROVE  ChannelType'
<1>1. CASE UNCHANGED <<command_channel>> BY <1>1 DEF TypeOK, ChannelType
<1>2. ASSUME NEW t \in Callers, send_remote_command(t) PROVE ChannelType'
 <2>1. [op |-> "ready", item |-> call_item[t]] \in Command BY DEF TypeOK, CallerType, Command
 <2> QED BY <1>2, <2>1, AppendProperties DEF TypeOK, ChannelType
<1>3. CASE handle_ready BY <1>3, HeadFacts DEF TypeOK, ChannelType
<1>4. CASE handle_enter_run BY <1>4, HeadFacts DEF TypeOK, ChannelType
<1>5. CASE handle_finish_run BY <1>5, HeadFacts DEF TypeOK, ChannelType
<1>6. CASE handle_close BY <1>6, HeadFacts DEF TypeOK, ChannelType
<1>7. CASE send_enter_run
 <2>1. [op |-> "enter", run |-> run, mark |-> local_enqueues] \in Command
   BY <1>7 DEF RunsConsistent, LoopRun, TypeOK, LoopType, FlagType, Runs, Command
 <2> QED BY <1>7, <2>1, AppendProperties DEF TypeOK, ChannelType
<1>8. CASE send_finish_run
 <2>1. [op |-> "finish", run |-> run] \in Command
   BY <1>8, SMTT(30) DEF RunsConsistent, LoopRun, TypeOK, LoopType, FlagType, Runs, Command
 <2> QED BY <1>8, <2>1, AppendProperties DEF TypeOK, ChannelType
<1>9. CASE send_close
 <2>1. [op |-> "close"] \in Command
   BY <1>9, Zenon DEF RunsConsistent, LoopRun, TypeOK, LoopType, FlagType, Runs, Command
 <2> QED BY <1>9, <2>1, AppendProperties DEF TypeOK, ChannelType
<1> QED
  BY <1>1, <1>2, <1>3, <1>4, <1>5, <1>6, <1>7, <1>8, <1>9 DEF Next, CallerStep, DispatcherStep,
    LoopStep, Environment, PendingPush

\* The atomics keep their types.
LEMMA StepFlagType ==
    ASSUME TypeOK, RunsConsistent, Next
    PROVE  FlagType'
<1>1. CASE UNCHANGED <<ready_pending, ready_waker, stop_requested, runtime_waker, local_enqueues, channel_handles, done_acks>>
  BY <1>1 DEF TypeOK, FlagType
<1>2. ASSUME NEW t \in Callers, schedule_stop(t) PROVE FlagType' BY <1>2 DEF TypeOK, FlagType
<1>3. ASSUME NEW t \in Callers, signal(t) PROVE FlagType' BY <1>3 DEF TypeOK, FlagType
<1>4. ASSUME NEW t \in Callers, signal_wake(t) PROVE FlagType' BY <1>4 DEF TypeOK, FlagType
<1>5. ASSUME NEW t \in Callers, count_channel_handle(t) PROVE FlagType' BY <1>5 DEF TypeOK, FlagType
<1>6. ASSUME NEW t \in Callers, send_remote_command(t) PROVE FlagType' BY <1>6 DEF TypeOK, FlagType
<1>7. CASE dispatcher_poll BY <1>7 DEF TypeOK, FlagType
<1>8. CASE finish_run_ack
  BY <1>8 DEF TypeOK, FlagType, DispatcherType, RunsConsistent, DispatcherRun, Runs
<1>9. CASE channel_handles_forwarded BY <1>9 DEF TypeOK, FlagType, DispatcherType
<1>10. CASE dispatcher_signal BY <1>10, Zenon DEF TypeOK, FlagType
<1>11. CASE dispatcher_wake BY <1>11 DEF TypeOK, FlagType
<1>12. CASE publish_ready_dispatch BY <1>12 DEF TypeOK, FlagType
<1>13. CASE start_turn BY <1>13 DEF TypeOK, FlagType
<1>14. CASE start_generation BY <1>14 DEF TypeOK, FlagType
<1>15. CASE run_stop_item BY <1>15 DEF TypeOK, FlagType
<1>16. CASE execute_ready_call_soon BY <1>16 DEF TypeOK, FlagType
<1>17. CASE execute_ready_stop BY <1>17 DEF TypeOK, FlagType
<1>18. CASE check_signals_raises
 <2>1. ready_waker' \in BOOLEAN BY <1>18, WakeFacts DEF TypeOK, FlagType
 <2>2. local_enqueues' \in Nat BY <1>18 DEF TypeOK, FlagType
 <2> QED BY <1>18, <2>1, <2>2 DEF TypeOK, FlagType
<1>19. CASE poll_once
 <2>1. ready_waker' \in BOOLEAN BY <1>19, WakeFacts DEF TypeOK, FlagType
 <2>2. local_enqueues' \in Nat BY <1>19 DEF TypeOK, FlagType
 <2> QED BY <1>19, <2>1, <2>2 DEF TypeOK, FlagType
<1>20. CASE wait_for_wake_register BY <1>20 DEF TypeOK, FlagType
<1>21. CASE parked_io
 <2>1. ready_waker' \in BOOLEAN BY <1>21, WakeFacts DEF TypeOK, FlagType
 <2>2. local_enqueues' \in Nat BY <1>21 DEF TypeOK, FlagType
 <2> QED BY <1>21, <2>1, <2>2 DEF TypeOK, FlagType
<1> QED BY <1>1, <1>2, <1>3, <1>4, <1>5, <1>6, <1>7, <1>8, <1>9, <1>10, <1>11, <1>12, <1>13, <1>14,
    <1>15, <1>16, <1>17, <1>18, <1>19, <1>20, <1>21, ZenonT(60) DEF Next, CallerStep, DispatcherStep,
    LoopStep, Environment, PendingPush

\* The loop thread's state keeps its types.
LEMMA StepLoopType ==
    ASSUME TypeOK, RunsConsistent, Next
    PROVE  LoopType'
<1>1. CASE UNCHANGED <<loop_vars>> BY <1>1 DEF TypeOK, LoopType
<1>2. ASSUME NEW t \in Callers, signal_wake(t) PROVE LoopType'
  BY <1>2, WakeFacts DEF TypeOK, LoopType
<1>3. CASE dispatcher_wake BY <1>3, WakeFacts, Zenon DEF TypeOK, LoopType
<1>4. CASE run_forever BY <1>4 DEF TypeOK, LoopType, LoopPcs
<1>5. CASE publish_ready_dispatch BY <1>5 DEF TypeOK, LoopType, LoopPcs
<1>6. CASE send_enter_run
 <2>1. /\ local_ready' \in Seq(ReadyItem) /\ ready_batch' \in Seq(ReadyItem) BY <1>6
 <2>2. local_taken' \in Nat BY <1>6 DEF TypeOK, FlagType
 <2> QED BY <1>6, <2>1, <2>2 DEF TypeOK, LoopType, LoopPcs
<1>7. CASE start_turn
 <2>1. local_ready' \in Seq(ReadyItem)
  <3>1. NextOf("io") \in ReadyItem BY ItemFacts DEF TypeOK
  <3> QED BY <1>7, <3>1, AppendProperties DEF TypeOK, LoopType
 <2> QED BY <1>7, <2>1 DEF TypeOK, LoopType, LoopPcs
<1>8. CASE end_turn BY <1>8 DEF TypeOK, LoopType, LoopPcs
<1>9. CASE start_generation
 <2>1. run \in Runs BY <1>9 DEF RunsConsistent, LoopRun, TypeOK, LoopType, Runs
 <2>2. /\ pending_ready[run] \in Seq([item : ReadyItem, mark : Nat])
       /\ local_ready \in Seq(ReadyItem) /\ local_taken \in Nat
   BY <2>1 DEF TypeOK, PendingType, LoopType, QueueEntry
 <2>3. ready_batch' \in Seq(ReadyItem) BY <1>9, <2>2, MergeType
 <2>4. local_taken' \in Nat /\ local_ready' \in Seq(ReadyItem) BY <1>9, <2>2, LenProperties
 <2> QED BY <1>9, <2>3, <2>4 DEF TypeOK, LoopType, LoopPcs
<1>10. CASE run_stop_item
 <2>1. ready_batch' \in Seq(ReadyItem) BY <1>10, HeadTailProperties, Zenon DEF TypeOK, LoopType
 <2>2. local_ready' \in Seq(ReadyItem)
   BY <1>10, ItemFacts, AppendProperties, Zenon DEF TypeOK, LoopType, HistoryType
 <2>3. /\ processed_this_turn' \in 0..Budget /\ loop_pc' \in LoopPcs
       /\ loop_pc' = "drain" => processed_this_turn' < Budget
   BY <1>10, CountFacts DEF TypeOK, LoopPcs
 <2> QED BY <1>10, <2>1, <2>2, <2>3 DEF TypeOK, LoopType
<1>11. CASE execute_ready
 <2>1. ready_batch' \in Seq(ReadyItem) BY <1>11, HeadTailProperties DEF TypeOK, LoopType
 <2>2. local_ready' \in Seq(ReadyItem)
   BY <1>11, ItemFacts, AppendProperties DEF TypeOK, LoopType, HistoryType
 <2>3. /\ processed_this_turn' \in 0..Budget /\ loop_pc' \in LoopPcs
       /\ loop_pc' = "drain" => processed_this_turn' < Budget
   BY <1>11, CountFacts DEF TypeOK, LoopPcs
 <2> QED BY <1>11, <2>1, <2>2, <2>3 DEF TypeOK, LoopType
<1>12. CASE execute_ready_call_soon
 <2>1. ready_batch' \in Seq(ReadyItem) BY <1>12, HeadTailProperties DEF TypeOK, LoopType
 <2>2. local_ready' \in Seq(ReadyItem)
   BY <1>12, ItemFacts, AppendProperties DEF TypeOK, LoopType, HistoryType
 <2>3. /\ processed_this_turn' \in 0..Budget /\ loop_pc' \in LoopPcs
       /\ loop_pc' = "drain" => processed_this_turn' < Budget
   BY <1>12, CountFacts DEF TypeOK, LoopPcs
 <2> QED BY <1>12, <2>1, <2>2, <2>3 DEF TypeOK, LoopType
<1>13. CASE execute_ready_stop
 <2>1. ready_batch' \in Seq(ReadyItem) BY <1>13, HeadTailProperties DEF TypeOK, LoopType
 <2>2. local_ready' \in Seq(ReadyItem)
   BY <1>13, ItemFacts, AppendProperties DEF TypeOK, LoopType, HistoryType
 <2>3. /\ processed_this_turn' \in 0..Budget /\ loop_pc' \in LoopPcs
       /\ loop_pc' = "drain" => processed_this_turn' < Budget
   BY <1>13, CountFacts DEF TypeOK, LoopPcs
 <2> QED BY <1>13, <2>1, <2>2, <2>3 DEF TypeOK, LoopType
<1>14. CASE execute_ready_raises
 <2>1. ready_batch' \in Seq(ReadyItem) BY <1>14, HeadTailProperties DEF TypeOK, LoopType
 <2>2. local_ready' \in Seq(ReadyItem)
   BY <1>14, ItemFacts, AppendProperties DEF TypeOK, LoopType, HistoryType
 <2>3. /\ processed_this_turn' \in 0..Budget /\ loop_pc' \in LoopPcs
       /\ loop_pc' = "drain" => processed_this_turn' < Budget
   BY <1>14, CountFacts DEF TypeOK, LoopType, LoopPcs
 <2> QED BY <1>14, <2>1, <2>2, <2>3 DEF TypeOK, LoopType
<1>15. CASE execute_ready_handler_raises
 <2>1. ready_batch' \in Seq(ReadyItem) BY <1>15, HeadTailProperties DEF TypeOK, LoopType
 <2>2. local_ready' \in Seq(ReadyItem)
   BY <1>15, ItemFacts, AppendProperties DEF TypeOK, LoopType, HistoryType
 <2>3. /\ processed_this_turn' \in 0..Budget /\ loop_pc' \in LoopPcs
       /\ loop_pc' = "drain" => processed_this_turn' < Budget
   BY <1>15, CountFacts DEF TypeOK, LoopType, LoopPcs
 <2> QED BY <1>15, <2>1, <2>2, <2>3 DEF TypeOK, LoopType
<1>16. CASE end_run BY <1>16 DEF TypeOK, LoopType, LoopPcs
<1>17. CASE check_signals_raises
 <2>1. loop_woken' \in BOOLEAN BY <1>17, WakeFacts DEF TypeOK, LoopType
 <2>2. NextOf("io") \in ReadyItem /\ StopItem \in ReadyItem BY ItemFacts DEF TypeOK
 <2>3. local_ready' \in Seq(ReadyItem)
  <3>1. \/ local_ready' = Append(local_ready, NextOf("io"))
        \/ local_ready' = Append(local_ready, StopItem)
        \/ local_ready' = local_ready
    BY <1>17
  <3>2. local_ready \in Seq(ReadyItem) BY DEF TypeOK, LoopType
  <3>3. /\ Append(local_ready, NextOf("io")) \in Seq(ReadyItem)
        /\ Append(local_ready, StopItem) \in Seq(ReadyItem)
    BY <2>2, <3>2, AppendProperties
  <3> QED BY <3>1, <3>2, <3>3
 <2> QED BY <1>17, <2>1, <2>3 DEF TypeOK, LoopType, LoopPcs
<1>18. CASE poll_once
 <2>1. loop_woken' \in BOOLEAN BY <1>18, WakeFacts DEF TypeOK, LoopType
 <2>2. NextOf("io") \in ReadyItem /\ StopItem \in ReadyItem BY ItemFacts DEF TypeOK
 <2>3. local_ready' \in Seq(ReadyItem)
  <3>1. \/ local_ready' = Append(local_ready, NextOf("io"))
        \/ local_ready' = Append(local_ready, StopItem)
        \/ local_ready' = local_ready
    BY <1>18
  <3>2. local_ready \in Seq(ReadyItem) BY DEF TypeOK, LoopType
  <3>3. /\ Append(local_ready, NextOf("io")) \in Seq(ReadyItem)
        /\ Append(local_ready, StopItem) \in Seq(ReadyItem)
    BY <2>2, <3>2, AppendProperties
  <3> QED BY <3>1, <3>2, <3>3
 <2> QED BY <1>18, <2>1, <2>3 DEF TypeOK, LoopType, LoopPcs
<1>19. CASE start_park BY <1>19 DEF TypeOK, LoopType, LoopPcs
<1>20. CASE wait_for_wake_check BY <1>20 DEF TypeOK, LoopType, LoopPcs
<1>21. CASE wait_for_wake_register BY <1>21 DEF TypeOK, LoopType, LoopPcs
<1>22. CASE wait_for_wake_recheck BY <1>22 DEF TypeOK, LoopType, LoopPcs
<1>23. CASE wake_up BY <1>23 DEF TypeOK, LoopType, LoopPcs
<1>24. CASE park_deadline BY <1>24 DEF TypeOK, LoopType, LoopPcs
<1>25. CASE parked_io
 <2>1. loop_woken' \in BOOLEAN BY <1>25, WakeFacts DEF TypeOK, LoopType
 <2>2. NextOf("io") \in ReadyItem /\ StopItem \in ReadyItem BY ItemFacts DEF TypeOK
 <2>3. local_ready' \in Seq(ReadyItem)
  <3>1. \/ local_ready' = Append(local_ready, NextOf("io"))
        \/ local_ready' = Append(local_ready, StopItem)
        \/ local_ready' = local_ready
    BY <1>25
  <3>2. local_ready \in Seq(ReadyItem) BY DEF TypeOK, LoopType
  <3>3. /\ Append(local_ready, NextOf("io")) \in Seq(ReadyItem)
        /\ Append(local_ready, StopItem) \in Seq(ReadyItem)
    BY <2>2, <3>2, AppendProperties
  <3> QED BY <3>1, <3>2, <3>3
 <2> QED BY <1>25, <2>1, <2>3 DEF TypeOK, LoopType, LoopPcs
<1>26. CASE keep_leftover
 <2>1. local_taken' \in Nat BY <1>26, LenProperties DEF TypeOK, LoopType
 <2>2. local_ready' \in Seq(ReadyItem) /\ ready_batch' \in Seq(ReadyItem) BY <1>26
 <2> QED BY <1>26, <2>1, <2>2 DEF TypeOK, LoopType, LoopPcs
<1>27. CASE retire_ready_dispatch BY <1>27 DEF TypeOK, LoopType, LoopPcs
<1>28. CASE send_finish_run BY <1>28 DEF TypeOK, LoopType, LoopPcs
<1>29. CASE finish_acknowledged BY <1>29 DEF TypeOK, LoopType, LoopPcs
<1>30. CASE reset_run_state_after_finish_error BY <1>30 DEF TypeOK, LoopType, LoopPcs
<1>31. CASE close BY <1>31 DEF TypeOK, LoopType, LoopPcs
<1>32. CASE send_close BY <1>32 DEF TypeOK, LoopType, LoopPcs
<1>33. CASE join_runtime_thread BY <1>33, SMTT(30) DEF TypeOK, LoopType, LoopPcs
<1> QED BY <1>1, <1>2, <1>3, <1>4, <1>5, <1>6, <1>7, <1>8, <1>9, <1>10, <1>11, <1>12, <1>13, <1>14,
    <1>15, <1>16, <1>17, <1>18, <1>19, <1>20, <1>21, <1>22, <1>23, <1>24, <1>25, <1>26, <1>27,
    <1>28, <1>29, <1>30, <1>31, <1>32, <1>33 DEF Next, CallerStep, DispatcherStep, LoopStep,
    Environment, PendingPush

\* The dispatcher's state keeps its types.
LEMMA StepDispatcherType ==
    ASSUME TypeOK, RunsConsistent, Next
    PROVE  DispatcherType'
<1>1. CASE UNCHANGED <<disp_vars>> BY <1>1, Zenon DEF TypeOK, DispatcherType
<1>2. ASSUME NEW t \in Callers, wake_dispatcher(t) PROVE DispatcherType'
  BY <1>2 DEF TypeOK, DispatcherType, DispPcs
<1>3. CASE dispatcher_poll BY <1>3 DEF TypeOK, DispatcherType, DispPcs
<1>4. CASE drain_commands_empty BY <1>4 DEF TypeOK, DispatcherType, DispPcs
<1>5. CASE handle_ready
 <2>1. Head(command_channel).item \in ReadyItem BY <1>5, HeadFacts DEF TypeOK, ChannelType
 <2>2. disp_batch' \in Seq(ReadyItem) /\ disp_handles' \in Nat
   BY <1>5, <2>1, AppendProperties DEF TypeOK, DispatcherType
 <2> QED BY <1>5, <2>2 DEF TypeOK, DispatcherType
<1>6. CASE handle_enter_run
 <2>1. Head(command_channel).run \in 0..MaxRuns /\ Head(command_channel).mark \in Nat
   BY <1>6, HeadFacts DEF TypeOK, ChannelType, Runs
 <2> QED BY <1>6, <2>1 DEF TypeOK, DispatcherType, DispPcs
<1>7. CASE handle_finish_run
 <2>0. \/ UNCHANGED disp_batch
       \/ active_run # 0 /\ disp_batch' = Items(pending_ready[active_run]) \o disp_batch
   BY <1>7
 <2>1. disp_batch' \in Seq(ReadyItem)
   BY <2>0, TakenBackType, ConcatProperties DEF TypeOK, DispatcherType
 <2>2. disp_done' \in 0..MaxRuns /\ active_run' \in 0..MaxRuns
   BY <1>7, HeadFacts DEF TypeOK, ChannelType, DispatcherType, Runs
 <2> QED BY <1>7, <2>1, <2>2 DEF TypeOK, DispatcherType, DispPcs
<1>8. CASE handle_close
 <2>0. \/ UNCHANGED disp_batch
       \/ active_run # 0 /\ disp_batch' = Items(pending_ready[active_run]) \o disp_batch
   BY <1>8
 <2>1. disp_batch' \in Seq(ReadyItem)
   BY <2>0, TakenBackType, ConcatProperties DEF TypeOK, DispatcherType
 <2>2. disp_done' \in 0..MaxRuns /\ active_run' \in 0..MaxRuns
   BY <1>8, HeadFacts DEF TypeOK, ChannelType, DispatcherType, Runs
 <2> QED BY <1>8, <2>1, <2>2 DEF TypeOK, DispatcherType, DispPcs
<1>9. CASE finish_run_reset BY <1>9 DEF TypeOK, DispatcherType, DispPcs
<1>10. CASE finish_run_ack BY <1>10 DEF TypeOK, DispatcherType, DispPcs
<1>11. CASE dispatch_ready_batch BY <1>11 DEF TypeOK, FlagType, DispatcherType, DispPcs
<1>12. CASE forward_ready_batch BY <1>12 DEF TypeOK, DispatcherType, DispPcs
<1>13. CASE channel_handles_forwarded BY <1>13 DEF TypeOK, DispatcherType, DispPcs
<1>14. CASE dispatcher_signal BY <1>14 DEF TypeOK, DispatcherType, DispPcs
<1>15. CASE dispatcher_wake BY <1>15 DEF TypeOK, DispatcherType, DispPcs
<1>16. CASE activate_ready_dispatch BY <1>16, ZenonT(30) DEF TypeOK, DispatcherType, DispPcs
<1> QED BY <1>1, <1>2, <1>3, <1>4, <1>5, <1>6, <1>7, <1>8, <1>9, <1>10, <1>11, <1>12, <1>13, <1>14,
    <1>15, <1>16 DEF Next, CallerStep, DispatcherStep, LoopStep, Environment, PendingPush

\* Callers keep their places and items.
LEMMA StepCallerType ==
    ASSUME TypeOK, Next
    PROVE  CallerType'
<1>1. CASE UNCHANGED <<call_vars>> BY <1>1 DEF TypeOK, CallerType
<1>2. ASSUME NEW t \in Callers, schedule_callback(t) PROVE CallerType'
  BY <1>2, ItemFacts DEF TypeOK, CallerType, CallPcs, HistoryType
<1>3. ASSUME NEW t \in Callers, schedule_stop(t) PROVE CallerType'
  BY <1>3, ItemFacts DEF TypeOK, CallerType, CallPcs
<1>4. ASSUME NEW t \in Callers, schedule_ready_handle(t) PROVE CallerType'
  BY <1>4 DEF TypeOK, CallerType, CallPcs, Callers
<1>5. ASSUME NEW t \in Callers, try_enqueue_active_ready(t) PROVE CallerType'
  BY <1>5 DEF PendingPush, TypeOK, CallerType, CallPcs, Callers
<1>6. ASSUME NEW t \in Callers, signal(t) PROVE CallerType'
  BY <1>6 DEF TypeOK, CallerType, CallPcs, Callers
<1>7. ASSUME NEW t \in Callers, signal_wake(t) PROVE CallerType'
  BY <1>7 DEF TypeOK, CallerType, CallPcs, Callers
<1>8. ASSUME NEW t \in Callers, count_channel_handle(t) PROVE CallerType'
  BY <1>8 DEF TypeOK, CallerType, CallPcs, Callers
<1>9. ASSUME NEW t \in Callers, send_remote_command(t) PROVE CallerType'
  BY <1>9 DEF TypeOK, CallerType, CallPcs, Callers
<1>10. ASSUME NEW t \in Callers, wake_dispatcher(t) PROVE CallerType'
  BY <1>10 DEF TypeOK, CallerType, CallPcs, Callers
<1>11. CASE send_enter_run BY <1>11 DEF TypeOK, CallerType, CallPcs, Callers
<1>12. CASE send_finish_run BY <1>12 DEF TypeOK, CallerType, CallPcs, Callers
<1>13. CASE send_close BY <1>13, ZenonT(30) DEF TypeOK, CallerType, CallPcs, Callers
<1> QED
  BY <1>1, <1>2, <1>3, <1>4, <1>5, <1>6, <1>7, <1>8, <1>9, <1>10, <1>11, <1>12, <1>13, ZenonT(60) DEF Next,
    CallerStep, DispatcherStep, LoopStep, Environment

\* The history keeps its types.
LEMMA StepHistoryType ==
    ASSUME TypeOK, Next
    PROVE  HistoryType'
<1>0. /\ posted \in [Sources -> Nat] /\ accepted \subseteq Callback /\ executed \subseteq Callback
      /\ scheduled_before \subseteq Callback \X Callback /\ stops \in Nat /\ HistoryType
      /\ call_item \in [Callers -> ReadyItem] /\ Callers \subseteq Sources /\ "io" \in Sources /\ "loop" \in Sources
      /\ \A s \in Sources : NextOf(s) \in Callback
  BY ItemFacts DEF TypeOK, HistoryType, CallerType
<1>1. stops' \in Nat
 <2>1. CASE LoopStep BY <1>0, <2>1 DEF LoopStep
 <2>2. CASE DispatcherStep BY <1>0, <2>2 DEF DispatcherStep
 <2>3. CASE Environment BY <1>0, <2>3 DEF Environment
 <2>4. ASSUME NEW t \in Callers, CallerStep(t) PROVE stops' \in Nat BY <1>0, <2>4 DEF CallerStep
 <2> QED BY <2>1, <2>2, <2>3, <2>4 DEF Next
<1>s. ASSUME NEW s \in Sources
      PROVE  /\ scheduled_before \union (Waiting \X {NextOf(s)}) \subseteq Callback \X Callback
             /\ [posted EXCEPT ![s] = @ + 1] \in [Sources -> Nat]
  BY <1>0, BeginFacts
<1>e. ASSUME Execute PROVE executed' \subseteq Callback
  BY <1>0, <1>e, HeadTailProperties, ItemFacts DEF TypeOK, LoopType
<1>2. CASE GoesOn BY <1>0, <1>1, <1>2 DEF GoesOn, HistoryType
<1>3. CASE EnqueuesIo BY <1>0, <1>1, <1>3, <1>s DEF EnqueuesIo, HistoryType
<1>4. CASE RunsHead BY <1>0, <1>1, <1>4, <1>e DEF RunsHead, Forget, HistoryType
<1>5. CASE RunsAndSchedules
  BY <1>0, <1>1, <1>5, <1>s, <1>e DEF RunsAndSchedules, Forget, HistoryType
<1>6. ASSUME NEW t \in Callers, Begins(t) PROVE HistoryType'
  BY <1>0, <1>1, <1>6, <1>s DEF Begins, HistoryType
<1>7. ASSUME NEW t \in Callers, Accepts(t) PROVE HistoryType'
  BY <1>0, <1>1, <1>7, ItemFacts DEF Accepts, HistoryType
<1> QED BY <1>2, <1>3, <1>4, <1>5, <1>6, <1>7, Recorded

-----------------------------------------------------------------------------
\* Which run each thread works for.

\* The loop serves a run it began.
LEMMA StepLoopRun ==
    ASSUME TypeOK, LoopRun, Next
    PROVE  LoopRun'
<1> USE DEF TypeOK, LoopRun, DispatchType, LoopType, NoDispatchPcs
<1>1. CASE UNCHANGED <<loop_pc, run, active_ready_dispatch>> BY <1>1
<1>2. CASE activate_ready_dispatch BY <1>2
<1>3. CASE run_forever BY <1>3
<1>4. CASE publish_ready_dispatch BY <1>4
<1>5. CASE send_enter_run BY <1>5
<1>6. CASE start_turn BY <1>6
<1>7. CASE end_turn BY <1>7
<1>8. CASE start_generation BY <1>8
<1>9. CASE run_stop_item BY <1>9
<1>10. CASE execute_ready BY <1>10
<1>11. CASE execute_ready_call_soon BY <1>11, Zenon
<1>12. CASE execute_ready_stop BY <1>12
<1>13. CASE execute_ready_raises BY <1>13
<1>14. CASE execute_ready_handler_raises BY <1>14
<1>15. CASE end_run BY <1>15
<1>16. CASE check_signals_raises BY <1>16
<1>17. CASE poll_once BY <1>17
<1>18. CASE start_park BY <1>18
<1>19. CASE wait_for_wake_check BY <1>19
<1>20. CASE wait_for_wake_register BY <1>20
<1>21. CASE wait_for_wake_recheck BY <1>21
<1>22. CASE wake_up BY <1>22
<1>23. CASE park_deadline BY <1>23
<1>24. CASE parked_io BY <1>24
<1>25. CASE keep_leftover BY <1>25
<1>26. CASE retire_ready_dispatch BY <1>26
<1>27. CASE send_finish_run BY <1>27
<1>28. CASE finish_acknowledged BY <1>28
<1>29. CASE reset_run_state_after_finish_error BY <1>29
<1>30. CASE close BY <1>30
<1>31. CASE send_close BY <1>31
<1>32. CASE join_runtime_thread BY <1>32, SMTT(30)
<1> HIDE DEF TypeOK, LoopRun, DispatchType, LoopType, NoDispatchPcs
<1> QED BY <1>1, <1>2, <1>3, <1>4, <1>5, <1>6, <1>7, <1>8, <1>9, <1>10, <1>11, <1>12, <1>13, <1>14,
    <1>15, <1>16, <1>17, <1>18, <1>19, <1>20, <1>21, <1>22, <1>23, <1>24, <1>25, <1>26, <1>27,
    <1>28, <1>29, <1>30, <1>31, <1>32 DEF Next, CallerStep, DispatcherStep, LoopStep, Environment,
    PendingPush

\* A run once entered stays entered.
LEMMA EnteredStays ==
    ASSUME TypeOK, LoopRun, Next
    PROVE  (\A r \in 0..MaxRuns : Entered(r) => Entered(r)')
<1> USE DEF Entered, TypeOK, LoopType, LoopRun
<1>1. CASE UNCHANGED <<run, loop_pc>> BY <1>1
<1>2. CASE run_forever BY <1>2
<1>3. CASE publish_ready_dispatch BY <1>3
<1>4. CASE send_enter_run BY <1>4
<1>5. CASE start_turn BY <1>5
<1>6. CASE end_turn BY <1>6
<1>7. CASE start_generation BY <1>7
<1>8. CASE run_stop_item BY <1>8
<1>9. CASE execute_ready BY <1>9
<1>10. CASE execute_ready_call_soon BY <1>10
<1>11. CASE execute_ready_stop BY <1>11
<1>12. CASE execute_ready_raises BY <1>12
<1>13. CASE execute_ready_handler_raises BY <1>13
<1>14. CASE end_run BY <1>14
<1>15. CASE check_signals_raises BY <1>15
<1>16. CASE poll_once BY <1>16
<1>17. CASE start_park BY <1>17
<1>18. CASE wait_for_wake_check BY <1>18
<1>19. CASE wait_for_wake_register BY <1>19
<1>20. CASE wait_for_wake_recheck BY <1>20
<1>21. CASE wake_up BY <1>21
<1>22. CASE park_deadline BY <1>22
<1>23. CASE parked_io BY <1>23
<1>24. CASE keep_leftover BY <1>24
<1>25. CASE retire_ready_dispatch BY <1>25
<1>26. CASE send_finish_run BY <1>26
<1>27. CASE finish_acknowledged BY <1>27
<1>28. CASE reset_run_state_after_finish_error BY <1>28
<1>29. CASE close BY <1>29
<1>30. CASE send_close BY <1>30
<1>31. CASE join_runtime_thread BY <1>31, SMTT(30)
<1> HIDE DEF Entered, TypeOK, LoopType, LoopRun
<1> QED BY <1>1, <1>2, <1>3, <1>4, <1>5, <1>6, <1>7, <1>8, <1>9, <1>10, <1>11, <1>12, <1>13, <1>14,
    <1>15, <1>16, <1>17, <1>18, <1>19, <1>20, <1>21, <1>22, <1>23, <1>24, <1>25, <1>26, <1>27,
    <1>28, <1>29, <1>30, <1>31 DEF Next, CallerStep, DispatcherStep, LoopStep, Environment,
    PendingPush

\* An EnterRun on the channel was there before or is the one just sent.
LEMMA EnterCommands ==
    ASSUME TypeOK, Next
    PROVE  (\A i \in 1..Len(command_channel') :
               command_channel'[i].op = "enter" =>
                   \/ \E j \in 1..Len(command_channel) :
                          command_channel[j] = command_channel'[i]
                   \/ send_enter_run /\ command_channel'[i].run = run)
<1>1. CASE UNCHANGED <<command_channel>> BY <1>1, Zenon
<1>2. ASSUME NEW t \in Callers, send_remote_command(t) PROVE (\A i \in 1..Len(command_channel') :
               command_channel'[i].op = "enter" =>
                   \/ \E j \in 1..Len(command_channel) :
                          command_channel[j] = command_channel'[i]
                   \/ send_enter_run /\ command_channel'[i].run = run)
  <2> DEFINE c == [op |-> "ready", item |-> call_item[t]]
 <2>1. command_channel' = command_channel \/ command_channel' = Append(command_channel, c) BY <1>2
 <2>2. c.op = "enter" => send_enter_run /\ c.run = run BY <1>2
 <2> QED BY <2>1, <2>2, AppendElements DEF TypeOK, ChannelType
<1>3. CASE handle_ready
 <2>1. /\ command_channel \in Seq(Command) /\ command_channel # <<>>
       /\ command_channel' = Tail(command_channel)
   BY <1>3, Zenon DEF TypeOK, ChannelType
 <2> QED BY <2>1, TailElements
<1>4. CASE handle_enter_run
 <2>1. /\ command_channel \in Seq(Command) /\ command_channel # <<>>
       /\ command_channel' = Tail(command_channel)
   BY <1>4 DEF TypeOK, ChannelType
 <2> QED BY <2>1, TailElements
<1>5. CASE handle_finish_run
 <2>1. /\ command_channel \in Seq(Command) /\ command_channel # <<>>
       /\ command_channel' = Tail(command_channel)
   BY <1>5, Zenon DEF TypeOK, ChannelType
 <2> QED BY <2>1, TailElements
<1>6. CASE handle_close
 <2>1. /\ command_channel \in Seq(Command) /\ command_channel # <<>>
       /\ command_channel' = Tail(command_channel)
   BY <1>6 DEF TypeOK, ChannelType
 <2> QED BY <2>1, TailElements
<1>7. CASE send_enter_run
  <2> DEFINE c == [op |-> "enter", run |-> run, mark |-> local_enqueues]
 <2>1. command_channel' = command_channel \/ command_channel' = Append(command_channel, c) BY <1>7
 <2>2. c.op = "enter" => send_enter_run /\ c.run = run BY <1>7
 <2> QED BY <2>1, <2>2, AppendElements DEF TypeOK, ChannelType
<1>8. CASE send_finish_run
  <2> DEFINE c == [op |-> "finish", run |-> run]
 <2>1. command_channel' = command_channel \/ command_channel' = Append(command_channel, c) BY <1>8
 <2>2. c.op = "enter" => send_enter_run /\ c.run = run BY <1>8
 <2> QED BY <2>1, <2>2, AppendElements DEF TypeOK, ChannelType
<1>9. CASE send_close
  <2> DEFINE c == [op |-> "close"]
 <2>1. command_channel' = command_channel \/ command_channel' = Append(command_channel, c) BY <1>9
 <2>2. c.op = "enter" => send_enter_run /\ c.run = run BY <1>9
 <2> QED BY <2>1, <2>2, AppendElements DEF TypeOK, ChannelType
<1> QED
  BY <1>1, <1>2, <1>3, <1>4, <1>5, <1>6, <1>7, <1>8, <1>9, ZenonT(60) DEF Next, CallerStep, DispatcherStep,
    LoopStep, Environment, PendingPush

\* The dispatcher works for no later run than the loop.
LEMMA StepActiveRun ==
    ASSUME TypeOK, LoopRun, ActiveRun, Next
    PROVE  ActiveRun'
<1>1. \A r \in 0..MaxRuns : Entered(r) => Entered(r)' BY EnteredStays
<1>2. \A i \in 1..Len(command_channel) :
          command_channel[i].op = "enter" => command_channel[i].run \in Runs
 <2>1. \A i \in 1..Len(command_channel) : command_channel[i] \in Command
   BY LenProperties DEF TypeOK, ChannelType
 <2> QED BY <2>1 DEF Command
<1>3. send_enter_run => run' = run /\ Entered(run)' BY DEF Entered, TypeOK, LoopType
<1>4. ASSUME NEW i \in 1..Len(command_channel'), command_channel'[i].op = "enter"
      PROVE  Entered(command_channel[i].run)'
 <2>1. CASE send_enter_run /\ command_channel'[i].run = run BY <2>1, <1>3 DEF Entered
 <2>2. CASE \E j \in 1..Len(command_channel) : command_channel[j] = command_channel'[i]
   BY <2>2, <1>1, <1>2, <1>4 DEF ActiveRun, Entered, Runs
 <2> QED BY <2>1, <2>2, <1>4, EnterCommands
<1>5. Entered(active_run)'
 <2>1. CASE active_run' = active_run BY <2>1, <1>1 DEF ActiveRun, TypeOK, DispatcherType
 <2>2. CASE active_run' = 0 /\ run' = run /\ loop_pc' = loop_pc
   BY <2>2 DEF ActiveRun, Entered, TypeOK, LoopType, DispatcherType
 <2>3. CASE handle_enter_run
  <3>1. /\ command_channel \in Seq(Command) /\ command_channel # <<>>
        /\ Head(command_channel).op = "enter"
        /\ active_run' = Head(command_channel).run
    BY <2>3 DEF TypeOK, ChannelType
  <3>2. Head(command_channel) = command_channel[1] /\ 1 \in 1..Len(command_channel)
    BY <3>1, SMTT(30)
  <3> QED BY <3>1, <3>2, <1>1, <1>2 DEF ActiveRun, Runs
 <2> QED
   BY <2>1, <2>2, <2>3 DEF Next, CallerStep, DispatcherStep, LoopStep, Environment, PendingPush
<1> QED BY <1>4, <1>5 DEF ActiveRun, Entered

\* The dispatcher forwards only to a run.
LEMMA StepDispatcherRun ==
    ASSUME TypeOK, DispatcherRun, Next
    PROVE  DispatcherRun'
<1>1. CASE UNCHANGED <<disp_pc, disp_ret, active_run, disp_done>> BY <1>1 DEF DispatcherRun
<1>2. CASE dispatcher_poll BY <1>2 DEF TypeOK, DispatcherType, DispatcherRun
<1>3. CASE drain_commands_empty BY <1>3 DEF TypeOK, DispatcherType, DispatcherRun
<1>4. CASE handle_ready BY <1>4 DEF TypeOK, DispatcherType, DispatcherRun
<1>5. CASE handle_enter_run BY <1>5, HeadFacts DEF TypeOK, ChannelType, DispatcherRun, Runs
<1>6. CASE handle_finish_run BY <1>6, HeadFacts DEF TypeOK, ChannelType, DispatcherRun, Runs
<1>7. CASE handle_close BY <1>7 DEF TypeOK, DispatcherType, DispatcherRun
<1>8. CASE finish_run_reset BY <1>8 DEF TypeOK, DispatcherType, DispatcherRun
<1>9. CASE finish_run_ack BY <1>9 DEF TypeOK, DispatcherType, DispatcherRun
<1>10. CASE dispatch_ready_batch BY <1>10 DEF TypeOK, DispatcherType, DispatcherRun
<1>11. CASE forward_ready_batch BY <1>11 DEF TypeOK, DispatcherType, DispatcherRun
<1>12. CASE channel_handles_forwarded BY <1>12 DEF TypeOK, DispatcherType, DispatcherRun
<1>13. CASE dispatcher_signal BY <1>13 DEF TypeOK, DispatcherType, DispatcherRun
<1>14. CASE dispatcher_wake BY <1>14 DEF TypeOK, DispatcherType, DispatcherRun
<1>15. CASE activate_ready_dispatch BY <1>15, ZenonT(30) DEF TypeOK, DispatcherType, DispatcherRun
<1> QED BY <1>1, <1>2, <1>3, <1>4, <1>5, <1>6, <1>7, <1>8, <1>9, <1>10, <1>11, <1>12, <1>13, <1>14,
    <1>15 DEF Next, CallerStep, DispatcherStep, LoopStep, Environment, PendingPush

-----------------------------------------------------------------------------
\* Queues, flags and wakes.

\* No queue is written before its run is published.
LEMMA StepQueuesFresh ==
    ASSUME TypeOK, LoopRun, ActiveRun, DispatcherRun, QueuesFresh, Next
    PROVE  QueuesFresh'
<1>1. CASE UNCHANGED <<pending_ready, run, loop_pc>> BY <1>1 DEF QueuesFresh
<1>2. ASSUME NEW t \in Callers, try_enqueue_active_ready(t) PROVE QueuesFresh'
 <2>1. active_ready_dispatch.run \in {0, run}
       /\ (loop_pc = "publish" => active_ready_dispatch.run = 0)
   BY DEF LoopRun, NoDispatchPcs
 <2>2. loop_pc' = loop_pc /\ run' = run BY <1>2
 <2>3. \A r \in Runs : r > run => pending_ready'[r] = pending_ready[r]
   BY <1>2, <2>1, SMTT(40) DEF TypeOK, PendingType, LoopType, Runs
 <2>4. loop_pc = "publish" => pending_ready' = pending_ready BY <1>2, <2>1
 <2> QED BY <2>2, <2>3, <2>4 DEF QueuesFresh
<1>3. CASE handle_finish_run
 <2>1. \A r \in Runs : pending_ready'[r] \in {pending_ready[r], <<>>} BY <1>3, TakenBackEmpty
 <2>2. run' = run /\ loop_pc' = loop_pc BY <1>3
 <2> QED BY <2>1, <2>2 DEF QueuesFresh, LoopRun, TypeOK, LoopType, Runs
<1>4. CASE handle_close
 <2>1. \A r \in Runs : pending_ready'[r] \in {pending_ready[r], <<>>} BY <1>4, TakenBackEmpty
 <2>2. run' = run /\ loop_pc' = loop_pc BY <1>4
 <2> QED BY <2>1, <2>2 DEF QueuesFresh, LoopRun, TypeOK, LoopType, Runs
<1>5. CASE forward_ready_batch
 <2>1. Entered(active_run) /\ active_run # 0 BY <1>5 DEF ActiveRun, DispatcherRun
 <2> QED
   BY <1>5, <2>1, SMTT(20) DEF Entered, QueuesFresh, TypeOK, PendingType, LoopType,
     DispatcherType, Runs
<1>6. CASE run_forever BY <1>6 DEF QueuesFresh, TypeOK, PendingType, LoopType, LoopRun, Runs
<1>7. CASE publish_ready_dispatch
  BY <1>7 DEF QueuesFresh, TypeOK, PendingType, LoopType, LoopRun, Runs
<1>8. CASE send_enter_run BY <1>8 DEF QueuesFresh, TypeOK, PendingType, LoopType, LoopRun, Runs
<1>9. CASE start_turn BY <1>9 DEF QueuesFresh, TypeOK, PendingType, LoopType, LoopRun, Runs
<1>10. CASE end_turn BY <1>10 DEF QueuesFresh, TypeOK, PendingType, LoopType, LoopRun, Runs
<1>11. CASE start_generation BY <1>11 DEF QueuesFresh, TypeOK, PendingType, LoopType, LoopRun, Runs
<1>12. CASE run_stop_item
  BY <1>12, Zenon DEF QueuesFresh, TypeOK, PendingType, LoopType, LoopRun, Runs
<1>13. CASE execute_ready
  BY <1>13, Zenon DEF QueuesFresh, TypeOK, PendingType, LoopType, LoopRun, Runs
<1>14. CASE execute_ready_call_soon
  BY <1>14, Zenon DEF QueuesFresh, TypeOK, PendingType, LoopType, LoopRun, Runs
<1>15. CASE execute_ready_stop
  BY <1>15 DEF QueuesFresh, TypeOK, PendingType, LoopType, LoopRun, Runs
<1>16. CASE execute_ready_raises
  BY <1>16 DEF QueuesFresh, TypeOK, PendingType, LoopType, LoopRun, Runs
<1>17. CASE execute_ready_handler_raises
  BY <1>17 DEF QueuesFresh, TypeOK, PendingType, LoopType, LoopRun, Runs
<1>18. CASE end_run BY <1>18 DEF QueuesFresh, TypeOK, PendingType, LoopType, LoopRun, Runs
<1>19. CASE check_signals_raises
  BY <1>19 DEF QueuesFresh, TypeOK, PendingType, LoopType, LoopRun, Runs
<1>20. CASE poll_once BY <1>20 DEF QueuesFresh, TypeOK, PendingType, LoopType, LoopRun, Runs
<1>21. CASE start_park BY <1>21 DEF QueuesFresh, TypeOK, PendingType, LoopType, LoopRun, Runs
<1>22. CASE wait_for_wake_check
  BY <1>22 DEF QueuesFresh, TypeOK, PendingType, LoopType, LoopRun, Runs
<1>23. CASE wait_for_wake_register
  BY <1>23 DEF QueuesFresh, TypeOK, PendingType, LoopType, LoopRun, Runs
<1>24. CASE wait_for_wake_recheck
  BY <1>24 DEF QueuesFresh, TypeOK, PendingType, LoopType, LoopRun, Runs
<1>25. CASE wake_up BY <1>25 DEF QueuesFresh, TypeOK, PendingType, LoopType, LoopRun, Runs
<1>26. CASE park_deadline BY <1>26 DEF QueuesFresh, TypeOK, PendingType, LoopType, LoopRun, Runs
<1>27. CASE parked_io BY <1>27 DEF QueuesFresh, TypeOK, PendingType, LoopType, LoopRun, Runs
<1>28. CASE keep_leftover BY <1>28 DEF QueuesFresh, TypeOK, PendingType, LoopType, LoopRun, Runs
<1>29. CASE retire_ready_dispatch
  BY <1>29 DEF QueuesFresh, TypeOK, PendingType, LoopType, LoopRun, Runs
<1>30. CASE send_finish_run BY <1>30 DEF QueuesFresh, TypeOK, PendingType, LoopType, LoopRun, Runs
<1>31. CASE finish_acknowledged
  BY <1>31 DEF QueuesFresh, TypeOK, PendingType, LoopType, LoopRun, Runs
<1>32. CASE reset_run_state_after_finish_error
  BY <1>32 DEF QueuesFresh, TypeOK, PendingType, LoopType, LoopRun, Runs
<1>33. CASE close BY <1>33 DEF QueuesFresh, TypeOK, PendingType, LoopType, LoopRun, Runs
<1>34. CASE send_close BY <1>34 DEF QueuesFresh, TypeOK, PendingType, LoopType, LoopRun, Runs
<1>35. CASE join_runtime_thread
  BY <1>35, Zenon DEF QueuesFresh, TypeOK, PendingType, LoopType, LoopRun, Runs
<1> QED BY <1>1, <1>2, <1>3, <1>4, <1>5, <1>6, <1>7, <1>8, <1>9, <1>10, <1>11, <1>12, <1>13, <1>14,
    <1>15, <1>16, <1>17, <1>18, <1>19, <1>20, <1>21, <1>22, <1>23, <1>24, <1>25, <1>26, <1>27,
    <1>28, <1>29, <1>30, <1>31, <1>32, <1>33, <1>34, <1>35 DEF Next, CallerStep, DispatcherStep,
    LoopStep, Environment

\* A non-empty queue of the served run is flagged.
LEMMA StepQueueFlagged ==
    ASSUME TypeOK, LoopRun, ActiveRun, DispatcherRun, QueuesFresh, QueueFlagged, Next
    PROVE  QueueFlagged'
<1> USE DEF TypeOK, CallerType, PendingType, LoopType, QueueFlagged, SignalComing, Serving
<1>1. CASE UNCHANGED <<pending_ready, run, loop_pc, ready_pending, disp_pc, call_pc>> BY <1>1
<1>2. ASSUME NEW t \in Callers, schedule_callback(t) PROVE QueueFlagged' BY <1>2
<1>3. ASSUME NEW t \in Callers, schedule_stop(t) PROVE QueueFlagged' BY <1>3
<1>4. ASSUME NEW t \in Callers, schedule_ready_handle(t) PROVE QueueFlagged' BY <1>4, Zenon
<1>5. ASSUME NEW t \in Callers, try_enqueue_active_ready(t) PROVE QueueFlagged'
  BY <1>5 DEF PendingPush
<1>6. ASSUME NEW t \in Callers, signal(t) PROVE QueueFlagged' BY <1>6
<1>7. ASSUME NEW t \in Callers, signal_wake(t) PROVE QueueFlagged' BY <1>7
<1>8. ASSUME NEW t \in Callers, count_channel_handle(t) PROVE QueueFlagged' BY <1>8
<1>9. ASSUME NEW t \in Callers, send_remote_command(t) PROVE QueueFlagged' BY <1>9
<1>10. ASSUME NEW t \in Callers, wake_dispatcher(t) PROVE QueueFlagged' BY <1>10
<1>11. CASE dispatcher_poll BY <1>11
<1>12. CASE drain_commands_empty BY <1>12
<1>13. CASE handle_ready BY <1>13
<1>14. CASE handle_enter_run BY <1>14
<1>15. CASE handle_finish_run
 <2>1. \A r \in Runs : pending_ready'[r] \in {pending_ready[r], <<>>} BY <1>15, TakenBackEmpty
 <2>2. UNCHANGED <<run, loop_pc, ready_pending, call_pc>> /\ disp_pc = "drain" BY <1>15
 <2>3. loop_pc = "enter" \/ Serving => run \in Runs BY DEF LoopRun, Runs
 <2> QED BY <2>1, <2>2, <2>3
<1>16. CASE handle_close
 <2>1. \A r \in Runs : pending_ready'[r] \in {pending_ready[r], <<>>} BY <1>16, TakenBackEmpty
 <2>2. UNCHANGED <<run, loop_pc, ready_pending, call_pc>> /\ disp_pc = "drain" BY <1>16
 <2>3. loop_pc = "enter" \/ Serving => run \in Runs BY DEF LoopRun, Runs
 <2> QED BY <2>1, <2>2, <2>3
<1>17. CASE finish_run_reset BY <1>17
<1>18. CASE finish_run_ack BY <1>18
<1>19. CASE dispatch_ready_batch BY <1>19
<1>20. CASE forward_ready_batch BY <1>20
<1>21. CASE channel_handles_forwarded BY <1>21
<1>22. CASE dispatcher_signal BY <1>22
<1>23. CASE dispatcher_wake BY <1>23
<1>24. CASE activate_ready_dispatch BY <1>24
<1>25. CASE run_forever BY <1>25
<1>26. CASE publish_ready_dispatch BY <1>26 DEF QueuesFresh
<1>27. CASE send_enter_run BY <1>27
<1>28. CASE start_turn BY <1>28
<1>29. CASE end_turn BY <1>29
<1>30. CASE start_generation
 <2>1. run \in Runs BY <1>30 DEF LoopRun, Runs
 <2>2. CASE ready_pending
  <3>1. pending_ready'[run'] = <<>> BY <1>30, <2>1, <2>2
  <3> QED BY <3>1
 <2>3. CASE ~ready_pending BY <1>30, <2>3
 <2> QED BY <2>2, <2>3
<1>31. CASE run_stop_item BY <1>31
<1>32. CASE execute_ready BY <1>32
<1>33. CASE execute_ready_call_soon BY <1>33
<1>34. CASE execute_ready_stop BY <1>34
<1>35. CASE execute_ready_raises BY <1>35
<1>36. CASE execute_ready_handler_raises BY <1>36
<1>37. CASE end_run BY <1>37
<1>38. CASE check_signals_raises BY <1>38
<1>39. CASE poll_once BY <1>39
<1>40. CASE start_park BY <1>40
<1>41. CASE wait_for_wake_check BY <1>41
<1>42. CASE wait_for_wake_register BY <1>42
<1>43. CASE wait_for_wake_recheck BY <1>43
<1>44. CASE wake_up BY <1>44
<1>45. CASE park_deadline BY <1>45
<1>46. CASE parked_io BY <1>46
<1>47. CASE keep_leftover BY <1>47
<1>48. CASE retire_ready_dispatch BY <1>48
<1>49. CASE send_finish_run BY <1>49
<1>50. CASE finish_acknowledged BY <1>50
<1>51. CASE reset_run_state_after_finish_error BY <1>51
<1>52. CASE close BY <1>52
<1>53. CASE send_close BY <1>53
<1>54. CASE join_runtime_thread BY <1>54, SMTT(30)
<1> HIDE DEF TypeOK, CallerType, PendingType, LoopType, QueueFlagged, SignalComing, Serving
<1> QED BY <1>1, <1>2, <1>3, <1>4, <1>5, <1>6, <1>7, <1>8, <1>9, <1>10, <1>11, <1>12, <1>13, <1>14,
    <1>15, <1>16, <1>17, <1>18, <1>19, <1>20, <1>21, <1>22, <1>23, <1>24, <1>25, <1>26, <1>27,
    <1>28, <1>29, <1>30, <1>31, <1>32, <1>33, <1>34, <1>35, <1>36, <1>37, <1>38, <1>39, <1>40,
    <1>41, <1>42, <1>43, <1>44, <1>45, <1>46, <1>47, <1>48, <1>49, <1>50, <1>51, <1>52, <1>53,
    <1>54, ZenonT(60) DEF Next, CallerStep, DispatcherStep, LoopStep, Environment

\* Local work outside the drain is flagged.
LEMMA StepLocalFlagged ==
    ASSUME LocalFlagged, Next
    PROVE  LocalFlagged'
<1> USE DEF LocalFlagged, ParkPcs
<1>1. CASE UNCHANGED <<loop_pc, local_ready, ready_pending>> BY <1>1
<1>2. ASSUME NEW t \in Callers, signal(t) PROVE LocalFlagged' BY <1>2
<1>3. CASE dispatcher_signal BY <1>3
<1>4. CASE run_forever BY <1>4
<1>5. CASE publish_ready_dispatch BY <1>5
<1>6. CASE send_enter_run BY <1>6
<1>7. CASE start_turn BY <1>7
<1>8. CASE end_turn BY <1>8
<1>9. CASE start_generation BY <1>9
<1>10. CASE run_stop_item BY <1>10
<1>11. CASE execute_ready BY <1>11
<1>12. CASE execute_ready_call_soon BY <1>12
<1>13. CASE execute_ready_stop BY <1>13
<1>14. CASE execute_ready_raises BY <1>14
<1>15. CASE execute_ready_handler_raises BY <1>15
<1>16. CASE end_run BY <1>16
<1>17. CASE check_signals_raises BY <1>17
<1>18. CASE poll_once BY <1>18
<1>19. CASE start_park BY <1>19
<1>20. CASE wait_for_wake_check BY <1>20
<1>21. CASE wait_for_wake_register BY <1>21
<1>22. CASE wait_for_wake_recheck BY <1>22
<1>23. CASE wake_up BY <1>23
<1>24. CASE park_deadline BY <1>24
<1>25. CASE parked_io BY <1>25
<1>26. CASE keep_leftover BY <1>26
<1>27. CASE retire_ready_dispatch BY <1>27
<1>28. CASE send_finish_run BY <1>28
<1>29. CASE finish_acknowledged BY <1>29
<1>30. CASE reset_run_state_after_finish_error BY <1>30
<1>31. CASE close BY <1>31
<1>32. CASE send_close BY <1>32
<1>33. CASE join_runtime_thread BY <1>33
<1> HIDE DEF LocalFlagged, ParkPcs
<1> QED BY <1>1, <1>2, <1>3, <1>4, <1>5, <1>6, <1>7, <1>8, <1>9, <1>10, <1>11, <1>12, <1>13, <1>14,
    <1>15, <1>16, <1>17, <1>18, <1>19, <1>20, <1>21, <1>22, <1>23, <1>24, <1>25, <1>26, <1>27,
    <1>28, <1>29, <1>30, <1>31, <1>32, <1>33, ZenonT(60) DEF Next, CallerStep, DispatcherStep, LoopStep,
    Environment, PendingPush

\* A raised flag reaches the parked loop.
LEMMA StepFlagWakes ==
    ASSUME TypeOK, FlagWakes, Next
    PROVE  FlagWakes'
<1> USE DEF TypeOK, CallerType, FlagWakes, WakeComing
<1>1. CASE UNCHANGED <<loop_pc, ready_waker, loop_woken, ready_pending, disp_pc, call_pc>> BY <1>1
<1>2. ASSUME NEW t \in Callers, schedule_callback(t) PROVE FlagWakes' BY <1>2
<1>3. ASSUME NEW t \in Callers, schedule_stop(t) PROVE FlagWakes' BY <1>3
<1>4. ASSUME NEW t \in Callers, schedule_ready_handle(t) PROVE FlagWakes' BY <1>4
<1>5. ASSUME NEW t \in Callers, try_enqueue_active_ready(t) PROVE FlagWakes' BY <1>5 DEF PendingPush
<1>6. ASSUME NEW t \in Callers, signal(t) PROVE FlagWakes' BY <1>6
<1>7. ASSUME NEW t \in Callers, signal_wake(t) PROVE FlagWakes' BY <1>7
<1>8. ASSUME NEW t \in Callers, count_channel_handle(t) PROVE FlagWakes' BY <1>8
<1>9. ASSUME NEW t \in Callers, send_remote_command(t) PROVE FlagWakes' BY <1>9
<1>10. ASSUME NEW t \in Callers, wake_dispatcher(t) PROVE FlagWakes' BY <1>10
<1>11. CASE dispatcher_poll BY <1>11
<1>12. CASE drain_commands_empty BY <1>12
<1>13. CASE handle_ready BY <1>13
<1>14. CASE handle_enter_run BY <1>14
<1>15. CASE handle_finish_run BY <1>15
<1>16. CASE handle_close BY <1>16
<1>17. CASE finish_run_reset BY <1>17
<1>18. CASE finish_run_ack BY <1>18
<1>19. CASE dispatch_ready_batch BY <1>19
<1>20. CASE forward_ready_batch BY <1>20
<1>21. CASE channel_handles_forwarded BY <1>21
<1>22. CASE dispatcher_signal BY <1>22
<1>23. CASE dispatcher_wake BY <1>23
<1>24. CASE activate_ready_dispatch BY <1>24
<1>25. CASE run_forever BY <1>25
<1>26. CASE publish_ready_dispatch BY <1>26
<1>27. CASE send_enter_run BY <1>27
<1>28. CASE start_turn BY <1>28
<1>29. CASE end_turn BY <1>29
<1>30. CASE start_generation BY <1>30
<1>31. CASE run_stop_item BY <1>31
<1>32. CASE execute_ready BY <1>32
<1>33. CASE execute_ready_call_soon BY <1>33
<1>34. CASE execute_ready_stop BY <1>34
<1>35. CASE execute_ready_raises BY <1>35
<1>36. CASE execute_ready_handler_raises BY <1>36
<1>37. CASE end_run BY <1>37
<1>38. CASE check_signals_raises BY <1>38
<1>39. CASE poll_once BY <1>39
<1>40. CASE start_park BY <1>40
<1>41. CASE wait_for_wake_check BY <1>41
<1>42. CASE wait_for_wake_register BY <1>42
<1>43. CASE wait_for_wake_recheck BY <1>43
<1>44. CASE wake_up BY <1>44
<1>45. CASE park_deadline BY <1>45
<1>46. CASE parked_io BY <1>46
<1>47. CASE keep_leftover BY <1>47
<1>48. CASE retire_ready_dispatch BY <1>48
<1>49. CASE send_finish_run BY <1>49
<1>50. CASE finish_acknowledged BY <1>50
<1>51. CASE reset_run_state_after_finish_error BY <1>51
<1>52. CASE close BY <1>52
<1>53. CASE send_close BY <1>53
<1>54. CASE join_runtime_thread BY <1>54, ZenonT(30)
<1> HIDE DEF TypeOK, CallerType, FlagWakes, WakeComing
<1> QED BY <1>1, <1>2, <1>3, <1>4, <1>5, <1>6, <1>7, <1>8, <1>9, <1>10, <1>11, <1>12, <1>13, <1>14,
    <1>15, <1>16, <1>17, <1>18, <1>19, <1>20, <1>21, <1>22, <1>23, <1>24, <1>25, <1>26, <1>27,
    <1>28, <1>29, <1>30, <1>31, <1>32, <1>33, <1>34, <1>35, <1>36, <1>37, <1>38, <1>39, <1>40,
    <1>41, <1>42, <1>43, <1>44, <1>45, <1>46, <1>47, <1>48, <1>49, <1>50, <1>51, <1>52, <1>53,
    <1>54, ZenonT(60) DEF Next, CallerStep, DispatcherStep, LoopStep, Environment

\* The dispatcher never sleeps on a command.
LEMMA StepDispatcherReachable ==
    ASSUME TypeOK, DispatcherReachable, Next
    PROVE  DispatcherReachable'
<1> USE DEF TypeOK, CallerType, DispatcherReachable, DispatcherNotStranded
<1>1. CASE UNCHANGED <<disp_pc, runtime_waker, command_channel, disp_woken, call_pc>> BY <1>1
<1>2. ASSUME NEW t \in Callers, schedule_callback(t) PROVE DispatcherReachable' BY <1>2
<1>3. ASSUME NEW t \in Callers, schedule_stop(t) PROVE DispatcherReachable' BY <1>3
<1>4. ASSUME NEW t \in Callers, schedule_ready_handle(t) PROVE DispatcherReachable' BY <1>4
<1>5. ASSUME NEW t \in Callers, try_enqueue_active_ready(t) PROVE DispatcherReachable'
  BY <1>5 DEF PendingPush
<1>6. ASSUME NEW t \in Callers, signal(t) PROVE DispatcherReachable' BY <1>6
<1>7. ASSUME NEW t \in Callers, signal_wake(t) PROVE DispatcherReachable' BY <1>7
<1>8. ASSUME NEW t \in Callers, count_channel_handle(t) PROVE DispatcherReachable' BY <1>8
<1>9. ASSUME NEW t \in Callers, send_remote_command(t) PROVE DispatcherReachable' BY <1>9
<1>10. ASSUME NEW t \in Callers, wake_dispatcher(t) PROVE DispatcherReachable' BY <1>10
<1>11. CASE dispatcher_poll BY <1>11
<1>12. CASE drain_commands_empty BY <1>12
<1>13. CASE handle_ready BY <1>13
<1>14. CASE handle_enter_run BY <1>14
<1>15. CASE handle_finish_run BY <1>15
<1>16. CASE handle_close BY <1>16
<1>17. CASE finish_run_reset BY <1>17
<1>18. CASE finish_run_ack BY <1>18
<1>19. CASE dispatch_ready_batch BY <1>19
<1>20. CASE forward_ready_batch BY <1>20
<1>21. CASE channel_handles_forwarded BY <1>21
<1>22. CASE dispatcher_signal BY <1>22 DEF DispatcherType
<1>23. CASE dispatcher_wake BY <1>23 DEF DispatcherType
<1>24. CASE activate_ready_dispatch BY <1>24
<1>25. CASE send_enter_run BY <1>25, ItemFacts
<1>26. CASE send_finish_run BY <1>26, ItemFacts
<1>27. CASE send_close BY <1>27, ItemFacts
<1> HIDE DEF TypeOK, CallerType, DispatcherReachable, DispatcherNotStranded
<1> QED BY <1>1, <1>2, <1>3, <1>4, <1>5, <1>6, <1>7, <1>8, <1>9, <1>10, <1>11, <1>12, <1>13, <1>14,
    <1>15, <1>16, <1>17, <1>18, <1>19, <1>20, <1>21, <1>22, <1>23, <1>24, <1>25, <1>26, <1>27, ZenonT(60) DEF
    Next, CallerStep, DispatcherStep, LoopStep, Environment, run_forever, publish_ready_dispatch,
    start_turn, EnqueueLocal, BeginScheduling, end_turn, start_generation, run_stop_item,
    CountItem, TakeStop, execute_ready, Execute, execute_ready_call_soon, execute_ready_stop,
    execute_ready_raises, execute_ready_handler_raises, end_run, RestOfTurn, check_signals_raises,
    WakeLoopTask, poll_once, CompleteIo, start_park, Parked, wait_for_wake_check,
    wait_for_wake_register, wait_for_wake_recheck, wake_up, park_deadline, parked_io,
    keep_leftover, ClearLocalQueue, retire_ready_dispatch, EndOfRun, finish_acknowledged,
    reset_run_state_after_finish_error, close, join_runtime_thread

\* The loop thread numbers its enqueues without gaps.
LEMMA StepLocalNumbering ==
    ASSUME TypeOK, LocalNumbering, Next
    PROVE  LocalNumbering'
<1>1. CASE UNCHANGED <<tls_queue, local_taken, local_ready, local_enqueues, loop_pc>>
  BY <1>1 DEF LocalNumbering
<1>2. CASE run_forever BY <1>2 DEF LocalNumbering
<1>3. CASE publish_ready_dispatch BY <1>3 DEF LocalNumbering
<1>4. CASE send_enter_run BY <1>4 DEF LocalNumbering, TypeOK, FlagType
<1>5. CASE start_turn
 <2>1. \/ /\ local_ready' = Append(local_ready, NextOf("io"))
          /\ local_enqueues' = local_enqueues + 1
       \/ UNCHANGED <<local_ready, local_enqueues>>
   BY <1>5
 <2>2. Len(Append(local_ready, NextOf("io"))) = Len(local_ready) + 1 /\ Len(local_ready) \in Nat
   BY DEF TypeOK, LoopType
 <2>3. UNCHANGED <<tls_queue, local_taken>> /\ loop_pc # "returned_early" BY <1>5
 <2>4. /\ local_enqueues \in Nat /\ local_taken \in Nat BY DEF TypeOK, LoopType, FlagType
 <2> QED BY <2>1, <2>2, <2>3, <2>4 DEF LocalNumbering
<1>6. CASE end_turn BY <1>6 DEF LocalNumbering
<1>7. CASE start_generation
 <2>1. /\ local_taken' = local_taken + Len(local_ready) /\ Len(local_ready') = 0
       /\ UNCHANGED <<tls_queue, local_enqueues>> /\ loop_pc # "returned_early"
   BY <1>7
 <2>2. Len(local_ready) \in Nat /\ local_taken \in Nat BY DEF TypeOK, LoopType
 <2> QED BY <2>1, <2>2 DEF LocalNumbering
<1>8. CASE run_stop_item BY <1>8 DEF LocalNumbering
<1>9. CASE execute_ready BY <1>9 DEF LocalNumbering
<1>10. CASE execute_ready_call_soon
 <2>1. \/ /\ local_ready' = Append(local_ready, NextOf("loop"))
          /\ local_enqueues' = local_enqueues + 1
       \/ UNCHANGED <<local_ready, local_enqueues>>
   BY <1>10
 <2>2. Len(Append(local_ready, NextOf("loop"))) = Len(local_ready) + 1 /\ Len(local_ready) \in Nat
   BY DEF TypeOK, LoopType
 <2>3. UNCHANGED <<tls_queue, local_taken>> /\ loop_pc # "returned_early" BY <1>10
 <2>4. /\ local_enqueues \in Nat /\ local_taken \in Nat BY DEF TypeOK, LoopType, FlagType
 <2> QED BY <2>1, <2>2, <2>3, <2>4 DEF LocalNumbering
<1>11. CASE execute_ready_stop
 <2>1. \/ /\ local_ready' = Append(local_ready, StopItem)
          /\ local_enqueues' = local_enqueues + 1
       \/ UNCHANGED <<local_ready, local_enqueues>>
   BY <1>11
 <2>2. Len(Append(local_ready, StopItem)) = Len(local_ready) + 1 /\ Len(local_ready) \in Nat
   BY DEF TypeOK, LoopType
 <2>3. UNCHANGED <<tls_queue, local_taken>> /\ loop_pc # "returned_early" BY <1>11
 <2>4. /\ local_enqueues \in Nat /\ local_taken \in Nat BY DEF TypeOK, LoopType, FlagType
 <2> QED BY <2>1, <2>2, <2>3, <2>4 DEF LocalNumbering
<1>12. CASE execute_ready_raises BY <1>12 DEF LocalNumbering
<1>13. CASE execute_ready_handler_raises BY <1>13 DEF LocalNumbering
<1>14. CASE end_run BY <1>14 DEF LocalNumbering
<1>15. CASE check_signals_raises
 <2>1. \/ /\ local_ready' = Append(local_ready, StopItem)
          /\ local_enqueues' = local_enqueues + 1
       \/ UNCHANGED <<local_ready, local_enqueues>>
   BY <1>15
 <2>2. Len(Append(local_ready, StopItem)) = Len(local_ready) + 1 /\ Len(local_ready) \in Nat
   BY DEF TypeOK, LoopType
 <2>3. UNCHANGED <<tls_queue, local_taken>> /\ loop_pc # "returned_early" BY <1>15
 <2>4. /\ local_enqueues \in Nat /\ local_taken \in Nat BY DEF TypeOK, LoopType, FlagType
 <2> QED BY <2>1, <2>2, <2>3, <2>4 DEF LocalNumbering
<1>16. CASE poll_once
 <2>1. \/ /\ local_ready' = Append(local_ready, NextOf("io"))
          /\ local_enqueues' = local_enqueues + 1
       \/ UNCHANGED <<local_ready, local_enqueues>>
   BY <1>16
 <2>2. Len(Append(local_ready, NextOf("io"))) = Len(local_ready) + 1 /\ Len(local_ready) \in Nat
   BY DEF TypeOK, LoopType
 <2>3. UNCHANGED <<tls_queue, local_taken>> /\ loop_pc # "returned_early" BY <1>16
 <2>4. /\ local_enqueues \in Nat /\ local_taken \in Nat BY DEF TypeOK, LoopType, FlagType
 <2> QED BY <2>1, <2>2, <2>3, <2>4 DEF LocalNumbering
<1>17. CASE start_park BY <1>17 DEF LocalNumbering
<1>18. CASE wait_for_wake_check BY <1>18 DEF LocalNumbering
<1>19. CASE wait_for_wake_register BY <1>19 DEF LocalNumbering
<1>20. CASE wait_for_wake_recheck BY <1>20 DEF LocalNumbering
<1>21. CASE wake_up BY <1>21 DEF LocalNumbering
<1>22. CASE park_deadline BY <1>22 DEF LocalNumbering
<1>23. CASE parked_io
 <2>1. \/ /\ local_ready' = Append(local_ready, NextOf("io"))
          /\ local_enqueues' = local_enqueues + 1
       \/ UNCHANGED <<local_ready, local_enqueues>>
   BY <1>23
 <2>2. Len(Append(local_ready, NextOf("io"))) = Len(local_ready) + 1 /\ Len(local_ready) \in Nat
   BY DEF TypeOK, LoopType
 <2>3. UNCHANGED <<tls_queue, local_taken>> /\ loop_pc # "returned_early" BY <1>23
 <2>4. /\ local_enqueues \in Nat /\ local_taken \in Nat BY DEF TypeOK, LoopType, FlagType
 <2> QED BY <2>1, <2>2, <2>3, <2>4 DEF LocalNumbering
<1>24. CASE keep_leftover BY <1>24 DEF LocalNumbering
<1>25. CASE retire_ready_dispatch BY <1>25 DEF LocalNumbering
<1>26. CASE send_finish_run BY <1>26 DEF LocalNumbering
<1>27. CASE finish_acknowledged BY <1>27 DEF LocalNumbering
<1>28. CASE reset_run_state_after_finish_error BY <1>28 DEF LocalNumbering
<1>29. CASE close BY <1>29 DEF LocalNumbering
<1>30. CASE send_close BY <1>30 DEF LocalNumbering
<1>31. CASE join_runtime_thread BY <1>31 DEF LocalNumbering
<1> QED BY <1>1, <1>2, <1>3, <1>4, <1>5, <1>6, <1>7, <1>8, <1>9, <1>10, <1>11, <1>12, <1>13, <1>14,
    <1>15, <1>16, <1>17, <1>18, <1>19, <1>20, <1>21, <1>22, <1>23, <1>24, <1>25, <1>26, <1>27,
    <1>28, <1>29, <1>30, <1>31, ZenonT(60) DEF Next, CallerStep, DispatcherStep, LoopStep, Environment,
    PendingPush

-----------------------------------------------------------------------------
\* The inductive invariant and what follows from it.

\* Every step keeps the types, given which run each thread works for.
LEMMA StepTypeOK ==
    ASSUME TypeOK, RunsConsistent, Next
    PROVE  TypeOK'
<1>1. /\ StateType' /\ DispatchType' /\ PendingType' /\ ChannelType' /\ FlagType'
      /\ LoopType' /\ DispatcherType' /\ CallerType' /\ HistoryType'
  BY StepStateType, StepDispatchType, StepPendingType, StepChannelType, StepFlagType,
    StepLoopType, StepDispatcherType, StepCallerType, StepHistoryType DEF TypeOK
<1> QED BY <1>1 DEF TypeOK

\* Every step keeps the strengthening.
LEMMA StepWakeInvariant ==
    ASSUME TypeOK, WakeInvariant, Next
    PROVE  WakeInvariant'
<1>1. LoopRun' /\ ActiveRun' /\ DispatcherRun'
  BY StepLoopRun, StepActiveRun, StepDispatcherRun DEF WakeInvariant, RunsConsistent
<1>2. QueuesFresh' /\ QueueFlagged' /\ LocalFlagged'
  BY StepQueuesFresh, StepQueueFlagged, StepLocalFlagged DEF WakeInvariant, RunsConsistent
<1>3. FlagWakes' /\ DispatcherReachable' BY StepFlagWakes, StepDispatcherReachable DEF WakeInvariant
<1> QED BY <1>1, <1>2, <1>3 DEF WakeInvariant, RunsConsistent

\* A step that changes nothing keeps everything.
LEMMA Stutter ==
    ASSUME TypeOK, WakeInvariant, LocalNumbering, UNCHANGED vars
    PROVE  TypeOK' /\ WakeInvariant' /\ LocalNumbering'
<1>1. TypeOK'
  BY DEF vars, TypeOK, StateType, DispatchType, PendingType, ChannelType, FlagType, LoopType,
    DispatcherType, CallerType, HistoryType
<1>2. RunsConsistent' /\ QueuesFresh' /\ QueueFlagged' /\ LocalFlagged'
  BY DEF vars, WakeInvariant, RunsConsistent, LoopRun, ActiveRun, Entered, DispatcherRun,
    QueuesFresh, QueueFlagged, LocalFlagged, Serving, SignalComing
<1>3. FlagWakes' /\ DispatcherReachable' /\ LocalNumbering'
  BY DEF vars, WakeInvariant, FlagWakes, WakeComing, DispatcherReachable, DispatcherNotStranded,
    LocalNumbering
<1> QED BY <1>1, <1>2, <1>3 DEF WakeInvariant

\* A new loop satisfies the invariant.
LEMMA InitInvariant ==
    ASSUME Init
    PROVE  TypeOK /\ WakeInvariant /\ LocalNumbering
<1>1. StateType /\ DispatchType /\ FlagType
 <2>1. DispatchType BY DEF Init, DispatchType
 <2>3. StateType BY Zenon DEF Init, StateType
 <2>2. local_enqueues \in Nat /\ channel_handles \in Int /\ done_acks \subseteq Runs BY DEF Init
 <2> QED BY <2>1, <2>2, <2>3 DEF Init, FlagType
<1>2. PendingType /\ ChannelType BY DEF Init, PendingType, ChannelType
<1>3. LoopType /\ DispatcherType
 <2>1. /\ local_ready \in Seq(ReadyItem) /\ ready_batch \in Seq(ReadyItem)
       /\ disp_batch \in Seq(ReadyItem)
   BY DEF Init
 <2>2. /\ run \in 0..MaxRuns /\ local_taken \in Nat
       /\ processed_this_turn \in 0..Budget /\ active_run \in 0..MaxRuns
       /\ disp_handles \in Nat /\ disp_mark \in Nat /\ disp_done \in 0..MaxRuns
   BY DEF Init
 <2>3. loop_pc \in LoopPcs /\ disp_pc \in DispPcs /\ loop_pc # "drain"
   BY DEF Init, LoopPcs, DispPcs
 <2> QED BY <2>1, <2>2, <2>3 DEF Init, LoopType, DispatcherType
<1>4. CallerType /\ HistoryType BY ItemFacts DEF Init, CallerType, CallPcs, HistoryType
<1>5. RunsConsistent /\ QueuesFresh /\ QueueFlagged /\ LocalFlagged
  BY DEF Init, RunsConsistent, LoopRun, ActiveRun, Entered, DispatcherRun, QueuesFresh,
    QueueFlagged, LocalFlagged, Serving, NoDispatchPcs, ParkPcs
<1>6. FlagWakes /\ DispatcherReachable /\ LocalNumbering
  BY DEF Init, FlagWakes, DispatcherReachable, DispatcherNotStranded, LocalNumbering
<1> QED BY <1>1, <1>2, <1>3, <1>4, <1>5, <1>6, Zenon DEF TypeOK, WakeInvariant

\* The inductive invariant holds in every reachable state.
THEOREM EngineInvariant ==
    Spec => [](TypeOK /\ WakeInvariant /\ LocalNumbering)
<1> DEFINE Inv == TypeOK /\ WakeInvariant /\ LocalNumbering
<1>1. Init => Inv BY InitInvariant
<1>2. Inv /\ [Next]_vars => Inv'
 <2>1. ASSUME Inv, Next PROVE Inv'
   BY <2>1, StepTypeOK, StepWakeInvariant, StepLocalNumbering DEF WakeInvariant
 <2>2. ASSUME Inv, UNCHANGED vars PROVE Inv' BY <2>2, Stutter
 <2> QED BY <2>1, <2>2
<1> QED BY <1>1, <1>2, PTL DEF Spec

\* Types hold for every number of producers, runs and callbacks: whichever of
\* the three paths an item takes, it stays a well-formed ready item, and the
\* budget bounds every turn.
THEOREM TypeCorrectness == Spec => []TypeOK
<1> QED BY EngineInvariant, PTL

\* The loop thread never sleeps on work: the flag of LoopWake, the registered
\* waker and the second check of WaitForWake leave no window, with the
\* dispatcher, any number of producers, late answers and raising callbacks.
THEOREM LoopNeverSleepsOnWork == Spec => []NoLostWakeup
<1>1. TypeOK /\ WakeInvariant => NoLostWakeup
  BY DEF WakeInvariant, QueueFlagged, LocalFlagged, FlagWakes, NoLostWakeup, Serving, ParkPcs
<1> QED BY <1>1, EngineInvariant, PTL

\* The dispatcher never sleeps on a command: publishing runtime_waker before
\* draining, and waking it after every send, leaves no window.
THEOREM DispatcherNeverSleepsOnCommand == Spec => []DispatcherNotStranded
<1>1. WakeInvariant => DispatcherNotStranded BY DEF WakeInvariant, DispatcherReachable
<1> QED BY <1>1, EngineInvariant, PTL

\* Neither thread sleeps on work: the two theorems above and type correctness,
\* which is the invariant the runs check on small instances.
THEOREM WorkNeverSleptOn == Spec => []NeverSleepsOnWork
<1> QED BY TypeCorrectness, LoopNeverSleepsOnWork, DispatcherNeverSleepsOnCommand, PTL DEF
    NeverSleepsOnWork

\* The marks that merge_ready_generation compares count the loop thread's own
\* enqueues, without gaps, however turns and runs end.
THEOREM EnqueuesNumbered == Spec => []LocalNumbering
<1> QED BY EngineInvariant, PTL

-----------------------------------------------------------------------------
(* The count behind the gate of schedule_ready_handle. *)

HandleCommands == {c \in Command : c.op = "ready" /\ c.item # StopItem}
Sending == {t \in Callers : call_pc[t] = "send" /\ call_item[t] # StopItem}

\* channel_handles, as a sum over the threads and queues a handle passes.
HandlesCounted ==
    /\ channel_handles = Cardinality(Sending) + CountIn(command_channel, HandleCommands)
                           + disp_handles
    /\ \A t \in Callers : call_pc[t] \in {"gate", "count"} => call_item[t] # StopItem

\* The loop thread has sent EnterRun and not yet retired the run's queue.
InRun == Serving \/ loop_pc \in {"leftover", "retire", "returned_early"}

\* Runs are entered in their order.
EnterOrder ==
    /\ \A i, j \in 1..Len(command_channel) :
          i < j /\ command_channel[i].op = "enter" /\ command_channel[j].op = "enter" =>
              command_channel[i].run < command_channel[j].run
    /\ \A i \in 1..Len(command_channel) :
          command_channel[i].op = "enter" => active_run < command_channel[i].run

\* What ends an earlier run comes before the EnterRun of this one.
EndsBeforeEnter ==
    InRun => \A i \in 1..Len(command_channel) :
                command_channel[i].op \in {"finish", "close"} =>
                    \E j \in 1..Len(command_channel) :
                        /\ i < j /\ command_channel[j].op = "enter"
                        /\ command_channel[j].run = run

\* An open queue is the active run's, and every handle the dispatcher holds
\* beside it is still counted: what finish_run takes back is not.
OpenQueue ==
    /\ active_ready_dispatch.accepting =>
          /\ active_run = run /\ active_ready_dispatch.run = run /\ run # 0
          /\ CountIn(disp_batch, Callback) <= disp_handles
    /\ disp_pc \in {"uncount", "signal", "wake", "activate"} => disp_batch = <<>>

GateInvariant == HandlesCounted /\ EnterOrder /\ EndsBeforeEnter /\ OpenQueue

\* The loop thread has begun the run and not yet sent its FinishRun.
MidRun == Serving \/ loop_pc \in {"publish", "enter", "leftover", "retire", "finish"}

\* A run is finished once: its FinishRun is under way only while the loop
\* thread waits for the answer (with no timeout, and no raising handler).
FinishedOnce ==
    /\ \A i \in 1..Len(command_channel) : command_channel[i].op = "finish" =>
          /\ loop_pc = "await" /\ command_channel[i].run = run /\ run \notin done_acks
          /\ disp_pc \notin {"reset", "ack"}
          /\ \A j \in 1..Len(command_channel) : command_channel[j].op = "finish" => j = i
    /\ \A i \in 1..Len(command_channel) :
          command_channel[i].op = "close" => loop_pc \in {"join", "closed"}
    /\ disp_pc \in {"reset", "ack"} =>
          loop_pc = "await" /\ disp_done = run /\ run \notin done_acks
    /\ \A r \in done_acks : r <= run
    /\ MidRun => run \notin done_acks /\ running
    /\ loop_pc # "returned_early"
    /\ TlsClearedBeforeDrop

\* Callbacks are numbered when their scheduling begins, accepted later and
\* once, and executed after that.
Numbered ==
    /\ executed \subseteq accepted
    /\ \A x \in accepted : x.n <= posted[x.by]
    /\ \A t \in Callers :
          call_pc[t] \in Posting /\ call_item[t] # StopItem =>
              /\ call_item[t].by = t /\ call_item[t].n <= posted[t]
              /\ call_item[t] \notin accepted

\* The loop thread's own queues hold something only during a run.
OwnQueues ==
    Serving \/ loop_pc = "leftover" \/ (local_ready = <<>> /\ ready_batch = <<>>)

\* A loop that sent Close runs nothing more.
ClosedLast ==
    /\ disp_pc = "dead" => loop_pc \in {"join", "closed"}
    /\ \A i \in 1..Len(command_channel) :
          command_channel[i].op = "close" => loop_pc \in {"join", "closed"}

\* Neither end dropped its queues.
Intact == disp_pc # "dead" /\ loop_pc # "returned_early"

\* A callback that is accepted and not executed waits in one place, and no
\* other callback waits anywhere.
CopiesExact ==
    Intact => \A x \in Callback : Copies(x) = IF x \in accepted \ executed THEN 1 ELSE 0
\* Every step keeps the count: a handle is counted before it is sent, and
\* discounted once it is in the queue of the run.
LEMMA StepHandlesCounted ==
    ASSUME TypeOK, LoopRun, HandlesCounted, Next
    PROVE  HandlesCounted'
<1>0. /\ CallerType /\ command_channel \in Seq(Command) /\ channel_handles \in Int
      /\ disp_handles \in Nat /\ IsFiniteSet(Callers) /\ "loop" \in Callers
 <2>1. IsFiniteSet(Producers \union {"loop"}) BY FS_AddElement
 <2> QED BY <2>1 DEF TypeOK, ChannelType, FlagType, DispatcherType, Callers
<1>s. /\ IsFiniteSet(Sending) /\ Cardinality(Sending) \in Nat
      /\ CountIn(command_channel, HandleCommands) \in Nat
 <2>1. Sending \in SUBSET Callers BY DEF Sending
 <2>2. IsFiniteSet(Sending) BY <1>0, <2>1, FS_Subset
 <2> QED BY <1>0, <2>2, FS_CardinalityType, CountType
<1>m. ASSUME NEW t \in Callers, NEW p, p # "send", call_pc[t] # "send",
             call_pc' = [call_pc EXCEPT ![t] = p],
             \A u \in Callers : u # t => call_item'[u] = call_item[u]
      PROVE  Sending' = Sending
  BY <1>0, <1>m DEF Sending, CallerType
<1>r. ASSUME UNCHANGED <<call_pc, call_item, channel_handles, disp_handles>>,
             command_channel # <<>>, command_channel' = Tail(command_channel),
             Head(command_channel).op # "ready"
      PROVE  HandlesCounted'
 <2>1. Head(command_channel) \notin HandleCommands BY <1>r DEF HandleCommands
 <2>2. CountIn(command_channel, HandleCommands) = CountIn(command_channel', HandleCommands) + 0
   BY <1>0, <1>r, <2>1, CountTail
 <2>3. CountIn(command_channel', HandleCommands) \in Nat
   BY <1>0, <1>r, HeadTailProperties, CountType
 <2>4. Sending' = Sending BY <1>r DEF Sending
 <2> QED BY <1>0, <1>s, <1>r, <2>2, <2>3, <2>4 DEF HandlesCounted
<1>l. ASSUME NEW c \in Command, c.op # "ready", UNCHANGED <<call_item, channel_handles, disp_handles>>,
             command_channel' = Append(command_channel, c),
             call_pc' = [call_pc EXCEPT !["loop"] = "wake_dispatcher"], call_pc["loop"] = "idle"
      PROVE  HandlesCounted'
 <2>1. CountIn(command_channel', HandleCommands) = CountIn(command_channel, HandleCommands)
  <3>1. c \notin HandleCommands BY <1>l DEF HandleCommands
  <3>2. CountIn(command_channel', HandleCommands) = CountIn(command_channel, HandleCommands) + 0
    BY <1>0, <1>l, <3>1, CountAppend
  <3> QED BY <1>s, <3>2
 <2>2. Sending' = Sending BY <1>0, <1>l, <1>m
 <2>3. \A u \in Callers : call_pc'[u] \in {"gate", "count"} => call_item'[u] # StopItem
   BY <1>0, <1>l DEF HandlesCounted, CallerType
 <2> QED BY <1>l, <2>1, <2>2, <2>3 DEF HandlesCounted
<1>1. CASE UNCHANGED <<call_pc, call_item, channel_handles, command_channel, disp_handles>>
  BY <1>1 DEF HandlesCounted, Sending
<1>2. ASSUME NEW t \in Callers, schedule_callback(t) PROVE HandlesCounted'
 <2>1. Sending' = Sending BY <1>2, <1>0, <1>m DEF CallerType
 <2>2. UNCHANGED <<command_channel, channel_handles, disp_handles>> BY <1>2
 <2>3. \A u \in Callers : call_pc'[u] \in {"gate", "count"} => call_item'[u] # StopItem
  <3>1. NextOf(t) # StopItem BY DEF NextOf, StopItem, Callers
  <3> QED BY <1>2, <1>0, <3>1 DEF HandlesCounted, CallerType
 <2> QED BY <2>1, <2>2, <2>3 DEF HandlesCounted
<1>3. ASSUME NEW t \in Callers, schedule_stop(t) PROVE HandlesCounted'
 <2>1. Sending' = Sending BY <1>3, <1>0, <1>m DEF CallerType
 <2>2. UNCHANGED <<command_channel, channel_handles, disp_handles>> BY <1>3
 <2>3. \A u \in Callers : call_pc'[u] \in {"gate", "count"} => call_item'[u] # StopItem
   BY <1>3, <1>0 DEF HandlesCounted, CallerType
 <2> QED BY <2>1, <2>2, <2>3 DEF HandlesCounted
<1>4. ASSUME NEW t \in Callers, schedule_ready_handle(t) PROVE HandlesCounted'
 <2>1. Sending' = Sending BY <1>4, <1>0, <1>m DEF CallerType
 <2>2. UNCHANGED <<command_channel, channel_handles, disp_handles>> BY <1>4
 <2>3. \A u \in Callers : call_pc'[u] \in {"gate", "count"} => call_item'[u] # StopItem
   BY <1>4, <1>0 DEF HandlesCounted, CallerType
 <2> QED BY <2>1, <2>2, <2>3 DEF HandlesCounted
<1>5. ASSUME NEW t \in Callers, signal(t) PROVE HandlesCounted'
 <2>1. Sending' = Sending BY <1>5, <1>0, <1>m DEF CallerType
 <2>2. UNCHANGED <<command_channel, channel_handles, disp_handles>> BY <1>5
 <2>3. \A u \in Callers : call_pc'[u] \in {"gate", "count"} => call_item'[u] # StopItem
   BY <1>5, <1>0 DEF HandlesCounted, CallerType
 <2> QED BY <2>1, <2>2, <2>3 DEF HandlesCounted
<1>6. ASSUME NEW t \in Callers, signal_wake(t) PROVE HandlesCounted'
 <2>1. Sending' = Sending BY <1>6, <1>0, <1>m DEF CallerType
 <2>2. UNCHANGED <<command_channel, channel_handles, disp_handles>> BY <1>6
 <2>3. \A u \in Callers : call_pc'[u] \in {"gate", "count"} => call_item'[u] # StopItem
   BY <1>6, <1>0 DEF HandlesCounted, CallerType
 <2> QED BY <2>1, <2>2, <2>3 DEF HandlesCounted
<1>7. ASSUME NEW t \in Callers, wake_dispatcher(t) PROVE HandlesCounted'
 <2>1. Sending' = Sending BY <1>7, <1>0, <1>m DEF CallerType
 <2>2. UNCHANGED <<command_channel, channel_handles, disp_handles>> BY <1>7
 <2>3. \A u \in Callers : call_pc'[u] \in {"gate", "count"} => call_item'[u] # StopItem
   BY <1>7, <1>0 DEF HandlesCounted, CallerType
 <2> QED BY <2>1, <2>2, <2>3 DEF HandlesCounted
<1>8. ASSUME NEW t \in Callers, try_enqueue_active_ready(t) PROVE HandlesCounted'
 <2>1. Sending' = Sending BY <1>8, <1>0 DEF Sending, CallerType
 <2>2. UNCHANGED <<command_channel, channel_handles, disp_handles>> BY <1>8
 <2>3. \A u \in Callers : call_pc'[u] \in {"gate", "count"} => call_item'[u] # StopItem
   BY <1>8, <1>0 DEF HandlesCounted, CallerType
 <2> QED BY <2>1, <2>2, <2>3 DEF HandlesCounted
<1>9. ASSUME NEW t \in Callers, count_channel_handle(t) PROVE HandlesCounted'
 <2>1. Sending' = Sending \union {t} /\ t \notin Sending
   BY <1>9, <1>0 DEF Sending, CallerType, HandlesCounted
 <2>2. Cardinality(Sending') = Cardinality(Sending) + 1 BY <1>s, <2>1, FS_AddElement
 <2>3. UNCHANGED <<command_channel, disp_handles>> /\ channel_handles' = channel_handles + 1
   BY <1>9
 <2>4. \A u \in Callers : call_pc'[u] \in {"gate", "count"} => call_item'[u] # StopItem
   BY <1>9, <1>0 DEF HandlesCounted, CallerType
 <2> QED BY <1>0, <1>s, <2>2, <2>3, <2>4 DEF HandlesCounted
<1>10. ASSUME NEW t \in Callers, send_remote_command(t) PROVE HandlesCounted'
  <2> DEFINE c == [op |-> "ready", item |-> call_item[t]]
 <2>1. call_item[t] \in ReadyItem /\ c \in Command /\ (c \in HandleCommands <=> call_item[t] # StopItem)
   BY <1>0 DEF CallerType, Command, HandleCommands
 <2> HIDE DEF c
 <2>2. Cardinality(Sending') = Cardinality(Sending) - HandleCount(call_item[t])
  <3>1. CASE call_item[t] = StopItem
   <4>1. Sending' = Sending BY <1>10, <1>0, <3>1 DEF Sending, CallerType
   <4> QED BY <1>s, <3>1, <4>1
  <3>2. CASE call_item[t] # StopItem
   <4>1. Sending' = Sending \ {t} /\ t \in Sending BY <1>10, <1>0, <3>2 DEF Sending, CallerType
   <4> QED BY <1>s, <3>2, <4>1, FS_RemoveElement
  <3> QED BY <3>1, <3>2
 <2>3. \/ /\ channel_handles' = channel_handles - HandleCount(call_item[t])
          /\ UNCHANGED command_channel
       \/ channel_handles' = channel_handles /\ command_channel' = Append(command_channel, c)
   BY <1>10 DEF c
 <2>4. CountIn(Append(command_channel, c), HandleCommands)
         = CountIn(command_channel, HandleCommands) + HandleCount(call_item[t])
   BY <1>0, <2>1, CountAppend
 <2>5. disp_handles' = disp_handles /\ HandleCount(call_item[t]) \in Nat BY <1>10
 <2>6. \A u \in Callers : call_pc'[u] \in {"gate", "count"} => call_item'[u] # StopItem
   BY <1>10, <1>0 DEF HandlesCounted, CallerType
 <2>7. channel_handles' = Cardinality(Sending') + CountIn(command_channel', HandleCommands) + disp_handles'
   <3> DEFINE h == HandleCount(call_item[t])
              a == Cardinality(Sending)
              b == CountIn(command_channel, HandleCommands)
  <3>1. h \in Nat /\ a \in Nat /\ b \in Nat /\ channel_handles = a + b + disp_handles
    BY <1>s, <2>5 DEF HandlesCounted
  <3>2. Cardinality(Sending') = a - h BY <2>2
  <3>3. \/ channel_handles' = channel_handles - h /\ CountIn(command_channel', HandleCommands) = b
        \/ channel_handles' = channel_handles /\ CountIn(command_channel', HandleCommands) = b + h
    BY <2>3, <2>4
  <3> HIDE DEF h, a, b
  <3> QED BY <1>0, <2>5, <3>1, <3>2, <3>3
 <2> QED BY <2>6, <2>7 DEF HandlesCounted
<1>11. CASE handle_ready
 <2>1. UNCHANGED <<call_pc, call_item, channel_handles>> /\ command_channel # <<>>
       /\ command_channel' = Tail(command_channel)
       /\ disp_handles' = disp_handles + HandleCount(Head(command_channel).item)
       /\ Head(command_channel).op = "ready"
   BY <1>11
 <2>2. Head(command_channel) \in HandleCommands <=> Head(command_channel).item # StopItem
   BY <1>0, <2>1, HeadTailProperties DEF HandleCommands
 <2>3. CountIn(command_channel, HandleCommands)
         = CountIn(command_channel', HandleCommands) + HandleCount(Head(command_channel).item)
   BY <1>0, <2>1, <2>2, CountTail
 <2>4. Sending' = Sending BY <2>1 DEF Sending
 <2>5. CountIn(command_channel', HandleCommands) \in Nat /\ HandleCount(Head(command_channel).item) \in Nat
   BY <1>0, <2>1, HeadTailProperties, CountType
 <2>6. channel_handles' = Cardinality(Sending') + CountIn(command_channel', HandleCommands) + disp_handles'
   BY <1>0, <1>s, <2>1, <2>3, <2>4, <2>5 DEF HandlesCounted
 <2> QED BY <2>1, <2>6 DEF HandlesCounted
<1>12. CASE handle_enter_run
 <2>1. UNCHANGED <<call_pc, call_item, channel_handles, disp_handles>>
       /\ command_channel # <<>> /\ command_channel' = Tail(command_channel)
       /\ Head(command_channel).op # "ready"
   BY <1>12
 <2> QED BY <1>r, <2>1
<1>13. CASE handle_finish_run
 <2>1. UNCHANGED <<call_pc, call_item, channel_handles, disp_handles>>
       /\ command_channel # <<>> /\ command_channel' = Tail(command_channel)
       /\ Head(command_channel).op # "ready"
   BY <1>13
 <2> QED BY <1>r, <2>1
<1>14. CASE handle_close
 <2>1. UNCHANGED <<call_pc, call_item, channel_handles, disp_handles>>
       /\ command_channel # <<>> /\ command_channel' = Tail(command_channel)
       /\ Head(command_channel).op # "ready"
   BY <1>14
 <2> QED BY <1>r, <2>1
<1>15. CASE send_enter_run
  <2> DEFINE c == [op |-> "enter", run |-> run, mark |-> local_enqueues]
 <2>0. run \in Runs /\ local_enqueues \in Nat
   BY <1>15 DEF LoopRun, TypeOK, LoopType, FlagType, Runs
 <2>1. c \in Command /\ c.op # "ready" BY <2>0 DEF Command
 <2> HIDE DEF c
 <2>2. UNCHANGED <<call_item, channel_handles, disp_handles>>
       /\ command_channel' = Append(command_channel, c)
       /\ call_pc' = [call_pc EXCEPT !["loop"] = "wake_dispatcher"] /\ call_pc["loop"] = "idle"
   BY <1>15 DEF c
 <2> QED BY <1>l, <2>1, <2>2
<1>16. CASE send_finish_run
  <2> DEFINE c == [op |-> "finish", run |-> run]
 <2>0. run \in Runs /\ local_enqueues \in Nat
   BY <1>16 DEF LoopRun, TypeOK, LoopType, FlagType, Runs
 <2>1. c \in Command /\ c.op # "ready" BY <2>0 DEF Command
 <2> HIDE DEF c
 <2>2. UNCHANGED <<call_item, channel_handles, disp_handles>>
       /\ command_channel' = Append(command_channel, c)
       /\ call_pc' = [call_pc EXCEPT !["loop"] = "wake_dispatcher"] /\ call_pc["loop"] = "idle"
   BY <1>16 DEF c
 <2> QED BY <1>l, <2>1, <2>2
<1>17. CASE send_close
  <2> DEFINE c == [op |-> "close"]
 <2>1. c \in Command /\ c.op # "ready" BY DEF Command
 <2> HIDE DEF c
 <2>2. UNCHANGED <<call_item, channel_handles, disp_handles>>
       /\ command_channel' = Append(command_channel, c)
       /\ call_pc' = [call_pc EXCEPT !["loop"] = "wake_dispatcher"] /\ call_pc["loop"] = "idle"
   BY <1>17 DEF c
 <2> QED BY <1>l, <2>1, <2>2
<1>18. CASE channel_handles_forwarded
 <2>1. UNCHANGED <<call_pc, call_item, command_channel>> /\ disp_handles' = 0
       /\ channel_handles' = channel_handles - disp_handles
   BY <1>18
 <2>2. Sending' = Sending BY <2>1 DEF Sending
 <2> QED BY <1>0, <1>s, <2>1, <2>2 DEF HandlesCounted
<1>19. CASE LoopStep BY <1>19, <1>1, <1>15, <1>16, <1>17 DEF LoopStep
<1>20. CASE DispatcherStep BY <1>20, <1>1, <1>11, <1>12, <1>13, <1>14, <1>18 DEF DispatcherStep
<1>21. CASE Environment BY <1>21, <1>1, <1>2, <1>3 DEF Environment
<1>22. ASSUME NEW t \in Callers, CallerStep(t) PROVE HandlesCounted'
  BY <1>22, <1>1, <1>4, <1>5, <1>6, <1>7, <1>8, <1>9, <1>10 DEF CallerStep
<1> QED BY <1>19, <1>20, <1>21, <1>22 DEF Next

\* The channel after a send and after a receive.
LEMMA ChannelAppend ==
    ASSUME command_channel \in Seq(Command), NEW c \in Command,
           command_channel' = Append(command_channel, c)
    PROVE  /\ Len(command_channel) \in Nat /\ Len(command_channel') = Len(command_channel) + 1
           /\ \A i \in 1..Len(command_channel) : command_channel'[i] = command_channel[i]
           /\ command_channel'[Len(command_channel) + 1] = c
  BY AppendProperties, LenProperties

LEMMA ChannelTail ==
    ASSUME command_channel \in Seq(Command), command_channel # <<>>,
           command_channel' = Tail(command_channel)
    PROVE  /\ Len(command_channel) \in Nat \ {0} /\ Len(command_channel') = Len(command_channel) - 1
           /\ \A i \in 1..(Len(command_channel) - 1) : command_channel'[i] = command_channel[i + 1]
           /\ Head(command_channel) = command_channel[1]
           /\ Head(command_channel) \in Command
  BY TailElems

\* What a step does to the channel.
LEMMA ChannelSends ==
    ASSUME TypeOK, LoopRun
    PROVE  /\ \A t \in Callers : send_remote_command(t) =>
                 \/ UNCHANGED command_channel
                 \/ \E c \in Command : c.op = "ready" /\ command_channel' = Append(command_channel, c)
           /\ send_enter_run => \E c \in Command : /\ c.op = "enter" /\ c.run = run
                                                   /\ command_channel' = Append(command_channel, c)
           /\ send_finish_run => \E c \in Command : /\ c.op = "finish" /\ c.run = run
                                                    /\ command_channel' = Append(command_channel, c)
           /\ send_close => \E c \in Command : /\ c.op = "close"
                                               /\ command_channel' = Append(command_channel, c)
<1>1. ASSUME NEW t \in Callers, send_remote_command(t)
      PROVE  \/ UNCHANGED command_channel
             \/ \E c \in Command : c.op = "ready" /\ command_channel' = Append(command_channel, c)
  <2> DEFINE c == [op |-> "ready", item |-> call_item[t]]
 <2>1. c \in Command /\ c.op = "ready" BY DEF TypeOK, CallerType, Command
 <2>2. UNCHANGED command_channel \/ command_channel' = Append(command_channel, c) BY <1>1
 <2> HIDE DEF c
 <2> QED BY <2>1, <2>2
<1>2. ASSUME send_enter_run
      PROVE  \E c \in Command : /\ c.op = "enter" /\ c.run = run
                                /\ command_channel' = Append(command_channel, c)
  <2> DEFINE c == [op |-> "enter", run |-> run, mark |-> local_enqueues]
 <2>0. run \in Runs /\ local_enqueues \in Nat BY <1>2 DEF LoopRun, TypeOK, LoopType, FlagType, Runs
 <2>1. c \in Command /\ c.op = "enter" /\ c.run = run BY <2>0 DEF Command
 <2>2. command_channel' = Append(command_channel, c) BY <1>2
 <2> HIDE DEF c
 <2> QED BY <2>1, <2>2
<1>3. ASSUME send_finish_run
      PROVE  \E c \in Command : /\ c.op = "finish" /\ c.run = run
                                /\ command_channel' = Append(command_channel, c)
  <2> DEFINE c == [op |-> "finish", run |-> run]
 <2>0. run \in Runs BY <1>3 DEF LoopRun, TypeOK, LoopType, Runs
 <2>1. c \in Command /\ c.op = "finish" /\ c.run = run BY <2>0 DEF Command
 <2>2. command_channel' = Append(command_channel, c) BY <1>3
 <2> HIDE DEF c
 <2> QED BY <2>1, <2>2
<1>4. ASSUME send_close
      PROVE  \E c \in Command : c.op = "close" /\ command_channel' = Append(command_channel, c)
  <2> DEFINE c == [op |-> "close"]
 <2>1. c \in Command /\ c.op = "close" BY DEF Command
 <2>2. command_channel' = Append(command_channel, c) BY <1>4
 <2> HIDE DEF c
 <2> QED BY <2>1, <2>2
<1> QED BY <1>1, <1>2, <1>3, <1>4

\* Runs are entered in their order, whatever else the channel carries.
LEMMA StepEnterOrder ==
    ASSUME TypeOK, LoopRun, ActiveRun, EnterOrder, Next
    PROVE  EnterOrder'
<1>0. command_channel \in Seq(Command) /\ Len(command_channel) \in Nat /\ active_run \in Nat /\ run \in Nat
  BY LenProperties DEF TypeOK, ChannelType, DispatcherType, LoopType
<1>r. \A i \in 1..Len(command_channel) : command_channel[i].op = "enter" => command_channel[i].run \in Nat
 <2>1. \A i \in 1..Len(command_channel) : command_channel[i] \in Command BY <1>0, ElementOfSeq
 <2> QED BY <2>1 DEF Command, Runs
<1>1. CASE UNCHANGED <<command_channel, active_run>> BY <1>1 DEF EnterOrder
<1>2. ASSUME NEW t \in Callers, send_remote_command(t) PROVE EnterOrder'
 <2>1. active_run' = active_run BY <1>2
 <2>2. CASE UNCHANGED command_channel BY <2>1, <2>2 DEF EnterOrder
 <2>3. ASSUME NEW c \in Command, c.op = "ready", command_channel' = Append(command_channel, c)
       PROVE  EnterOrder'
   BY <1>0, <2>1, <2>3, ChannelAppend DEF EnterOrder
 <2> QED BY <1>2, <2>2, <2>3, ChannelSends
<1>3. CASE send_finish_run
 <2>1. active_run' = active_run BY <1>3
 <2>2. PICK c \in Command : c.op = "finish" /\ command_channel' = Append(command_channel, c)
   BY <1>3, ChannelSends
 <2> QED BY <1>0, <2>1, <2>2, ChannelAppend DEF EnterOrder
<1>4. CASE send_close
 <2>1. active_run' = active_run BY <1>4
 <2>2. PICK c \in Command : c.op = "close" /\ command_channel' = Append(command_channel, c)
   BY <1>4, ChannelSends
 <2> QED BY <1>0, <2>1, <2>2, ChannelAppend DEF EnterOrder
<1>5. CASE send_enter_run
 <2>1. active_run' = active_run /\ loop_pc = "enter" BY <1>5
 <2>2. PICK c \in Command : c.op = "enter" /\ c.run = run /\ command_channel' = Append(command_channel, c)
   BY <1>5, ChannelSends
 <2>3. active_run < run /\ \A i \in 1..Len(command_channel) :
                              command_channel[i].op = "enter" => command_channel[i].run < run
   BY <1>0, <1>r, <2>1 DEF ActiveRun, Entered
 <2>4. /\ Len(command_channel) \in Nat /\ Len(command_channel') = Len(command_channel) + 1
       /\ \A i \in 1..Len(command_channel) : command_channel'[i] = command_channel[i]
       /\ command_channel'[Len(command_channel) + 1] = c
   BY <1>0, <2>2, ChannelAppend
 <2>5. \A i \in 1..Len(command_channel') :
          i \in 1..Len(command_channel) \/ i = Len(command_channel) + 1
   BY <2>4
 <2> QED BY <2>1, <2>2, <2>3, <2>4, <2>5 DEF EnterOrder
<1>6. CASE handle_ready
 <2>1. command_channel' = Tail(command_channel) /\ command_channel # <<>>
       /\ active_run' \in {active_run, 0}
   BY <1>6
 <2>2. \A i \in 1..(Len(command_channel) - 1) : i + 1 \in 1..Len(command_channel) BY <1>0
 <2>3. \A i \in 1..(Len(command_channel) - 1) : command_channel[i + 1].op = "enter" =>
                                                active_run' < command_channel[i + 1].run
   BY <1>0, <1>r, <2>1, <2>2 DEF EnterOrder
 <2> QED BY <1>0, <1>r, <2>1, <2>2, <2>3, ChannelTail DEF EnterOrder
<1>7. CASE handle_finish_run
 <2>1. command_channel' = Tail(command_channel) /\ command_channel # <<>>
       /\ active_run' \in {active_run, 0}
   BY <1>7
 <2>2. \A i \in 1..(Len(command_channel) - 1) : i + 1 \in 1..Len(command_channel) BY <1>0
 <2>3. \A i \in 1..(Len(command_channel) - 1) : command_channel[i + 1].op = "enter" =>
                                                active_run' < command_channel[i + 1].run
   BY <1>0, <1>r, <2>1, <2>2 DEF EnterOrder
 <2> QED BY <1>0, <1>r, <2>1, <2>2, <2>3, ChannelTail DEF EnterOrder
<1>8. CASE handle_close
 <2>1. command_channel' = Tail(command_channel) /\ command_channel # <<>>
       /\ active_run' \in {active_run, 0}
   BY <1>8
 <2>2. \A i \in 1..(Len(command_channel) - 1) : i + 1 \in 1..Len(command_channel) BY <1>0
 <2>3. \A i \in 1..(Len(command_channel) - 1) : command_channel[i + 1].op = "enter" =>
                                                active_run' < command_channel[i + 1].run
   BY <1>0, <1>r, <2>1, <2>2 DEF EnterOrder
 <2> QED BY <1>0, <1>r, <2>1, <2>2, <2>3, ChannelTail DEF EnterOrder
<1>9. CASE handle_enter_run
 <2>1. command_channel' = Tail(command_channel) /\ command_channel # <<>>
       /\ active_run' = Head(command_channel).run /\ Head(command_channel).op = "enter"
   BY <1>9
 <2>2. \A i \in 1..(Len(command_channel) - 1) : i + 1 \in 1..Len(command_channel) /\ 1 < i + 1
   BY <1>0
 <2>3. 1 \in 1..Len(command_channel) /\ Head(command_channel) = command_channel[1]
   BY <1>0, <2>1, ChannelTail
 <2>4. \A i \in 1..(Len(command_channel) - 1) : command_channel[i + 1].op = "enter" =>
                                                active_run' < command_channel[i + 1].run
   BY <2>1, <2>2, <2>3, Zenon DEF EnterOrder
 <2> QED BY <1>0, <1>r, <2>1, <2>2, <2>4, ChannelTail DEF EnterOrder
<1>10. CASE LoopStep BY <1>10, <1>1, <1>3, <1>4, <1>5 DEF LoopStep
<1>11. CASE DispatcherStep BY <1>11, <1>1, <1>6, <1>7, <1>8, <1>9 DEF DispatcherStep
<1>12. CASE Environment BY <1>12, <1>1 DEF Environment
<1>13. ASSUME NEW t \in Callers, CallerStep(t) PROVE EnterOrder'
  BY <1>13, <1>1, <1>2 DEF CallerStep, PendingPush
<1> QED BY <1>10, <1>11, <1>12, <1>13 DEF Next

\* What ends an earlier run was sent before the EnterRun of this one.
LEMMA StepEndsBeforeEnter ==
    ASSUME TypeOK, LoopRun, EndsBeforeEnter, Next
    PROVE  EndsBeforeEnter'
<1>0. command_channel \in Seq(Command) /\ Len(command_channel) \in Nat /\ active_run \in Nat /\ run \in Nat
  BY LenProperties DEF TypeOK, ChannelType, DispatcherType, LoopType
<1>t. ASSUME command_channel' = Tail(command_channel), command_channel # <<>>, UNCHANGED <<run, loop_pc>>
      PROVE  EndsBeforeEnter'
 <2>0. SUFFICES ASSUME InRun, NEW i \in 1..Len(command_channel'),
                       command_channel'[i].op \in {"finish", "close"}
                PROVE  \E j \in 1..Len(command_channel') :
                         /\ i < j /\ command_channel'[j].op = "enter"
                         /\ command_channel'[j].run = run
   BY <1>t DEF EndsBeforeEnter, InRun, Serving
 <2>1. /\ Len(command_channel) \in Nat \ {0} /\ Len(command_channel') = Len(command_channel) - 1
       /\ \A k \in 1..(Len(command_channel) - 1) : command_channel'[k] = command_channel[k + 1]
   BY <1>0, <1>t, ChannelTail
 <2>2. i + 1 \in 1..Len(command_channel) /\ command_channel[i + 1].op \in {"finish", "close"}
   BY <2>0, <2>1
 <2>3. PICK j \in 1..Len(command_channel) : /\ i + 1 < j /\ command_channel[j].op = "enter"
                                            /\ command_channel[j].run = run
   BY <2>0, <2>2 DEF EndsBeforeEnter
 <2>4. j - 1 \in 1..(Len(command_channel) - 1) /\ i < j - 1 /\ (j - 1) + 1 = j BY <2>0, <2>1, <2>3
 <2> QED BY <2>1, <2>3, <2>4
<1>1. CASE UNCHANGED <<command_channel, run>> /\ (InRun' => InRun) BY <1>1 DEF EndsBeforeEnter
<1>2. ASSUME NEW t \in Callers, send_remote_command(t) PROVE EndsBeforeEnter'
 <2>1. run' = run /\ (InRun' => InRun) BY <1>2 DEF InRun, Serving
 <2>2. CASE UNCHANGED command_channel BY <2>1, <2>2 DEF EndsBeforeEnter
 <2>3. ASSUME NEW c \in Command, c.op = "ready", command_channel' = Append(command_channel, c)
       PROVE  EndsBeforeEnter'
  <3>1. SUFFICES ASSUME InRun, NEW i \in 1..Len(command_channel'),
                        command_channel'[i].op \in {"finish", "close"}
                 PROVE  \E j \in 1..Len(command_channel') :
                          /\ i < j /\ command_channel'[j].op = "enter"
                          /\ command_channel'[j].run = run
    BY <2>1 DEF EndsBeforeEnter
  <3>2. i \in 1..Len(command_channel) /\ command_channel'[i] = command_channel[i]
    BY <1>0, <2>3, <3>1, ChannelAppend
  <3>3. PICK j \in 1..Len(command_channel) : /\ i < j /\ command_channel[j].op = "enter"
                                             /\ command_channel[j].run = run
    BY <3>1, <3>2 DEF EndsBeforeEnter
  <3> QED BY <1>0, <2>3, <3>3, ChannelAppend
 <2> QED BY <1>2, <2>2, <2>3, ChannelSends
<1>3. CASE send_finish_run BY <1>3 DEF InRun, Serving, EndsBeforeEnter
<1>4. CASE send_close BY <1>4 DEF InRun, Serving, EndsBeforeEnter
<1>5. CASE run_forever BY <1>5 DEF InRun, Serving, EndsBeforeEnter
<1>6. CASE send_enter_run
 <2>1. run' = run BY <1>6
 <2>2. PICK c \in Command : c.op = "enter" /\ c.run = run /\ command_channel' = Append(command_channel, c)
   BY <1>6, ChannelSends
 <2>3. /\ Len(command_channel) \in Nat /\ Len(command_channel') = Len(command_channel) + 1
       /\ command_channel'[Len(command_channel) + 1] = c
   BY <1>0, <2>2, ChannelAppend
 <2>4. \A i \in 1..Len(command_channel') :
          command_channel'[i].op \in {"finish", "close"} => i < Len(command_channel) + 1
   BY <2>2, <2>3
 <2>5. Len(command_channel) + 1 \in 1..Len(command_channel') BY <2>3
 <2> QED BY <2>1, <2>2, <2>3, <2>4, <2>5 DEF EndsBeforeEnter
<1>7. CASE handle_ready
 <2>1. command_channel' = Tail(command_channel) /\ command_channel # <<>>
       /\ UNCHANGED <<run, loop_pc>>
   BY <1>7
 <2> QED BY <1>t, <2>1
<1>8. CASE handle_enter_run
 <2>1. command_channel' = Tail(command_channel) /\ command_channel # <<>>
       /\ UNCHANGED <<run, loop_pc>>
   BY <1>8
 <2> QED BY <1>t, <2>1
<1>9. CASE handle_finish_run
 <2>1. command_channel' = Tail(command_channel) /\ command_channel # <<>>
       /\ UNCHANGED <<run, loop_pc>>
   BY <1>9
 <2> QED BY <1>t, <2>1
<1>10. CASE handle_close
 <2>1. command_channel' = Tail(command_channel) /\ command_channel # <<>>
       /\ UNCHANGED <<run, loop_pc>>
   BY <1>10, Zenon
 <2> QED BY <1>t, <2>1
<1>11. CASE LoopStep BY <1>11, <1>1, <1>3, <1>4, <1>6 DEF LoopStep, InRun, Serving
<1>12. CASE DispatcherStep
  BY <1>12, <1>1, <1>7, <1>8, <1>9, <1>10 DEF DispatcherStep, InRun, Serving
<1>13. CASE Environment BY <1>13, <1>1, <1>5 DEF Environment, InRun, Serving
<1>14. ASSUME NEW t \in Callers, CallerStep(t) PROVE EndsBeforeEnter'
  BY <1>14, <1>1, <1>2 DEF CallerStep, PendingPush, InRun, Serving
<1> QED BY <1>11, <1>12, <1>13, <1>14 DEF Next

\* While a queue is open, the dispatcher holds no handle that is not counted.
LEMMA StepOpenQueue ==
    ASSUME TypeOK, RunsConsistent, EnterOrder, EndsBeforeEnter, OpenQueue, Next
    PROVE  OpenQueue'
<1> USE DEF RunsConsistent
<1>0. /\ command_channel \in Seq(Command) /\ active_run \in Nat /\ run \in Nat
      /\ disp_batch \in Seq(ReadyItem) /\ disp_handles \in Nat
      /\ active_ready_dispatch \in [run : 0..MaxRuns, accepting : BOOLEAN]
      /\ loop_pc \in LoopPcs
  BY DEF TypeOK, ChannelType, DispatcherType, LoopType, DispatchType
\* While the queue is open its run is being served, and the channel holds
\* nothing that would end or replace it.
<1>a. ASSUME active_ready_dispatch.accepting
      PROVE  /\ loop_pc \notin {"idle", "publish", "enter", "finish"}
             /\ command_channel # <<>> => Head(command_channel).op = "ready"
 <2>1. active_run = run /\ active_ready_dispatch.run = run /\ run # 0 BY <1>a DEF OpenQueue
 <2>2. InRun /\ loop_pc \notin {"idle", "publish", "enter", "finish"}
   BY <1>0, <2>1 DEF LoopRun, ActiveRun, Entered, NoDispatchPcs, LoopPcs, InRun, Serving
 <2>3. ASSUME command_channel # <<>> PROVE Head(command_channel).op = "ready"
  <3>1. /\ 1 \in 1..Len(command_channel) /\ Head(command_channel) = command_channel[1]
        /\ Head(command_channel) \in Command /\ Len(command_channel) \in Nat
    BY <1>0, <2>3, TailElems
  <3>2. \A j \in 1..Len(command_channel) : command_channel[j].op = "enter" => command_channel[j].run # run
   <4>1. ASSUME NEW j \in 1..Len(command_channel), command_channel[j].op = "enter"
         PROVE  command_channel[j].run # run
    <5>1. command_channel[j] \in Command BY <1>0, ElementOfSeq
    <5>2. command_channel[j].run \in Nat /\ run < command_channel[j].run
      BY <2>1, <4>1, <5>1 DEF EnterOrder, Command, Runs
    <5> QED BY <1>0, <5>2
   <4> QED BY <4>1
  <3>3. Head(command_channel).op \notin {"finish", "close"}
    BY <2>2, <3>1, <3>2 DEF EndsBeforeEnter
  <3>4. Head(command_channel).op # "enter"
   <4>1. ASSUME command_channel[1].op = "enter" PROVE FALSE
    <5>1. command_channel[1].run \in Nat /\ run < command_channel[1].run
      BY <2>1, <3>1, <4>1 DEF EnterOrder, Command, Runs
    <5>2. command_channel[1].run <= run BY <3>1, <4>1 DEF ActiveRun, Entered
    <5> QED BY <1>0, <5>1, <5>2
   <4> QED BY <3>1, <4>1
  <3> QED BY <3>1, <3>3, <3>4 DEF Command
 <2> QED BY <2>2, <2>3
<1>e. CountIn(<<>>, Callback) = 0
 <2>1. <<>> \in Seq(ReadyItem) /\ \A i \in 1..Len(<<>>) : <<>>[i] \notin Callback OBVIOUS
 <2> QED BY <2>1, CountType
<1>1. CASE UNCHANGED <<active_ready_dispatch, active_run, run, disp_pc, disp_batch, disp_handles>>
  BY <1>1 DEF OpenQueue
<1>2. CASE dispatcher_poll
 <2>1. UNCHANGED <<active_ready_dispatch, active_run, run, disp_batch, disp_handles>>
       /\ disp_pc' \in {"mark", "drain", "sleep"}
   BY <1>2
 <2> QED BY <2>1 DEF OpenQueue
<1>3. CASE drain_commands_empty
 <2>1. UNCHANGED <<active_ready_dispatch, active_run, run, disp_batch, disp_handles>>
       /\ disp_pc' \in {"mark", "drain", "sleep"}
   BY <1>3
 <2> QED BY <2>1 DEF OpenQueue
<1>4. CASE finish_run_reset
 <2>1. UNCHANGED <<active_ready_dispatch, active_run, run, disp_batch, disp_handles>>
       /\ disp_pc' = "ack"
   BY <1>4
 <2> QED BY <2>1 DEF OpenQueue
<1>5. CASE finish_run_ack
 <2>1. UNCHANGED <<active_ready_dispatch, active_run, run, disp_batch, disp_handles>>
       /\ disp_pc' = "drain"
   BY <1>5
 <2> QED BY <2>1 DEF OpenQueue
<1>6. CASE dispatch_ready_batch
 <2>1. UNCHANGED <<active_ready_dispatch, active_run, run, disp_batch, disp_handles>>
       /\ disp_pc' = "extend"
   BY <1>6
 <2> QED BY <2>1 DEF OpenQueue
<1>7. CASE dispatcher_signal
 <2>1. UNCHANGED <<active_ready_dispatch, active_run, run, disp_batch, disp_handles>>
       /\ disp_pc \in {"signal", "wake"}
   BY <1>7
 <2> QED BY <2>1 DEF OpenQueue
<1>8. CASE dispatcher_wake
 <2>1. UNCHANGED <<active_ready_dispatch, active_run, run, disp_batch, disp_handles>>
       /\ disp_pc \in {"signal", "wake"}
   BY <1>8
 <2> QED BY <2>1 DEF OpenQueue
<1>9. CASE handle_ready
  <2> DEFINE x == Head(command_channel).item
 <2>1. /\ UNCHANGED <<active_ready_dispatch, active_run, run, disp_pc>> /\ disp_pc = "drain"
       /\ disp_batch' = Append(disp_batch, x) /\ disp_handles' = disp_handles + HandleCount(x)
       /\ x \in ReadyItem
   BY <1>9, <1>0, HeadFacts
 <2> HIDE DEF x
 <2>2. x \in Callback => x # StopItem BY DEF Callback, StopItem, Sources, Callers
 <2>3. CountIn(disp_batch', Callback) = CountIn(disp_batch, Callback) + IF x \in Callback THEN 1 ELSE 0
   BY <1>0, <2>1, CountAppend
 <2>4. CountIn(disp_batch, Callback) \in Nat BY <1>0, CountType
 <2>5. CountIn(disp_batch, Callback) <= disp_handles => CountIn(disp_batch', Callback) <= disp_handles'
  <3>1. CASE x \in Callback BY <1>0, <2>1, <2>2, <2>3, <2>4, <3>1
  <3>2. CASE x \notin Callback BY <1>0, <2>1, <2>3, <2>4, <3>2
  <3> QED BY <3>1, <3>2
 <2> QED BY <2>1, <2>5 DEF OpenQueue
<1>10. CASE handle_enter_run
 <2>1. /\ ~active_ready_dispatch.accepting /\ UNCHANGED <<active_ready_dispatch, disp_batch>>
       /\ disp_pc' \in {"activate", "extend"} /\ (disp_pc' = "activate" => disp_batch = <<>>)
   BY <1>10, <1>a
 <2> QED BY <2>1 DEF OpenQueue
<1>11. CASE handle_finish_run
 <2>1. ~active_ready_dispatch.accepting /\ UNCHANGED active_ready_dispatch /\ disp_pc' \in {"ack", "reset"}
   BY <1>11, <1>a
 <2> QED BY <2>1 DEF OpenQueue
<1>12. CASE handle_close
 <2>1. ~active_ready_dispatch.accepting /\ UNCHANGED active_ready_dispatch /\ disp_pc' \in {"dead"}
   BY <1>12, <1>a
 <2> QED BY <2>1 DEF OpenQueue
<1>13. CASE forward_ready_batch
 <2>1. UNCHANGED <<active_ready_dispatch, active_run, run, disp_handles>> /\ disp_batch' = <<>>
   BY <1>13
 <2> QED BY <1>0, <1>e, <2>1 DEF OpenQueue
<1>14. CASE channel_handles_forwarded
 <2>1. /\ UNCHANGED <<active_ready_dispatch, active_run, run, disp_batch>> /\ disp_handles' = 0
       /\ disp_pc = "uncount"
   BY <1>14
 <2> QED BY <1>e, <2>1 DEF OpenQueue
<1>15. CASE activate_ready_dispatch
 <2>1. /\ UNCHANGED <<active_run, run, disp_batch, disp_handles>> /\ disp_pc = "activate"
       /\ disp_pc' = "drain" /\ active_run # 0
       /\ active_ready_dispatch' = IF active_ready_dispatch.run = active_run
                                   THEN [active_ready_dispatch EXCEPT !.accepting = TRUE]
                                   ELSE active_ready_dispatch
   BY <1>15 DEF DispatcherRun
 <2>2. disp_batch = <<>> BY <2>1 DEF OpenQueue
 <2>3. CASE active_ready_dispatch.run = active_run
  <3>1. active_ready_dispatch'.run = active_ready_dispatch.run /\ active_run = run /\ run # 0
    BY <1>0, <2>1, <2>3 DEF LoopRun
  <3> QED BY <1>0, <1>e, <2>1, <2>2, <2>3, <3>1 DEF OpenQueue
 <2>4. CASE active_ready_dispatch.run # active_run BY <2>1, <2>4 DEF OpenQueue
 <2> QED BY <2>3, <2>4
<1>16. CASE publish_ready_dispatch
 <2>1. ~active_ready_dispatch'.accepting /\ UNCHANGED <<disp_pc, disp_batch>> BY <1>16, Zenon
 <2> QED BY <2>1 DEF OpenQueue
<1>17. CASE retire_ready_dispatch
 <2>1. ~active_ready_dispatch'.accepting /\ UNCHANGED <<disp_pc, disp_batch>> BY <1>17
 <2> QED BY <2>1 DEF OpenQueue
<1>18. CASE run_forever
 <2>1. ~active_ready_dispatch.accepting /\ UNCHANGED <<active_ready_dispatch, disp_pc, disp_batch>>
   BY <1>18, <1>a, Zenon
 <2> QED BY <2>1 DEF OpenQueue
<1>19. CASE LoopStep BY <1>19, <1>1, <1>16, <1>17 DEF LoopStep
<1>20. CASE DispatcherStep
  BY <1>20, <1>1, <1>2, <1>3, <1>4, <1>5, <1>6, <1>7, <1>8, <1>9, <1>10, <1>11, <1>12, <1>13,
    <1>14, <1>15, Zenon DEF DispatcherStep
<1>21. CASE Environment BY <1>21, <1>1, <1>18 DEF Environment
<1>22. ASSUME NEW t \in Callers, CallerStep(t) PROVE OpenQueue'
  BY <1>22, <1>1 DEF CallerStep, PendingPush
<1> QED BY <1>19, <1>20, <1>21, <1>22 DEF Next

\* Every step keeps that a run is finished once.
LEMMA StepFinishedOnce ==
    ASSUME ~HandlerRaises, ~FinishTimesOut, TypeOK, RunsConsistent, FinishedOnce, Next
    PROVE  FinishedOnce'
<1>0. /\ command_channel \in Seq(Command) /\ Len(command_channel) \in Nat /\ run \in Nat
      /\ done_acks \in SUBSET Nat /\ disp_ret \in {"drain", "activate"}
  BY DEF TypeOK, ChannelType, DispatcherType, LoopType, FlagType, Runs
\* In the middle of a run nothing on the channel, and nothing the dispatcher
\* does, ends it.
<1>m. ASSUME MidRun
      PROVE  /\ \A i \in 1..Len(command_channel) : command_channel[i].op \notin {"finish", "close"}
             /\ disp_pc \notin {"reset", "ack"} /\ loop_pc # "await"
  BY <1>m DEF MidRun, Serving, FinishedOnce
<1>1. CASE /\ UNCHANGED <<command_channel, run, done_acks, disp_done, running>>
           /\ disp_pc' = disp_pc \/ disp_pc' \notin {"reset", "ack"}
           /\ \/ UNCHANGED <<loop_pc, tls_queue>>
              \/ /\ MidRun /\ MidRun' /\ TlsClearedBeforeDrop'
                 /\ loop_pc' # "returned_early"
 <2>1. CASE UNCHANGED <<loop_pc, tls_queue>>
   BY <1>1, <2>1 DEF FinishedOnce, MidRun, Serving, TlsClearedBeforeDrop
 <2>2. CASE MidRun /\ MidRun' /\ TlsClearedBeforeDrop' /\ loop_pc' # "returned_early"
   BY <1>1, <1>m, <2>2 DEF FinishedOnce
 <2> QED BY <1>1, <2>1, <2>2, Zenon
<1>2. ASSUME NEW t \in Callers, send_remote_command(t) PROVE FinishedOnce'
 <2>1. UNCHANGED <<loop_pc, tls_queue, run, done_acks, disp_done, running, disp_pc>> BY <1>2
 <2>2. CASE UNCHANGED command_channel BY <1>1, <2>1, <2>2
 <2>3. ASSUME NEW c \in Command, c.op = "ready", command_channel' = Append(command_channel, c)
       PROVE  FinishedOnce'
  <3>1. /\ Len(command_channel') = Len(command_channel) + 1
        /\ \A i \in 1..Len(command_channel) : command_channel'[i] = command_channel[i]
        /\ command_channel'[Len(command_channel) + 1].op = "ready"
    BY <1>0, <2>3, ChannelAppend
  <3>2. \A i \in 1..Len(command_channel') :
           command_channel'[i].op # "ready" => i \in 1..Len(command_channel)
    BY <1>0, <3>1
  <3> QED BY <1>0, <2>1, <3>1, <3>2 DEF FinishedOnce, MidRun, Serving, TlsClearedBeforeDrop
 <2> QED BY <1>2, <2>2, <2>3, ChannelSends, Zenon DEF RunsConsistent
<1>3. CASE handle_ready
 <2>1. UNCHANGED <<loop_pc, tls_queue, run, done_acks, disp_done, running>> BY <1>3
 <2>2. disp_pc' \notin {"reset", "ack"} /\ command_channel # <<>> /\ command_channel' = Tail(command_channel)
   BY <1>3
 <2>3. /\ Len(command_channel) \in Nat \ {0} /\ Len(command_channel') = Len(command_channel) - 1
       /\ \A i \in 1..(Len(command_channel) - 1) : command_channel'[i] = command_channel[i + 1]
       /\ Head(command_channel) = command_channel[1]
   BY <1>0, <2>2, ChannelTail
 <2>4. \A i \in 1..Len(command_channel') :
          i + 1 \in 1..Len(command_channel) /\ command_channel[i + 1] = command_channel'[i]
   BY <2>3
 <2> QED BY <1>0, <2>1, <2>2, <2>3, <2>4 DEF FinishedOnce, MidRun, Serving, TlsClearedBeforeDrop
<1>4. CASE handle_enter_run
 <2>1. UNCHANGED <<loop_pc, tls_queue, run, done_acks, disp_done, running>> BY <1>4
 <2>2. disp_pc' \notin {"reset", "ack"} /\ command_channel # <<>> /\ command_channel' = Tail(command_channel)
   BY <1>4, Zenon
 <2>3. /\ Len(command_channel) \in Nat \ {0} /\ Len(command_channel') = Len(command_channel) - 1
       /\ \A i \in 1..(Len(command_channel) - 1) : command_channel'[i] = command_channel[i + 1]
       /\ Head(command_channel) = command_channel[1]
   BY <1>0, <2>2, ChannelTail
 <2>4. \A i \in 1..Len(command_channel') :
          i + 1 \in 1..Len(command_channel) /\ command_channel[i + 1] = command_channel'[i]
   BY <2>3
 <2> QED BY <1>0, <2>1, <2>2, <2>3, <2>4 DEF FinishedOnce, MidRun, Serving, TlsClearedBeforeDrop
<1>5. CASE handle_finish_run
 <2>1. UNCHANGED <<loop_pc, tls_queue, run, done_acks, running>> BY <1>5
 <2>2. /\ command_channel # <<>> /\ command_channel' = Tail(command_channel)
       /\ Head(command_channel).op = "finish" /\ disp_done' = Head(command_channel).run
   BY <1>5
 <2>3. /\ Len(command_channel) \in Nat \ {0} /\ Len(command_channel') = Len(command_channel) - 1
       /\ \A i \in 1..(Len(command_channel) - 1) : command_channel'[i] = command_channel[i + 1]
       /\ Head(command_channel) = command_channel[1]
   BY <1>0, <2>2, ChannelTail
 <2>4. \A i \in 1..Len(command_channel') :
          i + 1 \in 1..Len(command_channel) /\ command_channel[i + 1] = command_channel'[i]
   BY <2>3
 <2>5. 1 \in 1..Len(command_channel) /\ command_channel[1].op = "finish" BY <2>2, <2>3
 <2>6. loop_pc = "await" /\ disp_done' = run /\ run \notin done_acks
   BY <2>2, <2>3, <2>5 DEF FinishedOnce
 <2>7. \A i \in 1..Len(command_channel') : command_channel'[i].op \notin {"finish", "close"}
  <3>1. ASSUME NEW i \in 1..Len(command_channel'), command_channel'[i].op \in {"finish", "close"}
        PROVE  FALSE
   <4>1. i + 1 \in 1..Len(command_channel) /\ command_channel[i + 1] = command_channel'[i]
     BY <2>4
   <4>2. command_channel[i + 1].op = "finish" BY <2>6, <3>1, <4>1 DEF FinishedOnce
   <4>3. i + 1 = 1 BY <2>5, <4>1, <4>2 DEF FinishedOnce
   <4> QED BY <4>3
  <3> QED BY <3>1
 <2> QED BY <1>0, <2>1, <2>6, <2>7 DEF FinishedOnce, MidRun, Serving, TlsClearedBeforeDrop
<1>6. CASE handle_close
 <2>1. UNCHANGED <<loop_pc, tls_queue, run, done_acks, disp_done>> BY <1>6
 <2>2. /\ disp_pc' = "dead" /\ command_channel # <<>> /\ command_channel' = Tail(command_channel)
       /\ Head(command_channel).op = "close"
   BY <1>6
 <2>3. /\ Len(command_channel) \in Nat \ {0} /\ Len(command_channel') = Len(command_channel) - 1
       /\ \A i \in 1..(Len(command_channel) - 1) : command_channel'[i] = command_channel[i + 1]
       /\ Head(command_channel) = command_channel[1]
   BY <1>0, <2>2, ChannelTail
 <2>4. \A i \in 1..Len(command_channel') :
          i + 1 \in 1..Len(command_channel) /\ command_channel[i + 1] = command_channel'[i]
   BY <2>3
 <2>5. 1 \in 1..Len(command_channel) /\ command_channel[1].op = "close" BY <2>2, <2>3
 <2>6. ~MidRun /\ ~MidRun' BY <1>m, <2>1, <2>5, Zenon DEF MidRun, Serving
 <2> QED BY <1>0, <2>1, <2>2, <2>3, <2>4, <2>6 DEF FinishedOnce, TlsClearedBeforeDrop, Serving
<1>7. CASE finish_run_reset
 <2>1. /\ UNCHANGED <<command_channel, loop_pc, tls_queue, run, done_acks, disp_done>>
       /\ disp_pc = "reset" /\ disp_pc' = "ack"
   BY <1>7
 <2>2. ~MidRun /\ ~MidRun' BY <1>m, <2>1, Zenon DEF MidRun, Serving
 <2> QED BY <2>1, <2>2 DEF FinishedOnce, TlsClearedBeforeDrop, Serving
<1>8. CASE finish_run_ack
 <2>1. /\ UNCHANGED <<command_channel, loop_pc, tls_queue, run, disp_done, running>>
       /\ disp_pc = "ack" /\ disp_pc' = "drain" /\ done_acks' = done_acks \union {disp_done}
   BY <1>8, Zenon
 <2>2. ~MidRun /\ ~MidRun' /\ disp_done = run
   BY <1>m, <2>1, Zenon DEF MidRun, Serving, FinishedOnce
 <2>3. \A i \in 1..Len(command_channel) : command_channel[i].op # "finish"
   BY <2>1, Zenon DEF FinishedOnce
 <2> QED BY <1>0, <2>1, <2>2, <2>3 DEF FinishedOnce, TlsClearedBeforeDrop, Serving
<1>9. CASE run_forever
 <2>1. /\ UNCHANGED <<command_channel, tls_queue, done_acks, disp_done, disp_pc>>
       /\ loop_pc = "idle" /\ loop_pc' = "publish" /\ run' = run + 1 /\ running' = TRUE
   BY <1>9
 <2>2. /\ \A i \in 1..Len(command_channel) : command_channel[i].op \notin {"finish", "close"}
       /\ disp_pc \notin {"reset", "ack"} /\ tls_queue = FALSE
   BY <2>1 DEF FinishedOnce, TlsClearedBeforeDrop, Serving, TypeOK, LoopType
 <2>3. \A r \in done_acks' : r <= run' /\ r # run' BY <1>0, <2>1 DEF FinishedOnce
 <2> QED BY <2>1, <2>2, <2>3 DEF FinishedOnce, TlsClearedBeforeDrop
<1>10. CASE send_enter_run
 <2>1. PICK c \in Command : c.op = "enter" /\ command_channel' = Append(command_channel, c)
   BY <1>10, ChannelSends, Zenon DEF RunsConsistent
 <2>2. /\ UNCHANGED <<run, done_acks, disp_done, disp_pc, running>>
       /\ loop_pc = "enter" /\ loop_pc' = "turn"
   BY <1>10
 <2>3. /\ Len(command_channel') = Len(command_channel) + 1
       /\ \A i \in 1..Len(command_channel) : command_channel'[i] = command_channel[i]
       /\ command_channel'[Len(command_channel) + 1] = c
   BY <1>0, <2>1, ChannelAppend
 <2>4. \A i \in 1..Len(command_channel') : i \in 1..Len(command_channel) \/ i = Len(command_channel) + 1
   BY <1>0, <2>3
 <2>5. MidRun /\ MidRun' /\ TlsClearedBeforeDrop' BY <2>2 DEF MidRun, Serving, TlsClearedBeforeDrop
 <2>6. \A i \in 1..Len(command_channel') : command_channel'[i].op \notin {"finish", "close"}
   BY <1>m, <2>1, <2>3, <2>4, <2>5
 <2> QED BY <1>m, <2>2, <2>5, <2>6 DEF FinishedOnce
<1>11. CASE send_finish_run
 <2>1. PICK c \in Command : c.op = "finish" /\ c.run = run /\ command_channel' = Append(command_channel, c)
   BY <1>11, ChannelSends, Zenon DEF RunsConsistent
 <2>2. /\ UNCHANGED <<run, done_acks, disp_done, disp_pc, running, tls_queue>>
       /\ loop_pc = "finish" /\ loop_pc' = "await"
   BY <1>11
 <2>3. /\ Len(command_channel') = Len(command_channel) + 1
       /\ \A i \in 1..Len(command_channel) : command_channel'[i] = command_channel[i]
       /\ command_channel'[Len(command_channel) + 1] = c
   BY <1>0, <2>1, ChannelAppend, Zenon
 <2>4. \A i \in 1..Len(command_channel') : i \in 1..Len(command_channel) \/ i = Len(command_channel) + 1
   BY <1>0, <2>3
 <2>5. /\ MidRun /\ ~MidRun' /\ TlsClearedBeforeDrop' /\ run \notin done_acks
   BY <2>2 DEF MidRun, Serving, TlsClearedBeforeDrop, FinishedOnce
 <2>6. \A i \in 1..Len(command_channel') :
          /\ command_channel'[i].op # "close"
          /\ command_channel'[i].op = "finish" => i = Len(command_channel) + 1
   BY <1>m, <2>1, <2>3, <2>4, <2>5
 <2> QED BY <1>m, <2>1, <2>2, <2>3, <2>5, <2>6 DEF FinishedOnce
<1>12. CASE send_close
 <2>1. PICK c \in Command : c.op = "close" /\ command_channel' = Append(command_channel, c)
   BY <1>12, ChannelSends DEF RunsConsistent
 <2>2. /\ UNCHANGED <<run, done_acks, disp_done, disp_pc, running, tls_queue>>
       /\ loop_pc = "closing" /\ loop_pc' = "join"
   BY <1>12
 <2>3. /\ Len(command_channel') = Len(command_channel) + 1
       /\ \A i \in 1..Len(command_channel) : command_channel'[i] = command_channel[i]
       /\ command_channel'[Len(command_channel) + 1] = c
   BY <1>0, <2>1, ChannelAppend
 <2>4. \A i \in 1..Len(command_channel') : i \in 1..Len(command_channel) \/ i = Len(command_channel) + 1
   BY <1>0, <2>3
 <2>5. ~MidRun' /\ TlsClearedBeforeDrop' /\ disp_pc \notin {"reset", "ack"}
   BY <2>2 DEF MidRun, Serving, TlsClearedBeforeDrop, FinishedOnce
 <2>6. \A i \in 1..Len(command_channel') : command_channel'[i].op # "finish"
   BY <2>1, <2>2, <2>3, <2>4 DEF FinishedOnce
 <2> QED BY <2>2, <2>5, <2>6 DEF FinishedOnce
<1>13. CASE finish_acknowledged
 <2>1. /\ UNCHANGED <<command_channel, run, done_acks, disp_done, disp_pc, running, tls_queue>>
       /\ loop_pc = "await" /\ loop_pc' = "idle" /\ run \in done_acks
   BY <1>13
 <2>2. ~MidRun' BY <2>1 DEF MidRun, Serving
 <2> QED BY <2>1, <2>2 DEF FinishedOnce, TlsClearedBeforeDrop, Serving
<1>14. CASE close
 <2>1. /\ UNCHANGED <<command_channel, run, done_acks, disp_done, disp_pc, running, tls_queue>>
       /\ loop_pc = "idle" /\ loop_pc' = "closing"
   BY <1>14
 <2>2. ~MidRun' BY <2>1 DEF MidRun, Serving
 <2> QED BY <2>1, <2>2 DEF FinishedOnce, TlsClearedBeforeDrop, Serving
<1>15. CASE join_runtime_thread
 <2>1. /\ UNCHANGED <<command_channel, run, done_acks, disp_done, disp_pc, running, tls_queue>>
       /\ loop_pc = "join" /\ loop_pc' = "closed"
   BY <1>15
 <2>2. ~MidRun' BY <2>1 DEF MidRun, Serving
 <2> QED BY <2>1, <2>2 DEF FinishedOnce, TlsClearedBeforeDrop, Serving
<1>16. CASE reset_run_state_after_finish_error BY <1>16
<1>17. CASE execute_ready_handler_raises BY <1>17
<1>18. CASE keep_leftover
 <2>1. /\ UNCHANGED <<command_channel, run, done_acks, disp_done, disp_pc, running>>
       /\ loop_pc = "leftover" /\ loop_pc' = "retire"
   BY <1>18
 <2>2. MidRun /\ MidRun' BY <2>1 DEF MidRun
 <2>3. TlsClearedBeforeDrop' BY <1>18 DEF TlsClearedBeforeDrop
 <2> QED BY <1>1, <2>1, <2>2, <2>3
<1>19. CASE publish_ready_dispatch
 <2>1. /\ UNCHANGED <<command_channel, run, done_acks, disp_done, disp_pc, running>>
       /\ loop_pc \in {"leftover", "publish", "retire"} /\ loop_pc' \in {"retire", "enter", "finish"}
       /\ tls_queue' = FALSE \/ (tls_queue' = tls_queue /\ loop_pc # "leftover")
   BY <1>19
 <2>2. MidRun /\ MidRun' BY <2>1 DEF MidRun
 <2>3. TlsClearedBeforeDrop'
  <3>1. CASE tls_queue' = FALSE BY <3>1 DEF TlsClearedBeforeDrop
  <3>2. CASE tls_queue' = tls_queue /\ loop_pc # "leftover"
    BY <2>1, <3>2 DEF TlsClearedBeforeDrop, FinishedOnce, Serving
  <3> QED BY <2>1, <3>1, <3>2
 <2> QED BY <1>1, <2>1, <2>2, <2>3
<1>20. CASE retire_ready_dispatch
 <2>1. /\ UNCHANGED <<command_channel, run, done_acks, disp_done, disp_pc, running>>
       /\ loop_pc \in {"leftover", "publish", "retire"} /\ loop_pc' \in {"retire", "enter", "finish"}
       /\ tls_queue' = FALSE \/ (tls_queue' = tls_queue /\ loop_pc # "leftover")
   BY <1>20
 <2>2. MidRun /\ MidRun' BY <2>1 DEF MidRun
 <2>3. TlsClearedBeforeDrop'
  <3>1. CASE tls_queue' = FALSE BY <3>1 DEF TlsClearedBeforeDrop
  <3>2. CASE tls_queue' = tls_queue /\ loop_pc # "leftover"
    BY <2>1, <3>2 DEF TlsClearedBeforeDrop, FinishedOnce, Serving
  <3> QED BY <2>1, <3>1, <3>2
 <2> QED BY <1>1, <2>1, <2>2, <2>3
<1>21. CASE dispatcher_signal
 <2>1. /\ UNCHANGED <<command_channel, run, done_acks, disp_done, running, loop_pc, tls_queue>>
       /\ disp_pc' \in {"wake", disp_ret}
   BY <1>21
 <2> QED BY <1>0, <1>1, <2>1
<1>22. CASE dispatcher_wake
 <2>1. /\ UNCHANGED <<command_channel, run, done_acks, disp_done, running, loop_pc, tls_queue>>
       /\ disp_pc' \in {"wake", disp_ret}
   BY <1>22, Zenon
 <2> QED BY <1>0, <1>1, <2>1
<1>23. CASE LoopStep
  BY <1>23, <1>1, <1>10, <1>11, <1>12, <1>13, <1>15, <1>17, <1>18, <1>19, <1>20 DEF LoopStep,
    MidRun, Serving, TlsClearedBeforeDrop, FinishedOnce
<1>24. CASE DispatcherStep
  BY <1>24, <1>1, <1>3, <1>4, <1>5, <1>6, <1>7, <1>8, <1>21, <1>22 DEF DispatcherStep, MidRun,
    Serving, TlsClearedBeforeDrop, FinishedOnce
<1>25. CASE Environment
  BY <1>25, <1>1, <1>9, <1>14, <1>16 DEF Environment, MidRun, Serving, TlsClearedBeforeDrop,
    FinishedOnce
<1>26. ASSUME NEW t \in Callers, CallerStep(t) PROVE FinishedOnce'
  BY <1>26, <1>1, <1>2 DEF CallerStep, PendingPush, MidRun, Serving, TlsClearedBeforeDrop,
    FinishedOnce
<1> QED BY <1>23, <1>24, <1>25, <1>26 DEF Next

\* A new loop has no handle in flight and no run to finish.
LEMMA InitGate ==
    ASSUME Init
    PROVE  GateInvariant /\ FinishedOnce
<1>1. CountIn(<<>>, HandleCommands) = 0 /\ CountIn(<<>>, Callback) = 0
 <2>1. /\ <<>> \in Seq(Command) /\ <<>> \in Seq(ReadyItem)
       /\ \A C : \A i \in 1..Len(<<>>) : <<>>[i] \notin C
   OBVIOUS
 <2> QED BY <2>1, CountType
<1>2. HandlesCounted
 <2>1. Sending = {} BY DEF Init, Sending
 <2>2. Cardinality(Sending) = 0 BY <2>1, FS_EmptySet
 <2>3. \A t \in Callers : call_pc[t] \notin {"gate", "count"} BY DEF Init
 <2> QED BY <1>1, <2>2, <2>3 DEF Init, HandlesCounted
<1>3. EnterOrder /\ EndsBeforeEnter /\ OpenQueue BY DEF Init, EnterOrder, EndsBeforeEnter, OpenQueue
<1>4. FinishedOnce BY DEF Init, FinishedOnce, MidRun, Serving, TlsClearedBeforeDrop
<1> QED BY <1>2, <1>3, <1>4 DEF GateInvariant

\* The count and the order of commands hold in every reachable state.
THEOREM GateInvariantHolds ==
    Spec => [](TypeOK /\ RunsConsistent /\ GateInvariant)
<1> DEFINE Types == TypeOK /\ WakeInvariant /\ LocalNumbering
<1>1. Init => GateInvariant BY InitGate
<1>2. Types /\ GateInvariant /\ [Next]_vars => GateInvariant'
 <2>1. ASSUME Types, GateInvariant, Next PROVE GateInvariant'
  <3>1. RunsConsistent /\ LoopRun BY <2>1 DEF WakeInvariant, RunsConsistent
  <3>2. HandlesCounted' BY <2>1, <3>1, StepHandlesCounted DEF GateInvariant
  <3>3. EnterOrder' BY <2>1, <3>1, StepEnterOrder DEF GateInvariant, RunsConsistent
  <3>4. EndsBeforeEnter' BY <2>1, <3>1, StepEndsBeforeEnter DEF GateInvariant
  <3>5. OpenQueue' BY <2>1, <3>1, StepOpenQueue DEF GateInvariant
  <3> QED BY <3>2, <3>3, <3>4, <3>5 DEF GateInvariant
 <2>2. ASSUME GateInvariant, UNCHANGED vars PROVE GateInvariant'
  <3>1. HandlesCounted' BY <2>2 DEF GateInvariant, vars, HandlesCounted, Sending
  <3>2. EnterOrder' /\ EndsBeforeEnter' /\ OpenQueue'
    BY <2>2 DEF GateInvariant, vars, EnterOrder, EndsBeforeEnter, OpenQueue, InRun, Serving
  <3> QED BY <3>1, <3>2 DEF GateInvariant
 <2> QED BY <2>1, <2>2
<1>3. Types => TypeOK /\ RunsConsistent BY DEF WakeInvariant
<1> QED BY <1>1, <1>2, <1>3, EngineInvariant, PTL DEF Spec

\* What HandlesCounted counts on the channel is what ChannelHandlesExact does.
LEMMA CountedOnChannel ==
    ASSUME ChannelType
    PROVE  Spots(command_channel, HandleCommands) =
               {i \in 1..Len(command_channel) :
                    /\ command_channel[i].op = "ready"
                    /\ command_channel[i].item # StopItem}
<1>1. \A i \in 1..Len(command_channel) : command_channel[i] \in Command
  BY ElementOfSeq DEF ChannelType
<1>2. \A i \in 1..Len(command_channel) :
         command_channel[i] \in HandleCommands <=>
            command_channel[i].op = "ready" /\ command_channel[i].item # StopItem
  BY <1>1 DEF HandleCommands
<1> QED BY <1>2 DEF Spots

\* channel_handles is exactly the number of handles between their count and
\* the dispatcher's forwarding, whatever the threads, runs and timeouts.
THEOREM HandlesExact == Spec => []ChannelHandlesExact
<1>1. TypeOK /\ GateInvariant => ChannelHandlesExact
 <2> SUFFICES ASSUME TypeOK, GateInvariant PROVE ChannelHandlesExact OBVIOUS
 <2>1. Spots(command_channel, HandleCommands) =
          {i \in 1..Len(command_channel) :
               /\ command_channel[i].op = "ready"
               /\ command_channel[i].item # StopItem}
   BY CountedOnChannel DEF TypeOK
 <2> QED BY <2>1 DEF GateInvariant, HandlesCounted, Sending, CountIn, ChannelHandlesExact
<1> QED BY <1>1, GateInvariantHolds, PTL

\* The gate of schedule_ready_handle is sound, for any number of producers and
\* runs, timeouts and raising handlers included: a zero count seen while the
\* queue is open means that no handle is on the channel or with the dispatcher.
THEOREM GateIsSound == Spec => []GateSound
<1>1. TypeOK /\ GateInvariant => GateSound
 <2> SUFFICES ASSUME TypeOK, GateInvariant,
                     active_ready_dispatch.accepting, channel_handles = 0
              PROVE  /\ \A i \in 1..Len(command_channel) :
                           command_channel[i].op = "ready" =>
                               command_channel[i].item = StopItem
                     /\ \A i \in 1..Len(disp_batch) : disp_batch[i] = StopItem
   BY DEF GateSound
 <2>0. command_channel \in Seq(Command) /\ disp_batch \in Seq(ReadyItem) /\ disp_handles \in Nat
   BY DEF TypeOK, ChannelType, DispatcherType
 <2>1. Cardinality(Sending) \in Nat
  <3>1. IsFiniteSet(Callers) BY FS_AddElement DEF Callers
  <3>2. Sending \in SUBSET Callers BY DEF Sending
  <3>3. IsFiniteSet(Sending) BY <3>1, <3>2, FS_Subset
  <3> QED BY <3>3, FS_CardinalityType
 <2>2. CountIn(command_channel, HandleCommands) \in Nat /\ CountIn(disp_batch, Callback) \in Nat
   BY <2>0, CountType
 <2>3. CountIn(command_channel, HandleCommands) = 0 /\ disp_handles = 0
   BY <2>0, <2>1, <2>2 DEF GateInvariant, HandlesCounted
 <2>4. CountIn(disp_batch, Callback) = 0 BY <2>2, <2>3 DEF GateInvariant, OpenQueue
 <2>5. \A i \in 1..Len(command_channel) : command_channel[i] \notin HandleCommands
   BY <2>0, <2>3, CountType
 <2>6. \A i \in 1..Len(disp_batch) : disp_batch[i] \notin Callback BY <2>0, <2>4, CountType
 <2>7. \A i \in 1..Len(command_channel) : command_channel[i] \in Command BY <2>0, ElementOfSeq
 <2>8. \A i \in 1..Len(disp_batch) : disp_batch[i] \in ReadyItem BY <2>0, ElementOfSeq
 <2> QED BY <2>5, <2>6, <2>7, <2>8 DEF HandleCommands, ReadyItem
<1> QED BY <1>1, GateInvariantHolds, PTL

\* While a run is served it counts as running, its handles are counted exactly
\* and the thread-local queue pointer is null outside it: with an exception
\* handler that returns and a FinishRun answered in time.  A raising handler
\* leaves the pointer behind (run handler_raises_tls), and after a timeout the
\* late FinishRun resets the state of the next run (run late_finish_stop).
THEOREM RunStateIsSound ==
    ASSUME ~HandlerRaises, ~FinishTimesOut
    PROVE  Spec => []RunStateSound
<1>1. Init => FinishedOnce BY InitGate
<1>2. TypeOK /\ RunsConsistent /\ FinishedOnce /\ [Next]_vars => FinishedOnce'
 <2>1. ASSUME TypeOK, RunsConsistent, FinishedOnce, Next PROVE FinishedOnce'
   BY <2>1, StepFinishedOnce
 <2>2. ASSUME FinishedOnce, UNCHANGED vars PROVE FinishedOnce'
   BY <2>2 DEF vars, FinishedOnce, MidRun, Serving, TlsClearedBeforeDrop
 <2> QED BY <2>1, <2>2
<1>3. FinishedOnce => RunningWhileServing /\ TlsClearedBeforeDrop
  BY DEF FinishedOnce, MidRun, RunningWhileServing
<1> QED BY <1>1, <1>2, <1>3, GateInvariantHolds, HandlesExact, PTL DEF Spec, RunStateSound

-----------------------------------------------------------------------------
(* Where a callback waits, counted. *)

ReadyOf(x) == {c \in Command : c.op = "ready" /\ c.item = x}
InRuns(x, q) == UNION {{r} \X Positions(x, Items(q[r])) : r \in Runs}

LEMMA PositionsCount ==
    ASSUME NEW T, NEW s \in Seq(T), NEW x
    PROVE  Cardinality(Positions(x, s)) = CountIn(s, {x}) /\ CountIn(s, {x}) \in Nat
           /\ IsFiniteSet(Positions(x, s))
<1>1. Positions(x, s) = Spots(s, {x}) BY DEF Positions, Spots
<1> QED BY <1>1, CountType DEF CountIn

LEMMA ChannelCount ==
    ASSUME NEW k \in Seq(Command), NEW x
    PROVE  /\ Cardinality({i \in 1..Len(k) : k[i].op = "ready" /\ k[i].item = x})
                  = CountIn(k, ReadyOf(x))
           /\ CountIn(k, ReadyOf(x)) \in Nat
<1>1. \A i \in 1..Len(k) : k[i] \in Command BY ElementOfSeq
<1>2. {i \in 1..Len(k) : k[i].op = "ready" /\ k[i].item = x} = Spots(k, ReadyOf(x))
  BY <1>1 DEF Spots, ReadyOf
<1> QED BY <1>2, CountType DEF CountIn

\* The items of a queue, and of one that was stamped.
LEMMA ItemsFacts ==
    /\ \A q \in Seq(QueueEntry) : Items(q) \in Seq(ReadyItem) /\ Len(Items(q)) = Len(q)
    /\ \A s \in Seq(ReadyItem) : \A m \in Nat :
          Stamped(s, m) \in Seq(QueueEntry) /\ Items(Stamped(s, m)) = s
    /\ \A q \in Seq(QueueEntry) : \A e \in QueueEntry :
          Append(q, e) \in Seq(QueueEntry) /\ Items(Append(q, e)) = Append(Items(q), e.item)
    /\ \A p, q \in Seq(QueueEntry) :
          p \o q \in Seq(QueueEntry) /\ Items(p \o q) = Items(p) \o Items(q)
<1>1. ASSUME NEW q \in Seq(QueueEntry) PROVE Items(q) \in Seq(ReadyItem) /\ Len(Items(q)) = Len(q)
 <2>1. Items(q) \in Seq(ReadyItem) BY ItemsType DEF QueueEntry
 <2>2. Len(q) \in Nat BY LenProperties
 <2> QED BY <2>1, <2>2 DEF Items
<1>2. ASSUME NEW s \in Seq(ReadyItem), NEW m \in Nat
      PROVE  Stamped(s, m) \in Seq(QueueEntry) /\ Items(Stamped(s, m)) = s
 <2>1. Stamped(s, m) \in Seq(QueueEntry) BY StampedType DEF QueueEntry
 <2>2. Len(Stamped(s, m)) = Len(s) /\ \A i \in 1..Len(s) : Stamped(s, m)[i].item = s[i]
   BY DEF Stamped
 <2>3. Items(Stamped(s, m)) \in Seq(ReadyItem) /\ Len(Items(Stamped(s, m))) = Len(s)
   BY <1>1, <2>1, <2>2
 <2>4. \A i \in 1..Len(s) : Items(Stamped(s, m))[i] = s[i] BY <2>2 DEF Items
 <2>5. Items(Stamped(s, m)) = s BY <2>3, <2>4, SeqEqual
 <2> QED BY <2>1, <2>5
<1>3. ASSUME NEW q \in Seq(QueueEntry), NEW e \in QueueEntry
      PROVE  Append(q, e) \in Seq(QueueEntry) /\ Items(Append(q, e)) = Append(Items(q), e.item)
 <2>1. /\ Append(q, e) \in Seq(QueueEntry) /\ Len(Append(q, e)) = Len(q) + 1 /\ Len(q) \in Nat
       /\ \A i \in 1..Len(q) : Append(q, e)[i] = q[i]
       /\ Append(q, e)[Len(q) + 1] = e
   BY AppendProperties, LenProperties
 <2>2. /\ Items(q) \in Seq(ReadyItem) /\ Len(Items(q)) = Len(q) /\ e.item \in ReadyItem
       /\ Items(Append(q, e)) \in Seq(ReadyItem) /\ Len(Items(Append(q, e))) = Len(q) + 1
   BY <1>1, <2>1 DEF QueueEntry
 <2>3. /\ Append(Items(q), e.item) \in Seq(ReadyItem) /\ Len(Append(Items(q), e.item)) = Len(q) + 1
       /\ \A i \in 1..Len(q) : Append(Items(q), e.item)[i] = Items(q)[i]
       /\ Append(Items(q), e.item)[Len(q) + 1] = e.item
   BY <2>2, AppendProperties
 <2>4. \A i \in 1..(Len(q) + 1) : Items(Append(q, e))[i] = Append(Items(q), e.item)[i]
   BY <2>1, <2>3 DEF Items
 <2>5. Items(Append(q, e)) = Append(Items(q), e.item) BY <2>2, <2>3, <2>4, SeqEqual, Zenon
 <2> QED BY <2>1, <2>5
<1>4. ASSUME NEW p \in Seq(QueueEntry), NEW q \in Seq(QueueEntry)
      PROVE  p \o q \in Seq(QueueEntry) /\ Items(p \o q) = Items(p) \o Items(q)
 <2>1. /\ p \o q \in Seq(QueueEntry) /\ Len(p \o q) = Len(p) + Len(q)
       /\ Len(p) \in Nat /\ Len(q) \in Nat
       /\ \A i \in 1..(Len(p) + Len(q)) : (p \o q)[i] = IF i <= Len(p) THEN p[i] ELSE q[i - Len(p)]
   BY ConcatProperties, LenProperties
 <2>2. /\ Items(p) \in Seq(ReadyItem) /\ Len(Items(p)) = Len(p)
       /\ Items(q) \in Seq(ReadyItem) /\ Len(Items(q)) = Len(q)
       /\ Items(p \o q) \in Seq(ReadyItem) /\ Len(Items(p \o q)) = Len(p) + Len(q)
   BY <1>1, <2>1
 <2>3. /\ Items(p) \o Items(q) \in Seq(ReadyItem) /\ Len(Items(p) \o Items(q)) = Len(p) + Len(q)
       /\ \A i \in 1..(Len(p) + Len(q)) :
             (Items(p) \o Items(q))[i] = IF i <= Len(p) THEN Items(p)[i] ELSE Items(q)[i - Len(p)]
  <3>1. /\ Items(p) \o Items(q) \in Seq(ReadyItem)
        /\ Len(Items(p) \o Items(q)) = Len(Items(p)) + Len(Items(q))
        /\ \A i \in 1..(Len(Items(p)) + Len(Items(q))) :
              (Items(p) \o Items(q))[i] =
                  IF i <= Len(Items(p)) THEN Items(p)[i] ELSE Items(q)[i - Len(Items(p))]
    <4> DEFINE a == Items(p)
               b == Items(q)
   <4>1. a \in Seq(ReadyItem) /\ b \in Seq(ReadyItem) BY <2>2
   <4> HIDE DEF a, b
   <4>2. /\ a \o b \in Seq(ReadyItem) /\ Len(a \o b) = Len(a) + Len(b)
         /\ \A i \in 1..(Len(a) + Len(b)) : (a \o b)[i] = IF i <= Len(a) THEN a[i] ELSE b[i - Len(a)]
     BY <4>1, ConcatProperties
   <4> QED BY <4>2 DEF a, b
  <3> QED BY <2>2, <3>1
 <2>4. \A i \in 1..(Len(p) + Len(q)) : Items(p \o q)[i] = (Items(p) \o Items(q))[i]
  <3>1. ASSUME NEW i \in 1..(Len(p) + Len(q)) PROVE Items(p \o q)[i] = (Items(p) \o Items(q))[i]
   <4>1. Items(p \o q)[i] = (p \o q)[i].item BY <2>1 DEF Items
   <4>2. CASE i <= Len(p)
    <5>1. i \in 1..Len(p) BY <2>1, <4>2
    <5> QED BY <2>1, <2>3, <4>1, <4>2, <5>1 DEF Items
   <4>3. CASE ~(i <= Len(p))
    <5>1. i - Len(p) \in 1..Len(q) BY <2>1, <4>3
    <5> QED BY <2>1, <2>3, <4>1, <4>3, <5>1 DEF Items
   <4> QED BY <4>2, <4>3
  <3> QED BY <3>1
 <2>5. Items(p \o q) = Items(p) \o Items(q) BY <2>2, <2>3, <2>4, SeqEqual
 <2> QED BY <2>1, <2>5
<1> QED BY <1>1, <1>2, <1>3, <1>4

\* The queues of the runs together, and what changing one of them does.
LEMMA RunsCount ==
    ASSUME NEW x, NEW p \in [Runs -> Seq(QueueEntry)], NEW q \in [Runs -> Seq(QueueEntry)],
           NEW r \in Runs, \A u \in Runs : u # r => p[u] = q[u]
    PROVE  /\ Cardinality(InRuns(x, p)) \in Nat /\ Cardinality(InRuns(x, q)) \in Nat
           /\ CountIn(Items(p[r]), {x}) \in Nat /\ CountIn(Items(q[r]), {x}) \in Nat
           /\ Cardinality(InRuns(x, p)) + CountIn(Items(q[r]), {x})
                  = Cardinality(InRuns(x, q)) + CountIn(Items(p[r]), {x})
<1> DEFINE Here(f) == {r} \X Positions(x, Items(f[r]))
           Rest(f) == UNION {{u} \X Positions(x, Items(f[u])) : u \in Runs \ {r}}
<1>1. ASSUME NEW f \in [Runs -> Seq(QueueEntry)]
      PROVE  /\ IsFiniteSet(Here(f)) /\ Cardinality(Here(f)) = CountIn(Items(f[r]), {x})
             /\ CountIn(Items(f[r]), {x}) \in Nat /\ IsFiniteSet(Rest(f)) /\ Cardinality(Rest(f)) \in Nat
             /\ Cardinality(InRuns(x, f)) = Cardinality(Here(f)) + Cardinality(Rest(f))
  <2> DEFINE P(u) == Positions(x, Items(f[u]))
             U == {{u} \X P(u) : u \in Runs \ {r}}
 <2>1. ASSUME NEW u \in Runs
       PROVE  /\ IsFiniteSet({u} \X P(u)) /\ Cardinality({u} \X P(u)) = Cardinality(P(u))
              /\ Cardinality(P(u)) = CountIn(Items(f[u]), {x}) /\ CountIn(Items(f[u]), {x}) \in Nat
  <3>1. Items(f[u]) \in Seq(ReadyItem) BY ItemsFacts
  <3>2. /\ IsFiniteSet(P(u)) /\ Cardinality(P(u)) = CountIn(Items(f[u]), {x})
        /\ CountIn(Items(f[u]), {x}) \in Nat
    BY <3>1, PositionsCount
  <3> DEFINE g == [i \in P(u) |-> <<u, i>>]
  <3>3. /\ g \in [P(u) -> {u} \X P(u)] /\ \A a, b \in P(u) : g[a] = g[b] => a = b
        /\ \A t \in {u} \X P(u) : \E a \in P(u) : g[a] = t
    OBVIOUS
  <3> HIDE DEF g, P
  <3>4. IsFiniteSet({u} \X P(u)) /\ Cardinality({u} \X P(u)) = Cardinality(P(u))
    BY <3>2, <3>3, SameSize, ZenonT(60)
  <3> QED BY <3>2, <3>4
 <2>2. IsFiniteSet(Runs \ {r})
  <3>1. IsFiniteSet(Runs) BY FS_Interval DEF Runs
  <3> QED BY <3>1, FS_RemoveElement
 <2>3. IsFiniteSet(U)
   <3> DEFINE h == [u \in Runs \ {r} |-> {u} \X P(u)]
  <3>1. h \in Surjection(Runs \ {r}, U) BY DEF Surjection
  <3> HIDE DEF h, U
  <3> QED BY <2>2, <3>1, FS_Surjection
 <2>4. \A S \in U : IsFiniteSet(S) BY <2>1
 <2>5. Rest(f) = UNION U OBVIOUS
 <2>6. IsFiniteSet(Rest(f)) /\ Cardinality(Rest(f)) \in Nat
   BY <2>3, <2>4, <2>5, FS_UNION, FS_CardinalityType
 <2>7. IsFiniteSet(Here(f)) /\ Cardinality(Here(f)) = CountIn(Items(f[r]), {x})
       /\ CountIn(Items(f[r]), {x}) \in Nat
   BY <2>1
 <2>8. InRuns(x, f) = Here(f) \union Rest(f) /\ Here(f) \cap Rest(f) = {}
  <3>1. \A t : t \in InRuns(x, f) <=> \E u \in Runs : t \in {u} \X P(u) BY DEF InRuns
  <3>2. \A t : t \in Rest(f) <=> \E u \in Runs : u # r /\ t \in {u} \X P(u) OBVIOUS
  <3>3. \A t : t \in Here(f) <=> t \in {r} \X P(r) OBVIOUS
  <3>4. \A u \in Runs : u # r => ({u} \X P(u)) \cap ({r} \X P(r)) = {} OBVIOUS
  <3> HIDE DEF Here, Rest, P
  <3> QED BY <3>1, <3>2, <3>3, <3>4
 <2> HIDE DEF Here, Rest
 <2>9. /\ Cardinality(Here(f) \union Rest(f))
             = Cardinality(Here(f)) + Cardinality(Rest(f)) - Cardinality(Here(f) \cap Rest(f))
       /\ Cardinality(Here(f) \cap Rest(f)) = 0
   BY <2>6, <2>7, <2>8, FS_Union, FS_EmptySet
 <2> QED BY <2>6, <2>7, <2>8, <2>9
<1>2. Rest(p) = Rest(q) OBVIOUS
<1> HIDE DEF Here, Rest
<1>3. /\ Cardinality(InRuns(x, p)) = CountIn(Items(p[r]), {x}) + Cardinality(Rest(p))
      /\ CountIn(Items(p[r]), {x}) \in Nat /\ Cardinality(Rest(p)) \in Nat
  BY <1>1
<1>4. /\ Cardinality(InRuns(x, q)) = CountIn(Items(q[r]), {x}) + Cardinality(Rest(p))
      /\ CountIn(Items(q[r]), {x}) \in Nat
  BY <1>1, <1>2
<1> QED BY <1>3, <1>4

\* A loop that sent Close stays closed, and only its command stops the dispatcher.
LEMMA StepClosedLast ==
    ASSUME TypeOK, RunsConsistent, ClosedLast, Next
    PROVE  ClosedLast'
<1>0. /\ command_channel \in Seq(Command) /\ Len(command_channel) \in Nat
      /\ disp_ret \in {"drain", "activate"}
  BY DEF TypeOK, ChannelType, DispatcherType
<1>s. ASSUME NEW c \in Command, command_channel' = Append(command_channel, c), disp_pc' = disp_pc,
             loop_pc' = loop_pc \/ loop_pc \notin {"join", "closed"},
             c.op = "close" => loop_pc' = "join"
      PROVE  ClosedLast'
 <2>1. /\ Len(command_channel') = Len(command_channel) + 1
       /\ \A i \in 1..Len(command_channel) : command_channel'[i] = command_channel[i]
       /\ command_channel'[Len(command_channel) + 1] = c
   BY <1>0, <1>s, ChannelAppend
 <2>2. \A i \in 1..Len(command_channel') : i \in 1..Len(command_channel) \/ i = Len(command_channel) + 1
   BY <1>0, <2>1
 <2> QED BY <1>s, <2>1, <2>2 DEF ClosedLast
<1>t. ASSUME command_channel # <<>>, command_channel' = Tail(command_channel), loop_pc' = loop_pc,
             disp_pc' = "dead" => Head(command_channel).op = "close"
      PROVE  ClosedLast'
 <2>1. /\ Len(command_channel) \in Nat \ {0} /\ Len(command_channel') = Len(command_channel) - 1
       /\ \A i \in 1..(Len(command_channel) - 1) : command_channel'[i] = command_channel[i + 1]
       /\ Head(command_channel) = command_channel[1]
   BY <1>0, <1>t, ChannelTail
 <2>2. \A i \in 1..Len(command_channel') :
          i + 1 \in 1..Len(command_channel) /\ command_channel[i + 1] = command_channel'[i]
   BY <2>1
 <2>3. disp_pc' = "dead" => loop_pc \in {"join", "closed"} BY <1>t, <2>1 DEF ClosedLast
 <2> QED BY <1>t, <2>2, <2>3 DEF ClosedLast
<1>1. CASE /\ UNCHANGED command_channel /\ (disp_pc' = disp_pc \/ disp_pc' # "dead")
           /\ loop_pc' = loop_pc \/ loop_pc \notin {"join", "closed"} \/ loop_pc' = "closed"
  BY <1>1 DEF ClosedLast
<1>2. ASSUME NEW t \in Callers, send_remote_command(t) PROVE ClosedLast'
 <2>1. UNCHANGED <<loop_pc, disp_pc>> BY <1>2
 <2>2. CASE UNCHANGED command_channel BY <1>1, <2>1, <2>2
 <2>3. ASSUME NEW c \in Command, c.op = "ready", command_channel' = Append(command_channel, c)
       PROVE  ClosedLast'
   BY <1>s, <2>1, <2>3
 <2> QED BY <1>2, <2>2, <2>3, ChannelSends DEF RunsConsistent
<1>3. CASE send_enter_run
 <2>1. PICK c \in Command : c.op = "enter" /\ command_channel' = Append(command_channel, c)
   BY <1>3, ChannelSends DEF RunsConsistent
 <2>2. UNCHANGED disp_pc /\ loop_pc = "enter" BY <1>3
 <2> QED BY <1>s, <2>1, <2>2
<1>4. CASE send_finish_run
 <2>1. PICK c \in Command : c.op = "finish" /\ command_channel' = Append(command_channel, c)
   BY <1>4, ChannelSends DEF RunsConsistent
 <2>2. UNCHANGED disp_pc /\ loop_pc = "finish" BY <1>4
 <2> QED BY <1>s, <2>1, <2>2
<1>5. CASE send_close
 <2>1. PICK c \in Command : c.op = "close" /\ command_channel' = Append(command_channel, c)
   BY <1>5, ChannelSends DEF RunsConsistent
 <2>2. UNCHANGED disp_pc /\ loop_pc = "closing" /\ loop_pc' = "join" BY <1>5
 <2> QED BY <1>s, <2>1, <2>2
<1>6. CASE handle_ready
 <2>1. /\ command_channel # <<>> /\ command_channel' = Tail(command_channel) /\ loop_pc' = loop_pc
       /\ disp_pc' = "drain"
   BY <1>6
 <2> QED BY <1>t, <2>1
<1>7. CASE handle_enter_run
 <2>1. /\ command_channel # <<>> /\ command_channel' = Tail(command_channel) /\ loop_pc' = loop_pc
       /\ disp_pc' \in {"activate", "extend"}
   BY <1>7
 <2> QED BY <1>t, <2>1
<1>8. CASE handle_finish_run
 <2>1. /\ command_channel # <<>> /\ command_channel' = Tail(command_channel) /\ loop_pc' = loop_pc
       /\ disp_pc' \in {"ack", "reset"}
   BY <1>8
 <2> QED BY <1>t, <2>1
<1>9. CASE handle_close
 <2>1. /\ command_channel # <<>> /\ command_channel' = Tail(command_channel) /\ loop_pc' = loop_pc
       /\ Head(command_channel).op = "close"
   BY <1>9
 <2> QED BY <1>t, <2>1
<1>10. CASE dispatcher_signal
 <2>1. UNCHANGED <<command_channel, loop_pc>> /\ disp_pc' \in {"wake", disp_ret} BY <1>10
 <2> QED BY <1>0, <1>1, <2>1
<1>11. CASE dispatcher_wake
 <2>1. UNCHANGED <<command_channel, loop_pc>> /\ disp_pc' \in {"wake", disp_ret} BY <1>11
 <2> QED BY <1>0, <1>1, <2>1
<1>12. CASE dispatcher_poll
 <2>1. UNCHANGED <<command_channel, loop_pc>> /\ disp_pc' \in {"mark", "drain", "sleep"} BY <1>12
 <2> QED BY <1>1, <2>1
<1>13. CASE drain_commands_empty
 <2>1. UNCHANGED <<command_channel, loop_pc>> /\ disp_pc' \in {"mark", "drain", "sleep"}
   BY <1>13, Zenon
 <2> QED BY <1>1, <2>1
<1>14. CASE LoopStep BY <1>14, <1>1, <1>3, <1>4, <1>5 DEF LoopStep
<1>15. CASE DispatcherStep
  BY <1>15, <1>1, <1>6, <1>7, <1>8, <1>9, <1>10, <1>11, <1>12, <1>13, Zenon DEF DispatcherStep
<1>16. CASE Environment BY <1>16, <1>1 DEF Environment
<1>17. ASSUME NEW t \in Callers, CallerStep(t) PROVE ClosedLast'
  BY <1>17, <1>1, <1>2 DEF CallerStep, PendingPush
<1> QED BY <1>14, <1>15, <1>16, <1>17 DEF Next

\* A queue that was dropped stays dropped.
LEMMA IntactBefore ==
    ASSUME TypeOK, Next, Intact'
    PROVE  Intact
<1>1. CASE /\ disp_pc = "dead" => disp_pc' = "dead"
           /\ loop_pc = "returned_early" => loop_pc' = "returned_early"
  BY <1>1, Zenon DEF Intact
<1>2. CASE LoopStep BY <1>2, <1>1, Zenon DEF LoopStep
<1>3. CASE DispatcherStep BY <1>3, <1>1, Zenon DEF DispatcherStep
<1>4. CASE Environment BY <1>4, <1>1 DEF Environment
<1>5. ASSUME NEW t \in Callers, CallerStep(t) PROVE Intact BY <1>5, <1>1 DEF CallerStep, PendingPush
<1> QED BY <1>2, <1>3, <1>4, <1>5 DEF Next

\* The queues of the loop thread are empty between runs.
LEMMA StepOwnQueues ==
    ASSUME TypeOK, OwnQueues, Next
    PROVE  OwnQueues'
<1>1. CASE \/ Serving' \/ loop_pc' = "leftover"
           \/ (local_ready' = <<>> /\ ready_batch' = <<>>)
           \/ (UNCHANGED <<local_ready, ready_batch>> /\ ~Serving /\ loop_pc # "leftover")
           \/ UNCHANGED <<local_ready, ready_batch, loop_pc>>
  BY <1>1, Zenon DEF OwnQueues, Serving
<1>2. CASE LoopStep BY <1>2, <1>1, Zenon DEF LoopStep, Serving
<1>3. CASE DispatcherStep BY <1>3, <1>1 DEF DispatcherStep, Serving
<1>4. CASE Environment BY <1>4, <1>1 DEF Environment, Serving
<1>5. ASSUME NEW t \in Callers, CallerStep(t) PROVE OwnQueues'
  BY <1>5, <1>1 DEF CallerStep, PendingPush, Serving
<1> QED BY <1>2, <1>3, <1>4, <1>5 DEF Next

\* The queues of all runs hold finitely many copies.
LEMMA InRunsCount ==
    ASSUME NEW x, NEW q \in [Runs -> Seq(QueueEntry)]
    PROVE  Cardinality(InRuns(x, q)) \in Nat
<1>1. CASE Runs = {}
 <2>1. InRuns(x, q) = {} BY <1>1 DEF InRuns
 <2> QED BY <2>1, FS_EmptySet
<1>2. ASSUME NEW r \in Runs PROVE Cardinality(InRuns(x, q)) \in Nat BY RunsCount
<1> QED BY <1>1, <1>2

\* The copies of a callback, as a sum of what each queue holds.
Held(x) ==
    CountIn(local_ready, {x}) + CountIn(ready_batch, {x}) + CountIn(disp_batch, {x})
    + CountIn(command_channel, ReadyOf(x)) + Cardinality(InRuns(x, pending_ready))

LEMMA CopiesHeld ==
    ASSUME TypeOK, NEW x \in Callback
    PROVE  /\ Copies(x) = Held(x)
           /\ CountIn(local_ready, {x}) \in Nat
           /\ CountIn(ready_batch, {x}) \in Nat
           /\ CountIn(disp_batch, {x}) \in Nat
           /\ CountIn(command_channel, ReadyOf(x)) \in Nat
           /\ Cardinality(InRuns(x, pending_ready)) \in Nat
           /\ Held(x) \in Nat
<1>0. /\ local_ready \in Seq(ReadyItem) /\ ready_batch \in Seq(ReadyItem)
      /\ disp_batch \in Seq(ReadyItem) /\ command_channel \in Seq(Command)
      /\ pending_ready \in [Runs -> Seq(QueueEntry)]
  BY DEF TypeOK, LoopType, DispatcherType, ChannelType, PendingType
<1>1. Cardinality(Positions(x, local_ready)) = CountIn(local_ready, {x}) /\ CountIn(local_ready, {x}) \in Nat
  BY <1>0, PositionsCount
<1>2. Cardinality(Positions(x, ready_batch)) = CountIn(ready_batch, {x}) /\ CountIn(ready_batch, {x}) \in Nat
  BY <1>0, PositionsCount
<1>3. Cardinality(Positions(x, disp_batch)) = CountIn(disp_batch, {x}) /\ CountIn(disp_batch, {x}) \in Nat
  BY <1>0, PositionsCount
<1>4. /\ Cardinality({i \in 1..Len(command_channel) :
                         command_channel[i].op = "ready" /\ command_channel[i].item = x})
            = CountIn(command_channel, ReadyOf(x))
      /\ CountIn(command_channel, ReadyOf(x)) \in Nat
  BY <1>0, ChannelCount
<1>5. Cardinality(InRuns(x, pending_ready)) \in Nat BY <1>0, InRunsCount
<1>6. Copies(x) = Held(x) BY <1>1, <1>2, <1>3, <1>4 DEF Copies, Held, InRuns
<1>7. Held(x) \in Nat BY <1>1, <1>2, <1>3, <1>4, <1>5 DEF Held
<1> QED BY <1>1, <1>2, <1>3, <1>4, <1>5, <1>6, <1>7

\* The callback at the head of the batch is accepted and has not run.
LEMMA HeadAccepted ==
    ASSUME TypeOK, CopiesExact, Intact, ready_batch # <<>>, Head(ready_batch) # StopItem
    PROVE  /\ Head(ready_batch) \in Callback
           /\ Head(ready_batch) \in accepted /\ Head(ready_batch) \notin executed
<1> DEFINE x == Head(ready_batch)
<1>0. ready_batch \in Seq(ReadyItem) BY DEF TypeOK, LoopType
<1>1. x \in Callback BY <1>0, TailElems DEF ReadyItem
<1>2. CountIn(ready_batch, {x}) = CountIn(Tail(ready_batch), {x}) + 1 BY <1>0, CountTail
<1>3. CountIn(Tail(ready_batch), {x}) \in Nat BY <1>0, TailElems, CountType
<1> HIDE DEF x
<1>4. Copies(x) = Held(x) /\ Held(x) # 0 BY <1>1, <1>2, <1>3, CopiesHeld DEF Held
<1>5. x \in accepted \ executed BY <1>1, <1>4 DEF CopiesExact
<1> QED BY <1>1, <1>5 DEF x

\* How the copies of a callback change when a queue does.
LEMMA QueueChanges ==
    ASSUME NEW x \in Callback
    PROVE  /\ CountIn(<<>>, {x}) = 0 /\ Items(<<>>) = <<>>
           /\ \A s \in Seq(ReadyItem) : CountIn(Append(s, StopItem), {x}) = CountIn(s, {x})
           /\ \A s \in Seq(ReadyItem), y \in ReadyItem :
                 CountIn(Append(s, y), {x}) = CountIn(s, {x}) + IF y = x THEN 1 ELSE 0
           /\ \A s \in Seq(ReadyItem) : s # <<>> =>
                 /\ Tail(s) \in Seq(ReadyItem) /\ CountIn(Tail(s), {x}) \in Nat
                 /\ CountIn(s, {x}) = CountIn(Tail(s), {x}) + IF Head(s) = x THEN 1 ELSE 0
           /\ StopItem # x
<1>1. CountIn(<<>>, {x}) = 0
 <2>1. <<>> \in Seq(ReadyItem) /\ Len(<<>>) = 0 OBVIOUS
 <2>2. \A i \in 1..Len(<<>>) : <<>>[i] \notin {x} BY <2>1
 <2> QED BY <2>1, <2>2, CountType
<1>2. Items(<<>>) = <<>> BY ItemsFacts, EmptySeq DEF Items
<1>3. StopItem # x /\ StopItem \in ReadyItem BY DEF StopItem, Callback, ReadyItem, Sources, Callers
<1>4. ASSUME NEW s \in Seq(ReadyItem), NEW y \in ReadyItem
      PROVE  CountIn(Append(s, y), {x}) = CountIn(s, {x}) + IF y = x THEN 1 ELSE 0
 <2>1. CountIn(Append(s, y), {x}) = CountIn(s, {x}) + IF y \in {x} THEN 1 ELSE 0 BY CountAppend
 <2> QED BY <2>1
<1>5. ASSUME NEW s \in Seq(ReadyItem) PROVE CountIn(Append(s, StopItem), {x}) = CountIn(s, {x})
 <2>1. CountIn(Append(s, StopItem), {x}) = CountIn(s, {x}) + 0 BY <1>3, <1>4
 <2>2. CountIn(s, {x}) \in Nat BY CountType
 <2> QED BY <2>1, <2>2
<1>6. ASSUME NEW s \in Seq(ReadyItem), s # <<>>
      PROVE  /\ Tail(s) \in Seq(ReadyItem) /\ CountIn(Tail(s), {x}) \in Nat
             /\ CountIn(s, {x}) = CountIn(Tail(s), {x}) + IF Head(s) = x THEN 1 ELSE 0
 <2>1. CountIn(s, {x}) = CountIn(Tail(s), {x}) + IF Head(s) \in {x} THEN 1 ELSE 0
   BY <1>6, CountTail
 <2>2. Tail(s) \in Seq(ReadyItem) BY <1>6, TailElems
 <2>3. CountIn(Tail(s), {x}) \in Nat BY <2>2, CountType
 <2> QED BY <2>1, <2>2, <2>3
<1> QED BY <1>1, <1>2, <1>3, <1>4, <1>5, <1>6

\* Merging the two queues keeps every callback.
LEMMA MergeCounts ==
    ASSUME NEW l \in Seq(ReadyItem), NEW n \in Nat, NEW q \in Seq(QueueEntry), NEW x \in Callback
    PROVE  CountIn(MergeGeneration(l, n, q), {x}) = CountIn(l, {x}) + CountIn(Items(q), {x})
  BY MergeKeepsAll DEF QueueEntry

\* Every step keeps the numbering: a number is used once, and what runs was accepted.
LEMMA StepNumbered ==
    ASSUME TypeOK, ClosedLast, CopiesExact, Numbered, Next
    PROVE  Numbered'
<1>0. /\ call_pc \in [Callers -> CallPcs] /\ call_item \in [Callers -> ReadyItem] /\ posted \in [Sources -> Nat]
      /\ accepted \subseteq Callback /\ Callers \subseteq Sources /\ "loop" \in Callers
      /\ "io" \in Sources /\ "io" \notin Callers
      /\ \A s \in Sources : posted[s] \in Nat /\ NextOf(s).by = s /\ NextOf(s).n = posted[s] + 1
  BY DEF TypeOK, CallerType, HistoryType, Sources, Callers, NextOf
<1>a. \A x \in accepted : x.by \in Sources /\ x.n \in Nat /\ x.n <= posted[x.by]
  BY <1>0 DEF Numbered, Callback
<1>p. ASSUME NEW s \in Sources, posted' = [posted EXCEPT ![s] = @ + 1]
      PROVE  /\ posted'[s] = posted[s] + 1 /\ \A u \in Sources : u # s => posted'[u] = posted[u]
             /\ NextOf(s) \notin accepted /\ \A x \in accepted : x.n <= posted'[x.by]
 <2>1. posted'[s] = posted[s] + 1 /\ \A u \in Sources : u # s => posted'[u] = posted[u]
   BY <1>0, <1>p
 <2>2. ASSUME NEW x \in accepted PROVE x.n <= posted'[x.by] /\ x # NextOf(s)
  <3>1. x.by \in Sources /\ x.n \in Nat /\ x.n <= posted[x.by] /\ posted[s] \in Nat BY <1>0, <1>a
  <3> QED BY <1>0, <2>1, <3>1
 <2> QED BY <2>1, <2>2
<1>n. ASSUME NEW s \in Sources, s = "io" \/ (s = "loop" /\ call_pc["loop"] = "idle"),
             posted' = [posted EXCEPT ![s] = @ + 1], accepted' = accepted \union {NextOf(s)},
             executed' \subseteq accepted, UNCHANGED <<call_pc, call_item>>
      PROVE  Numbered'
 <2>1. \A x \in accepted' : x.n <= posted'[x.by] BY <1>0, <1>a, <1>n, <1>p
 <2>2. ASSUME NEW t \in Callers, call_pc[t] \in Posting, call_item[t] # StopItem
       PROVE  call_item[t].by = t /\ call_item[t].n <= posted'[t] /\ call_item[t] \notin accepted'
  <3>1. t # s /\ call_item[t].by = t /\ call_item[t].n <= posted[t] /\ call_item[t] \notin accepted
    BY <1>0, <1>n, <2>2 DEF Numbered, Posting
  <3> QED BY <1>0, <1>n, <1>p, <3>1
 <2> QED BY <1>n, <2>1, <2>2 DEF Numbered
<1>e. ASSUME Execute
      PROVE  executed' \subseteq accepted /\ UNCHANGED <<call_pc, call_item>> /\ call_pc["loop"] = "idle"
 <2>1. /\ loop_pc = "drain" /\ ready_batch # <<>> /\ Head(ready_batch) # StopItem /\ call_pc["loop"] = "idle"
       /\ executed' = executed \union {Head(ready_batch)} /\ UNCHANGED <<call_pc, call_item>>
   BY <1>e
 <2>2. Intact BY <2>1 DEF Intact, ClosedLast
 <2> QED BY <2>1, <2>2, HeadAccepted DEF Numbered
<1>1. CASE GoesOn BY <1>1 DEF GoesOn, Numbered
<1>2. CASE EnqueuesIo BY <1>0, <1>2, <1>n DEF EnqueuesIo, Numbered
<1>3. CASE RunsHead BY <1>3, <1>e DEF RunsHead, Numbered
<1>4. CASE RunsAndSchedules
 <2> HIDE DEF Execute
 <2> QED BY <1>0, <1>4, <1>e, <1>n DEF RunsAndSchedules
<1>5. ASSUME NEW t \in Callers, Begins(t) PROVE Numbered'
 <2>1. /\ UNCHANGED <<accepted, executed>> /\ posted' = [posted EXCEPT ![t] = @ + 1]
       /\ call_item' = [call_item EXCEPT ![t] = NextOf(t)] /\ call_pc' = [call_pc EXCEPT ![t] = "gate"]
   BY <1>5 DEF Begins
 <2>2. /\ posted'[t] = posted[t] + 1 /\ \A u \in Sources : u # t => posted'[u] = posted[u]
       /\ NextOf(t) \notin accepted /\ \A x \in accepted : x.n <= posted'[x.by]
   BY <1>0, <1>p, <2>1
 <2>3. ASSUME NEW u \in Callers, call_pc'[u] \in Posting, call_item'[u] # StopItem
       PROVE  call_item'[u].by = u /\ call_item'[u].n <= posted'[u] /\ call_item'[u] \notin accepted
  <3>1. CASE u = t
   <4>1. call_item'[u] = NextOf(t) BY <1>0, <2>1, <3>1
   <4> QED BY <1>0, <2>2, <3>1, <4>1
  <3>2. CASE u # t
   <4>1. call_item'[u] = call_item[u] /\ call_pc'[u] = call_pc[u] /\ posted'[u] = posted[u]
     BY <1>0, <2>1, <2>2, <3>2
   <4> QED BY <2>3, <4>1 DEF Numbered
  <3> QED BY <3>1, <3>2
 <2> QED BY <2>1, <2>2, <2>3 DEF Numbered
<1>6. ASSUME NEW t \in Callers, Accepts(t) PROVE Numbered'
 <2>1. /\ UNCHANGED <<posted, executed, call_item>> /\ call_pc[t] \in Posting
       /\ accepted' = accepted \union ({call_item[t]} \ {StopItem})
       /\ \E p : p \notin Posting /\ call_pc' = [call_pc EXCEPT ![t] = p]
   BY <1>6 DEF Accepts, Posting
 <2>2. call_item[t] # StopItem => call_item[t].by = t /\ call_item[t].n <= posted[t]
   BY <2>1 DEF Numbered
 <2>3. \A u \in Callers : call_pc'[u] \in Posting => call_pc[u] \in Posting /\ u # t BY <1>0, <2>1
 <2>4. ASSUME NEW u \in Callers, call_pc'[u] \in Posting, call_item[u] # StopItem
       PROVE  call_item[u].by = u /\ call_item[u].n <= posted[u] /\ call_item[u] \notin accepted'
  <3>1. u # t /\ call_item[u].by = u /\ call_item[u].n <= posted[u] /\ call_item[u] \notin accepted
    BY <2>3, <2>4 DEF Numbered
  <3> QED BY <2>1, <2>2, <3>1
 <2> QED BY <2>1, <2>2, <2>4 DEF Numbered
<1> QED BY <1>1, <1>2, <1>3, <1>4, <1>5, <1>6, Recorded

\* The same for the next state.
LEMMA CopiesHeldNext ==
    ASSUME TypeOK', NEW x \in Callback
    PROVE  Copies(x)' = Held(x)' /\ Held(x)' \in Nat
<1>0. /\ local_ready' \in Seq(ReadyItem) /\ ready_batch' \in Seq(ReadyItem)
      /\ disp_batch' \in Seq(ReadyItem) /\ command_channel' \in Seq(Command)
      /\ pending_ready' \in [Runs -> Seq(QueueEntry)]
  BY DEF TypeOK, LoopType, DispatcherType, ChannelType, PendingType
<1>1. Cardinality(Positions(x, local_ready')) = CountIn(local_ready', {x}) /\ CountIn(local_ready', {x}) \in Nat
  BY <1>0, PositionsCount
<1>2. Cardinality(Positions(x, ready_batch')) = CountIn(ready_batch', {x}) /\ CountIn(ready_batch', {x}) \in Nat
  BY <1>0, PositionsCount
<1>3. Cardinality(Positions(x, disp_batch')) = CountIn(disp_batch', {x}) /\ CountIn(disp_batch', {x}) \in Nat
  BY <1>0, PositionsCount
<1>4. /\ Cardinality({i \in 1..Len(command_channel') :
                         command_channel'[i].op = "ready" /\ command_channel'[i].item = x})
            = CountIn(command_channel', ReadyOf(x))
      /\ CountIn(command_channel', ReadyOf(x)) \in Nat
  BY <1>0, ChannelCount
<1>5. Cardinality(InRuns(x, pending_ready')) \in Nat BY <1>0, InRunsCount, Zenon
<1> QED BY <1>1, <1>2, <1>3, <1>4, <1>5 DEF Copies, Held, InRuns

\* Every step moves a callback from one queue to another, accepts it into one,
\* or takes it from the one it was in to run it.
LEMMA StepCopies ==
    ASSUME TypeOK, TypeOK', RunsConsistent, OwnQueues, Numbered, CopiesExact, Next
    PROVE  CopiesExact'
<1>0. /\ local_ready \in Seq(ReadyItem) /\ ready_batch \in Seq(ReadyItem)
      /\ disp_batch \in Seq(ReadyItem) /\ command_channel \in Seq(Command)
      /\ pending_ready \in [Runs -> Seq(QueueEntry)]
  BY DEF TypeOK, LoopType, DispatcherType, ChannelType, PendingType
<1>i. SUFFICES ASSUME Intact' PROVE \A x \in Callback : Copies(x)' = IF x \in accepted' \ executed' THEN 1 ELSE 0
  BY DEF CopiesExact
<1>j. Intact /\ executed \subseteq accepted /\ accepted \subseteq Callback
  BY <1>i, IntactBefore DEF Numbered, TypeOK, HistoryType
<1>c. \A x \in Callback :
         /\ Held(x) = IF x \in accepted \ executed THEN 1 ELSE 0
         /\ CountIn(local_ready, {x}) \in Nat
         /\ CountIn(ready_batch, {x}) \in Nat
         /\ CountIn(disp_batch, {x}) \in Nat
         /\ CountIn(command_channel, ReadyOf(x)) \in Nat
         /\ Cardinality(InRuns(x, pending_ready)) \in Nat
         /\ Held(x) \in Nat
  BY <1>j, CopiesHeld DEF CopiesExact
<1>d. \A x \in Callback : Copies(x)' = Held(x)' /\ Held(x)' \in Nat BY CopiesHeldNext
<1>s. \A s \in Sources : NextOf(s) \in Callback /\ NextOf(s) \notin accepted
 <2>1. ASSUME NEW s \in Sources, NextOf(s) \in accepted PROVE FALSE
  <3>1. NextOf(s).n <= posted[s] /\ NextOf(s).n = posted[s] + 1 /\ posted[s] \in Nat
    BY <2>1 DEF Numbered, NextOf, TypeOK, HistoryType
  <3> QED BY <3>1
 <2> QED BY <2>1, ItemFacts DEF TypeOK
<1>k. ASSUME UNCHANGED <<accepted, executed>>, \A x \in Callback : Held(x)' = Held(x)
      PROVE  \A x \in Callback : Copies(x)' = IF x \in accepted' \ executed' THEN 1 ELSE 0
  BY <1>c, <1>d, <1>k
<1>a. ASSUME NEW y \in Callback, y \notin accepted, accepted' = accepted \union {y}, UNCHANGED executed,
             \A x \in Callback : Held(x)' = Held(x) + IF y = x THEN 1 ELSE 0
      PROVE  \A x \in Callback : Copies(x)' = IF x \in accepted' \ executed' THEN 1 ELSE 0
 <2>1. ASSUME NEW x \in Callback PROVE Held(x)' = IF x \in accepted' \ executed' THEN 1 ELSE 0
  <3>1. Held(x) = IF x \in accepted \ executed THEN 1 ELSE 0 BY <1>c
  <3>2. CASE x = y
   <4>1. Held(x) = 0 /\ Held(x)' = Held(x) + 1 /\ x \in accepted' /\ x \notin executed'
     BY <1>a, <1>j, <3>1, <3>2
   <4> QED BY <4>1
  <3>3. CASE x # y
   <4>1. Held(x)' = Held(x) + 0 /\ (x \in accepted' \ executed' <=> x \in accepted \ executed)
     BY <1>a, <3>3
   <4> QED BY <3>1, <4>1
  <3> QED BY <3>2, <3>3
 <2> QED BY <1>d, <2>1
<1>x. ASSUME Execute, UNCHANGED accepted,
             \A x \in Callback : Held(x) = Held(x)' + IF Head(ready_batch) = x THEN 1 ELSE 0
      PROVE  \A x \in Callback : Copies(x)' = IF x \in accepted' \ executed' THEN 1 ELSE 0
 <2>0. /\ Head(ready_batch) \in Callback /\ Head(ready_batch) \in accepted
       /\ Head(ready_batch) \notin executed /\ executed' = executed \union {Head(ready_batch)}
   BY <1>x, <1>j, HeadAccepted
 <2>1. ASSUME NEW x \in Callback PROVE Held(x)' = IF x \in accepted' \ executed' THEN 1 ELSE 0
  <3>1. Held(x) = (IF x \in accepted \ executed THEN 1 ELSE 0) /\ Held(x)' \in Nat BY <1>c, <1>d
  <3>2. CASE x = Head(ready_batch)
   <4>1. Held(x) = 1 /\ Held(x) = Held(x)' + 1 /\ x \in executed' BY <1>x, <2>0, <3>1, <3>2
   <4> QED BY <3>1, <4>1
  <3>3. CASE x # Head(ready_batch)
   <4>1. Held(x) = Held(x)' + 0 /\ (x \in accepted' \ executed' <=> x \in accepted \ executed)
     BY <1>x, <2>0, <3>3
   <4> QED BY <3>1, <4>1
  <3> QED BY <3>2, <3>3
 <2> QED BY <1>d, <2>1
<1>b. ASSUME Execute, NEW z \in Callback, z \notin accepted, accepted' = accepted \union {z},
             \A x \in Callback : Held(x) + (IF z = x THEN 1 ELSE 0)
                                  = Held(x)' + IF Head(ready_batch) = x THEN 1 ELSE 0
      PROVE  \A x \in Callback : Copies(x)' = IF x \in accepted' \ executed' THEN 1 ELSE 0
 <2>0. /\ Head(ready_batch) \in Callback /\ Head(ready_batch) \in accepted
       /\ Head(ready_batch) \notin executed /\ executed' = executed \union {Head(ready_batch)}
   BY <1>b, <1>j, HeadAccepted
 <2>1. ASSUME NEW x \in Callback PROVE Held(x)' = IF x \in accepted' \ executed' THEN 1 ELSE 0
  <3>1. Held(x) = (IF x \in accepted \ executed THEN 1 ELSE 0) /\ Held(x)' \in Nat BY <1>c, <1>d
  <3>2. CASE x = Head(ready_batch)
   <4>1. Held(x) = 1 /\ Held(x) + 0 = Held(x)' + 1 /\ x \in executed' BY <1>b, <2>0, <3>1, <3>2
   <4> QED BY <3>1, <4>1
  <3>3. CASE x = z /\ x # Head(ready_batch)
   <4>1. Held(x) = 0 /\ Held(x) + 1 = Held(x)' + 0 /\ x \in accepted' /\ x \notin executed'
     BY <1>b, <1>j, <2>0, <3>1, <3>3
   <4> QED BY <3>1, <4>1
  <3>4. CASE x # z /\ x # Head(ready_batch)
   <4>1. Held(x) + 0 = Held(x)' + 0 /\ (x \in accepted' \ executed' <=> x \in accepted \ executed)
     BY <1>b, <2>0, <3>4
   <4> QED BY <3>1, <4>1
  <3> QED BY <3>2, <3>3, <3>4
 <2> QED BY <1>d, <2>1
<1>m. ASSUME UNCHANGED <<local_ready, ready_batch, disp_batch, pending_ready, accepted, executed>>,
             NEW k \in Command, k.op # "ready", command_channel' = Append(command_channel, k)
      PROVE  \A x \in Callback : Copies(x)' = IF x \in accepted' \ executed' THEN 1 ELSE 0
 <2>1. ASSUME NEW x \in Callback PROVE Held(x)' = Held(x)
  <3>1. CountIn(command_channel', ReadyOf(x)) = CountIn(command_channel, ReadyOf(x)) + 0
   <4>1. k \notin ReadyOf(x) BY <1>m DEF ReadyOf
   <4> QED BY <1>0, <1>m, <4>1, CountAppend
  <3> QED BY <1>m, <1>c, <3>1 DEF Held
 <2> QED BY <1>m, <1>k, <2>1
<1>r. ASSUME command_channel # <<>>, command_channel' = Tail(command_channel), NEW x \in Callback
      PROVE  /\ CountIn(command_channel', ReadyOf(x)) \in Nat
             /\ Head(command_channel) \in Command
             /\ CountIn(command_channel, ReadyOf(x))
                   = CountIn(command_channel', ReadyOf(x)) + IF Head(command_channel) \in ReadyOf(x) THEN 1 ELSE 0
 <2>1. Tail(command_channel) \in Seq(Command) /\ Head(command_channel) \in Command
   BY <1>0, <1>r, TailElems
 <2>2. CountIn(Tail(command_channel), ReadyOf(x)) \in Nat BY <2>1, CountType
 <2> QED BY <1>0, <1>r, <2>1, <2>2, CountTail
<1>q. ASSUME NEW r \in Runs, NEW w \in Seq(QueueEntry),
             pending_ready' = [pending_ready EXCEPT ![r] = w], NEW x \in Callback
      PROVE  /\ CountIn(Items(pending_ready[r]), {x}) \in Nat
             /\ Cardinality(InRuns(x, pending_ready')) \in Nat
             /\ Cardinality(InRuns(x, pending_ready)) + CountIn(Items(w), {x})
                   = Cardinality(InRuns(x, pending_ready')) + CountIn(Items(pending_ready[r]), {x})
 <2>1. /\ pending_ready' \in [Runs -> Seq(QueueEntry)] /\ pending_ready'[r] = w
       /\ \A u \in Runs : u # r => pending_ready[u] = pending_ready'[u]
   BY <1>0, <1>q
 <2>2. /\ CountIn(Items(pending_ready[r]), {x}) \in Nat
       /\ Cardinality(InRuns(x, pending_ready')) \in Nat
       /\ Cardinality(InRuns(x, pending_ready)) + CountIn(Items(pending_ready'[r]), {x})
             = Cardinality(InRuns(x, pending_ready')) + CountIn(Items(pending_ready[r]), {x})
   BY <1>0, <2>1, RunsCount
 <2> QED BY <2>1, <2>2
<1>l. ASSUME UNCHANGED <<ready_batch, disp_batch, pending_ready, command_channel>>,
             NEW y \in ReadyItem, local_ready' = Append(local_ready, y), NEW x \in Callback
      PROVE  Held(x)' = Held(x) + IF y = x THEN 1 ELSE 0
 <2>1. CountIn(local_ready', {x}) = CountIn(local_ready, {x}) + IF y = x THEN 1 ELSE 0
   BY <1>0, <1>l, QueueChanges
 <2> QED BY <1>l, <1>c, <2>1 DEF Held
<1>1. CASE UNCHANGED <<local_ready, ready_batch, disp_batch, command_channel,
                      pending_ready, accepted, executed>>
 <2>1. \A x \in Callback : Held(x)' = Held(x) BY <1>1 DEF Held
 <2> QED BY <1>1, <1>k, <2>1
<1>2. ASSUME NEW t \in Callers, try_enqueue_active_ready(t)
      PROVE  \A x \in Callback : Copies(x)' = IF x \in accepted' \ executed' THEN 1 ELSE 0
 <2>1. UNCHANGED <<local_ready, ready_batch, disp_batch, command_channel, executed>> /\ call_pc[t] = "active"
   BY <1>2
 <2>2. CASE UNCHANGED <<pending_ready, accepted>> BY <1>1, <2>1, <2>2
 <2>3. CASE ~UNCHANGED <<pending_ready, accepted>>
   <3> DEFINE r == active_ready_dispatch.run
              y == call_item[t]
              e == [item |-> y, mark |-> local_enqueues]
              w == Append(pending_ready[r], e)
  <3>1. /\ pending_ready' = [pending_ready EXCEPT ![r] = w]
        /\ accepted' = accepted \union ({y} \ {StopItem})
        /\ r # 0
    BY <1>2, <2>3 DEF PendingPush
  <3>2. r \in Runs /\ y \in ReadyItem /\ e \in QueueEntry
    BY <3>1 DEF TypeOK, DispatchType, CallerType, FlagType, Runs, QueueEntry
  <3>e. e.item = y OBVIOUS
  <3> HIDE DEF e
  <3>3. /\ pending_ready[r] \in Seq(QueueEntry) /\ Items(pending_ready[r]) \in Seq(ReadyItem)
        /\ w \in Seq(QueueEntry) /\ Items(w) = Append(Items(pending_ready[r]), y)
    BY <1>0, <3>2, <3>e, ItemsFacts
  <3>9. y # StopItem => y \in Callback /\ y \notin accepted
    BY <2>1, <3>2, ItemFacts DEF Numbered, Posting
  <3> HIDE DEF r, y, w
  <3>4. ASSUME NEW x \in Callback PROVE Held(x)' = Held(x) + IF y = x THEN 1 ELSE 0
   <4>1. CountIn(Items(w), {x}) = CountIn(Items(pending_ready[r]), {x}) + IF y = x THEN 1 ELSE 0
     <5> DEFINE s == Items(pending_ready[r])
    <5>1. s \in Seq(ReadyItem) /\ Items(w) = Append(s, y) BY <3>3
    <5> HIDE DEF s
    <5>2. CountIn(Append(s, y), {x}) = CountIn(s, {x}) + IF y = x THEN 1 ELSE 0
      BY <3>2, <5>1, QueueChanges
    <5> QED BY <5>1, <5>2 DEF s
   <4>2. /\ CountIn(Items(pending_ready[r]), {x}) \in Nat
         /\ Cardinality(InRuns(x, pending_ready')) \in Nat
         /\ Cardinality(InRuns(x, pending_ready)) + CountIn(Items(w), {x})
               = Cardinality(InRuns(x, pending_ready')) + CountIn(Items(pending_ready[r]), {x})
     BY <1>q, <3>1, <3>2, <3>3
   <4> QED BY <1>c, <2>1, <4>1, <4>2 DEF Held
  <3>5. CASE y = StopItem
   <4>1. ASSUME NEW x \in Callback PROVE Held(x)' = Held(x)
    <5>1. y # x BY <3>5, QueueChanges
    <5>2. Held(x)' = Held(x) + 0 /\ Held(x) \in Nat BY <1>c, <3>4, <5>1
    <5> QED BY <5>2
   <4> QED BY <1>k, <2>1, <3>1, <3>5, <4>1
  <3>6. CASE y # StopItem
   <4>1. accepted' = accepted \union {y} BY <3>1, <3>6
   <4> QED BY <1>a, <2>1, <3>4, <3>6, <3>9, <4>1
  <3> QED BY <3>5, <3>6
 <2> QED BY <2>2, <2>3
<1>3. ASSUME NEW t \in Callers, send_remote_command(t)
      PROVE  \A x \in Callback : Copies(x)' = IF x \in accepted' \ executed' THEN 1 ELSE 0
 <2>1. UNCHANGED <<local_ready, ready_batch, disp_batch, pending_ready, executed>> /\ call_pc[t] = "send"
   BY <1>3
 <2>2. CASE UNCHANGED <<command_channel, accepted>> BY <1>1, <2>1, <2>2
 <2>3. CASE ~UNCHANGED <<command_channel, accepted>>
   <3> DEFINE y == call_item[t]
              k == [op |-> "ready", item |-> y]
  <3>1. command_channel' = Append(command_channel, k) /\ accepted' = accepted \union ({y} \ {StopItem})
    BY <1>3, <2>3
  <3>2. y \in ReadyItem /\ k \in Command /\ k.op = "ready" /\ k.item = y
    BY DEF TypeOK, CallerType, Command
  <3>3. y # StopItem => y \in Callback /\ y \notin accepted
    BY <2>1, <3>2, ItemFacts DEF Numbered, Posting
  <3> HIDE DEF y, k
  <3>4. ASSUME NEW x \in Callback PROVE Held(x)' = Held(x) + IF y = x THEN 1 ELSE 0
   <4>1. k \in ReadyOf(x) <=> y = x BY <3>2 DEF ReadyOf
   <4>2. CountIn(command_channel', ReadyOf(x))
           = CountIn(command_channel, ReadyOf(x)) + IF k \in ReadyOf(x) THEN 1 ELSE 0
     BY <1>0, <3>1, <3>2, CountAppend
   <4> QED BY <1>c, <2>1, <4>1, <4>2 DEF Held
  <3>5. CASE y = StopItem
   <4>1. ASSUME NEW x \in Callback PROVE Held(x)' = Held(x)
    <5>1. y # x BY <3>5, QueueChanges
    <5>2. Held(x)' = Held(x) + 0 /\ Held(x) \in Nat BY <1>c, <3>4, <5>1
    <5> QED BY <5>2
   <4> QED BY <1>k, <2>1, <3>1, <3>5, <4>1
  <3>6. CASE y # StopItem
   <4>1. accepted' = accepted \union {y} BY <3>1, <3>6
   <4> QED BY <1>a, <2>1, <3>3, <3>4, <3>6, <4>1
  <3> QED BY <3>5, <3>6
 <2> QED BY <2>2, <2>3
<1>4. CASE handle_ready
  <2> DEFINE h == Head(command_channel)
 <2>1. /\ UNCHANGED <<local_ready, ready_batch, pending_ready, accepted, executed>>
       /\ command_channel # <<>> /\ command_channel' = Tail(command_channel) /\ h.op = "ready"
       /\ disp_batch' = Append(disp_batch, h.item)
   BY <1>4
 <2>2. h \in Command /\ h.item \in ReadyItem BY <1>0, <2>1, HeadFacts, TailElems
 <2> HIDE DEF h
 <2>3. ASSUME NEW x \in Callback PROVE Held(x)' = Held(x)
  <3>1. CountIn(disp_batch', {x}) = CountIn(disp_batch, {x}) + IF h.item = x THEN 1 ELSE 0
    BY <1>0, <2>1, <2>2, QueueChanges
  <3>2. /\ CountIn(command_channel', ReadyOf(x)) \in Nat
        /\ CountIn(command_channel, ReadyOf(x))
              = CountIn(command_channel', ReadyOf(x)) + IF h \in ReadyOf(x) THEN 1 ELSE 0
    BY <1>r, <2>1 DEF h
  <3>3. h \in ReadyOf(x) <=> h.item = x BY <2>1, <2>2 DEF ReadyOf
  <3>t. /\ CountIn(local_ready, {x}) \in Nat /\ CountIn(ready_batch, {x}) \in Nat
        /\ CountIn(disp_batch, {x}) \in Nat /\ CountIn(command_channel, ReadyOf(x)) \in Nat
        /\ Cardinality(InRuns(x, pending_ready)) \in Nat
    BY <1>c
  <3>u. UNCHANGED <<local_ready, ready_batch, pending_ready>> BY <2>1
  <3>4. CASE h.item = x BY <3>u, <3>1, <3>2, <3>3, <3>4, <3>t DEF Held
  <3>5. CASE h.item # x BY <3>u, <3>1, <3>2, <3>3, <3>5, <3>t DEF Held
  <3> QED BY <3>4, <3>5
 <2> QED BY <1>k, <2>1, <2>3
<1>5. CASE handle_enter_run
 <2>1. /\ UNCHANGED <<local_ready, ready_batch, disp_batch, pending_ready, accepted, executed>>
       /\ command_channel # <<>> /\ command_channel' = Tail(command_channel)
       /\ Head(command_channel).op = "enter"
   BY <1>5
 <2>2. ASSUME NEW x \in Callback PROVE Held(x)' = Held(x)
  <3>1. Head(command_channel) \notin ReadyOf(x) BY <2>1 DEF ReadyOf
  <3>2. /\ CountIn(command_channel', ReadyOf(x)) \in Nat
        /\ CountIn(command_channel, ReadyOf(x)) = CountIn(command_channel', ReadyOf(x)) + 0
    BY <1>r, <2>1, <3>1
  <3> QED BY <1>c, <2>1, <3>2 DEF Held
 <2> QED BY <1>k, <2>1, <2>2
<1>6. CASE handle_finish_run
 <2>1. /\ UNCHANGED <<local_ready, ready_batch, accepted, executed>>
       /\ command_channel # <<>> /\ command_channel' = Tail(command_channel)
       /\ Head(command_channel).op = "finish" /\ TakeBackRun
   BY <1>6
 <2>2. ASSUME NEW x \in Callback
       PROVE  /\ CountIn(command_channel', ReadyOf(x)) \in Nat
              /\ CountIn(command_channel, ReadyOf(x)) = CountIn(command_channel', ReadyOf(x)) + 0
  <3>1. Head(command_channel) \notin ReadyOf(x) BY <2>1 DEF ReadyOf
  <3> QED BY <1>r, <2>1, <3>1
 <2>3. CASE active_run = 0
  <3>1. UNCHANGED <<pending_ready, disp_batch>> BY <2>1, <2>3
  <3>2. \A x \in Callback : Held(x)' = Held(x) BY <1>c, <2>1, <2>2, <3>1 DEF Held
  <3> QED BY <1>k, <2>1, <3>2
 <2>4. CASE active_run # 0
  <3>1. /\ active_run \in Runs /\ disp_batch' = Items(pending_ready[active_run]) \o disp_batch
        /\ pending_ready' = [pending_ready EXCEPT ![active_run] = <<>>]
        /\ <<>> \in Seq(QueueEntry)
    BY <2>1, <2>4 DEF TypeOK, DispatcherType, Runs
  <3>2. pending_ready[active_run] \in Seq(QueueEntry) /\ Items(pending_ready[active_run]) \in Seq(ReadyItem)
    BY <1>0, <3>1, ItemsFacts
  <3>3. ASSUME NEW x \in Callback PROVE Held(x)' = Held(x)
   <4>1. CountIn(disp_batch', {x}) = CountIn(Items(pending_ready[active_run]), {x}) + CountIn(disp_batch, {x})
     BY <1>0, <3>1, <3>2, CountConcat
   <4>2. /\ CountIn(Items(pending_ready[active_run]), {x}) \in Nat
         /\ Cardinality(InRuns(x, pending_ready')) \in Nat
         /\ Cardinality(InRuns(x, pending_ready)) + CountIn(Items(<<>>), {x})
               = Cardinality(InRuns(x, pending_ready')) + CountIn(Items(pending_ready[active_run]), {x})
     BY <1>q, <3>1
   <4>3. CountIn(Items(<<>>), {x}) = 0 BY QueueChanges
   <4> QED BY <1>c, <2>1, <2>2, <4>1, <4>2, <4>3 DEF Held
  <3> QED BY <1>k, <2>1, <3>3, Zenon
 <2> QED BY <2>3, <2>4
<1>7. CASE handle_close BY <1>7, <1>i DEF Intact
<1>8. CASE execute_ready_handler_raises BY <1>8, <1>i DEF Intact
<1>9. CASE forward_ready_batch
  <2> DEFINE w == pending_ready[active_run] \o Stamped(disp_batch, disp_mark)
 <2>1. /\ UNCHANGED <<local_ready, ready_batch, command_channel, accepted, executed>>
       /\ disp_batch' = <<>> /\ pending_ready' = [pending_ready EXCEPT ![active_run] = w]
   BY <1>9 DEF PendingExtend
 <2>2. active_run \in Runs /\ disp_mark \in Nat
   BY <1>9 DEF RunsConsistent, DispatcherRun, TypeOK, DispatcherType, Runs
 <2>3. pending_ready[active_run] \in Seq(QueueEntry) /\ Stamped(disp_batch, disp_mark) \in Seq(QueueEntry)
   BY <1>0, <2>2, ItemsFacts
 <2>4. /\ w \in Seq(QueueEntry) /\ Items(pending_ready[active_run]) \in Seq(ReadyItem)
       /\ Items(w) = Items(pending_ready[active_run]) \o disp_batch
   <3> DEFINE p == pending_ready[active_run]
              m == Stamped(disp_batch, disp_mark)
  <3>1. p \in Seq(QueueEntry) /\ m \in Seq(QueueEntry) /\ Items(m) = disp_batch /\ w = p \o m
    BY <1>0, <2>2, <2>3, ItemsFacts
  <3> HIDE DEF p, m, w
  <3>2. w \in Seq(QueueEntry) /\ Items(p) \in Seq(ReadyItem) /\ Items(w) = Items(p) \o Items(m)
    BY <3>1, ItemsFacts
  <3> QED BY <3>1, <3>2 DEF p
 <2> HIDE DEF w
 <2>5. ASSUME NEW x \in Callback PROVE Held(x)' = Held(x)
  <3>1. CountIn(Items(w), {x}) = CountIn(Items(pending_ready[active_run]), {x}) + CountIn(disp_batch, {x})
    BY <1>0, <2>4, CountConcat
  <3>2. /\ CountIn(Items(pending_ready[active_run]), {x}) \in Nat
        /\ Cardinality(InRuns(x, pending_ready')) \in Nat
        /\ Cardinality(InRuns(x, pending_ready)) + CountIn(Items(w), {x})
              = Cardinality(InRuns(x, pending_ready')) + CountIn(Items(pending_ready[active_run]), {x})
    BY <1>q, <2>1, <2>2, <2>4
  <3>3. CountIn(disp_batch', {x}) = 0 BY <2>1, QueueChanges
  <3>t. /\ CountIn(local_ready, {x}) \in Nat /\ CountIn(ready_batch, {x}) \in Nat
        /\ CountIn(disp_batch, {x}) \in Nat /\ CountIn(command_channel, ReadyOf(x)) \in Nat
        /\ Cardinality(InRuns(x, pending_ready)) \in Nat
    BY <1>c
  <3>u. UNCHANGED <<local_ready, ready_batch, command_channel>> BY <2>1
  <3>4. Cardinality(InRuns(x, pending_ready')) = Cardinality(InRuns(x, pending_ready)) + CountIn(disp_batch, {x})
    BY <3>1, <3>2, <3>t
  <3> QED BY <3>u, <3>3, <3>4, <3>t DEF Held
 <2> QED BY <1>k, <2>1, <2>5, Zenon
<1>10. CASE send_enter_run
 <2>1. PICK k \in Command : k.op = "enter" /\ command_channel' = Append(command_channel, k)
   BY <1>10, ChannelSends DEF RunsConsistent
 <2>2. UNCHANGED <<local_ready, ready_batch, disp_batch, pending_ready, accepted, executed>>
  <3>1. loop_pc = "enter" /\ local_ready' = <<>> /\ ready_batch' = <<>> BY <1>10
  <3>2. local_ready = <<>> /\ ready_batch = <<>> BY <3>1 DEF OwnQueues, Serving
  <3> QED BY <1>10, <3>1, <3>2
 <2> QED BY <1>m, <2>1, <2>2
<1>11. CASE send_finish_run
 <2>1. PICK k \in Command : k.op = "finish" /\ command_channel' = Append(command_channel, k)
   BY <1>11, ChannelSends DEF RunsConsistent
 <2>2. UNCHANGED <<local_ready, ready_batch, disp_batch, pending_ready, accepted, executed>>
   BY <1>11
 <2> QED BY <1>m, <2>1, <2>2
<1>12. CASE send_close
 <2>1. PICK k \in Command : k.op = "close" /\ command_channel' = Append(command_channel, k)
   BY <1>12, ChannelSends DEF RunsConsistent
 <2>2. UNCHANGED <<local_ready, ready_batch, disp_batch, pending_ready, accepted, executed>>
   BY <1>12
 <2> QED BY <1>m, <2>1, <2>2
<1>13. CASE start_turn
 <2>1. /\ UNCHANGED <<ready_batch, disp_batch, pending_ready, command_channel, executed>>
       /\ \/ UNCHANGED <<local_ready, accepted>>
          \/ (accepted' = accepted \union {NextOf("io")} /\ local_ready' = Append(local_ready, NextOf("io")))
   BY <1>13
 <2>2. CASE UNCHANGED <<local_ready, accepted>> BY <1>1, <2>1, <2>2
 <2>3. CASE accepted' = accepted \union {NextOf("io")} /\ local_ready' = Append(local_ready, NextOf("io"))
  <3>1. NextOf("io") \in Callback /\ NextOf("io") \notin accepted /\ NextOf("io") \in ReadyItem
    BY <1>s, ItemFacts
  <3> DEFINE y == NextOf("io")
  <3> HIDE DEF y
  <3>2. \A x \in Callback : Held(x)' = Held(x) + IF y = x THEN 1 ELSE 0
    BY <1>l, <2>1, <2>3, <3>1 DEF y
  <3> QED BY <1>a, <2>1, <2>3, <3>1, <3>2 DEF y
 <2> QED BY <2>1, <2>2, <2>3
<1>14. CASE poll_once
 <2>1. /\ UNCHANGED <<ready_batch, disp_batch, pending_ready, command_channel, executed>>
       /\ \/ UNCHANGED <<local_ready, accepted>>
          \/ (accepted' = accepted \union {NextOf("io")} /\ local_ready' = Append(local_ready, NextOf("io")))
   BY <1>14
 <2>2. CASE UNCHANGED <<local_ready, accepted>> BY <1>1, <2>1, <2>2
 <2>3. CASE accepted' = accepted \union {NextOf("io")} /\ local_ready' = Append(local_ready, NextOf("io"))
  <3>1. NextOf("io") \in Callback /\ NextOf("io") \notin accepted /\ NextOf("io") \in ReadyItem
    BY <1>s, ItemFacts
  <3> DEFINE y == NextOf("io")
  <3> HIDE DEF y
  <3>2. \A x \in Callback : Held(x)' = Held(x) + IF y = x THEN 1 ELSE 0
    BY <1>l, <2>1, <2>3, <3>1 DEF y
  <3> QED BY <1>a, <2>1, <2>3, <3>1, <3>2 DEF y
 <2> QED BY <2>1, <2>2, <2>3
<1>15. CASE parked_io
 <2>1. /\ UNCHANGED <<ready_batch, disp_batch, pending_ready, command_channel, executed>>
       /\ \/ UNCHANGED <<local_ready, accepted>>
          \/ (accepted' = accepted \union {NextOf("io")} /\ local_ready' = Append(local_ready, NextOf("io")))
   BY <1>15
 <2>2. CASE UNCHANGED <<local_ready, accepted>> BY <1>1, <2>1, <2>2
 <2>3. CASE accepted' = accepted \union {NextOf("io")} /\ local_ready' = Append(local_ready, NextOf("io"))
  <3>1. NextOf("io") \in Callback /\ NextOf("io") \notin accepted /\ NextOf("io") \in ReadyItem
    BY <1>s, ItemFacts
  <3> DEFINE y == NextOf("io")
  <3> HIDE DEF y
  <3>2. \A x \in Callback : Held(x)' = Held(x) + IF y = x THEN 1 ELSE 0
    BY <1>l, <2>1, <2>3, <3>1 DEF y
  <3> QED BY <1>a, <2>1, <2>3, <3>1, <3>2 DEF y
 <2> QED BY <2>1, <2>2, <2>3
<1>16. CASE start_generation
 <2>1. /\ UNCHANGED <<disp_batch, command_channel, accepted, executed>>
       /\ ready_batch = <<>> /\ local_ready' = <<>>
   BY <1>16
 <2>z. \A x \in Callback : CountIn(ready_batch, {x}) = 0 /\ CountIn(local_ready', {x}) = 0
   BY <2>1, QueueChanges
 <2>2. CASE ready_pending
   <3> DEFINE w == MergeGeneration(local_ready, local_taken, pending_ready[run])
  <3>1. /\ ready_batch' = w /\ pending_ready' = [pending_ready EXCEPT ![run] = <<>>]
        /\ <<>> \in Seq(QueueEntry) /\ run \in Runs
    BY <1>16, <2>2 DEF RunsConsistent, LoopRun, TypeOK, LoopType, Runs
  <3>2. pending_ready[run] \in Seq([item : ReadyItem, mark : Nat]) BY <1>0, <3>1 DEF QueueEntry
  <3>3. ASSUME NEW x \in Callback PROVE Held(x)' = Held(x)
   <4>1. CountIn(w, {x}) = CountIn(local_ready, {x}) + CountIn(Items(pending_ready[run]), {x})
    <5>1. pending_ready[run] \in Seq(QueueEntry) /\ local_taken \in Nat /\ local_ready \in Seq(ReadyItem)
      BY <1>0, <3>1 DEF TypeOK, LoopType
    <5> QED BY <5>1, MergeCounts
   <4> HIDE DEF w
   <4>2. /\ CountIn(Items(pending_ready[run]), {x}) \in Nat
         /\ Cardinality(InRuns(x, pending_ready')) \in Nat
         /\ Cardinality(InRuns(x, pending_ready)) + CountIn(Items(<<>>), {x})
               = Cardinality(InRuns(x, pending_ready')) + CountIn(Items(pending_ready[run]), {x})
     BY <1>q, <3>1
   <4>3. CountIn(Items(<<>>), {x}) = 0 BY QueueChanges
   <4>t. /\ CountIn(local_ready, {x}) \in Nat /\ CountIn(ready_batch, {x}) \in Nat
         /\ CountIn(disp_batch, {x}) \in Nat /\ CountIn(command_channel, ReadyOf(x)) \in Nat
         /\ Cardinality(InRuns(x, pending_ready)) \in Nat
     BY <1>c
   <4>4. CountIn(ready_batch, {x}) = 0 /\ CountIn(local_ready', {x}) = 0 BY <2>z
   <4>u. UNCHANGED <<disp_batch, command_channel>> BY <2>1
   <4>5. CountIn(ready_batch', {x}) = CountIn(w, {x}) BY <3>1
   <4> QED BY <4>u, <4>1, <4>2, <4>3, <4>4, <4>5, <4>t DEF Held
  <3> QED BY <1>k, <2>1, <3>3
 <2>3. CASE ~ready_pending
  <3>1. ready_batch' = local_ready /\ UNCHANGED pending_ready BY <1>16, <2>3, Zenon
  <3>2. \A x \in Callback : Held(x)' = Held(x) BY <1>c, <2>1, <2>z, <3>1 DEF Held
  <3> QED BY <1>k, <2>1, <3>2
 <2> QED BY <2>2, <2>3
<1>17. CASE run_stop_item
 <2>1. /\ UNCHANGED <<local_ready, disp_batch, pending_ready, command_channel, accepted, executed>>
       /\ ready_batch # <<>> /\ Head(ready_batch) = StopItem /\ ready_batch' = Tail(ready_batch)
   BY <1>17
 <2>2. ASSUME NEW x \in Callback PROVE Held(x)' = Held(x)
  <3>1. CountIn(ready_batch', {x}) \in Nat /\ CountIn(ready_batch, {x}) = CountIn(ready_batch', {x}) + 0
    BY <1>0, <2>1, QueueChanges
  <3> QED BY <1>c, <2>1, <3>1 DEF Held
 <2> QED BY <1>k, <2>1, <2>2
<1>18. CASE execute_ready
 <2>1. /\ UNCHANGED <<disp_batch, pending_ready, command_channel, accepted>> /\ Execute
       /\ ready_batch # <<>> /\ ready_batch' = Tail(ready_batch)
       /\ local_ready' = local_ready
   BY <1>18
 <2>2. ASSUME NEW x \in Callback PROVE Held(x) = Held(x)' + IF Head(ready_batch) = x THEN 1 ELSE 0
  <3>1. CountIn(ready_batch', {x}) \in Nat
        /\ CountIn(ready_batch, {x}) = CountIn(ready_batch', {x}) + IF Head(ready_batch) = x THEN 1 ELSE 0
    BY <1>0, <2>1, QueueChanges
  <3>2. CountIn(local_ready', {x}) = CountIn(local_ready, {x}) BY <1>0, <2>1
  <3> QED BY <1>c, <2>1, <3>1, <3>2, SMTT(40) DEF Held
 <2> QED BY <1>x, <2>1, <2>2
<1>19. CASE execute_ready_raises
 <2>1. /\ UNCHANGED <<disp_batch, pending_ready, command_channel, accepted>> /\ Execute
       /\ ready_batch # <<>> /\ ready_batch' = Tail(ready_batch)
       /\ local_ready' = local_ready
   BY <1>19
 <2>2. ASSUME NEW x \in Callback PROVE Held(x) = Held(x)' + IF Head(ready_batch) = x THEN 1 ELSE 0
  <3>1. CountIn(ready_batch', {x}) \in Nat
        /\ CountIn(ready_batch, {x}) = CountIn(ready_batch', {x}) + IF Head(ready_batch) = x THEN 1 ELSE 0
    BY <1>0, <2>1, QueueChanges
  <3>2. CountIn(local_ready', {x}) = CountIn(local_ready, {x}) BY <1>0, <2>1
  <3> QED BY <1>c, <2>1, <3>1, <3>2, SMTT(40) DEF Held
 <2> QED BY <1>x, <2>1, <2>2
<1>20. CASE execute_ready_stop
 <2>1. /\ UNCHANGED <<disp_batch, pending_ready, command_channel, accepted>> /\ Execute
       /\ ready_batch # <<>> /\ ready_batch' = Tail(ready_batch)
       /\ local_ready' = Append(local_ready, StopItem)
   BY <1>20
 <2>2. ASSUME NEW x \in Callback PROVE Held(x) = Held(x)' + IF Head(ready_batch) = x THEN 1 ELSE 0
  <3>1. CountIn(ready_batch', {x}) \in Nat
        /\ CountIn(ready_batch, {x}) = CountIn(ready_batch', {x}) + IF Head(ready_batch) = x THEN 1 ELSE 0
    BY <1>0, <2>1, QueueChanges
  <3>2. CountIn(local_ready', {x}) = CountIn(local_ready, {x}) BY <1>0, <2>1, QueueChanges
  <3> QED BY <1>c, <2>1, <3>1, <3>2, SMTT(40) DEF Held
 <2> QED BY <1>x, <2>1, <2>2
<1>21. CASE execute_ready_call_soon
  <2> DEFINE z == NextOf("loop")
 <2>1. /\ UNCHANGED <<disp_batch, pending_ready, command_channel>> /\ Execute
       /\ ready_batch # <<>> /\ ready_batch' = Tail(ready_batch)
       /\ local_ready' = Append(local_ready, z) /\ accepted' = accepted \union {z}
   BY <1>21
 <2>2. z \in Callback /\ z \notin accepted /\ z \in ReadyItem BY <1>s, ItemFacts
 <2> HIDE DEF z
 <2>3. ASSUME NEW x \in Callback
       PROVE  Held(x) + (IF z = x THEN 1 ELSE 0) = Held(x)' + IF Head(ready_batch) = x THEN 1 ELSE 0
  <3>1. CountIn(ready_batch', {x}) \in Nat
        /\ CountIn(ready_batch, {x}) = CountIn(ready_batch', {x}) + IF Head(ready_batch) = x THEN 1 ELSE 0
    BY <1>0, <2>1, QueueChanges
  <3>2. CountIn(local_ready', {x}) = CountIn(local_ready, {x}) + IF z = x THEN 1 ELSE 0
    BY <1>0, <2>1, <2>2, QueueChanges
  <3>t. /\ CountIn(local_ready, {x}) \in Nat /\ CountIn(ready_batch, {x}) \in Nat
        /\ CountIn(disp_batch, {x}) \in Nat /\ CountIn(command_channel, ReadyOf(x)) \in Nat
        /\ Cardinality(InRuns(x, pending_ready)) \in Nat
    BY <1>c
  <3> DEFINE a == IF z = x THEN 1 ELSE 0
             b == IF Head(ready_batch) = x THEN 1 ELSE 0
  <3>3. a \in Nat /\ b \in Nat OBVIOUS
  <3>4. Held(x) + a = Held(x)' + b
   <4> HIDE DEF a, b
   <4>1. CountIn(ready_batch, {x}) = CountIn(ready_batch', {x}) + b /\ CountIn(ready_batch', {x}) \in Nat
     BY <3>1 DEF b
   <4>2. CountIn(local_ready', {x}) = CountIn(local_ready, {x}) + a BY <3>2 DEF a
   <4>u. UNCHANGED <<disp_batch, pending_ready, command_channel>> BY <2>1
   <4> QED BY <4>u, <3>3, <3>t, <4>1, <4>2 DEF Held
  <3> QED BY <3>4
 <2> QED BY <1>b, <2>1, <2>2, <2>3
<1>22. CASE check_signals_raises
 <2>1. /\ UNCHANGED <<ready_batch, disp_batch, pending_ready, command_channel, accepted, executed>>
       /\ local_ready' = Append(local_ready, StopItem)
   BY <1>22
 <2>2. ASSUME NEW x \in Callback PROVE Held(x)' = Held(x)
  <3>1. CountIn(local_ready', {x}) = CountIn(local_ready, {x}) BY <1>0, <2>1, QueueChanges
  <3> QED BY <2>1, <3>1 DEF Held
 <2> QED BY <1>k, <2>1, <2>2
<1>23. CASE keep_leftover
 <2>1. /\ UNCHANGED <<disp_batch, command_channel, accepted, executed>>
       /\ ready_batch' = <<>> /\ local_ready' = <<>>
   BY <1>23
 <2>z. \A x \in Callback : CountIn(ready_batch', {x}) = 0 /\ CountIn(local_ready', {x}) = 0
   BY <2>1, QueueChanges
 <2>2. CASE ready_batch # <<>> \/ local_ready # <<>>
   <3> DEFINE g == MergeGeneration(local_ready, local_taken, pending_ready[run])
              w == Stamped(ready_batch \o g, 0)
  <3>1. pending_ready' = [pending_ready EXCEPT ![run] = w] /\ run \in Runs
    BY <1>23, <2>2 DEF Leftover, RunsConsistent, LoopRun, TypeOK, LoopType, Runs
  <3>2. pending_ready[run] \in Seq([item : ReadyItem, mark : Nat]) BY <1>0, <3>1 DEF QueueEntry
  <3>3. g \in Seq(ReadyItem) BY <1>0, <3>2, MergeType
  <3>4. \A x \in Callback : CountIn(g, {x}) = CountIn(local_ready, {x}) + CountIn(Items(pending_ready[run]), {x})
   <4>1. pending_ready[run] \in Seq(QueueEntry) /\ local_taken \in Nat /\ local_ready \in Seq(ReadyItem)
     BY <1>0, <3>1 DEF TypeOK, LoopType
   <4>2. ASSUME NEW x \in Callback
         PROVE  CountIn(g, {x}) = CountIn(local_ready, {x}) + CountIn(Items(pending_ready[run]), {x})
     BY <4>1, MergeCounts
   <4> QED BY <4>2
  <3> HIDE DEF g
  <3>5. ready_batch \o g \in Seq(ReadyItem) BY <1>0, <3>3, ConcatElems
  <3>6. w \in Seq(QueueEntry) /\ Items(w) = ready_batch \o g BY <3>5, ItemsFacts
  <3> HIDE DEF w
  <3>7. ASSUME NEW x \in Callback PROVE Held(x)' = Held(x)
   <4>1. CountIn(Items(w), {x}) = CountIn(ready_batch, {x}) + CountIn(g, {x})
     BY <1>0, <3>3, <3>6, CountConcat
   <4>2. /\ CountIn(Items(pending_ready[run]), {x}) \in Nat
         /\ Cardinality(InRuns(x, pending_ready')) \in Nat
         /\ Cardinality(InRuns(x, pending_ready)) + CountIn(Items(w), {x})
               = Cardinality(InRuns(x, pending_ready')) + CountIn(Items(pending_ready[run]), {x})
     BY <1>q, <3>1, <3>6
   <4>t. /\ CountIn(local_ready, {x}) \in Nat /\ CountIn(ready_batch, {x}) \in Nat
         /\ CountIn(disp_batch, {x}) \in Nat /\ CountIn(command_channel, ReadyOf(x)) \in Nat
         /\ Cardinality(InRuns(x, pending_ready)) \in Nat
     BY <1>c
   <4>3. CountIn(ready_batch', {x}) = 0 /\ CountIn(local_ready', {x}) = 0 BY <2>z
   <4>4. CountIn(g, {x}) = CountIn(local_ready, {x}) + CountIn(Items(pending_ready[run]), {x})
     BY <3>4
   <4>u. UNCHANGED <<disp_batch, command_channel>> BY <2>1
   <4> QED BY <4>u, <4>1, <4>2, <4>3, <4>4, <4>t DEF Held
  <3> QED BY <1>k, <2>1, <3>7
 <2>3. CASE ready_batch = <<>> /\ local_ready = <<>>
  <3>1. UNCHANGED pending_ready BY <1>23, <2>3, Zenon
  <3> QED BY <1>1, <2>1, <2>3, <3>1
 <2> QED BY <2>2, <2>3
<1>24. CASE LoopStep
  BY <1>24, <1>1, <1>8, <1>10, <1>11, <1>12, <1>13, <1>14, <1>16, <1>17, <1>18, <1>19, <1>20,
    <1>21, <1>23 DEF LoopStep
<1>25. CASE DispatcherStep BY <1>25, <1>1, <1>4, <1>5, <1>6, <1>7, <1>9, Zenon DEF DispatcherStep
<1>26. CASE Environment BY <1>26, <1>1, <1>15, <1>22 DEF Environment
<1>27. ASSUME NEW t \in Callers, CallerStep(t)
      PROVE  \A x \in Callback : Copies(x)' = IF x \in accepted' \ executed' THEN 1 ELSE 0
  BY <1>27, <1>1, <1>2, <1>3 DEF CallerStep
<1> QED BY <1>24, <1>25, <1>26, <1>27 DEF Next

-----------------------------------------------------------------------------
(* Conservation. *)

\* What CopiesExact needs to be inductive: callbacks are numbered, the loop
\* thread's queues are its run's, and nothing follows a Close.
ConservationInvariant == ClosedLast /\ OwnQueues /\ Numbered /\ CopiesExact

LEMMA InitConservation == Init => ConservationInvariant
<1> SUFFICES ASSUME Init PROVE ConservationInvariant OBVIOUS
<1>1. ClosedLast /\ OwnQueues /\ Numbered BY DEF Init, ClosedLast, OwnQueues, Numbered
<1>2. CopiesExact
 <2>1. ASSUME NEW x \in Callback PROVE Copies(x) = 0
  <3>0. TypeOK BY InitInvariant
  <3>1. CountIn(<<>>, {x}) = 0 /\ Items(<<>>) = <<>> BY QueueChanges
  <3>2. CountIn(command_channel, ReadyOf(x)) = 0
   <4>1. command_channel \in Seq(Command) /\ \A i \in 1..Len(command_channel) : command_channel[i] \notin ReadyOf(x)
     BY DEF Init
   <4> QED BY <4>1, CountType
  <3>3. Cardinality(InRuns(x, pending_ready)) = 0
   <4>1. \A r \in Runs : Positions(x, Items(pending_ready[r])) = {} BY <3>1 DEF Init, Positions
   <4>2. InRuns(x, pending_ready) = {} BY <4>1 DEF InRuns
   <4> QED BY <4>2, FS_EmptySet
  <3>4. /\ CountIn(local_ready, {x}) = 0 /\ CountIn(ready_batch, {x}) = 0 /\ CountIn(disp_batch, {x}) = 0
    BY <3>1 DEF Init
  <3>5. Copies(x) = Held(x) BY <3>0, CopiesHeld
  <3> QED BY <3>2, <3>3, <3>4, <3>5 DEF Held
 <2> QED BY <2>1 DEF CopiesExact, Init
<1> QED BY <1>1, <1>2 DEF ConservationInvariant

\* The invariant behind conservation holds in every reachable state.
THEOREM ConservationHolds ==
    Spec => [](TypeOK /\ ConservationInvariant)
<1> DEFINE Types == TypeOK /\ WakeInvariant /\ LocalNumbering
<1>1. Init => ConservationInvariant BY InitConservation
<1>2. Types /\ Types' /\ ConservationInvariant /\ [Next]_vars => ConservationInvariant'
 <2>1. ASSUME Types, Types', ConservationInvariant, Next PROVE ConservationInvariant'
  <3>1. RunsConsistent /\ TypeOK /\ TypeOK' BY <2>1 DEF WakeInvariant
  <3>2. ClosedLast /\ OwnQueues /\ Numbered /\ CopiesExact BY <2>1 DEF ConservationInvariant
  <3>3. ClosedLast' BY <2>1, <3>1, <3>2, StepClosedLast
  <3>4. OwnQueues' BY <2>1, <3>1, <3>2, StepOwnQueues
  <3>5. Numbered' BY <2>1, <3>1, <3>2, StepNumbered
  <3>6. CopiesExact' BY <2>1, <3>1, <3>2, StepCopies
  <3> QED BY <3>3, <3>4, <3>5, <3>6 DEF ConservationInvariant
 <2>2. ASSUME ConservationInvariant, UNCHANGED vars PROVE ConservationInvariant'
  <3>1. ClosedLast' /\ OwnQueues' /\ Numbered'
    BY <2>2 DEF ConservationInvariant, vars, ClosedLast, OwnQueues, Numbered, Serving
  <3>2. CopiesExact' BY <2>2 DEF ConservationInvariant, vars, CopiesExact, Copies, Intact
  <3> QED BY <3>1, <3>2 DEF ConservationInvariant
 <2> QED BY <2>1, <2>2
<1>3. Types => TypeOK OBVIOUS
<1> QED BY <1>1, <1>2, <1>3, EngineInvariant, PTL DEF Spec

\* No callback is lost or run twice, for every number of producers, runs and
\* callbacks (loop_core.rs, PendingReady and RuntimeDispatcher): an accepted
\* callback waits in exactly one queue until it runs, and then in none.
THEOREM CallbacksConserved == Spec => []Conserved
<1>1. TypeOK /\ ConservationInvariant => Conserved
  BY DEF ConservationInvariant, CopiesExact, Conserved, Intact, TypeOK, HistoryType
<1> QED BY <1>1, ConservationHolds, PTL

-----------------------------------------------------------------------------
(* The order of callbacks. *)

\* A FinishRun between two places of the channel; place 0 is the dispatcher.
EndsWithin(i, j) ==
    \E k \in 1..Len(command_channel) : i < k /\ k < j /\ command_channel[k].op = "finish"

EndsAfter(i) ==
    \E k \in 1..Len(command_channel) : i < k /\ command_channel[k].op = "finish"

\* The places where the dispatcher is in a run or enters one.
EntersAt(i) ==
    \/ i = 0 /\ active_run # 0
    \/ i \in 1..Len(command_channel) /\ command_channel[i].op = "enter"

\* A run is finished before the next one is entered, so that EnterRun always
\* finds the dispatcher between runs.
RunsAlternate ==
    Intact =>
        /\ \A i, j \in 0..Len(command_channel) :
              i < j /\ EntersAt(i) /\ EntersAt(j) => EndsWithin(i, j)
        /\ ~InRun /\ loop_pc # "finish" =>
              \A i \in 0..Len(command_channel) :
                  EntersAt(i) => EndsAfter(i)

\* The dispatcher is in run r, or enters it before place n of the channel.
Reached(r, n) ==
    \/ r = active_run
    \/ \E i \in 1..Len(command_channel) :
          i < n /\ command_channel[i].op = "enter" /\ command_channel[i].run = r

WillReach(r) ==
    \/ r = active_run
    \/ \E i \in 1..Len(command_channel) :
          command_channel[i].op = "enter" /\ command_channel[i].run = r

\* Only a run that the dispatcher is in, or will be, has anything queued.
QueuesReached ==
    Intact => \A r \in Runs :
        \/ pending_ready[r] # <<>>
        \/ r = run /\ (Serving \/ loop_pc = "leftover")
        => WillReach(r)

\* The thread-local queue is installed for as long as the run lasts.
TlsServing == Serving \/ loop_pc = "leftover" => tls_queue

\* The places of the channel after a receive and after a send.
LEMMA PlacesAfterTail ==
    ASSUME TypeOK, command_channel # <<>>, command_channel' = Tail(command_channel)
    PROVE  /\ 1 \in 1..Len(command_channel) /\ Head(command_channel) = command_channel[1]
           /\ Len(command_channel') = Len(command_channel) - 1
           /\ \A i \in 1..Len(command_channel') :
                 i + 1 \in 1..Len(command_channel) /\ command_channel'[i] = command_channel[i + 1]
           /\ \A i \in 1..Len(command_channel) : i # 1 =>
                 i - 1 \in 1..Len(command_channel') /\ command_channel'[i - 1] = command_channel[i]
<1>1. /\ Len(command_channel) \in Nat \ {0} /\ Len(command_channel') = Len(command_channel) - 1
      /\ \A i \in 1..(Len(command_channel) - 1) : command_channel'[i] = command_channel[i + 1]
      /\ Head(command_channel) = command_channel[1]
  BY ChannelTail DEF TypeOK, ChannelType
<1>2. \A i \in 1..Len(command_channel) : i # 1 =>
         i - 1 \in 1..(Len(command_channel) - 1) /\ (i - 1) + 1 = i
  BY <1>1
<1> QED BY <1>1, <1>2

LEMMA PlacesAfterSend ==
    ASSUME TypeOK, NEW c \in Command, command_channel' = Append(command_channel, c)
    PROVE  /\ Len(command_channel) \in Nat /\ Len(command_channel') = Len(command_channel) + 1
           /\ \A i \in 1..Len(command_channel) :
                 i \in 1..Len(command_channel') /\ command_channel'[i] = command_channel[i]
           /\ Len(command_channel) + 1 \in 1..Len(command_channel')
           /\ command_channel'[Len(command_channel) + 1] = c
           /\ \A i \in 1..Len(command_channel') :
                 i \in 1..Len(command_channel) \/ i = Len(command_channel) + 1
<1>1. /\ Len(command_channel) \in Nat /\ Len(command_channel') = Len(command_channel) + 1
      /\ \A i \in 1..Len(command_channel) : command_channel'[i] = command_channel[i]
      /\ command_channel'[Len(command_channel) + 1] = c
  BY ChannelAppend DEF TypeOK, ChannelType
<1> QED BY <1>1

\* Every step is one of these, as far as runs and the channel are concerned.
ChannelStep ==
    \/ UNCHANGED <<command_channel, active_run>>
    \/ /\ UNCHANGED active_run
       /\ \E c \in Command : /\ command_channel' = Append(command_channel, c)
                             /\ c.op = "enter" => send_enter_run /\ c.run = run
                             /\ c.op = "finish" => send_finish_run
    \/ /\ UNCHANGED <<run, loop_pc>>
       /\ command_channel # <<>> /\ command_channel' = Tail(command_channel)
       /\ \/ handle_ready /\ active_run' = active_run /\ Head(command_channel).op = "ready"
          \/ handle_finish_run /\ active_run' = 0 /\ Head(command_channel).op = "finish"
          \/ /\ handle_enter_run /\ Head(command_channel).op = "enter"
             /\ active_run' = Head(command_channel).run /\ active_run' \in Runs
          \/ disp_pc' = "dead"

LEMMA ChannelSteps ==
    ASSUME TypeOK, LoopRun, Next
    PROVE  ChannelStep
<1> USE DEF ChannelStep
<1>1. ASSUME NEW t \in Callers, send_remote_command(t) PROVE ChannelStep
 <2>1. UNCHANGED active_run BY <1>1
 <2>2. \/ UNCHANGED command_channel
       \/ \E c \in Command : c.op = "ready" /\ command_channel' = Append(command_channel, c)
   BY <1>1, ChannelSends
 <2> QED BY <2>1, <2>2
<1>2. CASE send_enter_run
 <2>1. UNCHANGED active_run BY <1>2
 <2>2. \E c \in Command : c.op = "enter" /\ c.run = run /\ command_channel' = Append(command_channel, c)
   BY <1>2, ChannelSends
 <2> HIDE DEF send_enter_run, send_finish_run
 <2> QED BY <1>2, <2>1, <2>2
<1>3. CASE send_finish_run
 <2>1. UNCHANGED active_run BY <1>3
 <2>2. \E c \in Command : c.op = "finish" /\ command_channel' = Append(command_channel, c)
   BY <1>3, ChannelSends
 <2> HIDE DEF send_enter_run, send_finish_run
 <2> QED BY <1>3, <2>1, <2>2
<1>4. CASE send_close
 <2>1. UNCHANGED active_run BY <1>4
 <2>2. \E c \in Command : c.op = "close" /\ command_channel' = Append(command_channel, c)
   BY <1>4, ChannelSends
 <2> HIDE DEF send_enter_run, send_finish_run
 <2> QED BY <2>1, <2>2
<1>5. CASE handle_ready BY <1>5
<1>6. CASE handle_finish_run BY <1>6
<1>7. CASE handle_close BY <1>7, Zenon
<1>8. CASE handle_enter_run
 <2>1. Head(command_channel).op = "enter" /\ command_channel # <<>> BY <1>8
 <2>2. Head(command_channel).run \in Runs BY <2>1, HeadFacts DEF TypeOK, ChannelType
 <2> QED BY <1>8, <2>2
<1>9. CASE UNCHANGED <<command_channel, active_run>> BY <1>9
<1> HIDE DEF ChannelStep
<1>10. CASE LoopStep BY <1>10, <1>2, <1>3, <1>4, <1>9 DEF LoopStep
<1>11. CASE DispatcherStep BY <1>11, <1>5, <1>6, <1>7, <1>8, <1>9, Zenon DEF DispatcherStep
<1>12. CASE Environment BY <1>12, <1>9 DEF Environment
<1>13. ASSUME NEW t \in Callers, CallerStep(t) PROVE ChannelStep
  BY <1>13, <1>1, <1>9 DEF CallerStep, PendingPush
<1> QED BY <1>10, <1>11, <1>12, <1>13 DEF Next

\* The loop thread leaves a run by sending its FinishRun.
LEMMA BetweenRuns ==
    ASSUME TypeOK, Next, ~InRun', loop_pc' # "finish"
    PROVE  (~InRun /\ loop_pc # "finish") \/ send_finish_run
<1>1. CASE loop_pc' = loop_pc BY <1>1 DEF InRun, Serving
<1>2. CASE LoopStep
 <2> HIDE DEF CountItem
 <2>1. ASSUME NEW b, CountItem(b) PROVE InRun' BY <2>1 DEF CountItem, InRun, Serving
 <2> QED BY <1>1, <1>2, <2>1, Zenon DEF LoopStep, InRun, Serving
<1>3. CASE DispatcherStep BY <1>1, <1>3, Zenon DEF DispatcherStep
<1>4. CASE Environment BY <1>1, <1>4 DEF Environment, InRun, Serving
<1>5. ASSUME NEW t \in Callers, CallerStep(t) PROVE loop_pc' = loop_pc
  BY <1>5 DEF CallerStep, PendingPush
<1> QED BY <1>1, <1>2, <1>3, <1>4, <1>5 DEF Next

\* The dispatcher leaves a run before it enters the next one.
LEMMA StepRunsAlternate ==
    ASSUME TypeOK, LoopRun, RunsAlternate, Next
    PROVE  RunsAlternate'
<1>0. SUFFICES ASSUME Intact' PROVE RunsAlternate' BY DEF RunsAlternate
<1>1. /\ Intact /\ Len(command_channel) \in Nat
      /\ \A i, j \in 0..Len(command_channel) :
            i < j /\ EntersAt(i) /\ EntersAt(j) => EndsWithin(i, j)
      /\ ~InRun /\ loop_pc # "finish" =>
            \A i \in 0..Len(command_channel) :
                EntersAt(i) => EndsAfter(i)
  BY <1>0, IntactBefore DEF RunsAlternate, TypeOK, ChannelType
<1>2. CASE UNCHANGED <<command_channel, active_run>>
 <2>1. ASSUME ~InRun', loop_pc' # "finish" PROVE ~InRun /\ loop_pc # "finish"
  <3>1. ~send_finish_run BY <1>1, <1>2 DEF TypeOK, ChannelType
  <3> QED BY <2>1, <3>1, BetweenRuns
 <2>2. command_channel' = command_channel /\ active_run' = active_run BY <1>2
 <2>3. \A i : /\ EntersAt(i)' = EntersAt(i) /\ EndsAfter(i)' = EndsAfter(i)
              /\ \A j : EndsWithin(i, j)' = EndsWithin(i, j)
   BY <2>2, Zenon DEF EntersAt, EndsWithin, EndsAfter
 <2> QED BY <1>1, <2>1, <2>2, <2>3 DEF RunsAlternate
<1>3. ASSUME UNCHANGED active_run, NEW c \in Command, command_channel' = Append(command_channel, c),
             c.op = "enter" => send_enter_run /\ c.run = run, c.op = "finish" => send_finish_run
      PROVE  RunsAlternate'
 <2>n. PICK n \in Nat : n = Len(command_channel) BY <1>1
 <2>1. /\ n \in Nat /\ Len(command_channel') = n + 1
       /\ \A i \in 1..n : i \in 1..Len(command_channel') /\ command_channel'[i] = command_channel[i]
       /\ n + 1 \in 1..Len(command_channel') /\ command_channel'[n + 1] = c
       /\ \A i \in 1..Len(command_channel') : i \in 1..n \/ i = n + 1
   BY <1>3, <2>n, PlacesAfterSend
 <2>2. \A i, j \in Nat : EndsWithin(i, j) => EndsWithin(i, j)' BY <2>1, <2>n DEF EndsWithin
 <2>3. \A i \in 0..(n + 1) : EntersAt(i)' => (i \in 0..n /\ EntersAt(i)) \/ (i = n + 1 /\ c.op = "enter")
   BY <1>3, <2>1, <2>n DEF EntersAt
 <2>4. c.op = "enter" => ~InRun /\ loop_pc # "finish" /\ InRun'
  <3>1. send_enter_run => loop_pc = "enter" /\ loop_pc' = "turn" OBVIOUS
  <3> QED BY <1>3, <3>1 DEF InRun, Serving
 <2>5. ASSUME NEW i \in 0..(n + 1), NEW j \in 0..(n + 1), i < j, EntersAt(i)', EntersAt(j)'
       PROVE  EndsWithin(i, j)'
  <3>1. i \in 0..n /\ EntersAt(i) BY <2>1, <2>3, <2>5
  <3>2. CASE j \in 0..n BY <1>1, <2>n, <2>2, <2>3, <2>5, <3>1, <3>2
  <3>3. CASE j = n + 1 /\ c.op = "enter"
   <4>1. PICK k \in 1..n : i < k /\ command_channel[k].op = "finish"
     BY <1>1, <2>n, <2>4, <3>1, <3>3 DEF EndsAfter
   <4> QED BY <2>1, <3>3, <4>1 DEF EndsWithin
  <3> QED BY <2>3, <2>5, <3>2, <3>3
 <2>6. ASSUME ~InRun', loop_pc' # "finish", NEW i \in 0..(n + 1), EntersAt(i)' PROVE EndsAfter(i)'
  <3>1. i \in 0..n /\ EntersAt(i) BY <2>3, <2>4, <2>6
  <3>2. CASE send_finish_run
   <4>1. PICK k \in Command : k.op = "finish" /\ command_channel' = Append(command_channel, k)
     BY <3>2, ChannelSends
   <4>2. c = k BY <1>3, <4>1, PlacesAfterSend
   <4> QED BY <2>1, <3>1, <4>1, <4>2 DEF EndsAfter
  <3>3. CASE ~InRun /\ loop_pc # "finish"
   <4>1. PICK k \in 1..n : i < k /\ command_channel[k].op = "finish"
     BY <1>1, <2>n, <3>1, <3>3 DEF EndsAfter
   <4> QED BY <2>1, <4>1 DEF EndsAfter
  <3> QED BY <2>6, <3>2, <3>3, BetweenRuns
 <2> QED BY <2>1, <2>5, <2>6 DEF RunsAlternate
<1>4. ASSUME command_channel # <<>>, command_channel' = Tail(command_channel), UNCHANGED <<run, loop_pc>>,
             \/ active_run' = active_run /\ Head(command_channel).op = "ready"
             \/ active_run' = 0 /\ Head(command_channel).op = "finish"
             \/ Head(command_channel).op = "enter"
      PROVE  RunsAlternate'
 <2>n. PICK n \in Nat : n = Len(command_channel) BY <1>1
 <2> DEFINE e(i) == IF i = 0 /\ Head(command_channel).op = "ready" THEN 0 ELSE i + 1
 <2>1. /\ 1 \in 1..n /\ Head(command_channel) = command_channel[1] /\ Len(command_channel') = n - 1
       /\ \A i \in 1..Len(command_channel') : i + 1 \in 1..n /\ command_channel'[i] = command_channel[i + 1]
       /\ \A i \in 1..n : i # 1 =>
             i - 1 \in 1..Len(command_channel') /\ command_channel'[i - 1] = command_channel[i]
   BY <1>4, <2>n, PlacesAfterTail
 <2>2. \A i \in 0..(n - 1) : EntersAt(i)' => e(i) \in 0..n /\ EntersAt(e(i))
   BY <1>4, <2>1, <2>n DEF EntersAt
 <2>3. \A i, j \in 0..(n - 1) : i < j => j # 0 /\ e(i) < e(j) /\ e(j) = j + 1 OBVIOUS
 <2>4. ASSUME NEW i \in 0..(n - 1), NEW k \in 1..n, e(i) < k, command_channel[k].op = "finish"
       PROVE  k - 1 \in 1..Len(command_channel') /\ i < k - 1 /\ command_channel'[k - 1].op = "finish"
  <3>1. k # 1 /\ i < k - 1 BY <2>1, <2>4
  <3> QED BY <2>1, <2>4, <3>1
 <2>5. InRun' = InRun /\ loop_pc' = loop_pc BY <1>4 DEF InRun, Serving
 <2> HIDE DEF e
 <2>6. ASSUME NEW i \in 0..(n - 1), NEW j \in 0..(n - 1), i < j, EntersAt(i)', EntersAt(j)'
       PROVE  EndsWithin(i, j)'
  <3>1. PICK k \in 1..n : e(i) < k /\ k < j + 1 /\ command_channel[k].op = "finish"
    BY <1>1, <2>n, <2>2, <2>3, <2>6 DEF EndsWithin
  <3>2. k - 1 < j BY <3>1
  <3> QED BY <2>4, <3>1, <3>2 DEF EndsWithin
 <2>7. ASSUME ~InRun', loop_pc' # "finish", NEW i \in 0..(n - 1), EntersAt(i)' PROVE EndsAfter(i)'
  <3>1. PICK k \in 1..n : e(i) < k /\ command_channel[k].op = "finish"
    BY <1>1, <2>n, <2>2, <2>5, <2>7 DEF EndsAfter
  <3> QED BY <2>4, <3>1 DEF EndsAfter
 <2> QED BY <2>1, <2>6, <2>7 DEF RunsAlternate
<1>5. disp_pc' # "dead" BY <1>0 DEF Intact
<1> QED BY <1>2, <1>3, <1>4, <1>5, ChannelSteps DEF ChannelStep

\* The thread-local queue is cleared only when the run is over.
LEMMA StepTlsServing ==
    ASSUME TypeOK, TlsServing, Next
    PROVE  TlsServing'
<1>1. CASE /\ Serving' \/ loop_pc' = "leftover" => Serving \/ loop_pc = "leftover"
           /\ UNCHANGED tls_queue
  BY <1>1 DEF TlsServing
<1>2. CASE send_enter_run \/ keep_leftover BY <1>2 DEF TlsServing, Serving
<1>3. CASE LoopStep BY <1>1, <1>2, <1>3, Zenon DEF LoopStep, Serving
<1>4. CASE DispatcherStep BY <1>1, <1>4, Zenon DEF DispatcherStep, Serving
<1>5. CASE Environment BY <1>1, <1>5 DEF Environment, Serving
<1>6. ASSUME NEW t \in Callers, CallerStep(t) PROVE TlsServing'
  BY <1>1, <1>6 DEF CallerStep, PendingPush, Serving
<1> QED BY <1>3, <1>4, <1>5, <1>6 DEF Next

\* EnterRun finds the dispatcher between runs.
LEMMA EntersFromNone ==
    ASSUME TypeOK, RunsAlternate, Intact, command_channel # <<>>, Head(command_channel).op = "enter"
    PROVE  active_run = 0
<1>1. Len(command_channel) \in Nat \ {0} /\ Head(command_channel) = command_channel[1]
  BY TailElems DEF TypeOK, ChannelType
<1>2. 0 \in 0..Len(command_channel) /\ 1 \in 0..Len(command_channel) /\ EntersAt(1) /\ ~EndsWithin(0, 1)
  BY <1>1 DEF EntersAt, EndsWithin
<1> QED BY <1>2 DEF RunsAlternate, EntersAt

\* FinishRun ends a run that the loop thread is no longer in.
LEMMA FinishesBehind ==
    ASSUME TypeOK, RunsConsistent, EnterOrder, EndsBeforeEnter, OpenQueue, Intact,
           command_channel # <<>>, Head(command_channel).op = "finish"
    PROVE  (InRun => active_run # run) /\ ~active_ready_dispatch.accepting
<1>1. /\ Len(command_channel) \in Nat \ {0} /\ Head(command_channel) = command_channel[1]
      /\ run \in Nat /\ active_run \in Nat
  BY TailElems DEF TypeOK, ChannelType, LoopType, DispatcherType
<1>2. ASSUME InRun PROVE active_run # run
 <2>1. PICK j \in 1..Len(command_channel) : command_channel[j].op = "enter" /\ command_channel[j].run = run
   BY <1>1, <1>2 DEF EndsBeforeEnter
 <2> QED BY <1>1, <2>1 DEF EnterOrder
<1>3. ASSUME active_ready_dispatch.accepting PROVE FALSE
 <2>1. active_run = run /\ active_ready_dispatch.run = run /\ run # 0 BY <1>3 DEF OpenQueue
 <2>2. loop_pc \notin NoDispatchPcs /\ loop_pc # "enter" /\ loop_pc \in LoopPcs
   BY <2>1 DEF RunsConsistent, LoopRun, ActiveRun, Entered, TypeOK, LoopType
 <2>3. InRun BY <2>2 DEF NoDispatchPcs, LoopPcs, InRun, Serving
 <2> QED BY <1>2, <2>1, <2>3
<1> QED BY <1>2, <1>3

\* A run that was to be reached still is, after a send and after a receive.
LEMMA ReachedAfterSend ==
    ASSUME TypeOK, UNCHANGED active_run,
           UNCHANGED command_channel \/ \E c \in Command : command_channel' = Append(command_channel, c)
    PROVE  \A r : /\ WillReach(r) => WillReach(r)'
                  /\ \A j \in Nat : Reached(r, j) => Reached(r, j)'
<1>1. \A i \in 1..Len(command_channel) :
         i \in 1..Len(command_channel') /\ command_channel'[i] = command_channel[i]
  BY PlacesAfterSend
<1> QED BY <1>1 DEF WillReach, Reached

LEMMA ReachedAfterReceive ==
    ASSUME TypeOK, command_channel # <<>>, command_channel' = Tail(command_channel), NEW r,
           r = active_run => active_run' = r,
           Head(command_channel).op = "enter" => active_run' = Head(command_channel).run
    PROVE  /\ WillReach(r) => WillReach(r)'
           /\ \A j \in Nat : Reached(r, j + 1) => Reached(r, j)'
<1>1. /\ Head(command_channel) = command_channel[1]
      /\ \A i \in 1..Len(command_channel) : i # 1 =>
            i - 1 \in 1..Len(command_channel') /\ command_channel'[i - 1] = command_channel[i]
  BY PlacesAfterTail
<1>2. WillReach(r) => WillReach(r)' BY <1>1 DEF WillReach
<1>3. ASSUME NEW j \in Nat, Reached(r, j + 1) PROVE Reached(r, j)'
 <2>1. CASE r = active_run BY <2>1 DEF Reached
 <2>2. ASSUME NEW i \in 1..Len(command_channel), i < j + 1, command_channel[i].op = "enter",
              command_channel[i].run = r
       PROVE  Reached(r, j)'
  <3>1. CASE i = 1 BY <1>1, <2>2, <3>1 DEF Reached
  <3>2. CASE i # 1
   <4>1. i - 1 \in 1..Len(command_channel') /\ command_channel'[i - 1] = command_channel[i] /\ i - 1 < j
     BY <1>1, <2>2, <3>2
   <4> QED BY <2>2, <4>1 DEF Reached
  <3> QED BY <3>1, <3>2
 <2> QED BY <1>3, <2>1, <2>2 DEF Reached
<1> QED BY <1>2, <1>3

\* What makes a queue hold something.
LEMMA QueuesFilled ==
    ASSUME TypeOK, RunsConsistent, OpenQueue, Next
    PROVE  /\ \A r \in Runs : pending_ready'[r] # <<>> =>
                 \/ pending_ready[r] # <<>> \/ r = active_run
                 \/ r = run /\ loop_pc = "leftover"
           /\ Serving' \/ loop_pc' = "leftover" =>
                 run' = run /\ (Serving \/ loop_pc = "leftover" \/ send_enter_run)
           /\ handle_finish_run => \A r \in Runs : r = active_run => pending_ready'[r] = <<>>
<1>1. /\ pending_ready \in [Runs -> Seq(QueueEntry)] /\ run \in 0..MaxRuns
      /\ \A r \in 0..MaxRuns : r # 0 => r \in Runs
      /\ active_run \in 0..MaxRuns /\ active_ready_dispatch.run \in 0..MaxRuns
  BY DEF TypeOK, PendingType, LoopType, DispatcherType, DispatchType, Runs
<1>2. \A r \in Runs : pending_ready'[r] # <<>> =>
                 \/ pending_ready[r] # <<>> \/ r = active_run
                 \/ r = run /\ loop_pc = "leftover"
 <2>1. CASE UNCHANGED pending_ready BY <2>1
 <2>2. ASSUME NEW t \in Callers, try_enqueue_active_ready(t), ~UNCHANGED pending_ready
       PROVE  \A r \in Runs : r # active_run => pending_ready'[r] = pending_ready[r]
  <3>1. active_ready_dispatch.run = active_run BY <2>2 DEF OpenQueue
  <3> QED BY <1>1, <2>2, <3>1
 <2>3. CASE start_generation BY <1>1, <2>3 DEF RunsConsistent, LoopRun
 <2>4. CASE keep_leftover BY <1>1, <2>4
 <2>5. CASE forward_ready_batch BY <1>1, <2>5
 <2>6. ASSUME TakeBackRun PROVE \A r \in Runs : pending_ready'[r] # <<>> => pending_ready[r] # <<>>
   BY <2>6, TakenBackEmpty
 <2>7. CASE LoopStep BY <2>1, <2>3, <2>4, <2>7, Zenon DEF LoopStep
 <2>8. CASE DispatcherStep
  <3> HIDE DEF TakeBackRun
  <3> QED BY <2>1, <2>5, <2>6, <2>8, Zenon DEF DispatcherStep
 <2>9. CASE Environment BY <2>1, <2>9 DEF Environment
 <2>10. ASSUME NEW t \in Callers, CallerStep(t)
        PROVE  UNCHANGED pending_ready \/ try_enqueue_active_ready(t)
   BY <2>10 DEF CallerStep
 <2> QED BY <2>1, <2>2, <2>7, <2>8, <2>9, <2>10 DEF Next
<1>3. ASSUME Serving' \/ loop_pc' = "leftover"
      PROVE  run' = run /\ (Serving \/ loop_pc = "leftover" \/ send_enter_run)
 <2>1. CASE UNCHANGED <<run, loop_pc>> BY <1>3, <2>1 DEF Serving
 <2>2. CASE LoopStep BY <1>3, <2>1, <2>2, Zenon DEF LoopStep, Serving
 <2>3. CASE DispatcherStep BY <2>1, <2>3, Zenon DEF DispatcherStep
 <2>4. CASE Environment BY <1>3, <2>1, <2>4 DEF Environment, Serving
 <2>5. ASSUME NEW t \in Callers, CallerStep(t) PROVE UNCHANGED <<run, loop_pc>>
   BY <2>5 DEF CallerStep, PendingPush
 <2> QED BY <2>1, <2>2, <2>3, <2>4, <2>5 DEF Next
<1>4. ASSUME handle_finish_run PROVE \A r \in Runs : r = active_run => pending_ready'[r] = <<>>
  BY <1>1, <1>4 DEF Runs
<1> HIDE DEF send_enter_run
<1> QED BY <1>2, <1>3, <1>4

\* Nothing is queued for a run that the dispatcher does not reach.
LEMMA StepQueuesReached ==
    ASSUME TypeOK, RunsConsistent, EnterOrder, EndsBeforeEnter, OpenQueue, RunsAlternate,
           QueuesReached, Next
    PROVE  QueuesReached'
<1>1. SUFFICES ASSUME Intact', NEW r \in Runs,
                      pending_ready'[r] # <<>> \/ (r = run' /\ (Serving' \/ loop_pc' = "leftover"))
               PROVE  WillReach(r)'
  BY DEF QueuesReached
<1>2. Intact /\ disp_pc' # "dead" /\ LoopRun /\ r # 0
  BY <1>1, IntactBefore DEF Intact, RunsConsistent, Runs
<1>3. CASE send_enter_run /\ r = run
 <2>1. PICK c \in Command : c.op = "enter" /\ c.run = run /\ command_channel' = Append(command_channel, c)
   BY <1>2, <1>3, ChannelSends
 <2> QED BY <1>3, <2>1, PlacesAfterSend DEF WillReach
<1>4. CASE ~(send_enter_run /\ r = run)
 <2>1. /\ \/ pending_ready[r] # <<>> \/ r = active_run
          \/ r = run /\ (Serving \/ loop_pc = "leftover")
       /\ handle_finish_run /\ r = active_run => r = run /\ InRun
  <3> HIDE DEF send_enter_run, handle_finish_run
  <3> QED BY <1>1, <1>4, QueuesFilled DEF InRun, Serving
 <2>2. WillReach(r) BY <1>2, <2>1 DEF QueuesReached, WillReach
 <2>3. CASE /\ UNCHANGED active_run
            /\ UNCHANGED command_channel \/ \E c \in Command : command_channel' = Append(command_channel, c)
   BY <2>2, <2>3, ReachedAfterSend
 <2>4. CASE handle_finish_run /\ Head(command_channel).op = "finish" /\ command_channel # <<>>
            /\ command_channel' = Tail(command_channel)
  <3>1. r # active_run
   <4> HIDE DEF handle_finish_run
   <4> QED BY <1>2, <2>1, <2>4, FinishesBehind
  <3> HIDE DEF handle_finish_run
  <3> QED BY <2>2, <2>4, <3>1, ReachedAfterReceive
 <2>5. CASE Head(command_channel).op = "enter" /\ command_channel # <<>>
            /\ command_channel' = Tail(command_channel) /\ active_run' = Head(command_channel).run
  <3>1. r # active_run BY <1>2, <2>5, EntersFromNone
  <3> QED BY <2>2, <2>5, <3>1, ReachedAfterReceive
 <2>6. CASE Head(command_channel).op = "ready" /\ command_channel # <<>>
            /\ command_channel' = Tail(command_channel) /\ active_run' = active_run
   BY <2>2, <2>6, ReachedAfterReceive
 <2> HIDE DEF send_enter_run, send_finish_run, handle_finish_run, handle_enter_run, handle_ready
 <2> QED BY <1>2, <2>3, <2>4, <2>5, <2>6, ChannelSteps DEF ChannelStep
<1> HIDE DEF send_enter_run
<1> QED BY <1>3, <1>4

\* Where a callback is not.
Off(x, q) == \A i \in 1..Len(q) : q[i] # x
Carries(i, x) == command_channel[i].op = "ready" /\ command_channel[i].item = x
OffChannel(x) == \A i \in 1..Len(command_channel) : ~Carries(i, x)
OffQueues(x) ==
    \A r \in Runs : \A i \in 1..Len(pending_ready[r]) : pending_ready[r][i].item # x

\* Callback x waits for run r: in its queue or with the loop thread.
Home(x, r) ==
    \/ r \in Runs /\ \E i \in 1..Len(pending_ready[r]) : pending_ready[r][i].item = x
    \/ r = run /\ ~(Off(x, ready_batch) /\ Off(x, local_ready))

\* Wherever callback y waits, x is ahead of it, or where y does not pass it.
BehindInBatch(x, y) ==
    \A j \in 1..Len(ready_batch) : ready_batch[j] = y =>
        /\ \A i \in 1..Len(ready_batch) : ready_batch[i] = x => i < j
        /\ Off(x, local_ready) /\ Off(x, disp_batch) /\ OffChannel(x) /\ OffQueues(x)

BehindInQueue(x, y) ==
    \A r \in Runs : \A j \in 1..Len(pending_ready[r]) : pending_ready[r][j].item = y =>
        /\ Off(x, disp_batch) /\ OffChannel(x)
        /\ \A s : Home(x, s) => s = r
        /\ \A i \in 1..Len(pending_ready[r]) : pending_ready[r][i].item = x => i < j
        /\ \A k \in 1..Len(local_ready) :
              local_ready[k] = x => DueBefore(k, j, local_taken, pending_ready[r])

BehindWithDispatcher(x, y) ==
    \A j \in 1..Len(disp_batch) : disp_batch[j] = y =>
        /\ OffChannel(x)
        /\ \A s : Home(x, s) => s = active_run
        /\ \A i \in 1..Len(disp_batch) : disp_batch[i] = x => i < j
        /\ disp_pc = "extend" =>
              \A k \in 1..Len(local_ready) : local_ready[k] = x => local_taken + k <= disp_mark

BehindOnChannel(x, y) ==
    \A j \in 1..Len(command_channel) : Carries(j, y) =>
        /\ \A i \in 1..Len(command_channel) : Carries(i, x) => i < j
        /\ \A s : Home(x, s) => Reached(s, j)

BehindAtGate(x, y) ==
    \A t \in Callers : call_pc[t] = "active" /\ call_item[t] = y =>
        OffChannel(x) /\ (active_ready_dispatch.accepting => Off(x, disp_batch))

Behind(x, y) ==
    /\ Off(y, local_ready) /\ BehindInBatch(x, y) /\ BehindInQueue(x, y)
    /\ BehindWithDispatcher(x, y) /\ BehindOnChannel(x, y) /\ BehindAtGate(x, y)

\* A step that moves neither x nor y, except that the loop thread takes the
\* head of its batch and that y may be sent.
Quiet(x, y) ==
    /\ UNCHANGED <<pending_ready, disp_batch, active_run>>
    /\ \/ UNCHANGED ready_batch
       \/ ready_batch # <<>> /\ ready_batch' = Tail(ready_batch)
    /\ \A k \in 1..Len(local_ready') :
          /\ local_ready'[k] # y
          /\ local_ready'[k] = x =>
                /\ k \in 1..Len(local_ready) /\ local_ready[k] = x
                /\ local_taken' = local_taken
    /\ run' = run \/ (Off(x, ready_batch') /\ Off(x, local_ready'))
    /\ \/ UNCHANGED command_channel
       \/ \E c \in Command : /\ command_channel' = Append(command_channel, c)
                             /\ ~(c.op = "ready" /\ c.item = x)
    /\ disp_pc' = "extend" =>
          \/ disp_pc = "extend" /\ disp_mark' = disp_mark
          \/ \A k \in 1..Len(local_ready') : local_ready'[k] = x => local_taken' + k <= disp_mark'
    /\ active_ready_dispatch'.accepting =>
          active_ready_dispatch.accepting \/ Off(x, disp_batch)
    /\ \A t \in Callers : call_pc'[t] = "active" /\ call_item'[t] = y =>
          \/ call_pc[t] = "active" /\ call_item[t] = y
          \/ OffChannel(x) /\ (active_ready_dispatch'.accepting => Off(x, disp_batch))

\* Such a step keeps x ahead of y.
LEMMA QuietKeepsBehind ==
    ASSUME TypeOK, NEW x, NEW y, Behind(x, y), Quiet(x, y), \A s : Home(x, s) => WillReach(s)
    PROVE  Behind(x, y)'
<1>0. /\ Off(y, local_ready) /\ BehindInBatch(x, y) /\ BehindInQueue(x, y)
      /\ BehindWithDispatcher(x, y) /\ BehindOnChannel(x, y) /\ BehindAtGate(x, y)
  BY DEF Behind
<1>1. UNCHANGED <<pending_ready, disp_batch, active_run>> /\ (OffQueues(x) => OffQueues(x)')
  BY DEF Quiet, OffQueues
<1>b. PICK o \in {0, 1} : \A j \in 1..Len(ready_batch') :
         j + o \in 1..Len(ready_batch) /\ ready_batch'[j] = ready_batch[j + o]
 <2>1. ready_batch \in Seq(ReadyItem) BY DEF TypeOK, LoopType
 <2>2. CASE UNCHANGED ready_batch
  <3>1. \A j \in 1..Len(ready_batch') : j + 0 = j BY <2>1, <2>2
  <3> QED BY <2>2, <3>1
 <2>3. CASE ready_batch # <<>> /\ ready_batch' = Tail(ready_batch) BY <2>1, <2>3, TailElems
 <2> QED BY <2>2, <2>3 DEF Quiet
<1>l. \A k \in 1..Len(local_ready') :
         /\ local_ready'[k] # y
         /\ local_ready'[k] = x =>
               k \in 1..Len(local_ready) /\ local_ready[k] = x /\ local_taken' = local_taken
  BY DEF Quiet
<1>x. (Off(x, local_ready) => Off(x, local_ready')) /\ Off(y, local_ready')
      /\ (Off(x, ready_batch) => Off(x, ready_batch'))
  BY <1>b, <1>l DEF Off
<1>h. \A s : Home(x, s)' => Home(x, s)
 <2>1. run' = run \/ (Off(x, ready_batch') /\ Off(x, local_ready')) BY DEF Quiet
 <2> QED BY <1>1, <1>x, <2>1 DEF Home
<1>c. /\ \A i \in 1..Len(command_channel') : Carries(i, x)' => i \in 1..Len(command_channel) /\ Carries(i, x)
      /\ OffChannel(x) => OffChannel(x)'
      /\ \A i \in 1..Len(command_channel') : i \in 1..Len(command_channel) \/ i = Len(command_channel) + 1
      /\ \A i \in 1..Len(command_channel) : i \in 1..Len(command_channel') /\ command_channel'[i] = command_channel[i]
 <2>1. CASE UNCHANGED command_channel BY <2>1 DEF Carries, OffChannel
 <2>2. ASSUME NEW c \in Command, command_channel' = Append(command_channel, c), ~(c.op = "ready" /\ c.item = x)
       PROVE  /\ \A i \in 1..Len(command_channel') :
                    Carries(i, x)' => i \in 1..Len(command_channel) /\ Carries(i, x)
              /\ \A i \in 1..Len(command_channel') :
                    i \in 1..Len(command_channel) \/ i = Len(command_channel) + 1
              /\ \A i \in 1..Len(command_channel) :
                    i \in 1..Len(command_channel') /\ command_channel'[i] = command_channel[i]
   BY <2>2, PlacesAfterSend DEF Carries
 <2> QED BY <2>1, <2>2 DEF Quiet, OffChannel
<1>2. BehindInBatch(x, y)'
 <2>1. ASSUME NEW j \in 1..Len(ready_batch'), ready_batch'[j] = y
       PROVE  /\ \A i \in 1..Len(ready_batch') : ready_batch'[i] = x => i < j
              /\ Off(x, local_ready) /\ Off(x, disp_batch) /\ OffChannel(x) /\ OffQueues(x)
  <3>1. /\ \A i \in 1..Len(ready_batch) : ready_batch[i] = x => i < j + o
        /\ Off(x, local_ready) /\ Off(x, disp_batch) /\ OffChannel(x) /\ OffQueues(x)
    BY <1>0, <1>b, <2>1 DEF BehindInBatch
  <3> QED BY <1>b, <3>1
 <2> QED BY <1>1, <1>x, <1>c, <2>1 DEF BehindInBatch
<1>3. BehindInQueue(x, y)'
 <2>1. ASSUME NEW r \in Runs, NEW j \in 1..Len(pending_ready[r]), pending_ready[r][j].item = y
       PROVE  /\ Off(x, disp_batch) /\ OffChannel(x)'
              /\ \A s : Home(x, s)' => s = r
              /\ \A i \in 1..Len(pending_ready[r]) : pending_ready[r][i].item = x => i < j
              /\ \A k \in 1..Len(local_ready') :
                    local_ready'[k] = x => DueBefore(k, j, local_taken', pending_ready[r])
   BY <1>0, <1>c, <1>h, <1>l, <2>1 DEF BehindInQueue
 <2> QED BY <1>1, <2>1 DEF BehindInQueue
<1>4. BehindWithDispatcher(x, y)'
 <2>1. ASSUME NEW j \in 1..Len(disp_batch), disp_batch[j] = y
       PROVE  /\ OffChannel(x)'
              /\ \A s : Home(x, s)' => s = active_run
              /\ \A i \in 1..Len(disp_batch) : disp_batch[i] = x => i < j
              /\ disp_pc' = "extend" =>
                    \A k \in 1..Len(local_ready') : local_ready'[k] = x => local_taken' + k <= disp_mark'
  <3>1. /\ OffChannel(x)'
        /\ \A s : Home(x, s)' => s = active_run
        /\ \A i \in 1..Len(disp_batch) : disp_batch[i] = x => i < j
        /\ disp_pc = "extend" =>
              \A k \in 1..Len(local_ready) : local_ready[k] = x => local_taken + k <= disp_mark
    BY <1>0, <1>c, <1>h, <2>1 DEF BehindWithDispatcher
  <3>2. disp_pc' = "extend" =>
           \/ disp_pc = "extend" /\ disp_mark' = disp_mark
           \/ \A k \in 1..Len(local_ready') : local_ready'[k] = x => local_taken' + k <= disp_mark'
    BY DEF Quiet
  <3> QED BY <1>l, <3>1, <3>2
 <2> QED BY <1>1, <2>1 DEF BehindWithDispatcher
<1>5. BehindOnChannel(x, y)'
 <2>1. ASSUME NEW j \in 1..Len(command_channel'), Carries(j, y)'
       PROVE  /\ \A i \in 1..Len(command_channel') : Carries(i, x)' => i < j
              /\ \A s : Home(x, s)' => Reached(s, j)'
  <3>0. \A r : \A n \in Nat : Reached(r, n) => Reached(r, n)' BY ReachedAfterSend DEF Quiet
  <3>n. Len(command_channel) \in Nat /\ j \in Nat BY <1>c DEF TypeOK, ChannelType
  <3>1. CASE j \in 1..Len(command_channel)
   <4>1. Carries(j, y) BY <1>c, <2>1, <3>1 DEF Carries
   <4> QED BY <1>0, <1>c, <1>h, <3>0, <3>1, <3>n, <4>1 DEF BehindOnChannel
  <3>2. CASE j = Len(command_channel) + 1
   <4>1. \A s : Home(x, s)' => Reached(s, j) BY <1>h, <3>2, <3>n DEF WillReach, Reached
   <4> QED BY <1>c, <3>0, <3>2, <3>n, <4>1
  <3> QED BY <1>c, <3>1, <3>2
 <2> QED BY <2>1 DEF BehindOnChannel
<1>6. BehindAtGate(x, y)'
 <2>1. ASSUME NEW t \in Callers, call_pc'[t] = "active", call_item'[t] = y
       PROVE  OffChannel(x)' /\ (active_ready_dispatch'.accepting => Off(x, disp_batch))
   BY <1>0, <1>c, <2>1 DEF Quiet, BehindAtGate
 <2> QED BY <1>1, <2>1 DEF BehindAtGate
<1> QED BY <1>x, <1>2, <1>3, <1>4, <1>5, <1>6 DEF Behind

\* The places of a concatenation.
LEMMA ConcatPlaces ==
    ASSUME NEW T, NEW s \in Seq(T), NEW q \in Seq(T)
    PROVE  /\ Len(s) \in Nat /\ Len(q) \in Nat /\ Len(s \o q) = Len(s) + Len(q) /\ s \o q \in Seq(T)
           /\ \A j \in 1..Len(s) : j \in 1..Len(s \o q) /\ (s \o q)[j] = s[j]
           /\ \A j \in 1..Len(s \o q) :
                 \/ j \in 1..Len(s) /\ (s \o q)[j] = s[j]
                 \/ /\ j \notin 1..Len(s) /\ j - Len(s) \in 1..Len(q)
                    /\ (s \o q)[j] = q[j - Len(s)]
  OBVIOUS

\* A new generation takes x into the batch before y, or y not at all.
LEMMA GenerationKeepsBehind ==
    ASSUME TypeOK, RunsConsistent, NEW x, NEW y, Behind(x, y), start_generation
    PROVE  Behind(x, y)'
<1>0. /\ Off(y, local_ready) /\ BehindInQueue(x, y)
      /\ BehindWithDispatcher(x, y) /\ BehindOnChannel(x, y) /\ BehindAtGate(x, y)
  BY DEF Behind
<1>1. /\ UNCHANGED <<run, disp_batch, command_channel, disp_pc, disp_mark, active_run,
                     active_ready_dispatch, call_pc, call_item>>
      /\ local_ready' = <<>> /\ loop_pc = "drain"
      /\ \/ /\ ready_batch' = MergeGeneration(local_ready, local_taken, pending_ready[run])
            /\ pending_ready' = [pending_ready EXCEPT ![run] = <<>>]
         \/ ready_batch' = local_ready /\ UNCHANGED pending_ready
  OBVIOUS
<1> HIDE DEF start_generation
<1>r. run \in Runs BY <1>1 DEF TypeOK, LoopType, RunsConsistent, LoopRun, Runs
<1>t. /\ run \in Runs /\ pending_ready \in [Runs -> Seq(QueueEntry)] /\ local_ready \in Seq(ReadyItem)
      /\ local_taken \in Nat /\ pending_ready[run] \in Seq(QueueEntry)
  BY <1>r DEF TypeOK, PendingType, LoopType
<1>q. pending_ready[run] \in Seq([item : ReadyItem, mark : Nat]) BY <1>t DEF QueueEntry
<1>2. \A j \in 1..Len(ready_batch') :
         \/ \E k \in 1..Len(local_ready) : ready_batch'[j] = local_ready[k]
         \/ /\ \E i \in 1..Len(pending_ready[run]) : ready_batch'[j] = pending_ready[run][i].item
            /\ ready_batch' = MergeGeneration(local_ready, local_taken, pending_ready[run])
            /\ pending_ready'[run] = <<>>
 <2>1. CASE /\ ready_batch' = MergeGeneration(local_ready, local_taken, pending_ready[run])
            /\ pending_ready' = [pending_ready EXCEPT ![run] = <<>>]
  <3>1. pending_ready'[run] = <<>> BY <1>t, <2>1
  <3> DEFINE g == MergeGeneration(local_ready, local_taken, pending_ready[run])
  <3>2. \A j \in 1..Len(g) : \/ \E k \in 1..Len(local_ready) : g[j] = local_ready[k]
                             \/ \E i \in 1..Len(pending_ready[run]) : g[j] = pending_ready[run][i].item
   <4>1. FromQueues(g, local_ready, pending_ready[run]) BY <1>t, <1>q, MergeElements
   <4> QED BY <4>1, Zenon DEF FromQueues
  <3> HIDE DEF g
  <3> QED BY <2>1, <3>1, <3>2 DEF g
 <2>2. CASE ready_batch' = local_ready BY <2>2
 <2> QED BY <1>1, <2>1, <2>2
<1>3. \A r \in Runs : pending_ready'[r] = pending_ready[r] \/ (r = run /\ pending_ready'[r] = <<>>)
  BY <1>1, <1>t
<1>4. \A k \in 1..Len(local_ready') : FALSE BY <1>1
<1>h. \A s : Home(x, s)' => Home(x, s)
 <2>1. ASSUME NEW s, Home(x, s)' PROVE Home(x, s)
  <3>1. CASE s \in Runs /\ \E i \in 1..Len(pending_ready'[s]) : pending_ready'[s][i].item = x
    BY <1>3, <3>1 DEF Home
  <3>2. ASSUME s = run, NEW j \in 1..Len(ready_batch'), ready_batch'[j] = x PROVE Home(x, s)
    BY <1>2, <1>t, <3>2 DEF Home, Off
  <3> QED BY <1>1, <1>4, <2>1, <3>1, <3>2 DEF Home, Off
 <2> QED BY <2>1
<1>c. OffChannel(x)' = OffChannel(x) /\ \A r, j : Reached(r, j)' = Reached(r, j)
  BY <1>1 DEF OffChannel, Carries, Reached
<1>5. BehindInBatch(x, y)'
 <2>1. ASSUME NEW j \in 1..Len(ready_batch'), ready_batch'[j] = y
       PROVE  /\ \A i \in 1..Len(ready_batch') : ready_batch'[i] = x => i < j
              /\ Off(x, disp_batch) /\ OffChannel(x) /\ OffQueues(x)'
  <3>1. PICK h \in 1..Len(pending_ready[run]) : pending_ready[run][h].item = y
    BY <1>0, <1>2, <2>1 DEF Off
  <3>2. /\ ready_batch' = MergeGeneration(local_ready, local_taken, pending_ready[run])
        /\ pending_ready'[run] = <<>>
    BY <1>0, <1>2, <2>1 DEF Off
  <3>3. Off(x, disp_batch) /\ OffChannel(x) /\ \A s : Home(x, s) => s = run
    BY <1>0, <1>t, <3>1 DEF BehindInQueue
  <3>4. OffQueues(x)'
   <4>1. ASSUME NEW r \in Runs, NEW i \in 1..Len(pending_ready'[r]), pending_ready'[r][i].item = x PROVE FALSE
    <5>1. pending_ready'[r] # <<>> /\ r # run BY <3>2, <4>1
    <5>2. pending_ready'[r] = pending_ready[r] BY <1>3, <5>1
    <5> QED BY <3>3, <4>1, <5>1, <5>2 DEF Home
   <4> QED BY <4>1 DEF OffQueues
  <3>5. \A i \in 1..Len(ready_batch') : ready_batch'[i] = x => i < j
   <4>1. \A k \in 1..Len(local_ready) : local_ready[k] # y BY <1>0 DEF Off
   <4>2. \A n \in 1..Len(pending_ready[run]) : pending_ready[run][n].item = y =>
            /\ \A i \in 1..Len(pending_ready[run]) : pending_ready[run][i].item = x => i < n
            /\ \A k \in 1..Len(local_ready) :
                  local_ready[k] = x => DueBefore(k, n, local_taken, pending_ready[run])
     BY <1>0, <1>t DEF BehindInQueue
   <4>3. \A p, q \in 1..Len(MergeGeneration(local_ready, local_taken, pending_ready[run])) :
            MergeGeneration(local_ready, local_taken, pending_ready[run])[p] = y
               /\ MergeGeneration(local_ready, local_taken, pending_ready[run])[q] = x => q < p
     BY <1>t, <1>q, <4>1, <4>2, MergeKeepsOrder
   <4> QED BY <2>1, <3>2, <4>3
  <3> QED BY <3>3, <3>4, <3>5
 <2> QED BY <1>1, <1>4, <1>c, <2>1 DEF BehindInBatch, Off
<1>6. BehindInQueue(x, y)'
 <2>1. ASSUME NEW r \in Runs, NEW j \in 1..Len(pending_ready'[r]), pending_ready'[r][j].item = y
       PROVE  /\ Off(x, disp_batch) /\ OffChannel(x)
              /\ \A s : Home(x, s)' => s = r
              /\ \A i \in 1..Len(pending_ready'[r]) : pending_ready'[r][i].item = x => i < j
  <3>1. pending_ready'[r] = pending_ready[r] BY <1>3, <2>1
  <3> QED BY <1>0, <1>h, <2>1, <3>1 DEF BehindInQueue
 <2> QED BY <1>1, <1>4, <1>c, <2>1 DEF BehindInQueue
<1>7. BehindWithDispatcher(x, y)' BY <1>0, <1>1, <1>4, <1>c, <1>h DEF BehindWithDispatcher
<1>8. BehindOnChannel(x, y)' BY <1>0, <1>1, <1>c, <1>h DEF BehindOnChannel, Carries
<1>9. BehindAtGate(x, y)' BY <1>0, <1>1, <1>c DEF BehindAtGate
<1> QED BY <1>4, <1>5, <1>6, <1>7, <1>8, <1>9 DEF Behind, Off

\* The end of a run puts back the batch, then both queues merged, in order.
LEMMA LeftoverKeepsBehind ==
    ASSUME TypeOK, RunsConsistent, NEW x, NEW y, Behind(x, y), keep_leftover,
           ready_batch # <<>> \/ local_ready # <<>>
    PROVE  Behind(x, y)'
<1> DEFINE g == MergeGeneration(local_ready, local_taken, pending_ready[run])
           w == ready_batch \o g
<1>0. /\ Off(y, local_ready) /\ BehindInBatch(x, y) /\ BehindInQueue(x, y)
      /\ BehindWithDispatcher(x, y) /\ BehindOnChannel(x, y) /\ BehindAtGate(x, y)
  BY DEF Behind
<1>1. /\ UNCHANGED <<run, disp_batch, command_channel, disp_pc, disp_mark, active_run,
                     active_ready_dispatch, call_pc, call_item>>
      /\ local_ready' = <<>> /\ ready_batch' = <<>> /\ loop_pc = "leftover"
      /\ pending_ready' = [pending_ready EXCEPT ![run] = Stamped(w, 0)]
  BY DEF Leftover
<1> HIDE DEF keep_leftover
<1>r. run \in Runs BY <1>1 DEF TypeOK, LoopType, RunsConsistent, LoopRun, Runs
<1>t. /\ run \in Runs /\ pending_ready \in [Runs -> Seq(QueueEntry)] /\ local_ready \in Seq(ReadyItem)
      /\ ready_batch \in Seq(ReadyItem)
      /\ local_taken \in Nat /\ pending_ready[run] \in Seq(QueueEntry)
  BY <1>r DEF TypeOK, PendingType, LoopType
<1>q. pending_ready[run] \in Seq([item : ReadyItem, mark : Nat]) BY <1>t DEF QueueEntry
<1>g. g \in Seq(ReadyItem) BY <1>t, <1>q, MergeType
<1>e. \A j \in 1..Len(g) : \/ \E k \in 1..Len(local_ready) : g[j] = local_ready[k]
                           \/ \E i \in 1..Len(pending_ready[run]) : g[j] = pending_ready[run][i].item
 <2>1. FromQueues(g, local_ready, pending_ready[run]) BY <1>t, <1>q, MergeElements
 <2> QED BY <2>1, Zenon DEF FromQueues
<1>o. \A p, q \in 1..Len(g) : g[p] = y /\ g[q] = x => q < p
 <2>1. \A k \in 1..Len(local_ready) : local_ready[k] # y BY <1>0 DEF Off
 <2>2. \A n \in 1..Len(pending_ready[run]) : pending_ready[run][n].item = y =>
          /\ \A i \in 1..Len(pending_ready[run]) : pending_ready[run][i].item = x => i < n
          /\ \A k \in 1..Len(local_ready) :
                local_ready[k] = x => DueBefore(k, n, local_taken, pending_ready[run])
   BY <1>0, <1>t DEF BehindInQueue
 <2> QED BY <1>t, <1>q, <2>1, <2>2, MergeKeepsOrder
<1> HIDE DEF g
<1>w. /\ Len(ready_batch) \in Nat /\ Len(g) \in Nat /\ w \in Seq(ReadyItem)
      /\ Len(w) = Len(ready_batch) + Len(g)
      /\ \A j \in 1..Len(w) :
            \/ j \in 1..Len(ready_batch) /\ w[j] = ready_batch[j]
            \/ j - Len(ready_batch) \in 1..Len(g) /\ w[j] = g[j - Len(ready_batch)]
  BY <1>t, <1>g, ConcatPlaces
<1> HIDE DEF w
<1>2. /\ Len(pending_ready'[run]) = Len(w)
      /\ \A j \in 1..Len(w) : pending_ready'[run][j].item = w[j]
      /\ \A r \in Runs : r # run => pending_ready'[r] = pending_ready[r]
  BY <1>1, <1>t, <1>w DEF Stamped
<1>4. \A k : ~(k \in 1..Len(local_ready')) /\ ~(k \in 1..Len(ready_batch')) BY <1>1
<1>5. \A j \in 1..Len(w) :
         \/ \E k \in 1..Len(ready_batch) : w[j] = ready_batch[k]
         \/ \E k \in 1..Len(local_ready) : w[j] = local_ready[k]
         \/ \E i \in 1..Len(pending_ready[run]) : w[j] = pending_ready[run][i].item
  BY <1>e, <1>w, Zenon
<1>h. \A s : Home(x, s)' => Home(x, s)
 <2>1. ASSUME NEW s, Home(x, s)' PROVE Home(x, s)
  <3>1. PICK i \in 1..Len(pending_ready'[s]) : s \in Runs /\ pending_ready'[s][i].item = x
    BY <1>4, <2>1 DEF Home, Off
  <3>2. CASE s # run BY <1>2, <3>1, <3>2 DEF Home
  <3>3. CASE s = run
   <4>1. i \in 1..Len(w) /\ w[i] = x BY <1>2, <3>1, <3>3
   <4> QED BY <1>5, <1>t, <3>3, <4>1 DEF Home, Off
  <3> QED BY <3>2, <3>3
 <2> QED BY <2>1
<1>c. OffChannel(x)' = OffChannel(x) /\ \A r, j : Reached(r, j)' = Reached(r, j)
  BY <1>1 DEF OffChannel, Carries, Reached
<1>6. BehindInQueue(x, y)'
 <2>1. ASSUME NEW r \in Runs, NEW j \in 1..Len(pending_ready'[r]), pending_ready'[r][j].item = y
       PROVE  /\ Off(x, disp_batch) /\ OffChannel(x)
              /\ \A s : Home(x, s) => s = r
              /\ \A i \in 1..Len(pending_ready'[r]) : pending_ready'[r][i].item = x => i < j
  <3>1. CASE r # run BY <1>0, <1>2, <2>1, <3>1 DEF BehindInQueue
  <3>2. CASE r = run
   <4>0. j \in 1..Len(w) /\ w[j] = y /\ \A i \in 1..Len(pending_ready'[r]) : i \in 1..Len(w) /\ pending_ready'[r][i].item = w[i]
     BY <1>2, <2>1, <3>2
   <4>1. CASE j \in 1..Len(ready_batch) /\ w[j] = ready_batch[j]
    <5>1. /\ \A i \in 1..Len(ready_batch) : ready_batch[i] = x => i < j
          /\ Off(x, local_ready) /\ Off(x, disp_batch) /\ OffChannel(x) /\ OffQueues(x)
      BY <1>0, <4>0, <4>1 DEF BehindInBatch
    <5>2. \A s \in Runs : \A i \in 1..Len(pending_ready[s]) : pending_ready[s][i].item # x
      BY <5>1 DEF OffQueues
    <5>3. \A s : Home(x, s) => s = r BY <3>2, <5>2 DEF Home
    <5>4. \A i \in 1..Len(w) : w[i] = x => i < j
     <6>1. \A i \in 1..Len(g) : g[i] # x BY <1>e, <1>r, <5>1, <5>2 DEF Off
     <6> QED BY <1>w, <5>1, <6>1
    <5> QED BY <4>0, <5>1, <5>3, <5>4
   <4>2. CASE j - Len(ready_batch) \in 1..Len(g) /\ w[j] = g[j - Len(ready_batch)]
    <5>1. PICK n \in 1..Len(pending_ready[run]) : pending_ready[run][n].item = y
      BY <1>0, <1>e, <4>0, <4>2 DEF Off
    <5>2. Off(x, disp_batch) /\ OffChannel(x) /\ \A s : Home(x, s) => s = run
      BY <1>0, <1>r, <5>1 DEF BehindInQueue
    <5>3. \A i \in 1..Len(w) : w[i] = x => i < j
     <6>1. ASSUME NEW i \in 1..Len(w), w[i] = x, i - Len(ready_batch) \in 1..Len(g),
                  w[i] = g[i - Len(ready_batch)]
           PROVE  i - Len(ready_batch) < j - Len(ready_batch)
       BY <1>o, <4>0, <4>2, <6>1
     <6> QED BY <1>w, <4>0, <4>2, <6>1
    <5> QED BY <3>2, <4>0, <5>2, <5>3
   <4> QED BY <1>w, <4>0, <4>1, <4>2
  <3> QED BY <3>1, <3>2
 <2> QED BY <1>1, <1>4, <1>c, <1>h, <2>1 DEF BehindInQueue
<1>7. BehindWithDispatcher(x, y)' BY <1>0, <1>1, <1>4, <1>c, <1>h DEF BehindWithDispatcher
<1>8. BehindOnChannel(x, y)' BY <1>0, <1>1, <1>c, <1>h DEF BehindOnChannel, Carries
<1>9. BehindAtGate(x, y)' BY <1>0, <1>1, <1>c DEF BehindAtGate
<1> QED BY <1>4, <1>6, <1>7, <1>8, <1>9 DEF Behind, BehindInBatch, Off

\* What the dispatcher forwards joins the queue of its run behind x.
LEMMA ForwardKeepsBehind ==
    ASSUME TypeOK, RunsConsistent, NEW x, NEW y, Behind(x, y), forward_ready_batch
    PROVE  Behind(x, y)'
<1>0. /\ Off(y, local_ready) /\ BehindInBatch(x, y) /\ BehindInQueue(x, y)
      /\ BehindWithDispatcher(x, y) /\ BehindOnChannel(x, y) /\ BehindAtGate(x, y)
  BY DEF Behind
<1>1. /\ UNCHANGED <<run, local_ready, ready_batch, local_taken, command_channel, active_run,
                     active_ready_dispatch, call_pc, call_item>>
      /\ disp_pc = "extend" /\ disp_pc' = "uncount" /\ disp_batch' = <<>>
      /\ pending_ready' = [pending_ready EXCEPT ![active_run] = @ \o Stamped(disp_batch, disp_mark)]
  BY DEF PendingExtend
<1> HIDE DEF forward_ready_batch
<1>t. /\ active_run \in Runs /\ pending_ready \in [Runs -> Seq(QueueEntry)]
      /\ disp_batch \in Seq(ReadyItem) /\ disp_mark \in Nat
  BY <1>1 DEF TypeOK, DispatcherType, PendingType, RunsConsistent, DispatcherRun, Runs
<1>s. /\ Stamped(disp_batch, disp_mark) \in Seq(QueueEntry)
      /\ Len(Stamped(disp_batch, disp_mark)) = Len(disp_batch)
      /\ \A j \in 1..Len(disp_batch) : /\ Stamped(disp_batch, disp_mark)[j].item = disp_batch[j]
                                       /\ Stamped(disp_batch, disp_mark)[j].mark = disp_mark
  BY <1>t, ItemsFacts DEF Stamped
<1>n. PICK n \in Nat : n = Len(pending_ready[active_run]) BY <1>t
<1>2. /\ \A r \in Runs : r # active_run => pending_ready'[r] = pending_ready[r]
      /\ \A j \in 1..Len(pending_ready'[active_run]) :
            \/ j \in 1..n /\ pending_ready'[active_run][j] = pending_ready[active_run][j]
            \/ /\ j \notin 1..n /\ j - n \in 1..Len(disp_batch)
               /\ pending_ready'[active_run][j].item = disp_batch[j - n]
               /\ pending_ready'[active_run][j].mark = disp_mark
      /\ \A j \in 1..n : pending_ready'[active_run][j] = pending_ready[active_run][j]
 <2>1. pending_ready'[active_run] = pending_ready[active_run] \o Stamped(disp_batch, disp_mark)
   BY <1>1, <1>t
 <2> DEFINE w == Stamped(disp_batch, disp_mark)
            v == pending_ready[active_run]
 <2>2. v \in Seq(QueueEntry) /\ w \in Seq(QueueEntry) BY <1>t, <1>s
 <2>3. Len(w) = Len(disp_batch) /\ \A j \in 1..Len(disp_batch) : w[j].item = disp_batch[j] /\ w[j].mark = disp_mark
   BY <1>s
 <2> HIDE DEF v, w
 <2>4. /\ \A j \in 1..Len(v) : (v \o w)[j] = v[j]
       /\ \A j \in 1..Len(v \o w) :
             \/ j \in 1..Len(v) /\ (v \o w)[j] = v[j]
             \/ j \notin 1..Len(v) /\ j - Len(v) \in 1..Len(w) /\ (v \o w)[j] = w[j - Len(v)]
   BY <2>2, ConcatPlaces
 <2>5. \A r \in Runs : r # active_run => pending_ready'[r] = pending_ready[r] BY <1>1, <1>t
 <2>6. pending_ready'[active_run] = v \o w /\ pending_ready[active_run] = v /\ Len(v) = n
   BY <1>n, <2>1 DEF v, w
 <2> QED BY <2>3, <2>4, <2>5, <2>6
<1>h. \A s : Home(x, s)' => Home(x, s) \/ (s = active_run /\ ~Off(x, disp_batch))
 <2>1. ASSUME NEW s \in Runs, NEW i \in 1..Len(pending_ready'[s]), pending_ready'[s][i].item = x
       PROVE  Home(x, s) \/ (s = active_run /\ ~Off(x, disp_batch))
  <3>1. CASE s # active_run BY <1>2, <2>1, <3>1 DEF Home
  <3>2. CASE s = active_run BY <1>2, <1>n, <2>1, <3>2 DEF Home, Off
  <3> QED BY <3>1, <3>2
 <2> QED BY <1>1, <2>1 DEF Home
<1>c. OffChannel(x)' = OffChannel(x) /\ \A r, j : Reached(r, j)' = Reached(r, j)
  BY <1>1 DEF OffChannel, Carries, Reached
<1>5. BehindInBatch(x, y)'
 <2>1. ASSUME OffQueues(x), Off(x, disp_batch) PROVE OffQueues(x)'
   BY <1>2, <1>n, <2>1 DEF OffQueues, Off
 <2> QED BY <1>0, <1>1, <1>c, <2>1 DEF BehindInBatch, Off
<1>6. BehindInQueue(x, y)'
 <2>1. ASSUME NEW r \in Runs, NEW j \in 1..Len(pending_ready'[r]), pending_ready'[r][j].item = y
       PROVE  /\ OffChannel(x) /\ \A s : Home(x, s)' => s = r
              /\ \A i \in 1..Len(pending_ready'[r]) : pending_ready'[r][i].item = x => i < j
              /\ \A k \in 1..Len(local_ready) :
                    local_ready[k] = x => DueBefore(k, j, local_taken, pending_ready'[r])
  <3>1. CASE r # active_run
   <4>1. pending_ready'[r] = pending_ready[r] BY <1>2, <3>1
   <4> QED BY <1>0, <1>h, <2>1, <4>1 DEF BehindInQueue
  <3>2. CASE r = active_run /\ j \in 1..n
   <4>1. pending_ready[r][j].item = y /\ j \in 1..Len(pending_ready[r]) BY <1>2, <1>n, <2>1, <3>2
   <4>2. /\ Off(x, disp_batch) /\ OffChannel(x) /\ \A s : Home(x, s) => s = r
         /\ \A i \in 1..n : pending_ready[r][i].item = x => i < j
         /\ \A k \in 1..Len(local_ready) :
               local_ready[k] = x => DueBefore(k, j, local_taken, pending_ready[r])
     BY <1>0, <1>n, <3>2, <4>1 DEF BehindInQueue
   <4>3. \A i \in 1..j : pending_ready'[r][i] = pending_ready[r][i] BY <1>2, <3>2
   <4>4. \A i \in 1..Len(pending_ready'[r]) : pending_ready'[r][i].item = x => i < j
     BY <1>2, <3>2, <4>2 DEF Off
   <4> QED BY <1>h, <4>2, <4>3, <4>4 DEF DueBefore
  <3>3. CASE r = active_run /\ j \notin 1..n
   <4>1. /\ j - n \in 1..Len(disp_batch) /\ disp_batch[j - n] = y /\ pending_ready'[r][j].mark = disp_mark
     BY <1>2, <2>1, <3>3
   <4>2. /\ OffChannel(x) /\ \A s : Home(x, s) => s = r
         /\ \A i \in 1..Len(disp_batch) : disp_batch[i] = x => i < j - n
         /\ \A k \in 1..Len(local_ready) : local_ready[k] = x => local_taken + k <= disp_mark
     BY <1>0, <1>1, <3>3, <4>1 DEF BehindWithDispatcher
   <4>3. \A i \in 1..Len(pending_ready'[r]) : pending_ready'[r][i].item = x => i < j
    <5>1. ASSUME NEW i \in 1..Len(pending_ready'[r]), pending_ready'[r][i].item = x PROVE i < j
     <6>1. CASE i \in 1..n BY <2>1, <3>3, <6>1
     <6>2. CASE i - n \in 1..Len(disp_batch) /\ pending_ready'[r][i].item = disp_batch[i - n]
      <7>1. i - n < j - n BY <4>2, <5>1, <6>2
      <7> QED BY <2>1, <5>1, <7>1
     <6> QED BY <1>2, <3>3, <6>1, <6>2
    <5> QED BY <5>1
   <4>4. j \in 1..j BY <2>1
   <4> QED BY <1>h, <3>3, <4>1, <4>2, <4>3, <4>4 DEF DueBefore
  <3> QED BY <3>1, <3>2, <3>3
 <2>2. Off(x, disp_batch') BY <1>1 DEF Off
 <2> QED BY <1>1, <1>c, <2>1, <2>2 DEF BehindInQueue
<1>7. BehindWithDispatcher(x, y)' BY <1>1 DEF BehindWithDispatcher
<1>8. BehindOnChannel(x, y)'
 <2>1. Reached(active_run, 1) /\ \A j : Reached(active_run, j) BY DEF Reached
 <2> QED BY <1>0, <1>1, <1>c, <1>h, <2>1 DEF BehindOnChannel, Carries
<1>9. BehindAtGate(x, y)' BY <1>0, <1>1, <1>c DEF BehindAtGate, Off
<1> QED BY <1>0, <1>1, <1>5, <1>6, <1>7, <1>8, <1>9 DEF Behind

\* What finish_run takes back goes ahead of what the channel delivered.
LEMMA FinishKeepsBehind ==
    ASSUME TypeOK, RunsConsistent, EnterOrder, EndsBeforeEnter, OpenQueue, OwnQueues, Intact,
           NEW x, NEW y, Behind(x, y), handle_finish_run
    PROVE  Behind(x, y)'
<1>0. /\ Off(y, local_ready) /\ BehindInBatch(x, y) /\ BehindInQueue(x, y)
      /\ BehindWithDispatcher(x, y) /\ BehindOnChannel(x, y) /\ BehindAtGate(x, y)
  BY DEF Behind
<1>1. /\ UNCHANGED <<run, local_ready, ready_batch, local_taken, active_ready_dispatch, call_pc, call_item>>
      /\ command_channel # <<>> /\ Head(command_channel).op = "finish"
      /\ command_channel' = Tail(command_channel)
      /\ active_run' = 0 /\ disp_pc' \in {"ack", "reset"}
      /\ \/ active_run = 0 /\ UNCHANGED <<pending_ready, disp_batch>>
         \/ /\ active_run # 0
            /\ disp_batch' = Items(pending_ready[active_run]) \o disp_batch
            /\ pending_ready' = [pending_ready EXCEPT ![active_run] = <<>>]
  OBVIOUS
<1> HIDE DEF handle_finish_run
<1>t. /\ pending_ready \in [Runs -> Seq(QueueEntry)] /\ disp_batch \in Seq(ReadyItem)
      /\ (active_run # 0 => active_run \in Runs) /\ 0 \notin Runs
  BY DEF TypeOK, DispatcherType, PendingType, Runs
<1>f. (InRun => active_run # run) /\ ~active_ready_dispatch.accepting BY <1>1, FinishesBehind
<1>g. run = active_run => Off(x, ready_batch) /\ Off(x, local_ready)
  BY <1>f DEF OwnQueues, InRun, Off
<1>2. PICK n \in Nat :
      /\ \A j \in 1..Len(disp_batch') :
            \/ /\ j \in 1..n /\ active_run \in Runs /\ j \in 1..Len(pending_ready[active_run])
               /\ disp_batch'[j] = pending_ready[active_run][j].item
            \/ j \notin 1..n /\ j - n \in 1..Len(disp_batch) /\ disp_batch'[j] = disp_batch[j - n]
      /\ \A r \in Runs : r # active_run => pending_ready'[r] = pending_ready[r]
      /\ \A r \in Runs : r = active_run => pending_ready'[r] = <<>>
 <2>1. CASE active_run = 0 /\ UNCHANGED <<pending_ready, disp_batch>>
  <3>1. \A j \in 1..Len(disp_batch) : j \notin 1..0 /\ j - 0 = j BY <1>t
  <3>2. 0 \in Nat OBVIOUS
  <3> QED BY <1>t, <2>1, <3>1, <3>2
 <2>2. CASE /\ active_run # 0
            /\ disp_batch' = Items(pending_ready[active_run]) \o disp_batch
            /\ pending_ready' = [pending_ready EXCEPT ![active_run] = <<>>]
   <3> DEFINE v == Items(pending_ready[active_run])
  <3>1. pending_ready[active_run] \in Seq(QueueEntry) /\ active_run \in Runs BY <1>t, <2>2
  <3>2. /\ v \in Seq(ReadyItem) /\ Len(v) = Len(pending_ready[active_run])
        /\ \A j \in 1..Len(v) : v[j] = pending_ready[active_run][j].item
    BY <3>1, ItemsFacts DEF Items
  <3>3. disp_batch' = v \o disp_batch BY <2>2
  <3> HIDE DEF v
  <3>4. /\ Len(v) \in Nat
        /\ \A j \in 1..Len(v \o disp_batch) :
              \/ j \in 1..Len(v) /\ (v \o disp_batch)[j] = v[j]
              \/ /\ j \notin 1..Len(v) /\ j - Len(v) \in 1..Len(disp_batch)
                 /\ (v \o disp_batch)[j] = disp_batch[j - Len(v)]
    BY <1>t, <3>2, ConcatPlaces
  <3>5. \A r \in Runs : IF r = active_run THEN pending_ready'[r] = <<>> ELSE pending_ready'[r] = pending_ready[r]
    BY <1>t, <2>2
  <3> QED BY <3>1, <3>2, <3>3, <3>4, <3>5
 <2> QED BY <1>1, <2>1, <2>2
<1>h. \A s : Home(x, s)' => Home(x, s) /\ s # active_run
 <2>1. ASSUME NEW s \in Runs, NEW i \in 1..Len(pending_ready'[s]), pending_ready'[s][i].item = x
       PROVE  Home(x, s) /\ s # active_run
  <3>1. s # active_run BY <1>2, <2>1
  <3> QED BY <1>2, <2>1, <3>1 DEF Home
 <2> QED BY <1>1, <1>g, <2>1 DEF Home
<1>p. /\ \A i \in 1..Len(command_channel') : i + 1 \in 1..Len(command_channel) /\ command_channel'[i] = command_channel[i + 1]
      /\ OffChannel(x) => OffChannel(x)'
 <2>1. \A i \in 1..Len(command_channel') : i + 1 \in 1..Len(command_channel) /\ command_channel'[i] = command_channel[i + 1]
   BY <1>1, PlacesAfterTail
 <2> QED BY <2>1 DEF OffChannel, Carries
<1>q. \A r \in Runs : \A i \in 1..Len(pending_ready'[r]) : r # active_run /\ pending_ready'[r] = pending_ready[r]
  BY <1>2
<1>5. BehindInBatch(x, y)'
 <2>1. ASSUME OffQueues(x), Off(x, disp_batch) PROVE OffQueues(x)' /\ Off(x, disp_batch')
   BY <1>2, <1>q, <2>1 DEF OffQueues, Off
 <2> QED BY <1>0, <1>1, <1>p, <2>1 DEF BehindInBatch
<1>6. BehindInQueue(x, y)'
 <2>1. ASSUME NEW r \in Runs, NEW j \in 1..Len(pending_ready'[r]), pending_ready'[r][j].item = y
       PROVE  /\ Off(x, disp_batch') /\ OffChannel(x)
              /\ \A s : Home(x, s) => s = r
              /\ \A i \in 1..Len(pending_ready'[r]) : pending_ready'[r][i].item = x => i < j
              /\ \A k \in 1..Len(local_ready) :
                    local_ready[k] = x => DueBefore(k, j, local_taken, pending_ready'[r])
  <3>1. r # active_run /\ pending_ready'[r] = pending_ready[r] BY <1>q, <2>1
  <3>2. /\ Off(x, disp_batch) /\ OffChannel(x)
        /\ \A s : Home(x, s) => s = r
        /\ \A i \in 1..Len(pending_ready'[r]) : pending_ready'[r][i].item = x => i < j
        /\ \A k \in 1..Len(local_ready) :
              local_ready[k] = x => DueBefore(k, j, local_taken, pending_ready'[r])
    BY <1>0, <2>1, <3>1 DEF BehindInQueue
  <3>3. Off(x, disp_batch') BY <1>2, <3>1, <3>2 DEF Off, Home
  <3> QED BY <3>2, <3>3
 <2> QED BY <1>1, <1>h, <1>p, <2>1 DEF BehindInQueue
<1>7. BehindWithDispatcher(x, y)'
 <2>1. ASSUME NEW j \in 1..Len(disp_batch'), disp_batch'[j] = y
       PROVE  /\ OffChannel(x) /\ \A s : Home(x, s) => s = active_run
              /\ \A i \in 1..Len(disp_batch') : disp_batch'[i] = x => i < j
  <3>1. CASE j \in 1..n /\ active_run \in Runs /\ j \in 1..Len(pending_ready[active_run])
             /\ disp_batch'[j] = pending_ready[active_run][j].item
   <4>1. /\ Off(x, disp_batch) /\ OffChannel(x) /\ \A s : Home(x, s) => s = active_run
         /\ \A i \in 1..Len(pending_ready[active_run]) : pending_ready[active_run][i].item = x => i < j
     BY <1>0, <2>1, <3>1 DEF BehindInQueue
   <4> QED BY <1>2, <4>1 DEF Off
  <3>2. CASE j \notin 1..n /\ j - n \in 1..Len(disp_batch) /\ disp_batch'[j] = disp_batch[j - n]
   <4>1. /\ OffChannel(x) /\ \A s : Home(x, s) => s = active_run
         /\ \A i \in 1..Len(disp_batch) : disp_batch[i] = x => i < j - n
     BY <1>0, <2>1, <3>2 DEF BehindWithDispatcher
   <4>2. ASSUME NEW i \in 1..Len(disp_batch'), disp_batch'[i] = x PROVE i < j
    <5>1. CASE i \in 1..n BY <2>1, <3>2, <5>1
    <5>2. CASE i - n \in 1..Len(disp_batch) /\ disp_batch'[i] = disp_batch[i - n]
     <6>1. i - n < j - n BY <4>1, <4>2, <5>2
     <6> QED BY <2>1, <4>2, <6>1
    <5> QED BY <1>2, <5>1, <5>2
   <4> QED BY <4>1, <4>2
  <3> QED BY <1>2, <3>1, <3>2
 <2>2. disp_pc' # "extend" BY <1>1
 <2> QED BY <1>h, <1>p, <2>1, <2>2 DEF BehindWithDispatcher
<1>8. BehindOnChannel(x, y)'
 <2>1. ASSUME NEW j \in 1..Len(command_channel'), Carries(j, y)'
       PROVE  /\ \A i \in 1..Len(command_channel') : Carries(i, x)' => i < j
              /\ \A s : Home(x, s)' => Reached(s, j)'
  <3>1. j + 1 \in 1..Len(command_channel) /\ Carries(j + 1, y) /\ j \in Nat
    BY <1>p, <2>1 DEF Carries
  <3>2. /\ \A i \in 1..Len(command_channel) : Carries(i, x) => i < j + 1
        /\ \A s : Home(x, s) => Reached(s, j + 1)
    BY <1>0, <3>1 DEF BehindOnChannel
  <3>3. \A i \in 1..Len(command_channel') : Carries(i, x)' => i < j
   <4>1. ASSUME NEW i \in 1..Len(command_channel'), Carries(i, x)' PROVE i + 1 < j + 1
     BY <1>p, <3>2, <4>1 DEF Carries
   <4> QED BY <3>1, <4>1
  <3>4. ASSUME NEW s, Home(x, s)' PROVE Reached(s, j)'
   <4>1. s # active_run /\ Reached(s, j + 1) BY <1>h, <3>2, <3>4
   <4> QED BY <1>1, <3>1, <4>1, ReachedAfterReceive
  <3> QED BY <3>3, <3>4
 <2> QED BY <2>1 DEF BehindOnChannel
<1>9. BehindAtGate(x, y)' BY <1>0, <1>1, <1>f, <1>p DEF BehindAtGate
<1> QED BY <1>0, <1>1, <1>5, <1>6, <1>7, <1>8, <1>9 DEF Behind

\* A command the dispatcher receives joins what it holds, at the end.
LEMMA ReceiveKeepsBehind ==
    ASSUME TypeOK, NEW x, NEW y, Behind(x, y), handle_ready
    PROVE  Behind(x, y)'
<1>0. /\ Off(y, local_ready) /\ BehindInBatch(x, y) /\ BehindInQueue(x, y)
      /\ BehindWithDispatcher(x, y) /\ BehindOnChannel(x, y) /\ BehindAtGate(x, y)
  BY DEF Behind
<1>1. /\ UNCHANGED <<run, local_ready, ready_batch, local_taken, pending_ready, active_run,
                     active_ready_dispatch, call_pc, call_item, disp_pc>>
      /\ command_channel # <<>> /\ Head(command_channel).op = "ready" /\ disp_pc = "drain"
      /\ command_channel' = Tail(command_channel)
      /\ disp_batch' = Append(disp_batch, Head(command_channel).item)
  OBVIOUS
<1> HIDE DEF handle_ready
<1>n. PICK n \in Nat : n = Len(disp_batch) BY DEF TypeOK, DispatcherType
<1>2. /\ \A j \in 1..Len(disp_batch') :
            \/ j \in 1..n /\ disp_batch'[j] = disp_batch[j]
            \/ j = n + 1 /\ disp_batch'[j] = Head(command_channel).item
  BY <1>1, <1>n DEF TypeOK, DispatcherType
<1>p. /\ 1 \in 1..Len(command_channel) /\ Head(command_channel) = command_channel[1]
      /\ \A i \in 1..Len(command_channel') : i + 1 \in 1..Len(command_channel) /\ command_channel'[i] = command_channel[i + 1]
  BY <1>1, PlacesAfterTail
<1>o. OffChannel(x) => OffChannel(x)' /\ Head(command_channel).item # x
  BY <1>1, <1>p DEF OffChannel, Carries
<1>h. \A s : Home(x, s)' = Home(x, s) BY <1>1 DEF Home
<1>d. Off(x, disp_batch) /\ OffChannel(x) => Off(x, disp_batch') BY <1>2, <1>n, <1>o DEF Off
<1>3. BehindInBatch(x, y)' BY <1>0, <1>1, <1>o, <1>d DEF BehindInBatch, OffQueues
<1>4. BehindInQueue(x, y)' BY <1>0, <1>1, <1>o, <1>d, <1>h DEF BehindInQueue
<1>5. BehindWithDispatcher(x, y)'
 <2>1. ASSUME NEW j \in 1..Len(disp_batch'), disp_batch'[j] = y
       PROVE  /\ OffChannel(x)' /\ \A s : Home(x, s) => s = active_run
              /\ \A i \in 1..Len(disp_batch') : disp_batch'[i] = x => i < j
  <3>1. CASE j \in 1..n /\ disp_batch'[j] = disp_batch[j]
   <4>1. /\ OffChannel(x) /\ \A s : Home(x, s) => s = active_run
         /\ \A i \in 1..n : disp_batch[i] = x => i < j
     BY <1>0, <1>n, <2>1, <3>1 DEF BehindWithDispatcher
   <4> QED BY <1>2, <1>o, <4>1
  <3>2. CASE j = n + 1 /\ disp_batch'[j] = Head(command_channel).item
   <4>1. /\ \A i \in 1..Len(command_channel) : Carries(i, x) => i < 1
         /\ \A s : Home(x, s) => Reached(s, 1)
     BY <1>0, <1>1, <1>p, <2>1, <3>2 DEF BehindOnChannel, Carries
   <4>2. OffChannel(x) /\ \A s : Home(x, s) => s = active_run BY <4>1 DEF OffChannel, Reached
   <4> QED BY <1>2, <1>o, <3>2, <4>2
  <3> QED BY <1>2, <2>1, <3>1, <3>2
 <2> QED BY <1>1, <1>h, <2>1 DEF BehindWithDispatcher
<1>6. BehindOnChannel(x, y)'
 <2>1. ASSUME NEW j \in 1..Len(command_channel'), Carries(j, y)'
       PROVE  /\ \A i \in 1..Len(command_channel') : Carries(i, x)' => i < j
              /\ \A s : Home(x, s)' => Reached(s, j)'
  <3>1. j + 1 \in 1..Len(command_channel) /\ Carries(j + 1, y) /\ j \in Nat
    BY <1>p, <2>1 DEF Carries
  <3>2. /\ \A i \in 1..Len(command_channel) : Carries(i, x) => i < j + 1
        /\ \A s : Home(x, s) => Reached(s, j + 1)
    BY <1>0, <3>1 DEF BehindOnChannel
  <3>3. ASSUME NEW i \in 1..Len(command_channel'), Carries(i, x)' PROVE i + 1 < j + 1
    BY <1>p, <3>2, <3>3 DEF Carries
  <3>4. \A s : Home(x, s)' => Reached(s, j)' BY <1>1, <1>h, <3>1, <3>2, ReachedAfterReceive
  <3> QED BY <3>1, <3>3, <3>4
 <2> QED BY <2>1 DEF BehindOnChannel
<1>7. BehindAtGate(x, y)' BY <1>0, <1>1, <1>o, <1>d DEF BehindAtGate
<1> QED BY <1>0, <1>1, <1>3, <1>4, <1>5, <1>6, <1>7 DEF Behind

\* EnterRun opens a run for what the dispatcher held between runs.
LEMMA EnterKeepsBehind ==
    ASSUME TypeOK, RunsConsistent, OwnQueues, RunsAlternate, Intact,
           NEW x, NEW y, Behind(x, y), handle_enter_run
    PROVE  Behind(x, y)'
<1>0. /\ Off(y, local_ready) /\ BehindInBatch(x, y) /\ BehindInQueue(x, y)
      /\ BehindWithDispatcher(x, y) /\ BehindOnChannel(x, y) /\ BehindAtGate(x, y)
  BY DEF Behind
<1>1. /\ UNCHANGED <<run, local_ready, ready_batch, local_taken, pending_ready, disp_batch,
                     active_ready_dispatch, call_pc, call_item>>
      /\ command_channel # <<>> /\ Head(command_channel).op = "enter"
      /\ command_channel' = Tail(command_channel) /\ active_run' = Head(command_channel).run
  OBVIOUS
<1> HIDE DEF handle_enter_run
<1>2. active_run = 0 BY <1>1, EntersFromNone
<1>p. /\ \A i \in 1..Len(command_channel') : i + 1 \in 1..Len(command_channel) /\ command_channel'[i] = command_channel[i + 1]
      /\ OffChannel(x) => OffChannel(x)'
 <2>1. \A i \in 1..Len(command_channel') : i + 1 \in 1..Len(command_channel) /\ command_channel'[i] = command_channel[i + 1]
   BY <1>1, PlacesAfterTail
 <2> QED BY <2>1 DEF OffChannel, Carries
<1>h. \A s : Home(x, s)' = Home(x, s) BY <1>1 DEF Home
<1>z. \A s : Home(x, s) => s # 0
 <2>1. (Off(x, ready_batch) /\ Off(x, local_ready)) \/ run # 0
   BY DEF OwnQueues, Off, RunsConsistent, LoopRun, Serving
 <2> QED BY <2>1 DEF Home, Runs
<1>3. BehindInBatch(x, y)' BY <1>0, <1>1, <1>p DEF BehindInBatch, OffQueues
<1>4. BehindInQueue(x, y)' BY <1>0, <1>1, <1>p, <1>h DEF BehindInQueue
<1>5. BehindWithDispatcher(x, y)'
 <2>1. ASSUME NEW j \in 1..Len(disp_batch), disp_batch[j] = y
       PROVE  /\ OffChannel(x)' /\ (\A s : ~Home(x, s))
              /\ \A i \in 1..Len(disp_batch) : disp_batch[i] = x => i < j
   BY <1>0, <1>2, <1>p, <1>z, <2>1 DEF BehindWithDispatcher
 <2>2. ASSUME \A s : ~Home(x, s) PROVE Off(x, local_ready) BY <2>2 DEF Home
 <2> QED BY <1>1, <1>h, <2>1, <2>2 DEF BehindWithDispatcher, Off
<1>6. BehindOnChannel(x, y)'
 <2>1. ASSUME NEW j \in 1..Len(command_channel'), Carries(j, y)'
       PROVE  /\ \A i \in 1..Len(command_channel') : Carries(i, x)' => i < j
              /\ \A s : Home(x, s)' => Reached(s, j)'
  <3>1. j + 1 \in 1..Len(command_channel) /\ Carries(j + 1, y) /\ j \in Nat
    BY <1>p, <2>1 DEF Carries
  <3>2. /\ \A i \in 1..Len(command_channel) : Carries(i, x) => i < j + 1
        /\ \A s : Home(x, s) => Reached(s, j + 1)
    BY <1>0, <3>1 DEF BehindOnChannel
  <3>3. ASSUME NEW i \in 1..Len(command_channel'), Carries(i, x)' PROVE i + 1 < j + 1
    BY <1>p, <3>2, <3>3 DEF Carries
  <3>4. \A s : Home(x, s)' => Reached(s, j)'
    BY <1>1, <1>2, <1>h, <1>z, <3>1, <3>2, ReachedAfterReceive
  <3> QED BY <3>1, <3>3, <3>4
 <2> QED BY <2>1 DEF BehindOnChannel
<1>7. BehindAtGate(x, y)' BY <1>0, <1>1, <1>p DEF BehindAtGate
<1> QED BY <1>0, <1>1, <1>3, <1>4, <1>5, <1>6, <1>7 DEF Behind

\* A callback waits for a run that the dispatcher is in or will enter.
LEMMA HomeReached ==
    ASSUME TypeOK, RunsConsistent, OwnQueues, QueuesReached, Intact, NEW x
    PROVE  \A s : Home(x, s) => s \in Runs /\ WillReach(s)
<1>1. \A s \in Runs : \A i \in 1..Len(pending_ready[s]) : pending_ready[s] # <<>>
  BY DEF TypeOK, PendingType
<1>2. ~(Off(x, ready_batch) /\ Off(x, local_ready)) => (Serving \/ loop_pc = "leftover") /\ run \in Runs
 <2>1. ~(Off(x, ready_batch) /\ Off(x, local_ready)) => (Serving \/ loop_pc = "leftover")
   BY DEF OwnQueues, Off
 <2>2. Serving \/ loop_pc = "leftover" => run \in Runs
   BY DEF RunsConsistent, LoopRun, Serving, TypeOK, LoopType, Runs
 <2> QED BY <2>1, <2>2
<1> QED BY <1>1, <1>2 DEF Home, QueuesReached

\* A handle that the open queue accepts joins it behind x.
LEMMA EnqueueKeepsBehind ==
    ASSUME TypeOK, RunsConsistent, EnterOrder, OpenQueue, OwnQueues, LocalNumbering, TlsServing,
           QueuesReached, Intact, NEW x, NEW y, Behind(x, y), NEW t \in Callers,
           try_enqueue_active_ready(t), active_ready_dispatch.accepting, call_item[t] # x
    PROVE  Behind(x, y)'
<1>0. /\ Off(y, local_ready) /\ BehindInBatch(x, y) /\ BehindInQueue(x, y)
      /\ BehindWithDispatcher(x, y) /\ BehindOnChannel(x, y) /\ BehindAtGate(x, y)
  BY DEF Behind
<1>a. active_run = run /\ active_ready_dispatch.run = run /\ run # 0 BY DEF OpenQueue
<1>1. /\ UNCHANGED <<run, local_ready, ready_batch, local_taken, disp_batch, active_run, disp_pc, disp_mark,
                     command_channel, active_ready_dispatch, call_item>>
      /\ call_pc[t] = "active" /\ call_pc' = [call_pc EXCEPT ![t] = "signal"]
      /\ pending_ready' = [pending_ready EXCEPT ![run] =
                               Append(@, [item |-> call_item[t], mark |-> local_enqueues])]
  BY <1>a DEF PendingPush
<1> HIDE DEF try_enqueue_active_ready
<1>t. run \in Runs /\ pending_ready \in [Runs -> Seq(QueueEntry)]
  BY <1>a DEF TypeOK, LoopType, PendingType, Runs
<1>n. PICK n \in Nat : n = Len(pending_ready[run]) BY <1>t
<1>2. /\ \A r \in Runs : r # run => pending_ready'[r] = pending_ready[r]
      /\ \A j \in 1..n : pending_ready'[run][j] = pending_ready[run][j]
      /\ \A j \in 1..Len(pending_ready'[run]) :
            \/ j \in 1..n
            \/ /\ j = n + 1 /\ pending_ready'[run][j].item = call_item[t]
               /\ pending_ready'[run][j].mark = local_enqueues
 <2>1. pending_ready'[run] = Append(pending_ready[run], [item |-> call_item[t], mark |-> local_enqueues])
   BY <1>1, <1>t
 <2>2. pending_ready[run] \in Seq(QueueEntry) BY <1>t
 <2>3. \A r \in Runs : r # run => pending_ready'[r] = pending_ready[r] BY <1>1, <1>t
 <2> QED BY <1>n, <2>1, <2>2, <2>3
<1>x. \A r \in Runs : \A i \in 1..Len(pending_ready'[r]) : pending_ready'[r][i].item = x =>
         i \in 1..Len(pending_ready[r]) /\ pending_ready[r][i].item = x
  BY <1>2, <1>n
<1>h. \A s : Home(x, s)' => Home(x, s) BY <1>1, <1>x DEF Home
<1>c. OffChannel(x)' = OffChannel(x) /\ \A r, j : Reached(r, j)' = Reached(r, j)
  BY <1>1 DEF OffChannel, Carries, Reached
<1>3. BehindInBatch(x, y)' BY <1>0, <1>1, <1>c, <1>x DEF BehindInBatch, OffQueues
<1>4. BehindInQueue(x, y)'
 <2>1. ASSUME NEW r \in Runs, NEW j \in 1..Len(pending_ready'[r]), pending_ready'[r][j].item = y
       PROVE  /\ Off(x, disp_batch) /\ OffChannel(x) /\ \A s : Home(x, s) => s = r
              /\ \A i \in 1..Len(pending_ready'[r]) : pending_ready'[r][i].item = x => i < j
              /\ \A k \in 1..Len(local_ready) :
                    local_ready[k] = x => DueBefore(k, j, local_taken, pending_ready'[r])
  <3>1. CASE j \in 1..Len(pending_ready[r]) /\ \A i \in 1..j : pending_ready'[r][i] = pending_ready[r][i]
   <4>1. j \in 1..j BY <2>1
   <4>2. /\ Off(x, disp_batch) /\ OffChannel(x) /\ \A s : Home(x, s) => s = r
         /\ \A i \in 1..Len(pending_ready[r]) : pending_ready[r][i].item = x => i < j
         /\ \A k \in 1..Len(local_ready) :
               local_ready[k] = x => DueBefore(k, j, local_taken, pending_ready[r])
     BY <1>0, <2>1, <3>1, <4>1 DEF BehindInQueue
   <4> QED BY <1>x, <3>1, <4>2 DEF DueBefore
  <3>2. CASE r = run /\ j = n + 1 /\ y = call_item[t] /\ pending_ready'[r][j].mark = local_enqueues
   <4>1. Off(x, disp_batch) /\ OffChannel(x) BY <1>0, <1>1, <3>2 DEF BehindAtGate
   <4>2. ASSUME NEW s, Home(x, s) PROVE s = r
    <5>1. s \in Runs /\ WillReach(s) BY <4>2, HomeReached
    <5>2. ASSUME NEW i \in 1..Len(command_channel), command_channel[i].op = "enter", command_channel[i].run = s
          PROVE  FALSE
     <6>1. active_run < s /\ s <= run /\ run \in Nat
       BY <5>2 DEF EnterOrder, RunsConsistent, ActiveRun, Entered, TypeOK, LoopType
     <6> QED BY <1>a, <5>1, <6>1 DEF Runs
    <5> QED BY <1>a, <3>2, <5>1, <5>2 DEF WillReach
   <4>3. ASSUME NEW k \in 1..Len(local_ready) PROVE local_taken + k <= local_enqueues
    <5>1. local_ready \in Seq(ReadyItem) /\ local_taken \in Nat /\ local_enqueues \in Nat
      BY DEF TypeOK, LoopType, FlagType
    <5>2. tls_queue /\ loop_pc # "returned_early"
      BY <4>3, <5>1 DEF OwnQueues, TlsServing, Intact
    <5>3. local_taken + Len(local_ready) = local_enqueues BY <5>2 DEF LocalNumbering
    <5> QED BY <4>3, <5>1, <5>3
   <4>4. j \in 1..j /\ \A i \in 1..Len(pending_ready[r]) : i < j BY <1>n, <3>2
   <4> QED BY <1>x, <3>2, <4>1, <4>2, <4>3, <4>4 DEF DueBefore
  <3>3. r # run => (j \in 1..Len(pending_ready[r]) /\ \A i \in 1..j : pending_ready'[r][i] = pending_ready[r][i])
    BY <1>2, <2>1
  <3>4. r = run /\ j \in 1..n => (j \in 1..Len(pending_ready[r]) /\ \A i \in 1..j : pending_ready'[r][i] = pending_ready[r][i])
    BY <1>2, <1>n, <2>1
  <3> QED BY <1>2, <2>1, <3>1, <3>2, <3>3, <3>4
 <2> QED BY <1>1, <1>c, <1>h, <2>1 DEF BehindInQueue
<1>5. BehindWithDispatcher(x, y)' BY <1>0, <1>1, <1>c, <1>h DEF BehindWithDispatcher
<1>6. BehindOnChannel(x, y)' BY <1>0, <1>1, <1>c, <1>h DEF BehindOnChannel, Carries
<1>7. BehindAtGate(x, y)'
 <2>1. \A u \in Callers : call_pc'[u] = "active" => call_pc[u] = "active"
   BY <1>1 DEF TypeOK, CallerType
 <2> QED BY <1>0, <1>1, <1>c, <2>1 DEF BehindAtGate
<1> QED BY <1>0, <1>1, <1>3, <1>4, <1>5, <1>6, <1>7 DEF Behind

\* What the order needs of the engine, all of it invariant.
OrderBase ==
    /\ TypeOK /\ RunsConsistent /\ LocalNumbering /\ GateInvariant /\ ConservationInvariant
    /\ RunsAlternate /\ QueuesReached /\ TlsServing

\* With a zero count, no callback is where the gate would let y pass it.
LEMMA GateClear ==
    ASSUME TypeOK, GateInvariant, channel_handles = 0, NEW x \in Callback
    PROVE  OffChannel(x) /\ (active_ready_dispatch.accepting => Off(x, disp_batch))
<1>0. /\ command_channel \in Seq(Command) /\ disp_batch \in Seq(ReadyItem) /\ disp_handles \in Nat
  BY DEF TypeOK, ChannelType, DispatcherType
<1>1. Cardinality(Sending) \in Nat
 <2>1. IsFiniteSet(Callers) /\ Sending \in SUBSET Callers BY FS_AddElement DEF Callers, Sending
 <2>2. IsFiniteSet(Sending) BY <2>1, FS_Subset
 <2> QED BY <2>2, FS_CardinalityType
<1>2. CountIn(command_channel, HandleCommands) \in Nat /\ CountIn(disp_batch, Callback) \in Nat
  BY <1>0, CountType
<1>3. CountIn(command_channel, HandleCommands) = 0 /\ disp_handles = 0
  BY <1>0, <1>1, <1>2 DEF GateInvariant, HandlesCounted
<1>4. \A i \in 1..Len(command_channel) : command_channel[i] \in Command /\ command_channel[i] \notin HandleCommands
  BY <1>0, <1>3, CountType, ElementOfSeq
<1>5. x # StopItem BY QueueChanges
<1>6. OffChannel(x) BY <1>4, <1>5 DEF OffChannel, Carries, HandleCommands
<1>7. ASSUME active_ready_dispatch.accepting PROVE Off(x, disp_batch)
 <2>1. CountIn(disp_batch, Callback) = 0 BY <1>2, <1>3, <1>7 DEF GateInvariant, OpenQueue
 <2>2. \A i \in 1..Len(disp_batch) : disp_batch[i] \notin Callback BY <1>0, <2>1, CountType
 <2> QED BY <2>2 DEF Off
<1> QED BY <1>6, <1>7

\* The kinds of quiet steps.
LEMMA QuietSteps ==
    ASSUME OrderBase, Intact, NEW x, NEW y, Behind(x, y),
           UNCHANGED <<pending_ready, disp_batch, active_run, run>>
    PROVE  \* the loop thread takes an item of its batch, or queues one itself
           /\ /\ UNCHANGED <<local_taken, command_channel, disp_pc, disp_mark, call_pc, call_item,
                             active_ready_dispatch>>
              /\ UNCHANGED ready_batch \/ (ready_batch # <<>> /\ ready_batch' = Tail(ready_batch))
              /\ \/ UNCHANGED local_ready
                 \/ \E z : z \notin {x, y} /\ local_ready' = Append(local_ready, z)
              => Behind(x, y)'
           \* a command is sent
           /\ /\ UNCHANGED <<ready_batch, local_ready, disp_pc, disp_mark, call_item, active_ready_dispatch>>
              /\ UNCHANGED local_taken \/ local_ready = <<>>
              /\ \A u \in Callers : call_pc'[u] = "active" => call_pc[u] = "active"
              /\ \E c \in Command : /\ command_channel' = Append(command_channel, c)
                                    /\ ~(c.op = "ready" /\ c.item = x)
              => Behind(x, y)'
           \* a caller goes on
           /\ /\ UNCHANGED <<ready_batch, local_ready, local_taken, command_channel, disp_pc, disp_mark,
                             active_ready_dispatch>>
              /\ \A u \in Callers : call_pc'[u] = "active" /\ call_item'[u] = y =>
                    \/ call_pc[u] = "active" /\ call_item[u] = y
                    \/ OffChannel(x) /\ (active_ready_dispatch.accepting => Off(x, disp_batch))
              => Behind(x, y)'
           \* the dispatcher goes on, or the queue is closed or opened
           /\ /\ UNCHANGED <<ready_batch, local_ready, local_taken, command_channel, call_pc, call_item>>
              /\ disp_pc' = "extend" =>
                    \/ UNCHANGED <<disp_pc, disp_mark>>
                    \/ \A k \in 1..Len(local_ready) : local_taken + k <= disp_mark'
              /\ active_ready_dispatch'.accepting =>
                    active_ready_dispatch.accepting \/ disp_batch = <<>>
              => Behind(x, y)'
<1>0. TypeOK /\ Off(y, local_ready) /\ \A s : Home(x, s) => WillReach(s)
 <2>1. TypeOK /\ RunsConsistent /\ QueuesReached /\ OwnQueues /\ Off(y, local_ready)
   BY DEF OrderBase, ConservationInvariant, Behind
 <2> QED BY <2>1, HomeReached
<1>q. Quiet(x, y) => Behind(x, y)' BY <1>0, QuietKeepsBehind
<1>l. UNCHANGED local_ready => \A k \in 1..Len(local_ready') :
          /\ local_ready'[k] # y
          /\ local_ready'[k] = x => k \in 1..Len(local_ready) /\ local_ready[k] = x
  BY <1>0 DEF Off
<1>1. ASSUME UNCHANGED <<local_taken, command_channel, disp_pc, disp_mark, call_pc, call_item,
                         active_ready_dispatch>>,
             UNCHANGED ready_batch \/ (ready_batch # <<>> /\ ready_batch' = Tail(ready_batch)),
             \/ UNCHANGED local_ready
             \/ \E z : z \notin {x, y} /\ local_ready' = Append(local_ready, z)
      PROVE  Quiet(x, y)
 <2>1. ASSUME NEW z, z \notin {x, y}, local_ready' = Append(local_ready, z)
       PROVE  \A k \in 1..Len(local_ready') :
                 /\ local_ready'[k] # y
                 /\ local_ready'[k] = x => k \in 1..Len(local_ready) /\ local_ready[k] = x
  <3>1. local_ready \in Seq(ReadyItem) BY <1>0 DEF TypeOK, LoopType
  <3>2. \A k \in 1..Len(Append(local_ready, z)) :
           \/ k \in 1..Len(local_ready) /\ Append(local_ready, z)[k] = local_ready[k]
           \/ Append(local_ready, z)[k] = z
    BY <3>1
  <3> QED BY <1>0, <2>1, <3>2 DEF Off
 <2> QED BY <1>1, <1>l, <2>1 DEF Quiet
<1>2. ASSUME UNCHANGED <<ready_batch, local_ready, disp_pc, disp_mark, call_item, active_ready_dispatch>>,
             UNCHANGED local_taken \/ local_ready = <<>>,
             \A u \in Callers : call_pc'[u] = "active" => call_pc[u] = "active",
             \E c \in Command : /\ command_channel' = Append(command_channel, c)
                                /\ ~(c.op = "ready" /\ c.item = x)
      PROVE  Quiet(x, y)
 <2>1. \A k \in 1..Len(local_ready') :
         /\ local_ready'[k] # y
         /\ local_ready'[k] = x => k \in 1..Len(local_ready) /\ local_ready[k] = x /\ local_taken' = local_taken
   BY <1>2, <1>l
 <2> QED BY <1>2, <2>1 DEF Quiet
<1>3. ASSUME UNCHANGED <<ready_batch, local_ready, local_taken, command_channel, disp_pc, disp_mark,
                         active_ready_dispatch>>,
             \A u \in Callers : call_pc'[u] = "active" /\ call_item'[u] = y =>
                \/ call_pc[u] = "active" /\ call_item[u] = y
                \/ OffChannel(x) /\ (active_ready_dispatch.accepting => Off(x, disp_batch))
      PROVE  Quiet(x, y)
  BY <1>3, <1>l DEF Quiet
<1>4. ASSUME UNCHANGED <<ready_batch, local_ready, local_taken, command_channel, call_pc, call_item>>,
             disp_pc' = "extend" =>
                \/ UNCHANGED <<disp_pc, disp_mark>>
                \/ \A k \in 1..Len(local_ready) : local_taken + k <= disp_mark',
             active_ready_dispatch'.accepting =>
                active_ready_dispatch.accepting \/ disp_batch = <<>>
      PROVE  Quiet(x, y)
 <2>1. disp_batch = <<>> => Off(x, disp_batch) BY DEF Off
 <2> QED BY <1>4, <1>l, <2>1 DEF Quiet
<1> QED BY <1>q, <1>1, <1>2, <1>3, <1>4

\* Every step keeps x ahead of a callback y that a producer scheduled after it.
LEMMA StepBehind ==
    ASSUME OrderBase, Next, Intact, Intact', NEW x \in accepted, NEW y \in Callback,
           y.by \in Producers, Behind(x, y)
    PROVE  Behind(x, y)'
<1>0. /\ TypeOK /\ RunsConsistent /\ LocalNumbering /\ GateInvariant /\ RunsAlternate /\ QueuesReached
      /\ TlsServing /\ HandlesCounted /\ EnterOrder /\ EndsBeforeEnter /\ OpenQueue
      /\ OwnQueues /\ Numbered /\ x \in Callback
  BY DEF OrderBase, GateInvariant, ConservationInvariant, TypeOK, HistoryType
<1>z. NextOf("io") \notin {x, y} /\ NextOf("loop") \notin {x, y} /\ StopItem \notin {x, y}
 <2>1. ASSUME NEW s \in {"io", "loop"} PROVE NextOf(s) \notin {x, y}
  <3>1. NextOf(s).by = s /\ NextOf(s).n = posted[s] + 1 /\ posted[s] \in Nat
    BY <1>0 DEF NextOf, TypeOK, HistoryType, Sources, Callers
  <3>2. s \notin Producers /\ x.n <= posted[x.by] BY <1>0 DEF Numbered
  <3> QED BY <3>1, <3>2
 <2> QED BY <1>0, <2>1, QueueChanges
<1>c. call_pc \in [Callers -> CallPcs] /\ call_item \in [Callers -> ReadyItem]
  BY <1>0 DEF TypeOK, CallerType
<1>u. \A u \in Callers : \A p : p # "active" /\ call_pc' = [call_pc EXCEPT ![u] = p] =>
         \A v \in Callers : call_pc'[v] = "active" => call_pc[v] = "active"
  BY <1>c
<1>d. disp_pc' # "dead" /\ loop_pc' # "returned_early" BY DEF Intact
<1>1. ASSUME UNCHANGED <<pending_ready, disp_batch, active_run, run, local_taken, command_channel,
                         disp_pc, disp_mark, call_pc, call_item, active_ready_dispatch>>,
             UNCHANGED ready_batch \/ (ready_batch # <<>> /\ ready_batch' = Tail(ready_batch)),
             \/ UNCHANGED local_ready
             \/ \E z \in {NextOf("io"), NextOf("loop"), StopItem} : local_ready' = Append(local_ready, z)
      PROVE  Behind(x, y)'
  BY <1>1, <1>z, QuietSteps
<1>2. ASSUME UNCHANGED <<pending_ready, disp_batch, active_run, run, ready_batch, local_ready, disp_pc,
                         disp_mark, call_item, active_ready_dispatch>>,
             UNCHANGED local_taken \/ local_ready = <<>>,
             NEW u \in Callers, call_pc' = [call_pc EXCEPT ![u] = "wake_dispatcher"],
             NEW c \in Command, command_channel' = Append(command_channel, c), ~(c.op = "ready" /\ c.item = x)
      PROVE  Behind(x, y)'
 <2>1. \A v \in Callers : call_pc'[v] = "active" => call_pc[v] = "active" BY <1>2, <1>u
 <2> QED BY <1>2, <2>1, QuietSteps
<1>3. ASSUME UNCHANGED <<pending_ready, disp_batch, active_run, run, ready_batch, local_ready, local_taken,
                         command_channel, disp_pc, disp_mark, active_ready_dispatch>>,
             \A v \in Callers : call_pc'[v] = "active" /\ call_item'[v] = y =>
                \/ call_pc[v] = "active" /\ call_item[v] = y
                \/ OffChannel(x) /\ (active_ready_dispatch.accepting => Off(x, disp_batch))
      PROVE  Behind(x, y)'
  BY <1>3, QuietSteps
<1>4. ASSUME UNCHANGED <<pending_ready, disp_batch, active_run, run, ready_batch, local_ready, local_taken,
                         command_channel, call_pc, call_item>>,
             disp_pc' = "extend" =>
                \/ UNCHANGED <<disp_pc, disp_mark>>
                \/ \A k \in 1..Len(local_ready) : local_taken + k <= disp_mark',
             active_ready_dispatch'.accepting =>
                active_ready_dispatch.accepting \/ disp_batch = <<>>
      PROVE  Behind(x, y)'
  BY <1>4, QuietSteps
<1>5. CASE keep_leftover
 <2>1. CASE ready_batch # <<>> \/ local_ready # <<>> BY <1>0, <1>5, <2>1, LeftoverKeepsBehind
 <2>2. CASE ~(ready_batch # <<>> \/ local_ready # <<>>) BY <1>1, <1>5, <2>2
 <2> QED BY <2>1, <2>2
<1>6. CASE send_enter_run
 <2>1. /\ UNCHANGED <<pending_ready, disp_batch, active_run, run, disp_pc, disp_mark, call_item,
                      active_ready_dispatch>>
       /\ loop_pc = "enter" /\ local_ready' = <<>> /\ ready_batch' = <<>>
       /\ call_pc' = [call_pc EXCEPT !["loop"] = "wake_dispatcher"]
   BY <1>6
 <2>2. local_ready = <<>> /\ ready_batch = <<>> BY <1>0, <2>1 DEF OwnQueues, Serving
 <2>3. PICK c \in Command : c.op = "enter" /\ command_channel' = Append(command_channel, c)
   BY <1>0, <1>6, ChannelSends DEF RunsConsistent
 <2> QED BY <1>2, <2>1, <2>2, <2>3, ItemFacts
<1>7. CASE send_finish_run \/ send_close
 <2>1. /\ UNCHANGED <<pending_ready, disp_batch, active_run, run, disp_pc, disp_mark, call_item,
                      active_ready_dispatch, local_ready, ready_batch, local_taken>>
       /\ call_pc' = [call_pc EXCEPT !["loop"] = "wake_dispatcher"]
   BY <1>7
 <2>2. PICK c \in Command : c.op # "ready" /\ command_channel' = Append(command_channel, c)
   BY <1>0, <1>7, ChannelSends DEF RunsConsistent
 <2> QED BY <1>2, <2>1, <2>2, ItemFacts
<1>8. CASE run_forever
 <2>1. /\ UNCHANGED <<pending_ready, disp_batch, active_run, ready_batch, local_ready, local_taken,
                      command_channel, disp_pc, disp_mark, call_pc, call_item, active_ready_dispatch>>
       /\ loop_pc = "idle"
   BY <1>8
 <2>2. local_ready = <<>> /\ ready_batch = <<>> BY <1>0, <2>1 DEF OwnQueues, Serving
 <2>3. Quiet(x, y) BY <2>1, <2>2 DEF Quiet, Off
 <2>4. \A s : Home(x, s) => WillReach(s) BY <1>0, HomeReached
 <2> QED BY <1>0, <2>3, <2>4, QuietKeepsBehind
<1>9. CASE publish_ready_dispatch \/ retire_ready_dispatch
 <2>1. /\ UNCHANGED <<pending_ready, disp_batch, active_run, run, ready_batch, local_ready, local_taken,
                      command_channel, disp_pc, disp_mark, call_pc, call_item>>
       /\ active_ready_dispatch'.accepting = FALSE
   BY <1>9
 <2> QED BY <1>4, <2>1
<1>10. CASE dispatch_ready_batch
 <2>1. /\ UNCHANGED <<pending_ready, disp_batch, active_run, run, ready_batch, local_ready, local_taken,
                      command_channel, call_pc, call_item, active_ready_dispatch>>
       /\ disp_mark' = local_enqueues
   BY <1>10
 <2>2. ASSUME NEW k \in 1..Len(local_ready) PROVE local_taken + k <= local_enqueues
  <3>1. local_ready \in Seq(ReadyItem) /\ local_taken \in Nat /\ local_enqueues \in Nat
    BY <1>0 DEF TypeOK, LoopType, FlagType
  <3>2. tls_queue /\ loop_pc # "returned_early"
    BY <1>0, <2>2, <3>1 DEF OwnQueues, TlsServing, Intact
  <3>3. local_taken + Len(local_ready) = local_enqueues BY <1>0, <3>2 DEF LocalNumbering
  <3> QED BY <2>2, <3>1, <3>3
 <2> QED BY <1>4, <2>1, <2>2
<1>11. CASE activate_ready_dispatch
 <2>1. /\ UNCHANGED <<pending_ready, disp_batch, active_run, run, ready_batch, local_ready, local_taken,
                      command_channel, call_pc, call_item>>
       /\ disp_pc' = "drain" /\ disp_pc = "activate"
   BY <1>11
 <2>2. disp_batch = <<>> BY <1>0, <2>1 DEF OpenQueue
 <2> QED BY <1>4, <2>1, <2>2
<1>12. ASSUME NEW t \in Callers, schedule_ready_handle(t) PROVE Behind(x, y)'
 <2>1. /\ UNCHANGED <<pending_ready, disp_batch, active_run, run, ready_batch, local_ready, local_taken,
                      command_channel, disp_pc, disp_mark, active_ready_dispatch, call_item>>
       /\ call_pc' = [call_pc EXCEPT ![t] = IF channel_handles = 0 THEN "active" ELSE "count"]
   BY <1>12 DEF MayBypassChannel
 <2>2. CASE channel_handles = 0 BY <1>0, <1>3, <2>1, <2>2, GateClear
 <2>3. CASE channel_handles # 0
  <3>1. \A v \in Callers : call_pc'[v] = "active" => call_pc[v] = "active" BY <1>u, <2>1, <2>3
  <3> QED BY <1>3, <2>1, <3>1
 <2> QED BY <2>2, <2>3
<1>13. ASSUME NEW t \in Callers, try_enqueue_active_ready(t) PROVE Behind(x, y)'
 <2>1. CASE active_ready_dispatch.accepting
  <3>1. call_item[t] # x BY <1>0, <1>z, <1>13 DEF Numbered, Posting
  <3> QED BY <1>0, <1>13, <2>1, <3>1, EnqueueKeepsBehind
 <2>2. CASE ~active_ready_dispatch.accepting
  <3>1. /\ UNCHANGED <<pending_ready, disp_batch, active_run, run, ready_batch, local_ready, local_taken,
                       command_channel, disp_pc, disp_mark, active_ready_dispatch, call_item>>
        /\ \E p : p # "active" /\ call_pc' = [call_pc EXCEPT ![t] = p]
    BY <1>13, <2>2
  <3>2. \A v \in Callers : call_pc'[v] = "active" => call_pc[v] = "active" BY <1>u, <3>1
  <3> QED BY <1>3, <3>1, <3>2
 <2> QED BY <2>1, <2>2
<1>14. ASSUME NEW t \in Callers, send_remote_command(t) PROVE Behind(x, y)'
 <2>1. /\ UNCHANGED <<pending_ready, disp_batch, active_run, run, ready_batch, local_ready, local_taken,
                      disp_pc, disp_mark, active_ready_dispatch, call_item>>
       /\ call_pc' = [call_pc EXCEPT ![t] = "wake_dispatcher"] /\ call_pc[t] = "send"
       /\ command_channel' = Append(command_channel, [op |-> "ready", item |-> call_item[t]])
   BY <1>14 DEF Intact
 <2>2. call_item[t] # x BY <1>0, <1>z, <2>1 DEF Numbered, Posting
 <2>3. [op |-> "ready", item |-> call_item[t]] \in Command BY <1>c DEF Command
 <2> QED BY <1>2, <2>1, <2>2, <2>3
<1>15. ASSUME NEW t \in Callers, signal(t) \/ signal_wake(t) \/ count_channel_handle(t) \/ wake_dispatcher(t)
       PROVE  Behind(x, y)'
 <2>1. /\ UNCHANGED <<pending_ready, disp_batch, active_run, run, ready_batch, local_ready, local_taken,
                      command_channel, disp_pc, disp_mark, active_ready_dispatch, call_item>>
       /\ \E p : p # "active" /\ call_pc' = [call_pc EXCEPT ![t] = p]
   BY <1>15
 <2>2. \A v \in Callers : call_pc'[v] = "active" => call_pc[v] = "active" BY <1>u, <2>1
 <2> QED BY <1>3, <2>1, <2>2
<1>16. ASSUME NEW t \in Callers, schedule_callback(t) \/ schedule_stop(t) PROVE Behind(x, y)'
 <2>1. /\ UNCHANGED <<pending_ready, disp_batch, active_run, run, ready_batch, local_ready, local_taken,
                      command_channel, disp_pc, disp_mark, active_ready_dispatch>>
       /\ \E p, i : /\ call_pc' = [call_pc EXCEPT ![t] = p] /\ call_item' = [call_item EXCEPT ![t] = i]
                    /\ p = "active" => i = StopItem
   BY <1>16
 <2>2. \A v \in Callers : call_pc'[v] = "active" /\ call_item'[v] = y => call_pc[v] = "active" /\ call_item[v] = y
   BY <1>c, <1>z, <2>1
 <2> QED BY <1>3, <2>1, <2>2
<1>17. CASE execute_ready \/ execute_ready_call_soon \/ execute_ready_stop \/ execute_ready_raises
            \/ run_stop_item
  BY <1>1, <1>17
<1>18. CASE start_turn \/ poll_once \/ check_signals_raises \/ parked_io BY <1>1, <1>18
<1>19. CASE LoopStep
 <2>1. CASE start_generation BY <1>0, <2>1, GenerationKeepsBehind
 <2>2. ~execute_ready_handler_raises BY <1>d
 <2>3. CASE \/ end_turn \/ end_run \/ start_park \/ wait_for_wake_check \/ wait_for_wake_register
            \/ wait_for_wake_recheck \/ wake_up \/ finish_acknowledged \/ join_runtime_thread
   BY <1>1, <2>3
 <2> QED BY <1>19, <1>5, <1>6, <1>7, <1>9, <1>17, <1>18, <2>1, <2>2, <2>3, Zenon DEF LoopStep
<1>20. CASE DispatcherStep
 <2>1. CASE handle_ready BY <1>0, <2>1, ReceiveKeepsBehind
 <2>2. CASE handle_enter_run BY <1>0, <2>2, EnterKeepsBehind
 <2>3. CASE handle_finish_run BY <1>0, <2>3, FinishKeepsBehind
 <2>4. CASE forward_ready_batch BY <1>0, <2>4, ForwardKeepsBehind
 <2>5. ~handle_close BY <1>d
 <2>6. CASE \/ dispatcher_poll \/ drain_commands_empty \/ finish_run_reset \/ finish_run_ack
            \/ channel_handles_forwarded \/ dispatcher_signal \/ dispatcher_wake
  <3>1. disp_pc' # "extend" BY <1>0, <2>6 DEF TypeOK, DispatcherType
  <3>2. UNCHANGED <<pending_ready, disp_batch, active_run, run, ready_batch, local_ready, local_taken,
                    command_channel, call_pc, call_item, active_ready_dispatch>>
    BY <2>6
  <3> QED BY <1>4, <3>1, <3>2
 <2> QED BY <1>20, <1>10, <1>11, <2>1, <2>2, <2>3, <2>4, <2>5, <2>6, Zenon DEF DispatcherStep
<1>21. CASE Environment
 <2>1. CASE close \/ park_deadline \/ reset_run_state_after_finish_error BY <1>1, <2>1
 <2> QED BY <1>21, <1>8, <1>16, <1>18, <2>1, Zenon DEF Environment
<1>22. ASSUME NEW t \in Callers, CallerStep(t) PROVE Behind(x, y)'
  BY <1>22, <1>12, <1>13, <1>14, <1>15, Zenon DEF CallerStep
<1> QED BY <1>19, <1>20, <1>21, <1>22 DEF Next

\* A callback has no copy exactly when no queue holds it.
Nowhere(x) ==
    Off(x, local_ready) /\ Off(x, ready_batch) /\ Off(x, disp_batch) /\ OffChannel(x) /\ OffQueues(x)

LEMMA NoCopies ==
    ASSUME TypeOK, NEW x \in Callback
    PROVE  Copies(x) = 0 <=> Nowhere(x)
<1>0. /\ local_ready \in Seq(ReadyItem) /\ ready_batch \in Seq(ReadyItem)
      /\ disp_batch \in Seq(ReadyItem) /\ command_channel \in Seq(Command)
      /\ pending_ready \in [Runs -> Seq(QueueEntry)]
  BY DEF TypeOK, LoopType, DispatcherType, ChannelType, PendingType
<1>1. /\ CountIn(local_ready, {x}) = 0 <=> Off(x, local_ready)
      /\ CountIn(ready_batch, {x}) = 0 <=> Off(x, ready_batch)
      /\ CountIn(disp_batch, {x}) = 0 <=> Off(x, disp_batch)
 <2>1. \A s \in Seq(ReadyItem) : CountIn(s, {x}) = 0 <=> \A i \in 1..Len(s) : s[i] \notin {x}
   BY CountType
 <2> QED BY <1>0, <2>1 DEF Off
<1>2. CountIn(command_channel, ReadyOf(x)) = 0 <=> OffChannel(x)
 <2>1. \A i \in 1..Len(command_channel) : command_channel[i] \in Command BY <1>0, ElementOfSeq
 <2>2. CountIn(command_channel, ReadyOf(x)) = 0 <=>
          \A i \in 1..Len(command_channel) : command_channel[i] \notin ReadyOf(x)
   BY <1>0, CountType
 <2> QED BY <2>1, <2>2 DEF OffChannel, Carries, ReadyOf
<1>3. \A r \in Runs : CountIn(Items(pending_ready[r]), {x}) = 0 <=>
         \A i \in 1..Len(pending_ready[r]) : pending_ready[r][i].item # x
 <2>1. ASSUME NEW r \in Runs
       PROVE  CountIn(Items(pending_ready[r]), {x}) = 0 <=>
                 \A i \in 1..Len(pending_ready[r]) : pending_ready[r][i].item # x
  <3>1. pending_ready[r] \in Seq(QueueEntry) BY <1>0
  <3>2. /\ Items(pending_ready[r]) \in Seq(ReadyItem) /\ Len(Items(pending_ready[r])) = Len(pending_ready[r])
        /\ \A i \in 1..Len(pending_ready[r]) : Items(pending_ready[r])[i] = pending_ready[r][i].item
    BY <3>1, ItemsFacts DEF Items
  <3>3. CountIn(Items(pending_ready[r]), {x}) = 0 <=>
           \A i \in 1..Len(Items(pending_ready[r])) : Items(pending_ready[r])[i] \notin {x}
    BY <3>2, CountType
  <3> QED BY <3>2, <3>3
 <2> QED BY <2>1
<1>4. Cardinality(InRuns(x, pending_ready)) = 0 => OffQueues(x)
 <2>1. ASSUME Cardinality(InRuns(x, pending_ready)) = 0, NEW r \in Runs
       PROVE  CountIn(Items(pending_ready[r]), {x}) = 0
  <3>0. <<>> \in Seq(QueueEntry) OBVIOUS
  <3>1. PICK q \in [Runs -> Seq(QueueEntry)] : q = [pending_ready EXCEPT ![r] = <<>>]
    BY <1>0, <3>0, PendingUpdate DEF PendingType
  <3>2. q[r] = <<>> /\ \A u \in Runs : u # r => pending_ready[u] = q[u] BY <1>0, <3>1
  <3>3. /\ Cardinality(InRuns(x, q)) \in Nat /\ CountIn(Items(pending_ready[r]), {x}) \in Nat
        /\ 0 + CountIn(Items(q[r]), {x}) = Cardinality(InRuns(x, q)) + CountIn(Items(pending_ready[r]), {x})
    BY <1>0, <2>1, <3>2, RunsCount
  <3>4. CountIn(Items(q[r]), {x}) = 0 BY <3>2, QueueChanges
  <3> QED BY <3>3, <3>4
 <2> QED BY <1>3, <2>1 DEF OffQueues
<1>5. OffQueues(x) => Cardinality(InRuns(x, pending_ready)) = 0
 <2>1. ASSUME OffQueues(x), NEW r \in Runs PROVE Positions(x, Items(pending_ready[r])) = {}
   BY <1>0, <2>1, ItemsFacts DEF Positions, Items, OffQueues
 <2>2. OffQueues(x) => InRuns(x, pending_ready) = {} BY <2>1 DEF InRuns
 <2> QED BY <2>2, FS_EmptySet
<1>6. /\ Copies(x) = Held(x)
      /\ CountIn(local_ready, {x}) \in Nat /\ CountIn(ready_batch, {x}) \in Nat
      /\ CountIn(disp_batch, {x}) \in Nat /\ CountIn(command_channel, ReadyOf(x)) \in Nat
      /\ Cardinality(InRuns(x, pending_ready)) \in Nat
  BY CopiesHeld
<1>7. Copies(x) = 0 <=>
         /\ CountIn(local_ready, {x}) = 0 /\ CountIn(ready_batch, {x}) = 0 /\ CountIn(disp_batch, {x}) = 0
         /\ CountIn(command_channel, ReadyOf(x)) = 0 /\ Cardinality(InRuns(x, pending_ready)) = 0
  BY <1>6 DEF Held
<1> QED BY <1>1, <1>2, <1>4, <1>5, <1>7 DEF Nowhere

\* What was scheduled before a producer's callback, and has not run.
Pairs == {e \in scheduled_before : e[2].by \in Producers}

PairsKnown ==
    \A e \in Pairs : e[1] \in accepted \ executed /\ e[2].n <= posted[e[2].by]

Ordered == Intact => \A e \in Pairs : Behind(e[1], e[2])

\* How a step changes what is recorded: numbers and accepted callbacks only
\* grow, a callback that runs is forgotten, and only a producer's call adds
\* something before its callback.
LEMMA HistoryStep ==
    ASSUME TypeOK, Next
    PROVE  /\ accepted \subseteq accepted' /\ \A s \in Sources : posted[s] <= posted'[s]
           /\ \/ executed' = executed
              \/ /\ Execute /\ executed' = executed \union {Head(ready_batch)}
                 /\ \A e \in scheduled_before' : e[1] # Head(ready_batch)
           /\ \A e \in scheduled_before' : e[2].by \in Producers =>
                 \/ e \in scheduled_before
                 \/ \E t \in Producers : Begins(t) /\ e[1] \in Waiting /\ e[2] = NextOf(t)
<1>0. /\ posted \in [Sources -> Nat] /\ Callers \subseteq Sources /\ "io" \in Sources /\ "loop" \in Sources
      /\ \A s \in Sources : NextOf(s).by = s
  BY DEF TypeOK, HistoryType, Sources, Callers, NextOf
<1>1. ASSUME NEW s \in Sources, posted' = [posted EXCEPT ![s] = @ + 1]
      PROVE  \A u \in Sources : posted[u] <= posted'[u]
 <2>1. \A u \in Sources : posted[u] \in Nat /\ posted'[u] = IF u = s THEN posted[u] + 1 ELSE posted[u]
   BY <1>0, <1>1
 <2> QED BY <2>1
<1>2. posted' = posted => \A u \in Sources : posted[u] <= posted'[u] BY <1>0
<1>3. ASSUME NEW s \in {"io", "loop"}, NEW e \in scheduled_before', e[2].by \in Producers,
             scheduled_before' \subseteq scheduled_before \union (Waiting \X {NextOf(s)})
      PROVE  e \in scheduled_before
  BY <1>0, <1>3
<1>4. CASE GoesOn BY <1>2, <1>4 DEF GoesOn
<1>5. CASE EnqueuesIo BY <1>0, <1>1, <1>3, <1>5 DEF EnqueuesIo
<1>6. CASE RunsHead BY <1>2, <1>6 DEF RunsHead, Forget
<1>7. CASE RunsAndSchedules BY <1>0, <1>1, <1>3, <1>7 DEF RunsAndSchedules, Forget
<1>8. ASSUME NEW t \in Callers, Begins(t)
      PROVE  /\ accepted' = accepted /\ executed' = executed /\ \A s \in Sources : posted[s] <= posted'[s]
             /\ \A e \in scheduled_before' : e[2].by \in Producers =>
                   e \in scheduled_before \/ (t \in Producers /\ e[1] \in Waiting /\ e[2] = NextOf(t))
  BY <1>0, <1>1, <1>8 DEF Begins
<1>9. ASSUME NEW t \in Callers, Accepts(t)
      PROVE  /\ accepted \subseteq accepted' /\ executed' = executed /\ scheduled_before' = scheduled_before
             /\ \A s \in Sources : posted[s] <= posted'[s]
  BY <1>2, <1>9 DEF Accepts
<1> HIDE DEF Execute
<1> QED BY <1>4, <1>5, <1>6, <1>7, <1>8, <1>9, Recorded

\* What was scheduled before a producer's callback waits, across every step.
LEMMA StepPairsKnown ==
    ASSUME OrderBase, PairsKnown, Next
    PROVE  PairsKnown'
<1>0. TypeOK /\ Numbered BY DEF OrderBase, ConservationInvariant
<1>t. /\ posted \in [Sources -> Nat] /\ scheduled_before \subseteq Callback \X Callback
      /\ Producers \subseteq Sources /\ accepted \subseteq Callback
  BY <1>0 DEF TypeOK, HistoryType, Sources, Callers
<1>1. /\ accepted \subseteq accepted' /\ \A s \in Sources : posted[s] <= posted'[s]
      /\ \/ executed' = executed
         \/ /\ executed' = executed \union {Head(ready_batch)}
            /\ \A e \in scheduled_before' : e[1] # Head(ready_batch)
      /\ \A e \in scheduled_before' : e[2].by \in Producers =>
            \/ e \in scheduled_before
            \/ \E t \in Producers : Begins(t) /\ e[1] \in Waiting /\ e[2] = NextOf(t)
 <2> HIDE DEF Execute
 <2> QED BY <1>0, HistoryStep
<1>2. ASSUME NEW e \in scheduled_before', e[2].by \in Producers
      PROVE  e[1] \in accepted' \ executed' /\ e[2].n <= posted'[e[2].by]
 <2>1. CASE e \in scheduled_before
  <3>1. e[1] \in accepted \ executed /\ e[2].n <= posted[e[2].by]
    BY <1>2, <2>1 DEF PairsKnown, Pairs
  <3>2. e[2].n \in Nat /\ posted[e[2].by] \in Nat /\ posted[e[2].by] <= posted'[e[2].by]
    BY <1>1, <1>2, <1>t, <2>1 DEF Callback
  <3>3. posted'[e[2].by] \in Nat
   <4>1. HistoryType' BY <1>0, StepHistoryType DEF TypeOK
   <4> QED BY <1>2, <1>t, <4>1 DEF HistoryType
  <3> QED BY <1>1, <1>2, <3>1, <3>2, <3>3
 <2>2. ASSUME NEW t \in Producers, Begins(t), e[1] \in Waiting, e[2] = NextOf(t)
       PROVE  e[1] \in accepted' \ executed' /\ e[2].n <= posted'[e[2].by]
  <3>1. posted' = [posted EXCEPT ![t] = @ + 1] /\ UNCHANGED <<accepted, executed>>
    BY <2>2 DEF Begins
  <3>2. posted'[t] = posted[t] + 1 /\ posted[t] \in Nat BY <1>t, <3>1
  <3> QED BY <2>2, <3>1, <3>2 DEF NextOf, Waiting
 <2> QED BY <1>1, <1>2, <2>1, <2>2
<1> QED BY <1>2 DEF PairsKnown, Pairs

\* A callback that was only just scheduled is behind everything.
LEMMA NewIsBehind ==
    ASSUME OrderBase, Intact, Intact', NEW t \in Producers, Begins(t), NEW x,
           NEW y \in Callback, y = NextOf(t)
    PROVE  Behind(x, y)'
<1>0. TypeOK /\ Numbered /\ CopiesExact /\ t \in Callers
  BY DEF OrderBase, ConservationInvariant, Callers
<1>1. /\ UNCHANGED <<pending_ready, disp_batch, ready_batch, local_ready, command_channel>>
      /\ call_pc' = [call_pc EXCEPT ![t] = "gate"] /\ call_item' = [call_item EXCEPT ![t] = NextOf(t)]
  BY DEF Begins
<1>y. y.by = t /\ y \notin accepted
 <2>1. posted[t] \in Nat /\ y.by = t /\ y.n = posted[t] + 1
   BY <1>0, ItemFacts DEF TypeOK, HistoryType, NextOf
 <2> QED BY <1>0, <2>1 DEF Numbered
<1>2. Nowhere(y) BY <1>0, <1>y, NoCopies DEF CopiesExact
<1>3. Off(y, local_ready)' /\ Off(y, ready_batch)' /\ Off(y, disp_batch)' /\ OffChannel(y)' /\ OffQueues(y)'
  BY <1>1, <1>2 DEF Nowhere, Off, OffChannel, OffQueues, Carries
<1>4. \A u \in Callers : ~(call_pc'[u] = "active" /\ call_item'[u] = y)
 <2>1. ASSUME NEW u \in Callers, call_pc'[u] = "active", call_item'[u] = y PROVE FALSE
  <3>1. u # t /\ call_pc[u] = "active" /\ call_item[u] = y
    BY <1>0, <1>1, <2>1 DEF TypeOK, CallerType
  <3>2. y # StopItem BY QueueChanges
  <3> QED BY <1>0, <1>y, <3>1, <3>2 DEF Numbered, Posting
 <2> QED BY <2>1
<1> QED
  BY <1>3, <1>4 DEF Behind, BehindInBatch, BehindInQueue, BehindWithDispatcher, BehindOnChannel, BehindAtGate,
    Off, OffChannel, OffQueues

\* What was scheduled before a producer's callback stays ahead of it.
LEMMA StepOrdered ==
    ASSUME OrderBase, PairsKnown, Ordered, Next
    PROVE  Ordered'
<1>0. SUFFICES ASSUME Intact', NEW e \in scheduled_before', e[2].by \in Producers
               PROVE  Behind(e[1], e[2])'
  BY DEF Ordered, Pairs
<1>1. TypeOK /\ Intact /\ TypeOK' BY <1>0, IntactBefore, StepTypeOK DEF OrderBase
<1>2. e \in Callback \X Callback BY <1>0, <1>1 DEF TypeOK, HistoryType
<1>x. PICK x \in Callback, y \in Callback : e = <<x, y>> BY <1>2
<1>3. CASE e \in scheduled_before
 <2>1. Behind(x, y) /\ x \in accepted BY <1>0, <1>1, <1>x, <1>3 DEF Ordered, PairsKnown, Pairs
 <2>2. Behind(x, y)' BY <1>0, <1>1, <1>x, <2>1, StepBehind
 <2> QED BY <1>x, <2>2
<1>4. ASSUME NEW t \in Producers, Begins(t), e[2] = NextOf(t) PROVE Behind(e[1], e[2])'
 <2>1. Behind(x, y)'
  <3> QED BY <1>0, <1>1, <1>x, <1>4, NewIsBehind
 <2> QED BY <1>x, <2>1
<1> QED BY <1>0, <1>1, <1>3, <1>4, HistoryStep

\* The invariant behind the order of callbacks.
OrderInvariant == OrderBase /\ PairsKnown /\ Ordered

LEMMA InitOrder == Init => RunsAlternate /\ QueuesReached /\ TlsServing /\ PairsKnown /\ Ordered
<1> SUFFICES ASSUME Init PROVE RunsAlternate /\ QueuesReached /\ TlsServing /\ PairsKnown /\ Ordered
  OBVIOUS
<1>1. RunsAlternate BY DEF Init, RunsAlternate, EntersAt
<1>2. QueuesReached /\ TlsServing /\ PairsKnown /\ Ordered
  BY DEF Init, QueuesReached, TlsServing, Serving, PairsKnown, Ordered, Pairs
<1> QED BY <1>1, <1>2

LEMMA StutterOrder ==
    ASSUME OrderInvariant, UNCHANGED vars
    PROVE  RunsAlternate' /\ QueuesReached' /\ TlsServing' /\ PairsKnown' /\ Ordered'
<1>1. RunsAlternate /\ QueuesReached /\ TlsServing /\ PairsKnown /\ Ordered
  BY DEF OrderInvariant, OrderBase
<1>2. RunsAlternate' /\ QueuesReached' /\ TlsServing'
  BY <1>1 DEF vars, RunsAlternate, QueuesReached, TlsServing, EntersAt, EndsWithin, EndsAfter, WillReach, Serving,
    InRun, Intact
<1>3. PairsKnown' BY <1>1 DEF vars, PairsKnown, Pairs
<1>4. \A x, y : Behind(x, y) => Behind(x, y)'
  BY DEF vars, Behind, BehindInBatch, BehindInQueue, BehindWithDispatcher, BehindOnChannel, BehindAtGate,
    OffChannel, OffQueues, Carries, Reached, Home
<1>5. Ordered' BY <1>1, <1>4 DEF vars, Ordered, Pairs, Intact
<1> QED BY <1>2, <1>3, <1>5

\* The order holds in every reachable state: a callback scheduled before a
\* producer's is ahead of it wherever the two wait.
THEOREM OrderHolds == Spec => []OrderInvariant
<1> DEFINE Base == TypeOK /\ WakeInvariant /\ LocalNumbering /\ GateInvariant /\ ConservationInvariant
           Own == RunsAlternate /\ QueuesReached /\ TlsServing /\ PairsKnown /\ Ordered
<1>1. Spec => []Base BY EngineInvariant, GateInvariantHolds, ConservationHolds, PTL
<1>2. Base /\ Own <=> Base /\ OrderInvariant BY DEF OrderInvariant, OrderBase, WakeInvariant
<1>3. Base /\ Own /\ [Next]_vars => Own'
 <2>1. ASSUME Base, Own, Next PROVE Own'
  <3>1. OrderBase /\ LoopRun /\ EnterOrder /\ EndsBeforeEnter /\ OpenQueue /\ RunsConsistent
    BY <2>1 DEF OrderBase, WakeInvariant, RunsConsistent, GateInvariant
  <3>2. RunsAlternate' /\ QueuesReached' /\ TlsServing'
    BY <2>1, <3>1, StepRunsAlternate, StepQueuesReached, StepTlsServing
  <3>3. PairsKnown' /\ Ordered' BY <2>1, <3>1, StepPairsKnown, StepOrdered
  <3> QED BY <3>2, <3>3
 <2>2. ASSUME Base, Own, UNCHANGED vars PROVE Own'
  <3>1. OrderInvariant BY <1>2, <2>2
  <3> QED BY <2>2, <3>1, StutterOrder
 <2> QED BY <2>1, <2>2
<1>4. Init => Own BY InitOrder
<1> HIDE DEF Base, Own
<1>5. Spec => []Own BY <1>1, <1>3, <1>4, PTL DEF Spec
<1> QED BY <1>1, <1>2, <1>5, PTL

\* Nothing that was scheduled before the callback at the head of the batch,
\* when that is a producer's, is still waiting.
LEMMA HeadIsFirst ==
    ASSUME OrderInvariant, Execute, NEW e \in scheduled_before, e[2] = Head(ready_batch),
           e[2].by \in Producers
    PROVE  FALSE
<1>0. TypeOK /\ ClosedLast /\ CopiesExact /\ loop_pc = "drain" /\ ready_batch # <<>>
  BY DEF OrderInvariant, OrderBase, ConservationInvariant
<1> HIDE DEF Execute
<1>1. Intact BY <1>0 DEF Intact, ClosedLast
<1>2. e[1] \in accepted \ executed /\ Behind(e[1], e[2]) /\ e[1] \in Callback
  BY <1>0, <1>1 DEF OrderInvariant, PairsKnown, Ordered, Pairs, TypeOK, HistoryType
<1>3. 1 \in 1..Len(ready_batch) /\ ready_batch[1] = e[2] BY <1>0, TailElems DEF TypeOK, LoopType
<1>4. Nowhere(e[1])
 <2>1. /\ \A i \in 1..Len(ready_batch) : ready_batch[i] = e[1] => i < 1
       /\ Off(e[1], local_ready) /\ Off(e[1], disp_batch) /\ OffChannel(e[1]) /\ OffQueues(e[1])
   BY <1>2, <1>3 DEF Behind, BehindInBatch
 <2> QED BY <2>1 DEF Nowhere, Off
<1>5. Copies(e[1]) = 0 BY <1>0, <1>2, <1>4, NoCopies
<1> QED BY <1>0, <1>1, <1>2, <1>5 DEF CopiesExact

\* call_soon_threadsafe never overtakes (loop_core.rs, schedule_ready_handle
\* and merge_ready_generation; dispatcher.rs): for every number of producers,
\* callbacks and runs, whichever of the three paths each callback takes, and
\* through stops, errors and late answers, what a producer schedules runs
\* after everything whose scheduling call had returned when its own began.
THEOREM NeverOvertakes == Spec => ThreadsafeNeverOvertakes
<1> DEFINE Kept == \A x \in executed' \ executed :
                      x.by \in Producers => ~\E e \in scheduled_before : e[2] = x
<1>1. OrderInvariant /\ [Next]_vars => [Kept]_vars
 <2>1. ASSUME OrderInvariant, Next PROVE Kept
  <3>1. TypeOK BY <2>1 DEF OrderInvariant, OrderBase
  <3>2. executed' = executed \/ (Execute /\ executed' = executed \union {Head(ready_batch)})
   <4> HIDE DEF Execute
   <4> QED BY <2>1, <3>1, HistoryStep
  <3> HIDE DEF Execute
  <3> QED BY <2>1, <3>2, HeadIsFirst
 <2> HIDE DEF Kept
 <2> QED BY <2>1
<1> QED BY <1>1, OrderHolds, PTL DEF Spec, ThreadsafeNeverOvertakes

-----------------------------------------------------------------------------
(* The engine implements the callback service. *)

\* Calls carry the callback of their own thread, and hand over its last one.
CallsOwn ==
    \A t \in Callers : call_item[t] # StopItem =>
        /\ call_item[t].by = t
        /\ call_pc[t] \in Posting => call_item[t].n = posted[t] /\ posted[t] # 0

\* What a producer scheduled earlier, and still waits, is recorded before what
\* it scheduled later.
InOrder ==
    Intact =>
        \A y \in accepted \ executed, x \in Callback \ executed :
            x.by \in Producers /\ y.by = x.by /\ y.n < x.n /\ x.n <= posted[x.by] =>
                <<y, x>> \in scheduled_before

\* Every step keeps calls to their thread.
LEMMA StepCallsOwn ==
    ASSUME TypeOK, CallsOwn, Next
    PROVE  CallsOwn'
<1>c. /\ call_pc \in [Callers -> CallPcs] /\ call_item \in [Callers -> ReadyItem] /\ "loop" \in Callers
      /\ posted \in [Sources -> Nat] /\ Callers \subseteq Sources /\ "io" \in Sources /\ "io" \notin Callers
  BY DEF TypeOK, CallerType, Callers, HistoryType, Sources
<1>1. ASSUME NEW s \in Sources, posted' = [posted EXCEPT ![s] = @ + 1]
      PROVE  posted'[s] = posted[s] + 1 /\ \A u \in Sources : u # s => posted'[u] = posted[u]
  BY <1>1, <1>c
<1>2. CASE GoesOn BY <1>2 DEF GoesOn, CallsOwn
<1>3. CASE EnqueuesIo
 <2>1. UNCHANGED <<call_pc, call_item>> /\ posted' = [posted EXCEPT !["io"] = @ + 1]
   BY <1>3 DEF EnqueuesIo
 <2>2. \A t \in Callers : posted'[t] = posted[t] BY <1>1, <1>c, <2>1
 <2> QED BY <2>1, <2>2 DEF CallsOwn
<1>4. CASE RunsHead BY <1>4 DEF RunsHead, CallsOwn
<1>5. CASE RunsAndSchedules
 <2>1. UNCHANGED <<call_pc, call_item>> /\ posted' = [posted EXCEPT !["loop"] = @ + 1] /\ call_pc["loop"] = "idle"
   BY <1>5 DEF RunsAndSchedules
 <2>2. \A t \in Callers : t # "loop" => posted'[t] = posted[t] BY <1>1, <1>c, <2>1
 <2> QED BY <2>1, <2>2 DEF CallsOwn, Posting
<1>6. ASSUME NEW t \in Callers, Begins(t) PROVE CallsOwn'
 <2>1. /\ posted' = [posted EXCEPT ![t] = @ + 1] /\ call_item' = [call_item EXCEPT ![t] = NextOf(t)]
       /\ call_pc' = [call_pc EXCEPT ![t] = "gate"]
   BY <1>6 DEF Begins
 <2>2. /\ posted'[t] = posted[t] + 1 /\ posted[t] \in Nat
       /\ \A u \in Callers : u # t => posted'[u] = posted[u]
   BY <1>1, <1>c, <2>1
 <2>3. /\ call_item'[t] = NextOf(t)
       /\ \A u \in Callers : u # t => call_item'[u] = call_item[u] /\ call_pc'[u] = call_pc[u]
   BY <1>c, <2>1
 <2>4. NextOf(t).by = t /\ NextOf(t).n = posted[t] + 1 BY DEF NextOf
 <2> QED BY <2>2, <2>3, <2>4 DEF CallsOwn
<1>7. ASSUME NEW t \in Callers, Accepts(t) PROVE CallsOwn'
 <2>1. UNCHANGED <<posted, call_item>> /\ \E p : p \notin Posting /\ call_pc' = [call_pc EXCEPT ![t] = p]
   BY <1>7 DEF Accepts, Posting
 <2>2. \A u \in Callers : call_pc'[u] \in Posting => call_pc[u] \in Posting BY <1>c, <2>1
 <2> QED BY <2>1, <2>2 DEF CallsOwn
<1> QED BY <1>2, <1>3, <1>4, <1>5, <1>6, <1>7, Recorded

\* Every step keeps a producer's callbacks in its order.
LEMMA StepInOrder ==
    ASSUME OrderBase, CallsOwn, InOrder, Next
    PROVE  InOrder'
<1>0. SUFFICES ASSUME Intact', NEW y \in accepted' \ executed', NEW x \in Callback \ executed', x.by \in Producers,
                      y.by = x.by, y.n < x.n, x.n <= posted'[x.by]
               PROVE  <<y, x>> \in scheduled_before'
  BY DEF InOrder
<1>1. TypeOK /\ Intact /\ Numbered /\ loop_pc' # "returned_early"
  BY <1>0, IntactBefore DEF OrderBase, ConservationInvariant, Intact
<1>c. /\ posted \in [Sources -> Nat] /\ Callers \subseteq Sources /\ "io" \in Sources /\ "loop" \in Sources
      /\ accepted \subseteq Callback /\ x.n \in Nat /\ x.by \in Callers
  BY <1>0, <1>1 DEF TypeOK, HistoryType, Sources, Callers, Callback
<1>i. ASSUME y \in accepted \ executed, x \notin executed, x.n <= posted[x.by]
      PROVE  <<y, x>> \in scheduled_before
  BY <1>0, <1>1, <1>i DEF InOrder
<1>p. ASSUME NEW s \in Sources, s # x.by, posted' = [posted EXCEPT ![s] = @ + 1] PROVE posted'[x.by] = posted[x.by]
  BY <1>c, <1>p
<1>2. CASE GoesOn BY <1>0, <1>2, <1>i DEF GoesOn
<1>3. CASE EnqueuesIo
 <2>1. /\ posted' = [posted EXCEPT !["io"] = @ + 1] /\ UNCHANGED executed
       /\ accepted' = accepted \union {NextOf("io")} /\ scheduled_before \subseteq scheduled_before'
   BY <1>3 DEF EnqueuesIo
 <2>2. y # NextOf("io") /\ x.by # "io" BY <1>0 DEF NextOf
 <2> QED BY <1>0, <1>c, <1>i, <1>p, <2>1, <2>2
<1>4. CASE RunsHead
 <2>1. UNCHANGED <<posted, accepted>> /\ executed' = executed \union {Head(ready_batch)}
       /\ scheduled_before' = Forget(Head(ready_batch), scheduled_before)
   BY <1>1, <1>4 DEF RunsHead
 <2> QED BY <1>0, <1>i, <2>1 DEF Forget
<1>5. CASE RunsAndSchedules
 <2>1. /\ posted' = [posted EXCEPT !["loop"] = @ + 1] /\ accepted' = accepted \union {NextOf("loop")}
       /\ executed' = executed \union {Head(ready_batch)}
       /\ \A e \in scheduled_before : e[1] # Head(ready_batch) /\ e[2] # Head(ready_batch) => e \in scheduled_before'
   BY <1>5 DEF RunsAndSchedules, Forget
 <2>2. y # NextOf("loop") /\ x.by # "loop" BY <1>0 DEF NextOf
 <2> QED BY <1>0, <1>c, <1>i, <1>p, <2>1, <2>2
<1>6. ASSUME NEW t \in Callers, Begins(t) PROVE <<y, x>> \in scheduled_before'
 <2>1. /\ posted' = [posted EXCEPT ![t] = @ + 1] /\ UNCHANGED <<accepted, executed>> /\ call_pc[t] = "idle"
       /\ scheduled_before' = scheduled_before \union (Waiting \X {NextOf(t)})
   BY <1>6 DEF Begins
 <2>2. CASE x.n <= posted[x.by] BY <1>0, <1>i, <2>1, <2>2
 <2>3. CASE ~(x.n <= posted[x.by])
  <3>1. x.by = t BY <1>0, <1>c, <1>p, <2>1, <2>3
  <3>2. x.n = posted[t] + 1
   <4>1. posted'[t] = posted[t] + 1 /\ posted[t] \in Nat BY <1>c, <2>1
   <4> QED BY <1>0, <1>c, <2>3, <3>1, <4>1
  <3>3. x = NextOf(t) BY <1>0, <3>1, <3>2 DEF NextOf, Callback
  <3>4. ASSUME NEW u \in Callers, call_pc[u] # "idle", call_item[u] = y PROVE FALSE
   <4>1. y # StopItem /\ y.by = t BY <1>0, <1>c, <2>1, <3>1, QueueChanges
   <4> QED BY <2>1, <3>4, <4>1 DEF CallsOwn
  <3>5. y \in Waiting BY <1>0, <2>1, <3>4 DEF Waiting
  <3> QED BY <2>1, <3>3, <3>5
 <2> QED BY <2>2, <2>3
<1>7. ASSUME NEW t \in Callers, Accepts(t) PROVE <<y, x>> \in scheduled_before'
 <2>1. /\ UNCHANGED <<posted, executed, scheduled_before>> /\ call_pc[t] \in Posting
       /\ accepted' = accepted \union ({call_item[t]} \ {StopItem})
   BY <1>7 DEF Accepts, Posting
 <2>2. y = call_item[t] /\ y # StopItem => FALSE
  <3>1. ASSUME y = call_item[t], y # StopItem PROVE y.by = t /\ y.n = posted[t]
    BY <2>1, <3>1 DEF CallsOwn
  <3>2. posted[t] \in Nat BY <1>c
  <3> QED BY <1>0, <1>c, <2>1, <3>1, <3>2
 <2> QED BY <1>0, <1>i, <2>1, <2>2
<1> QED BY <1>2, <1>3, <1>4, <1>5, <1>6, <1>7, <1>1, Recorded

ServiceInvariant == OrderInvariant /\ CallsOwn /\ InOrder

\* What the service and the engine both need hold in every reachable state.
THEOREM ServiceInvariantHolds == Spec => []ServiceInvariant
<1>1. Init => CallsOwn /\ InOrder BY DEF Init, CallsOwn, InOrder
<1>2. OrderInvariant /\ CallsOwn /\ InOrder /\ [Next]_vars => (CallsOwn /\ InOrder)'
 <2>1. ASSUME OrderInvariant, CallsOwn, InOrder, Next PROVE CallsOwn' /\ InOrder'
  <3>1. OrderBase /\ TypeOK BY <2>1 DEF OrderInvariant, OrderBase
  <3> QED BY <2>1, <3>1, StepCallsOwn, StepInOrder
 <2>2. ASSUME CallsOwn, InOrder, UNCHANGED vars PROVE CallsOwn' /\ InOrder'
   BY <2>2 DEF vars, CallsOwn, InOrder, Intact
 <2> QED BY <2>1, <2>2
<1> QED BY <1>1, <1>2, OrderHolds, PTL DEF Spec, ServiceInvariant

\* A callback that is accepted was numbered after all of its source.
LEMMA SchedulesNext ==
    ASSUME TypeOK, Numbered, NEW x \in Callback, x.n # 0, x.n >= posted[x.by], x \notin accepted
    PROVE  Service!Schedulable(x)
<1>1. ASSUME NEW y \in accepted, y.by = x.by PROVE y.n < x.n
 <2>1. /\ y \in Callback /\ y.n \in Nat /\ x.n \in Nat /\ y.n <= posted[x.by] /\ posted[x.by] \in Nat
   BY <1>1 DEF Numbered, TypeOK, HistoryType, Callback
 <2>2. y.n # x.n BY <1>1, <2>1 DEF Callback
 <2> QED BY <2>1, <2>2
<1> QED BY <1>1 DEF Service!Schedulable, Callback

\* The callback that runs is one the service may run.
LEMMA RunsNext ==
    ASSUME ServiceInvariant, Execute
    PROVE  Service!Runnable(Head(ready_batch)) /\ Head(ready_batch) \notin executed
<1>0. /\ OrderInvariant /\ TypeOK /\ ClosedLast /\ CopiesExact /\ Numbered /\ InOrder
      /\ loop_pc = "drain" /\ ready_batch # <<>> /\ Head(ready_batch) # StopItem
  BY DEF ServiceInvariant, OrderInvariant, OrderBase, ConservationInvariant
<1>1. Intact BY <1>0 DEF Intact, ClosedLast
<1>2. PICK x \in Callback : x = Head(ready_batch) /\ x \in accepted /\ x \notin executed
  BY <1>0, <1>1, HeadAccepted
<1>3. ASSUME x.by \in Producers, NEW y \in accepted, y.by = x.by, y.n < x.n, y \notin executed PROVE FALSE
 <2>1. x.n <= posted[x.by] BY <1>0, <1>2 DEF Numbered
 <2>2. <<y, x>> \in scheduled_before BY <1>0, <1>1, <1>2, <1>3, <2>1 DEF InOrder
 <2>3. <<y, x>>[2] = x OBVIOUS
 <2> HIDE DEF Execute
 <2> QED BY <1>0, <1>2, <1>3, <2>2, <2>3, HeadIsFirst
<1> QED BY <1>2, <1>3 DEF Service!Runnable

\* Every step of the engine is one of the service, or none.
LEMMA ServiceStep ==
    ASSUME ServiceInvariant, Next
    PROVE  [Service!Next]_(Service!vars)
<1>0. TypeOK /\ Numbered /\ CallsOwn
  BY DEF ServiceInvariant, OrderInvariant, OrderBase, ConservationInvariant
<1>c. /\ posted \in [Sources -> Nat] /\ call_item \in [Callers -> ReadyItem]
      /\ Callers \subseteq Sources /\ "io" \in Sources /\ "loop" \in Sources
  BY <1>0 DEF TypeOK, HistoryType, CallerType, Sources, Callers
<1>n. ASSUME NEW s \in Sources
      PROVE  /\ Service!Schedulable(NextOf(s)) /\ NextOf(s) \notin accepted
 <2>1. /\ NextOf(s) \in Callback /\ NextOf(s).by = s /\ NextOf(s).n = posted[s] + 1 /\ posted[s] \in Nat
   BY <1>0, <1>c, ItemFacts DEF NextOf, TypeOK
 <2>2. NextOf(s).n # 0 /\ NextOf(s).n >= posted[NextOf(s).by] BY <2>1
 <2>3. NextOf(s) \notin accepted BY <1>0, <2>1 DEF Numbered
 <2> QED BY <1>0, <2>1, <2>2, <2>3, SchedulesNext
<1>s. ASSUME NEW x, Service!Schedulable(x), x \notin accepted, accepted' = accepted \union {x}, UNCHANGED executed
      PROVE  Service!Next
  BY <1>s DEF Service!Next, Service!Schedule
<1>1. CASE GoesOn BY <1>1 DEF GoesOn, Service!vars
<1>2. CASE EnqueuesIo BY <1>2, <1>c, <1>n, <1>s DEF EnqueuesIo
<1>3. CASE RunsHead
 <2>1. Execute /\ executed' = executed \union {Head(ready_batch)} /\ UNCHANGED accepted
   BY <1>3 DEF RunsHead
 <2> HIDE DEF Execute
 <2> QED BY <2>1, RunsNext DEF Service!Next, Service!Run
<1>4. CASE RunsAndSchedules
 <2>1. /\ Execute /\ executed' = executed \union {Head(ready_batch)}
       /\ accepted' = accepted \union {NextOf("loop")}
   BY <1>4 DEF RunsAndSchedules
 <2> HIDE DEF Execute
 <2>2. Service!Schedulable(NextOf("loop")) /\ NextOf("loop") \notin accepted BY <1>c, <1>n
 <2>3. Service!Runnable(Head(ready_batch)) /\ Head(ready_batch) \notin executed BY <2>1, RunsNext
 <2>4. Service!RunAndSchedule(Head(ready_batch), NextOf("loop"))
   BY <2>1, <2>2, <2>3 DEF Service!RunAndSchedule
 <2> QED BY <2>1, <2>2, <2>3, <2>4 DEF Service!Next
<1>5. ASSUME NEW t \in Callers, Begins(t) PROVE [Service!Next]_(Service!vars)
  BY <1>5 DEF Begins, Service!vars
<1>6. ASSUME NEW t \in Callers, Accepts(t) PROVE [Service!Next]_(Service!vars)
 <2>1. /\ UNCHANGED executed /\ call_pc[t] \in Posting
       /\ accepted' = accepted \union ({call_item[t]} \ {StopItem})
   BY <1>6 DEF Accepts, Posting
 <2>2. CASE call_item[t] = StopItem BY <2>1, <2>2 DEF Service!vars
 <2>3. CASE call_item[t] # StopItem
  <3>1. /\ call_item[t] \in Callback /\ call_item[t] \notin accepted
        /\ call_item[t].by = t /\ call_item[t].n = posted[t] /\ posted[t] # 0 /\ posted[t] \in Nat
    BY <1>0, <1>c, <2>1, <2>3, ItemFacts DEF Numbered, CallsOwn, Posting
  <3>2. Service!Schedulable(call_item[t]) BY <1>0, <3>1, SchedulesNext
  <3> QED BY <1>s, <2>1, <2>3, <3>1, <3>2
 <2> QED BY <2>2, <2>3
<1> QED BY <1>0, <1>1, <1>2, <1>3, <1>4, <1>5, <1>6, Recorded

\* The engine implements the service its callers see (CallbackService): every
\* accepted callback runs at most once, and each producer's callbacks in the
\* order it scheduled them, whatever the threads, runs, stops and errors.
THEOREM EngineImplementsService == Spec => ImplementsService
<1>1. Init => Service!Init BY DEF Init, Service!Init
<1>2. ServiceInvariant /\ [Next]_vars => [Service!Next]_(Service!vars)
 <2>1. ASSUME UNCHANGED vars PROVE UNCHANGED Service!vars BY <2>1 DEF vars, Service!vars
 <2> QED BY <2>1, ServiceStep
<1> QED BY <1>1, <1>2, ServiceInvariantHolds, PTL DEF Spec, ImplementsService, Service!Spec
=============================================================================
