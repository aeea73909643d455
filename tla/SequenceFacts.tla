---------------------------- MODULE SequenceFacts ----------------------------
(***************************************************************************)
(* What the queues of the models have in common: the elements of a         *)
(* sequence, whether it repeats one, and how append, tail, concatenation   *)
(* and cutting change both.                                                *)
(***************************************************************************)
EXTENDS Integers, Sequences, FiniteSets, TLAPS, SequenceTheorems,
        FiniteSetTheorems, WellFoundedInduction

Elems(s) == {s[i] : i \in 1..Len(s)}

Distinct(s) == \A i, j \in 1..Len(s) : s[i] = s[j] => i = j

\* The natural numbers up to m, as a finite set.
LEMMA IntervalFinite ==
    ASSUME NEW m \in Nat
    PROVE  IsFiniteSet(1..m) /\ Cardinality(1..m) = m
<1>1. m \in Int /\ 1 \in Int
  OBVIOUS
<1>2. /\ IsFiniteSet(1..m)
      /\ Cardinality(1..m) = IF 1 > m THEN 0 ELSE m - 1 + 1
  BY <1>1, FS_Interval, Zenon
<1> QED BY <1>2

\* An element is appended.
LEMMA AppendElems ==
    ASSUME NEW T, NEW s \in Seq(T), NEW x \in T
    PROVE  /\ Append(s, x) \in Seq(T)
           /\ Elems(Append(s, x)) = Elems(s) \union {x}
           /\ Distinct(s) /\ x \notin Elems(s) => Distinct(Append(s, x))
<1>1. /\ Append(s, x) \in Seq(T) /\ Len(Append(s, x)) = Len(s) + 1 /\ Len(s) \in Nat
      /\ \A i \in 1..Len(s) : Append(s, x)[i] = s[i]
      /\ Append(s, x)[Len(s) + 1] = x
  BY AppendProperties, LenProperties
<1>2. Elems(Append(s, x)) = Elems(s) \union {x}
  <2>1. 1..(Len(s) + 1) = 1..Len(s) \union {Len(s) + 1}
    BY <1>1
  <2> QED BY <1>1, <2>1, Zenon DEF Elems
<1>3. Distinct(s) /\ x \notin Elems(s) => Distinct(Append(s, x))
  BY <1>1 DEF Distinct, Elems
<1> QED BY <1>1, <1>2, <1>3

\* The head is taken off.
LEMMA TailElems ==
    ASSUME NEW T, NEW s \in Seq(T), s # <<>>
    PROVE  /\ Tail(s) \in Seq(T) /\ Head(s) \in T /\ Head(s) = s[1] /\ Len(s) \in Nat \ {0}
           /\ Len(Tail(s)) = Len(s) - 1
           /\ \A i \in 1..(Len(s) - 1) : Tail(s)[i] = s[i + 1]
           /\ Elems(s) = Elems(Tail(s)) \union {Head(s)}
           /\ Distinct(s) => Distinct(Tail(s)) /\ Head(s) \notin Elems(Tail(s))
<1>1. /\ Tail(s) \in Seq(T) /\ Head(s) \in T /\ Len(Tail(s)) = Len(s) - 1
      /\ Len(s) \in Nat \ {0} /\ Head(s) = s[1]
      /\ \A i \in 1..(Len(s) - 1) : Tail(s)[i] = s[i + 1]
  BY HeadTailProperties, EmptySeq, LenProperties
<1>2. ASSUME NEW t \in Elems(s) PROVE t \in Elems(Tail(s)) \union {Head(s)}
  <2>1. PICK i \in 1..Len(s) : t = s[i]
    BY DEF Elems
  <2>2. CASE i = 1
    BY <2>1, <2>2, <1>1
  <2>3. CASE i # 1
    <3>1. i - 1 \in 1..(Len(s) - 1) /\ Tail(s)[i - 1] = s[i]
      BY <2>3, <1>1
    <3> QED BY <2>1, <3>1, <1>1 DEF Elems
  <2> QED BY <2>2, <2>3
<1>3. ASSUME NEW t \in Elems(Tail(s)) \union {Head(s)} PROVE t \in Elems(s)
  <2>1. CASE t = Head(s)
    BY <2>1, <1>1 DEF Elems
  <2>2. CASE t \in Elems(Tail(s))
    <3>1. PICK i \in 1..(Len(s) - 1) : t = s[i + 1]
      BY <2>2, <1>1 DEF Elems
    <3>2. i + 1 \in 1..Len(s)
      BY <1>1
    <3> QED BY <3>1, <3>2 DEF Elems
  <2> QED BY <2>1, <2>2
<1>4. Distinct(s) => Distinct(Tail(s)) /\ Head(s) \notin Elems(Tail(s))
  BY <1>1 DEF Distinct, Elems
<1> QED BY <1>1, <1>2, <1>3, <1>4

\* Two sequences are joined.
LEMMA ConcatElems ==
    ASSUME NEW T, NEW s \in Seq(T), NEW q \in Seq(T)
    PROVE  /\ s \o q \in Seq(T)
           /\ Elems(s \o q) = Elems(s) \union Elems(q)
           /\ Distinct(s) /\ Distinct(q) /\ Elems(s) \cap Elems(q) = {} => Distinct(s \o q)
<1>1. /\ s \o q \in Seq(T) /\ Len(s \o q) = Len(s) + Len(q)
      /\ Len(s) \in Nat /\ Len(q) \in Nat
      /\ \A i \in 1..(Len(s) + Len(q)) :
             (s \o q)[i] = IF i <= Len(s) THEN s[i] ELSE q[i - Len(s)]
  BY ConcatProperties, LenProperties
<1>2. ASSUME NEW t \in Elems(s \o q) PROVE t \in Elems(s) \union Elems(q)
  <2>1. PICK i \in 1..(Len(s) + Len(q)) : t = (s \o q)[i]
    BY <1>1 DEF Elems
  <2>2. CASE i <= Len(s)
    BY <2>1, <2>2, <1>1 DEF Elems
  <2>3. CASE ~(i <= Len(s))
    <3>1. i - Len(s) \in 1..Len(q) /\ t = q[i - Len(s)]
      BY <2>1, <2>3, <1>1
    <3> QED BY <3>1 DEF Elems
  <2> QED BY <2>2, <2>3
<1>3. Elems(s) \subseteq Elems(s \o q)
  BY <1>1 DEF Elems
<1>4. ASSUME NEW t \in Elems(q) PROVE t \in Elems(s \o q)
  <2>1. PICK i \in 1..Len(q) : t = q[i]
    BY DEF Elems
  <2>2. i + Len(s) \in 1..(Len(s) + Len(q)) /\ (s \o q)[i + Len(s)] = t
    BY <2>1, <1>1
  <2> QED BY <2>2, <1>1 DEF Elems
<1>5. ASSUME Distinct(s), Distinct(q), Elems(s) \cap Elems(q) = {} PROVE Distinct(s \o q)
  <2> SUFFICES ASSUME NEW i \in 1..(Len(s) + Len(q)), NEW j \in 1..(Len(s) + Len(q)),
                      (s \o q)[i] = (s \o q)[j]
               PROVE  i = j
    BY <1>1 DEF Distinct
  <2>1. ASSUME NEW k \in 1..(Len(s) + Len(q))
        PROVE  \/ k \in 1..Len(s) /\ (s \o q)[k] = s[k] /\ (s \o q)[k] \in Elems(s)
               \/ k - Len(s) \in 1..Len(q) /\ (s \o q)[k] = q[k - Len(s)]
                  /\ (s \o q)[k] \in Elems(q)
    BY <1>1 DEF Elems
  <2> QED BY <2>1, <1>1, <1>5 DEF Distinct
<1> QED BY <1>1, <1>2, <1>3, <1>4, <1>5

\* An enumeration without repetition reaches every element.
LEMMA Enumerates ==
    ASSUME NEW S, IsFiniteSet(S), NEW q \in [1..Cardinality(S) -> S],
           \A i, j \in DOMAIN q : i # j => q[i] # q[j]
    PROVE  \A x \in S : \E i \in 1..Cardinality(S) : q[i] = x
<1>1. Cardinality(S) \in Nat
  BY FS_CardinalityType
<1>2. q \in Injection(1..Cardinality(S), S)
  BY DEF Injection, IsInjective
<1>3. Cardinality(1..Cardinality(S)) = Cardinality(S)
  BY <1>1, FS_Interval
<1>4. q \in Surjection(1..Cardinality(S), S)
  BY <1>2, <1>3, FS_Injection
<1> QED BY <1>4 DEF Surjection

\* A set of natural numbers has a least element.
LEMMA LeastNat ==
    ASSUME NEW T, T \subseteq Nat, T # {}
    PROVE  \E x \in T : \A y \in T : x <= y
<1>1. PICK x \in T : \A y \in T : ~(<<y, x>> \in OpToRel(<, Nat))
  BY NatLessThanWellFounded, WFMin
<1>2. \A y \in T : ~(y < x)
  BY <1>1 DEF OpToRel
<1> QED BY <1>2

\* The first n elements are cut off.
LEMMA CutElems ==
    ASSUME NEW T, NEW s \in Seq(T), NEW n \in 0..Len(s)
    PROVE  LET a == SubSeq(s, 1, n)
               b == SubSeq(s, n + 1, Len(s))
           IN  /\ a \in Seq(T) /\ b \in Seq(T) /\ Len(a) = n /\ Len(b) = Len(s) - n
               /\ \A i \in 1..n : a[i] = s[i]
               /\ \A i \in 1..(Len(s) - n) : b[i] = s[n + i]
               /\ Elems(s) = Elems(a) \union Elems(b)
               /\ Distinct(s) => Distinct(b) /\ Elems(a) \cap Elems(b) = {}
<1> DEFINE a == SubSeq(s, 1, n)
           b == SubSeq(s, n + 1, Len(s))
<1>1. Len(s) \in Nat /\ n \in Nat /\ n <= Len(s) /\ \A i \in 1..Len(s) : s[i] \in T
  BY LenProperties, ElementOfSeq
<1>2. a \in Seq(T) /\ Len(a) = n /\ \A i \in 1..n : a[i] = s[i]
  BY <1>1, SubSeqProperties
<1>3. b \in Seq(T) /\ Len(b) = Len(s) - n /\ \A i \in 1..(Len(s) - n) : b[i] = s[n + i]
  BY <1>1, SubSeqProperties
<1> HIDE DEF a, b
<1>4. Elems(a) \subseteq Elems(s) /\ Elems(b) \subseteq Elems(s)
  BY <1>1, <1>2, <1>3 DEF Elems
<1>5. ASSUME NEW x \in Elems(s) PROVE x \in Elems(a) \union Elems(b)
  <2>1. PICK i \in 1..Len(s) : x = s[i]
    BY DEF Elems
  <2>2. CASE i <= n
    BY <1>1, <1>2, <2>1, <2>2 DEF Elems
  <2>3. CASE ~(i <= n)
    <3>1. i - n \in 1..(Len(s) - n) /\ b[i - n] = x
      BY <1>1, <1>3, <2>1, <2>3
    <3> QED BY <3>1, <1>3 DEF Elems
  <2> QED BY <2>2, <2>3
<1>6. Distinct(s) => Distinct(b) /\ Elems(a) \cap Elems(b) = {}
  <2> SUFFICES ASSUME Distinct(s) PROVE Distinct(b) /\ Elems(a) \cap Elems(b) = {}
    OBVIOUS
  <2>1. Distinct(b)
    <3> SUFFICES ASSUME NEW i \in 1..(Len(s) - n), NEW j \in 1..(Len(s) - n), b[i] = b[j]
                 PROVE  i = j
      BY <1>3 DEF Distinct
    <3>1. n + i \in 1..Len(s) /\ n + j \in 1..Len(s) /\ s[n + i] = s[n + j]
      BY <1>1, <1>3
    <3>2. n + i = n + j
      BY <3>1 DEF Distinct
    <3> QED BY <3>2, <1>1
  <2>2. ASSUME NEW x \in Elems(a), x \in Elems(b) PROVE FALSE
    <3>1. PICK i \in 1..n : x = s[i]
      BY <1>2 DEF Elems
    <3>2. PICK j \in 1..(Len(s) - n) : x = s[n + j]
      BY <2>2, <1>3 DEF Elems
    <3>3. i \in 1..Len(s) /\ n + j \in 1..Len(s) /\ i # n + j
      BY <1>1
    <3> QED BY <3>1, <3>2, <3>3 DEF Distinct
  <2> QED BY <2>1, <2>2
<1> QED BY <1>2, <1>3, <1>4, <1>5, <1>6 DEF a, b

\* How often an element occurs in a sequence that repeats none.
LEMMA Occurrences ==
    ASSUME NEW T, NEW s \in Seq(T), Distinct(s), NEW t
    PROVE  Cardinality({i \in 1..Len(s) : s[i] = t}) = IF t \in Elems(s) THEN 1 ELSE 0
<1>1. CASE t \in Elems(s)
  <2>1. PICK i \in 1..Len(s) : s[i] = t
    BY <1>1 DEF Elems
  <2>2. {k \in 1..Len(s) : s[k] = t} = {i}
    BY <2>1 DEF Distinct
  <2> QED BY <2>2, <1>1, FS_Singleton
<1>2. CASE t \notin Elems(s)
  <2>1. {i \in 1..Len(s) : s[i] = t} = {}
    BY <1>2 DEF Elems
  <2> QED BY <2>1, <1>2, FS_EmptySet
<1> QED BY <1>1, <1>2

-----------------------------------------------------------------------------
(* How many elements of a sequence are in a set. *)

Spots(s, C) == {i \in 1..Len(s) : s[i] \in C}
CountIn(s, C) == Cardinality(Spots(s, C))

LEMMA CountType ==
    ASSUME NEW T, NEW s \in Seq(T), NEW C
    PROVE  /\ IsFiniteSet(Spots(s, C)) /\ CountIn(s, C) \in Nat
           /\ CountIn(s, C) = 0 <=> \A i \in 1..Len(s) : s[i] \notin C
<1>1. Len(s) \in Nat /\ Len(s) \in Int /\ 1 \in Int
  BY LenProperties
<1>2. IsFiniteSet(1..Len(s))
  BY <1>1, FS_Interval
<1>3. IsFiniteSet(Spots(s, C))
  BY <1>2, FS_Subset DEF Spots
<1>4. CountIn(s, C) = 0 <=> Spots(s, C) = {}
  BY <1>3, FS_EmptySet DEF CountIn
<1>5. CountIn(s, C) \in Nat
  BY <1>3, FS_CardinalityType DEF CountIn
<1> QED BY <1>3, <1>4, <1>5 DEF Spots

\* A one-to-one correspondence keeps the size.
LEMMA SameSize ==
    ASSUME NEW S, IsFiniteSet(S), NEW T, NEW f \in [S -> T],
           \A a, b \in S : f[a] = f[b] => a = b,
           \A t \in T : \E a \in S : f[a] = t
    PROVE  IsFiniteSet(T) /\ Cardinality(T) = Cardinality(S)
<1>1. f \in Bijection(S, T)
  BY DEF Bijection, Injection, Surjection, IsInjective
<1>2. ExistsBijection(S, T)
  BY <1>1 DEF ExistsBijection
<1> QED BY <1>2, FS_Bijection

\* Shifting a finite set of numbers keeps its size.
LEMMA ShiftCount ==
    ASSUME NEW S \in SUBSET Int, IsFiniteSet(S), NEW n \in Int
    PROVE  /\ IsFiniteSet({i + n : i \in S})
           /\ Cardinality({i + n : i \in S}) = Cardinality(S)
<1> DEFINE T == {i + n : i \in S}
           f == [i \in S |-> i + n]
<1>1. f \in [S -> T]
  OBVIOUS
<1>2. \A a, b \in S : f[a] = f[b] => a = b
  OBVIOUS
<1>3. \A t \in T : \E a \in S : f[a] = t
  OBVIOUS
<1> HIDE DEF f
<1> QED BY <1>1, <1>2, <1>3, SameSize

LEMMA CountAppend ==
    ASSUME NEW T, NEW s \in Seq(T), NEW x \in T, NEW C
    PROVE  CountIn(Append(s, x), C) = CountIn(s, C) + IF x \in C THEN 1 ELSE 0
<1>1. /\ Len(Append(s, x)) = Len(s) + 1 /\ Len(s) \in Nat
      /\ \A i \in 1..Len(s) : Append(s, x)[i] = s[i]
      /\ Append(s, x)[Len(s) + 1] = x
  BY AppendProperties, LenProperties
<1>2. IsFiniteSet(Spots(s, C)) /\ CountIn(s, C) \in Nat
  BY CountType
<1>3. CASE x \in C
  <2>1. Spots(Append(s, x), C) = Spots(s, C) \union {Len(s) + 1}
    BY <1>1, <1>3 DEF Spots
  <2>2. Len(s) + 1 \notin Spots(s, C)
    BY <1>1 DEF Spots
  <2> QED BY <1>2, <1>3, <2>1, <2>2, FS_AddElement DEF CountIn
<1>4. CASE x \notin C
  <2>1. Spots(Append(s, x), C) = Spots(s, C)
    BY <1>1, <1>4 DEF Spots
  <2> QED BY <1>2, <1>4, <2>1 DEF CountIn
<1> QED BY <1>3, <1>4

LEMMA CountTail ==
    ASSUME NEW T, NEW s \in Seq(T), s # <<>>, NEW C
    PROVE  CountIn(s, C) = CountIn(Tail(s), C) + IF Head(s) \in C THEN 1 ELSE 0
<1>1. /\ Tail(s) \in Seq(T) /\ Head(s) = s[1] /\ Len(s) \in Nat \ {0}
      /\ Len(Tail(s)) = Len(s) - 1
      /\ \A i \in 1..(Len(s) - 1) : Tail(s)[i] = s[i + 1]
  BY TailElems
<1> DEFINE S == Spots(Tail(s), C)
           U == {i + 1 : i \in S}
<1>2. IsFiniteSet(S) /\ S \in SUBSET Int /\ Cardinality(S) \in Nat
  <2>1. IsFiniteSet(S) /\ Cardinality(S) \in Nat
    BY <1>1, CountType, FS_CardinalityType
  <2>2. S \in SUBSET Int
    <3>1. Spots(Tail(s), C) \subseteq 1..Len(Tail(s))
      BY DEF Spots
    <3> QED BY <1>1, <3>1
  <2> QED BY <2>1, <2>2
<1>3. IsFiniteSet(U) /\ Cardinality(U) = Cardinality(S)
  <2> HIDE DEF S
  <2>1. 1 \in Int
    OBVIOUS
  <2> QED BY <1>2, <2>1, ShiftCount
<1>4. U = {i \in 2..Len(s) : s[i] \in C}
  <2>1. ASSUME NEW u \in U PROVE u \in 2..Len(s) /\ s[u] \in C
    <3>1. PICK i \in S : u = i + 1
      OBVIOUS
    <3> QED BY <1>1, <3>1 DEF Spots
  <2>2. ASSUME NEW u \in 2..Len(s), s[u] \in C PROVE u \in U
    <3>1. u - 1 \in 1..(Len(s) - 1) /\ u = (u - 1) + 1
      BY <1>1
    <3>2. u - 1 \in S
      BY <1>1, <2>2, <3>1 DEF Spots
    <3> QED BY <3>1, <3>2
  <2> HIDE DEF U, S
  <2> QED BY <2>1, <2>2
<1> HIDE DEF U
<1>5. CASE Head(s) \in C
  <2>1. Spots(s, C) = U \union {1} /\ 1 \notin U
    BY <1>1, <1>4, <1>5 DEF Spots
  <2> QED BY <1>2, <1>3, <1>5, <2>1, FS_AddElement DEF CountIn
<1>6. CASE Head(s) \notin C
  <2>1. Spots(s, C) = U
    BY <1>1, <1>4, <1>6 DEF Spots
  <2> QED BY <1>2, <1>3, <1>6, <2>1 DEF CountIn
<1> QED BY <1>5, <1>6

LEMMA CountConcat ==
    ASSUME NEW T, NEW s \in Seq(T), NEW q \in Seq(T), NEW C
    PROVE  CountIn(s \o q, C) = CountIn(s, C) + CountIn(q, C)
<1>1. /\ Len(s \o q) = Len(s) + Len(q) /\ Len(s) \in Nat /\ Len(q) \in Nat
      /\ \A i \in 1..(Len(s) + Len(q)) :
             (s \o q)[i] = IF i <= Len(s) THEN s[i] ELSE q[i - Len(s)]
  BY ConcatProperties, LenProperties
<1> DEFINE A == Spots(s, C)
           S == Spots(q, C)
           U == {i + Len(s) : i \in S}
<1>2. /\ IsFiniteSet(A) /\ IsFiniteSet(S) /\ S \in SUBSET Int
      /\ Cardinality(S) \in Nat /\ Cardinality(A) \in Nat
  BY <1>1, CountType DEF Spots, CountIn
<1>3. IsFiniteSet(U) /\ Cardinality(U) = Cardinality(S)
  <2> HIDE DEF S
  <2>1. Len(s) \in Int
    BY <1>1
  <2> QED BY <1>2, <2>1, ShiftCount
<1>4. U = {i \in (Len(s) + 1)..(Len(s) + Len(q)) : q[i - Len(s)] \in C}
  <2>1. ASSUME NEW u \in U PROVE u \in (Len(s) + 1)..(Len(s) + Len(q)) /\ q[u - Len(s)] \in C
    <3>1. PICK i \in S : u = i + Len(s)
      OBVIOUS
    <3>2. i \in 1..Len(q) /\ q[i] \in C /\ u - Len(s) = i
      BY <1>1, <3>1 DEF Spots
    <3> QED BY <1>1, <3>1, <3>2
  <2>2. ASSUME NEW u \in (Len(s) + 1)..(Len(s) + Len(q)), q[u - Len(s)] \in C PROVE u \in U
    <3>1. u - Len(s) \in 1..Len(q) /\ u = (u - Len(s)) + Len(s)
      BY <1>1
    <3>2. u - Len(s) \in S
      BY <2>2, <3>1 DEF Spots
    <3> QED BY <3>1, <3>2
  <2> HIDE DEF U, S
  <2> QED BY <2>1, <2>2
<1>5. Spots(s \o q, C) = A \union U
  <2> HIDE DEF U
  <2> QED BY <1>1, <1>4 DEF Spots
<1>6. A \cap U = {}
  <2> HIDE DEF U
  <2> QED BY <1>1, <1>4 DEF Spots
<1> HIDE DEF A, S, U
<1>7. Cardinality(A \union U) = Cardinality(A) + Cardinality(U) - Cardinality(A \cap U)
  BY <1>2, <1>3, FS_Union
<1>8. Cardinality(A \union U) = Cardinality(A) + Cardinality(S)
  <2>1. Cardinality(A \cap U) = 0
    BY <1>6, FS_EmptySet
  <2> QED BY <1>2, <1>3, <1>7, <2>1
<1> QED BY <1>5, <1>8 DEF CountIn, A, S
=============================================================================
