------------------------------ MODULE QueueProofs ------------------------------
(***************************************************************************)
(* Lemmas about queues and stacks that hold anybody at most once: what     *)
(* removing, adding and taking from the end do to their members.  Behind   *)
(* them, lemmas about what is left behind the first members of a sequence, *)
(* about the positions of a stream, and about the messages in a stream     *)
(* that any peer may send.                                                 *)
(***************************************************************************)
EXTENDS Queues, Streams, SequenceTheorems, FiniteSetTheorems, TLAPS

\* Taking out what is at position k moves what is behind it forward.
LEMMA WithoutAt ==
    ASSUME NEW S, NEW q \in Seq(S), IsInjective(q), NEW k \in 1..Len(q)
    PROVE  /\ Without(q, q[k]) \in Seq(S)
           /\ Len(Without(q, q[k])) = Len(q) - 1
           /\ \A i \in 1..(Len(q) - 1) :
                 Without(q, q[k])[i] = IF i < k THEN q[i] ELSE q[i + 1]
<1> DEFINE l == SubSeq(q, 1, k - 1)
           r == SubSeq(q, k + 1, Len(q))
           w == Without(q, q[k])
<1>1. w = l \o r
  <2> DEFINE at == CHOOSE i \in DOMAIN q : q[i] = q[k]
  <2>1. q[k] \in ToSet(q) /\ k \in DOMAIN q
    BY DEF ToSet
  <2>2. at \in DOMAIN q /\ q[at] = q[k]
    BY <2>1
  <2>3. at = k
    <3> HIDE DEF at
    <3> QED
      BY <2>1, <2>2 DEF IsInjective
  <2>4. w = RemoveAt(q, at)
    BY <2>1 DEF Without
  <2> HIDE DEF at
  <2> QED
    BY <2>3, <2>4 DEF RemoveAt
<1>2. /\ l \in Seq(S) /\ Len(l) = k - 1
      /\ \A i \in 1..(k - 1) : l[i] = q[i]
  OBVIOUS
<1>3. /\ r \in Seq(S) /\ Len(r) = Len(q) - k
      /\ \A i \in 1..(Len(q) - k) : r[i] = q[k + i]
  OBVIOUS
<1> HIDE DEF l, r, w
<1>4. /\ l \o r \in Seq(S) /\ Len(l \o r) = Len(l) + Len(r)
      /\ \A i \in 1..(Len(l) + Len(r)) :
            (l \o r)[i] = IF i <= Len(l) THEN l[i] ELSE r[i - Len(l)]
  BY <1>2, <1>3, ConcatProperties, Zenon
<1>5. Len(l) + Len(r) = Len(q) - 1
  BY <1>2, <1>3
<1>6. /\ w \in Seq(S) /\ Len(w) = Len(q) - 1
      /\ \A i \in 1..(Len(q) - 1) : w[i] = IF i <= Len(l) THEN l[i] ELSE r[i - Len(l)]
  BY <1>1, <1>4, <1>5, Zenon
<1>7. ASSUME NEW i \in 1..(Len(q) - 1)
      PROVE  w[i] = IF i < k THEN q[i] ELSE q[i + 1]
  <2>1. CASE i < k
    BY <1>2, <1>6, <2>1
  <2>2. CASE i >= k
    <3> DEFINE j == i - Len(l)
    <3>1. j \in 1..(Len(q) - k) /\ k + j = i + 1 /\ ~(i <= Len(l)) /\ ~(i < k)
      BY <1>2, <2>2
    <3>2. w[i] = r[j]
      BY <1>6, <3>1
    <3> HIDE DEF j
    <3>3. r[j] = q[k + j]
      BY <1>3, <3>1
    <3> QED
      BY <3>1, <3>2, <3>3
  <2> QED
    BY <2>1, <2>2
<1> QED
  BY <1>6, <1>7 DEF w

\* Removing the node of a waiter from a queue removes that waiter and nothing
\* else.
LEMMA WithoutProperties ==
    ASSUME NEW S, NEW q \in Seq(S), IsInjective(q), NEW c \in ToSet(q)
    PROVE  /\ Without(q, c) \in Seq(S)
           /\ IsInjective(Without(q, c))
           /\ ToSet(Without(q, c)) = ToSet(q) \ {c}
<1> DEFINE w == Without(q, c)
<1>1. PICK at \in 1..Len(q) : q[at] = c
  BY DEF ToSet
<1>2. /\ w \in Seq(S) /\ Len(w) = Len(q) - 1
      /\ \A i \in 1..(Len(q) - 1) : w[i] = IF i < at THEN q[i] ELSE q[i + 1]
  BY <1>1, WithoutAt
<1> HIDE DEF w
<1>3. IsInjective(w)
  <2> SUFFICES ASSUME NEW i \in 1..Len(w), NEW j \in 1..Len(w), w[i] = w[j]
               PROVE  i = j
    BY <1>2 DEF IsInjective
  <2> DEFINE up(k) == IF k < at THEN k ELSE k + 1
  <2>1. ASSUME NEW k \in 1..Len(w) PROVE up(k) \in 1..Len(q) /\ w[k] = q[up(k)]
    <3>1. k \in 1..(Len(q) - 1)
      BY <1>2
    <3>2. w[k] = IF k < at THEN q[k] ELSE q[k + 1]
      BY <1>2, <3>1
    <3>3. CASE k < at
      BY <3>1, <3>2, <3>3
    <3>4. CASE ~(k < at)
      BY <3>1, <3>2, <3>4
    <3> QED
      BY <3>3, <3>4
  <2>2. up(i) = up(j)
    <3> HIDE DEF up
    <3>1. DOMAIN q = 1..Len(q)
      OBVIOUS
    <3>2. q[up(i)] = q[up(j)]
      BY <2>1
    <3> QED
      BY <2>1, <3>1, <3>2, Zenon DEF IsInjective
  <2> QED
    BY <1>1, <2>2
<1>4. ToSet(w) = ToSet(q) \ {c}
  <2>1. ASSUME NEW d \in ToSet(w) PROVE d \in ToSet(q) \ {c}
    BY <1>1, <1>2 DEF ToSet, IsInjective
  <2>2. ASSUME NEW d \in ToSet(q) \ {c} PROVE d \in ToSet(w)
    <3>1. PICK i \in 1..Len(q) : q[i] = d
      BY DEF ToSet
    <3>2. CASE i < at
      BY <1>1, <1>2, <3>1, <3>2 DEF ToSet
    <3>3. CASE i > at
      <4>1. i - 1 \in 1..Len(w) /\ w[i - 1] = d
        BY <1>1, <1>2, <3>1, <3>3
      <4> QED
        BY <1>2, <4>1 DEF ToSet
    <3> QED
      BY <1>1, <3>1, <3>2, <3>3
  <2> QED
    BY <2>1, <2>2
<1> QED
  BY <1>2, <1>3, <1>4 DEF w

\* Whoever is not in a queue can be removed from it without effect.
LEMMA WithoutStranger ==
    ASSUME NEW q, NEW c, c \notin ToSet(q)
    PROVE  Without(q, c) = q
BY DEF Without

\* Queueing a coroutine that is not in the queue adds it and nothing else.
LEMMA AppendWaiter ==
    ASSUME NEW S, NEW q \in Seq(S), IsInjective(q), NEW c \in S, c \notin ToSet(q)
    PROVE  /\ Append(q, c) \in Seq(S)
           /\ Append(q, c) # <<>>
           /\ IsInjective(Append(q, c))
           /\ ToSet(Append(q, c)) = ToSet(q) \cup {c}
<1> DEFINE a == Append(q, c)
<1>1. /\ a \in Seq(S) /\ a # <<>>
      /\ Len(a) = Len(q) + 1
      /\ \A i \in 1..Len(q) : a[i] = q[i]
      /\ a[Len(q) + 1] = c
  OBVIOUS
<1> HIDE DEF a
<1>2. IsInjective(a)
  BY <1>1 DEF IsInjective, ToSet
<1>3. ToSet(a) = ToSet(q) \cup {c}
  BY <1>1 DEF ToSet
<1> QED
  BY <1>1, <1>2, <1>3 DEF a

\* Queueing at the end, one or several.
LEMMA ConcatWaiters ==
    ASSUME NEW S, NEW q \in Seq(S), NEW d \in Seq(S)
    PROVE  q \o d \in Seq(S) /\ ToSet(q \o d) = ToSet(q) \cup ToSet(d)
<1>1. /\ q \o d \in Seq(S) /\ Len(q \o d) = Len(q) + Len(d)
      /\ \A i \in 1..(Len(q) + Len(d)) :
            (q \o d)[i] = IF i <= Len(q) THEN q[i] ELSE d[i - Len(q)]
  BY ConcatProperties, Zenon
<1> DEFINE a == q \o d
<1> HIDE DEF a
<1>2. /\ a \in Seq(S) /\ Len(a) = Len(q) + Len(d)
      /\ \A i \in 1..(Len(q) + Len(d)) :
            a[i] = IF i <= Len(q) THEN q[i] ELSE d[i - Len(q)]
  BY <1>1 DEF a
<1>3. ASSUME NEW x \in ToSet(a) PROVE x \in ToSet(q) \cup ToSet(d)
  <2>1. PICK i \in 1..(Len(q) + Len(d)) : a[i] = x
    BY <1>2 DEF ToSet
  <2>2. CASE i <= Len(q)
    BY <1>2, <2>1, <2>2 DEF ToSet
  <2>3. CASE ~(i <= Len(q))
    <3>1. i - Len(q) \in 1..Len(d) /\ d[i - Len(q)] = x
      BY <1>2, <2>1, <2>3
    <3> QED
      BY <3>1 DEF ToSet
  <2> QED
    BY <2>2, <2>3
<1>4. ASSUME NEW x \in ToSet(q) PROVE x \in ToSet(a)
  <2>1. PICK i \in 1..Len(q) : q[i] = x
    BY DEF ToSet
  <2>2. i \in 1..Len(a) /\ a[i] = x
    BY <1>2, <2>1
  <2> QED
    BY <1>2, <2>2 DEF ToSet
<1>5. ASSUME NEW x \in ToSet(d) PROVE x \in ToSet(a)
  <2>1. PICK i \in 1..Len(d) : d[i] = x
    BY DEF ToSet
  <2>2. Len(q) + i \in 1..Len(a) /\ a[Len(q) + i] = x
    BY <1>2, <2>1
  <2> QED
    BY <1>2, <2>2 DEF ToSet
<1> QED
  BY <1>2, <1>3, <1>4, <1>5 DEF a

\* The first waiter is in the queue.
LEMMA HeadIsInQueue ==
    ASSUME NEW S, NEW q \in Seq(S), q # <<>>
    PROVE  Head(q) \in ToSet(q) /\ Head(q) \in S
<1>1. 1 \in 1..Len(q) /\ q[1] = Head(q)
  OBVIOUS
<1> QED
  BY <1>1 DEF ToSet

LEMMA EmptyQueue ==
    ASSUME NEW S, NEW q \in Seq(S)
    PROVE  q = <<>> <=> ToSet(q) = {}
<1>1. ASSUME q # <<>> PROVE ToSet(q) # {}
  BY <1>1, HeadIsInQueue
<1>2. ASSUME q = <<>> PROVE ToSet(q) = {}
  BY <1>2 DEF ToSet
<1> QED
  BY <1>1, <1>2

\* Removing somebody who may be there and putting him at the end.
LEMMA MoveToEnd ==
    ASSUME NEW S, NEW q \in Seq(S), IsInjective(q), NEW c \in S
    PROVE  /\ Append(Without(q, c), c) \in Seq(S)
           /\ Append(Without(q, c), c) # <<>>
           /\ IsInjective(Append(Without(q, c), c))
           /\ ToSet(Append(Without(q, c), c)) = ToSet(q) \cup {c}
           /\ Last(Append(Without(q, c), c)) = c
<1> DEFINE w == Without(q, c)
<1>1. /\ w \in Seq(S) /\ IsInjective(w)
      /\ ToSet(w) = ToSet(q) \ {c}
  BY WithoutProperties, WithoutStranger
<1> HIDE DEF w
<1>2. /\ Append(w, c) \in Seq(S) /\ Append(w, c) # <<>>
      /\ IsInjective(Append(w, c))
      /\ ToSet(Append(w, c)) = ToSet(q) \cup {c}
  BY <1>1, AppendWaiter
<1>3. Last(Append(w, c)) = c
  BY <1>1 DEF Last
<1> QED
  BY <1>2, <1>3 DEF w

\* The last of a queue, and what is left without it.
LEMMA FrontProperties ==
    ASSUME NEW S, NEW q \in Seq(S), IsInjective(q), q # <<>>
    PROVE  /\ Last(q) \in ToSet(q)
           /\ Front(q) \in Seq(S)
           /\ IsInjective(Front(q))
           /\ ToSet(Front(q)) = ToSet(q) \ {Last(q)}
           /\ Len(Front(q)) = Len(q) - 1
           /\ \A i \in 1..(Len(q) - 1) : Front(q)[i] = q[i]
<1> DEFINE f == Front(q)
<1>1. Len(q) \in 1..Len(q) /\ Last(q) = q[Len(q)]
  BY DEF Last
<1>2. /\ f \in Seq(S) /\ Len(f) = Len(q) - 1
      /\ \A i \in 1..(Len(q) - 1) : f[i] = q[i]
  <2>1. f = SubSeq(q, 1, Len(q) - 1)
    BY DEF Front
  <2> HIDE DEF f
  <2>2. PICK n \in 1..Len(q) : n = Len(q)
    BY <1>1
  <2>3. /\ SubSeq(q, 1, n - 1) \in Seq(S) /\ Len(SubSeq(q, 1, n - 1)) = n - 1
        /\ \A i \in 1..(n - 1) : SubSeq(q, 1, n - 1)[i] = q[i]
    OBVIOUS
  <2> QED
    BY <2>1, <2>2, <2>3
<1> HIDE DEF f
<1>3. IsInjective(f)
  BY <1>1, <1>2 DEF IsInjective
<1>4. ToSet(f) = ToSet(q) \ {Last(q)}
  <2>1. ASSUME NEW d \in ToSet(f) PROVE d \in ToSet(q) \ {Last(q)}
    BY <1>1, <1>2 DEF ToSet, IsInjective
  <2>2. ASSUME NEW d \in ToSet(q) \ {Last(q)} PROVE d \in ToSet(f)
    <3>1. PICK i \in 1..Len(q) : q[i] = d
      BY DEF ToSet
    <3>2. i \in 1..Len(f) /\ f[i] = d
      BY <1>1, <1>2, <3>1
    <3> QED
      BY <1>2, <3>2 DEF ToSet
  <2> QED
    BY <2>1, <2>2
<1>5. Last(q) \in ToSet(q)
  BY <1>1 DEF ToSet
<1> QED
  BY <1>2, <1>3, <1>4, <1>5 DEF f

\* A queue of one.
LEMMA SingleProperties ==
    ASSUME NEW S, NEW c \in S
    PROVE  /\ <<c>> \in Seq(S) /\ <<c>> # <<>> /\ Len(<<c>>) = 1
           /\ IsInjective(<<c>>)
           /\ ToSet(<<c>>) = {c}
           /\ Last(<<c>>) = c
BY DEF IsInjective, ToSet, Last

LEMMA PairProperties == ASSUME NEW a, NEW b PROVE Append(<<a>>, b) = <<a, b>>
<1>1. <<a>> \in Seq({a, b}) /\ Len(<<a>>) = 1 /\ <<a>>[1] = a
  OBVIOUS
<1>2. /\ Append(<<a>>, b) \in Seq({a, b}) /\ Len(Append(<<a>>, b)) = 2
      /\ Append(<<a>>, b)[1] = a /\ Append(<<a>>, b)[2] = b
  BY <1>1
<1>3. \A q \in Seq({a, b}) : Len(q) = 2 => q = <<q[1], q[2]>>
  OBVIOUS
<1> QED
  BY <1>2, <1>3, Zenon

\* Any numbers have a least one.
LEMMA LeastNumber ==
    ASSUME NEW T, T \subseteq Nat, T # {}
    PROVE  \E m \in T : \A k \in T : m <= k
<1> DEFINE R == StrictSubsetOrdering(Nat)
           F == {0..n : n \in T}
<1>1. IsWellFoundedOn(R, FiniteSubsetsOf(Nat))
  BY FS_StrictSubsetOrderingWellFounded
<1>2. F \subseteq FiniteSubsetsOf(Nat) /\ F # {}
  <2>1. ASSUME NEW n \in T PROVE 0..n \in FiniteSubsetsOf(Nat)
    <3>1. IsFiniteSet(0..n)
      BY FS_Interval
    <3> QED
      BY <3>1 DEF FiniteSubsetsOf
  <2> QED
    BY <2>1
<1>3. PICK x \in F : \A y \in F : ~(<<y, x>> \in R)
  <2> HIDE DEF R, F
  <2> QED
    BY <1>1, <1>2, WFMin
<1>4. PICK m \in T : x = 0..m
  OBVIOUS
<1>5. ASSUME NEW k \in T, k < m PROVE FALSE
  <2>1. 0..k \in F
    OBVIOUS
  <2>2. 0..k \subseteq 0..m /\ 0..k # 0..m /\ 0..k \subseteq Nat /\ 0..m \subseteq Nat
    <3>1. m \in 0..m /\ m \notin 0..k
      BY <1>5
    <3> QED
      BY <3>1, <1>5
  <2>3. <<0..k, 0..m>> \in R
    BY <2>2 DEF StrictSubsetOrdering
  <2> QED
    BY <1>3, <1>4, <2>1, <2>3
<1> QED
  BY <1>5

\* A queue keeps just those of its members that are in T, in their order.
LEMMA KeepingProperties ==
    ASSUME NEW S, NEW q \in Seq(S), NEW T
    PROVE  /\ Keeping(q, T) \in Seq(S)
           /\ ToSet(Keeping(q, T)) = ToSet(q) \cap T
           /\ \A k, l \in DOMAIN Keeping(q, T) : k < l =>
                 \E i, j \in DOMAIN q :
                    i < j /\ Keeping(q, T)[k] = q[i] /\ Keeping(q, T)[l] = q[j]
<1> DEFINE kept == {i \in 1..Len(q) : q[i] \in T}
           m == Cardinality(kept)
           Before(i) == {j \in kept : j < i}
           rank == [i \in kept |-> Cardinality(Before(i)) + 1]
           At(k) == CHOOSE i \in kept : Cardinality(Before(i)) = k - 1
           w == Keeping(q, T)
<1>1. DOMAIN q = 1..Len(q) /\ Len(q) \in Nat
  OBVIOUS
<1>2. w = [k \in 1..m |-> q[At(k)]]
  BY <1>1 DEF Keeping
<1>3. kept \subseteq 1..Len(q)
  OBVIOUS
<1>4. IsFiniteSet(kept) /\ m \in Nat
  <2>1. IsFiniteSet(1..Len(q))
    BY <1>1, FS_Interval
  <2> HIDE DEF kept
  <2> QED
    BY <1>3, <2>1, FS_Subset, FS_CardinalityType
<1>5. ASSUME NEW i \in kept
      PROVE  IsFiniteSet(Before(i)) /\ Cardinality(Before(i)) \in 0..(m - 1)
  <2>1. Before(i) \subseteq kept \ {i}
    BY <1>1, <1>3
  <2> HIDE DEF kept, Before
  <2>2. IsFiniteSet(kept \ {i}) /\ Cardinality(kept \ {i}) = m - 1
    BY <1>4, FS_RemoveElement
  <2>3. IsFiniteSet(Before(i)) /\ Cardinality(Before(i)) <= m - 1
    BY <2>1, <2>2, FS_Subset
  <2>4. Cardinality(Before(i)) \in Nat
    BY <2>3, FS_CardinalityType
  <2> QED
    BY <1>4, <2>3, <2>4
<1>6. ASSUME NEW i \in kept, NEW j \in kept, i < j
      PROVE  Cardinality(Before(i)) < Cardinality(Before(j))
  <2>1. Before(i) \cup {i} \subseteq Before(j) /\ i \notin Before(i)
    BY <1>1, <1>3, <1>6
  <2> HIDE DEF kept, Before
  <2>2. /\ IsFiniteSet(Before(i) \cup {i})
        /\ Cardinality(Before(i) \cup {i}) = Cardinality(Before(i)) + 1
    BY <1>5, <2>1, FS_AddElement
  <2>3. Cardinality(Before(i) \cup {i}) <= Cardinality(Before(j))
    BY <1>5, <2>1, FS_Subset
  <2> QED
    BY <1>4, <1>5, <2>2, <2>3
<1>7. rank \in Surjection(kept, 1..m)
  <2>1. rank \in [kept -> 1..m]
    <3>1. \A i \in kept : Cardinality(Before(i)) + 1 \in 1..m
      <4> HIDE DEF kept, Before
      <4> QED
        BY <1>4, <1>5
    <3> HIDE DEF kept, Before
    <3> QED
      BY <3>1
  <2>2. ASSUME NEW i \in kept, NEW j \in kept, rank[i] = rank[j] PROVE i = j
    <3>1. i \in Nat /\ j \in Nat
      BY <1>1, <1>3
    <3> HIDE DEF kept, Before
    <3>2. Cardinality(Before(i)) = Cardinality(Before(j))
      BY <1>4, <1>5, <2>2
    <3>3. ~(i < j) /\ ~(j < i)
      BY <1>4, <1>5, <1>6, <3>2
    <3> QED
      BY <3>1, <3>3
  <2> HIDE DEF kept, Before, rank
  <2>3. rank \in Injection(kept, 1..m)
    BY <2>1, <2>2 DEF Injection, IsInjective
  <2>4. IsFiniteSet(1..m) /\ Cardinality(1..m) = m
    BY <1>4, FS_Interval
  <2> QED
    BY <2>3, <2>4, FS_Injection
<1>8. ASSUME NEW k \in 1..m PROVE At(k) \in kept /\ Cardinality(Before(At(k))) = k - 1
  <2>1. PICK i \in kept : rank[i] = k
    <3> HIDE DEF rank, kept
    <3> QED
      BY <1>7 DEF Surjection
  <2> HIDE DEF kept, Before
  <2>2. Cardinality(Before(i)) = k - 1
    BY <1>4, <1>5, <2>1
  <2> QED
    BY <2>2
<1>9. ASSUME NEW i \in kept
      PROVE  rank[i] \in 1..m /\ At(rank[i]) = i
  <2>1. rank[i] \in 1..m /\ rank[i] - 1 = Cardinality(Before(i))
    <3> HIDE DEF kept, Before
    <3> QED
      BY <1>4, <1>5
  <2>2. \A j \in kept : Cardinality(Before(j)) = rank[i] - 1 => j = i
    <3>1. \A j \in kept : j \in Nat
      BY <1>1, <1>3
    <3> HIDE DEF kept, Before, rank
    <3> QED
      BY <1>4, <1>5, <1>6, <2>1, <3>1
  <2> HIDE DEF kept, Before, rank
  <2> QED
    BY <2>1, <2>2
<1>10. \A k \in 1..m : w[k] \in ToSet(q) \cap T /\ w[k] \in S
  <2> SUFFICES ASSUME NEW k \in 1..m PROVE w[k] \in ToSet(q) \cap T /\ w[k] \in S
    OBVIOUS
  <2>1. At(k) \in 1..Len(q) /\ q[At(k)] \in T
    BY <1>8
  <2> HIDE DEF w, At, kept
  <2>2. w[k] = q[At(k)]
    BY <1>2
  <2> QED
    BY <1>1, <2>1, <2>2 DEF ToSet
<1>11. w \in Seq(S) /\ Len(w) = m
  <2> HIDE DEF w, At, kept, m
  <2> QED
    BY <1>2, <1>4, <1>10
<1>12. ToSet(q) \cap T \subseteq ToSet(w)
  <2> SUFFICES ASSUME NEW x \in ToSet(q) \cap T PROVE x \in ToSet(w)
    OBVIOUS
  <2>1. PICK i \in kept : q[i] = x
    BY <1>1 DEF ToSet
  <2>2. rank[i] \in 1..m /\ At(rank[i]) = i
    BY <1>9
  <2> HIDE DEF w, At, kept, m, rank
  <2> QED
    BY <1>2, <1>11, <2>1, <2>2 DEF ToSet
<1>13. ToSet(w) \subseteq ToSet(q) \cap T
  <2> HIDE DEF w, m
  <2> QED
    BY <1>10, <1>11 DEF ToSet
<1>14. ASSUME NEW k \in 1..m, NEW l \in 1..m, k < l
       PROVE  \E i, j \in DOMAIN q : i < j /\ w[k] = q[i] /\ w[l] = q[j]
  <2>1. /\ At(k) \in kept /\ Cardinality(Before(At(k))) = k - 1
        /\ At(l) \in kept /\ Cardinality(Before(At(l))) = l - 1
    BY <1>8
  <2>2. At(k) \in Nat /\ At(l) \in Nat /\ At(k) \in DOMAIN q /\ At(l) \in DOMAIN q
    BY <1>1, <1>3, <2>1
  <2> HIDE DEF w, At, kept, Before, m
  <2>3. ~(At(l) < At(k)) /\ At(k) # At(l)
    BY <1>4, <1>6, <1>14, <2>1
  <2>4. At(k) < At(l)
    BY <2>2, <2>3
  <2>5. w[k] = q[At(k)] /\ w[l] = q[At(l)]
    BY <1>2
  <2> QED
    BY <2>2, <2>4, <2>5
<1>15. DOMAIN w = 1..m
  <2> HIDE DEF w, m
  <2> QED
    BY <1>11
<1> QED
  <2> HIDE DEF m
  <2> QED
    BY <1>11, <1>12, <1>13, <1>14, <1>15

-----------------------------------------------------------------------------
(* Parts of sequences, and numbers that follow each other *)

\* What is left behind the first n of a sequence.
LEMMA AfterProperties ==
    ASSUME NEW S, NEW q \in Seq(S), NEW n \in Nat
    PROVE  /\ After(q, n) \in Seq(S)
           /\ Len(After(q, n)) = IF n <= Len(q) THEN Len(q) - n ELSE 0
           /\ \A i \in 1..Len(After(q, n)) : After(q, n)[i] = q[n + i]
<1>1. Len(q) \in Nat /\ \A i \in (n + 1)..Len(q) : q[i] \in S
  OBVIOUS
<1>2. /\ After(q, n) \in Seq(S)
      /\ Len(After(q, n)) = IF n + 1 <= Len(q) THEN Len(q) - (n + 1) + 1 ELSE 0
      /\ \A i \in 1..(Len(q) - (n + 1) + 1) : After(q, n)[i] = q[(n + 1) + i - 1]
  BY <1>1, SubSeqProperties DEF After
<1> QED
  BY <1>1, <1>2

\* Behind m and then n more.
LEMMA AfterAfter ==
    ASSUME NEW S, NEW q \in Seq(S), NEW m \in Nat, NEW n \in Nat
    PROVE  After(After(q, m), n) = After(q, m + n)
<1>1. /\ After(q, m) \in Seq(S)
      /\ Len(After(q, m)) = IF m <= Len(q) THEN Len(q) - m ELSE 0
      /\ \A i \in 1..Len(After(q, m)) : After(q, m)[i] = q[m + i]
  BY AfterProperties
<1>2. /\ After(After(q, m), n) \in Seq(S)
      /\ Len(After(After(q, m), n)) = IF n <= Len(After(q, m)) THEN Len(After(q, m)) - n ELSE 0
      /\ \A i \in 1..Len(After(After(q, m), n)) : After(After(q, m), n)[i] = After(q, m)[n + i]
  BY <1>1, AfterProperties
<1>3. /\ After(q, m + n) \in Seq(S)
      /\ Len(After(q, m + n)) = IF m + n <= Len(q) THEN Len(q) - (m + n) ELSE 0
      /\ \A i \in 1..Len(After(q, m + n)) : After(q, m + n)[i] = q[(m + n) + i]
  <2>1. m + n \in Nat
    OBVIOUS
  <2> QED
    BY <2>1, AfterProperties
<1>4. Len(q) \in Nat
  OBVIOUS
<1>5. Len(After(After(q, m), n)) = Len(After(q, m + n))
  BY <1>1, <1>2, <1>3, <1>4
<1>6. ASSUME NEW i \in 1..Len(After(q, m + n))
      PROVE  After(After(q, m), n)[i] = After(q, m + n)[i]
  <2>1. n + i \in 1..Len(After(q, m)) /\ m + (n + i) = (m + n) + i
    <3> DEFINE total == Len(q)
               first == Len(After(q, m))
               both == Len(After(q, m + n))
    <3>1. /\ total \in Nat /\ i \in 1..both
          /\ first = IF m <= total THEN total - m ELSE 0
          /\ both = IF m + n <= total THEN total - (m + n) ELSE 0
      BY <1>1, <1>3, <1>4
    <3> HIDE DEF total, first, both
    <3>2. n + i \in 1..first /\ m + (n + i) = (m + n) + i
      BY <3>1
    <3> QED
      BY <3>2 DEF first
  <2> QED
    BY <1>1, <1>2, <1>3, <1>5, <2>1
<1> QED
  BY <1>2, <1>3, <1>5, <1>6, SeqEqual

\* What is appended stays behind.
LEMMA AfterConcat ==
    ASSUME NEW S, NEW q \in Seq(S), NEW r \in Seq(S), NEW n \in 0..Len(q)
    PROVE  After(q \o r, n) = After(q, n) \o r
<1>1. n \in Nat /\ Len(q) \in Nat /\ Len(r) \in Nat
  OBVIOUS
<1>2. /\ q \o r \in Seq(S) /\ Len(q \o r) = Len(q) + Len(r)
      /\ \A i \in 1..(Len(q) + Len(r)) :
            (q \o r)[i] = IF i <= Len(q) THEN q[i] ELSE r[i - Len(q)]
  BY ConcatProperties
<1>3. /\ After(q, n) \in Seq(S) /\ Len(After(q, n)) = Len(q) - n
      /\ \A i \in 1..Len(After(q, n)) : After(q, n)[i] = q[n + i]
  BY <1>1, AfterProperties
<1>4. /\ After(q, n) \o r \in Seq(S) /\ Len(After(q, n) \o r) = Len(q) - n + Len(r)
      /\ \A i \in 1..(Len(q) - n + Len(r)) :
            (After(q, n) \o r)[i] = IF i <= Len(q) - n THEN After(q, n)[i] ELSE r[i - (Len(q) - n)]
  <2> DEFINE u == After(q, n)
  <2>1. u \in Seq(S) /\ Len(u) = Len(q) - n
    BY <1>3
  <2> HIDE DEF u
  <2>2. /\ u \o r \in Seq(S) /\ Len(u \o r) = Len(u) + Len(r)
        /\ \A i \in 1..(Len(u) + Len(r)) :
              (u \o r)[i] = IF i <= Len(u) THEN u[i] ELSE r[i - Len(u)]
    BY <2>1, ConcatProperties
  <2>3. /\ u \o r \in Seq(S) /\ Len(u \o r) = Len(q) - n + Len(r)
        /\ \A i \in 1..(Len(q) - n + Len(r)) :
              (u \o r)[i] = IF i <= Len(q) - n THEN u[i] ELSE r[i - (Len(q) - n)]
    BY <2>1, <2>2
  <2> QED
    BY <2>3 DEF u
<1>5. /\ After(q \o r, n) \in Seq(S) /\ Len(After(q \o r, n)) = Len(q) + Len(r) - n
      /\ \A i \in 1..Len(After(q \o r, n)) : After(q \o r, n)[i] = (q \o r)[n + i]
  <2> DEFINE u == q \o r
  <2>1. u \in Seq(S) /\ Len(u) = Len(q) + Len(r)
    BY <1>2
  <2> HIDE DEF u
  <2>2. /\ After(u, n) \in Seq(S)
        /\ Len(After(u, n)) = IF n <= Len(u) THEN Len(u) - n ELSE 0
        /\ \A i \in 1..Len(After(u, n)) : After(u, n)[i] = u[n + i]
    BY <1>1, <2>1, AfterProperties
  <2>3. Len(After(u, n)) = Len(q) + Len(r) - n
    BY <1>1, <2>1, <2>2
  <2> QED
    BY <2>2, <2>3 DEF u
<1>6. Len(After(q \o r, n)) = Len(After(q, n) \o r)
  BY <1>1, <1>4, <1>5
<1>7. ASSUME NEW i \in 1..Len(After(q \o r, n))
      PROVE  After(q \o r, n)[i] = (After(q, n) \o r)[i]
  <2>1. n + i \in 1..(Len(q) + Len(r)) /\ i \in 1..(Len(q) - n + Len(r))
    BY <1>1, <1>5
  <2>2. After(q \o r, n)[i] = IF n + i <= Len(q) THEN q[n + i] ELSE r[(n + i) - Len(q)]
    BY <1>2, <1>5, <2>1
  <2>3. (After(q, n) \o r)[i] = IF i <= Len(q) - n THEN q[n + i] ELSE r[i - (Len(q) - n)]
    BY <1>3, <1>4, <2>1
  <2>4. (n + i) - Len(q) = i - (Len(q) - n) /\ (n + i <= Len(q) <=> i <= Len(q) - n)
    BY <1>1, <2>1
  <2> QED
    BY <2>2, <2>3, <2>4
<1> QED
  BY <1>4, <1>5, <1>6, <1>7, SeqEqual

\* Nothing is left behind the end.
LEMMA AfterAll ==
    ASSUME NEW S, NEW q \in Seq(S), NEW n \in Nat, Len(q) <= n
    PROVE  After(q, n) = <<>>
<1>1. After(q, n) \in Seq(S) /\ Len(After(q, n)) = 0
  BY AfterProperties
<1> QED
  BY <1>1

\* All is left behind nothing.
LEMMA AfterNone ==
    ASSUME NEW S, NEW q \in Seq(S)
    PROVE  After(q, 0) = q
<1>1. /\ After(q, 0) \in Seq(S) /\ Len(After(q, 0)) = Len(q)
      /\ \A i \in 1..Len(q) : After(q, 0)[i] = q[i]
  BY AfterProperties
<1> QED
  BY <1>1, SeqEqual

\* The positions after a up to b, one by one.
LEMMA PositionsProperties ==
    ASSUME NEW a \in Nat, NEW b \in Nat
    PROVE  /\ Positions(a, b) \in Seq(Nat)
           /\ Len(Positions(a, b)) = IF a <= b THEN b - a ELSE 0
           /\ \A i \in 1..(b - a) : Positions(a, b)[i] = a + i
           /\ Positions(a, b) = <<>> <=> b <= a
<1>1. \A i \in 1..(b - a) : a + i \in Nat
  OBVIOUS
<1>2. CASE a <= b
  <2>1. b - a \in Nat
    BY <1>2
  <2>2. /\ Positions(a, b) \in Seq(Nat) /\ Len(Positions(a, b)) = b - a
        /\ \A i \in 1..(b - a) : Positions(a, b)[i] = a + i
    BY <1>1, <2>1 DEF Positions
  <2> QED
    BY <1>2, <2>1, <2>2
<1>3. CASE b < a
  <2>1. 1..(b - a) = {}
    BY <1>3
  <2>2. Positions(a, b) = <<>>
    BY <2>1 DEF Positions
  <2> QED
    BY <1>3, <2>1, <2>2
<1> QED
  BY <1>2, <1>3

\* Positions, and those that follow them.
LEMMA PositionsJoin ==
    ASSUME NEW a \in Nat, NEW b \in Nat, NEW c \in Nat, a <= b, b <= c
    PROVE  Positions(a, b) \o Positions(b, c) = Positions(a, c)
<1>1. /\ Positions(a, b) \in Seq(Nat) /\ Len(Positions(a, b)) = b - a
      /\ \A i \in 1..(b - a) : Positions(a, b)[i] = a + i
  BY PositionsProperties
<1>2. /\ Positions(b, c) \in Seq(Nat) /\ Len(Positions(b, c)) = c - b
      /\ \A i \in 1..(c - b) : Positions(b, c)[i] = b + i
  BY PositionsProperties
<1>3. /\ Positions(a, c) \in Seq(Nat) /\ Len(Positions(a, c)) = c - a
      /\ \A i \in 1..(c - a) : Positions(a, c)[i] = a + i
  BY PositionsProperties
<1> DEFINE u == Positions(a, b)
           v == Positions(b, c)
           w == Positions(a, c)
<1>4. /\ u \in Seq(Nat) /\ Len(u) = b - a /\ \A i \in 1..(b - a) : u[i] = a + i
      /\ v \in Seq(Nat) /\ Len(v) = c - b /\ \A i \in 1..(c - b) : v[i] = b + i
      /\ w \in Seq(Nat) /\ Len(w) = c - a /\ \A i \in 1..(c - a) : w[i] = a + i
  BY <1>1, <1>2, <1>3
<1> HIDE DEF u, v, w
<1>5. /\ u \o v \in Seq(Nat) /\ Len(u \o v) = Len(u) + Len(v)
      /\ \A i \in 1..(Len(u) + Len(v)) :
            (u \o v)[i] = IF i <= Len(u) THEN u[i] ELSE v[i - Len(u)]
  BY <1>4, ConcatProperties
<1>6. Len(u \o v) = Len(w)
  BY <1>4, <1>5
<1>7. ASSUME NEW i \in 1..Len(u \o v) PROVE (u \o v)[i] = w[i]
  <2>1. i \in 1..(c - a) /\ i \in 1..(Len(u) + Len(v))
    BY <1>4, <1>5, <1>7
  <2>2. CASE i <= b - a
    BY <1>4, <1>5, <2>1, <2>2
  <2>3. CASE ~(i <= b - a)
    <3>1. i - (b - a) \in 1..(c - b) /\ b + (i - (b - a)) = a + i
      BY <2>1, <2>3
    <3>2. (u \o v)[i] = v[i - (b - a)]
      BY <1>4, <1>5, <2>1, <2>3
    <3>3. v[i - (b - a)] = b + (i - (b - a)) /\ w[i] = a + i
      BY <1>4, <2>1, <3>1
    <3> QED
      BY <3>1, <3>2, <3>3
  <2> QED
    BY <2>2, <2>3
<1>8. u \o v = w
  BY <1>4, <1>5, <1>6, <1>7, SeqEqual
<1> QED
  BY <1>8 DEF u, v, w

\* The first n of some positions, and what is left behind them.
LEMMA PositionsAfter ==
    ASSUME NEW a \in Nat, NEW b \in Nat, a <= b, NEW n \in 0..(b - a)
    PROVE  /\ After(Positions(a, b), n) = Positions(a + n, b)
           /\ SubSeq(Positions(a, b), 1, n) = Positions(a, a + n)
<1>1. /\ Positions(a, b) \in Seq(Nat) /\ Len(Positions(a, b)) = b - a
      /\ \A i \in 1..(b - a) : Positions(a, b)[i] = a + i
  BY PositionsProperties
<1>2. n \in Nat /\ a + n \in Nat /\ a + n <= b
  OBVIOUS
<1>3. After(Positions(a, b), n) = Positions(a + n, b)
  <2>1. /\ After(Positions(a, b), n) \in Seq(Nat)
        /\ Len(After(Positions(a, b), n)) = (b - a) - n
        /\ \A i \in 1..((b - a) - n) : After(Positions(a, b), n)[i] = Positions(a, b)[n + i]
    <3> DEFINE u == Positions(a, b)
    <3>1. u \in Seq(Nat) /\ Len(u) = b - a
      BY <1>1
    <3> HIDE DEF u
    <3>2. /\ After(u, n) \in Seq(Nat)
          /\ Len(After(u, n)) = IF n <= Len(u) THEN Len(u) - n ELSE 0
          /\ \A i \in 1..Len(After(u, n)) : After(u, n)[i] = u[n + i]
      BY <1>2, <3>1, AfterProperties
    <3>3. Len(After(u, n)) = (b - a) - n
      BY <1>2, <3>1, <3>2
    <3> QED
      BY <3>2, <3>3 DEF u
  <2>2. /\ Positions(a + n, b) \in Seq(Nat) /\ Len(Positions(a + n, b)) = b - (a + n)
        /\ \A i \in 1..(b - (a + n)) : Positions(a + n, b)[i] = (a + n) + i
    BY <1>2, PositionsProperties
  <2>3. ASSUME NEW i \in 1..((b - a) - n)
        PROVE  After(Positions(a, b), n)[i] = Positions(a + n, b)[i]
    <3>1. n + i \in 1..(b - a) /\ i \in 1..(b - (a + n)) /\ a + (n + i) = (a + n) + i
      OBVIOUS
    <3> QED
      BY <1>1, <2>1, <2>2, <3>1
  <2>4. (b - a) - n = b - (a + n)
    OBVIOUS
  <2> QED
    BY <2>1, <2>2, <2>3, <2>4, SeqEqual
<1>4. SubSeq(Positions(a, b), 1, n) = Positions(a, a + n)
  <2>1. \A i \in 1..n : Positions(a, b)[i] \in Nat /\ Positions(a, b)[i] = a + i
    BY <1>1
  <2>2. /\ SubSeq(Positions(a, b), 1, n) \in Seq(Nat)
        /\ Len(SubSeq(Positions(a, b), 1, n)) = n
        /\ \A i \in 1..n : SubSeq(Positions(a, b), 1, n)[i] = Positions(a, b)[i]
    <3>1. /\ SubSeq(Positions(a, b), 1, n) \in Seq(Nat)
          /\ Len(SubSeq(Positions(a, b), 1, n)) = IF 1 <= n THEN n - 1 + 1 ELSE 0
          /\ \A i \in 1..(n - 1 + 1) :
                SubSeq(Positions(a, b), 1, n)[i] = Positions(a, b)[1 + i - 1]
      BY <2>1, SubSeqProperties
    <3> QED
      BY <1>2, <3>1
  <2>3. /\ Positions(a, a + n) \in Seq(Nat) /\ Len(Positions(a, a + n)) = n
        /\ \A i \in 1..n : Positions(a, a + n)[i] = a + i
    <3>1. (a + n) - a = n /\ a <= a + n
      OBVIOUS
    <3> QED
      BY <1>2, <3>1, PositionsProperties
  <2> QED
    BY <2>1, <2>2, <2>3, SeqEqual
<1> QED
  BY <1>3, <1>4
\* The members of q ascend.
InOrder(q) == \A i, j \in DOMAIN q : i < j => q[i] < q[j]

\* Positions in order are known by which they are.
LEMMA SameInOrder ==
    ASSUME NEW q \in Seq(Nat), NEW r \in Seq(Nat), InOrder(q), InOrder(r), ToSet(q) = ToSet(r)
    PROVE  q = r
<1>1. /\ DOMAIN q = 1..Len(q) /\ Len(q) \in Nat /\ \A i \in DOMAIN q : q[i] \in Nat
      /\ DOMAIN r = 1..Len(r) /\ Len(r) \in Nat /\ \A i \in DOMAIN r : r[i] \in Nat
  OBVIOUS
<1>2. /\ \A i \in DOMAIN q : \E j \in DOMAIN r : q[i] = r[j]
      /\ \A i \in DOMAIN r : \E j \in DOMAIN q : r[i] = q[j]
  BY DEF ToSet
<1> DEFINE Agrees(i) == i \in DOMAIN q /\ i \in DOMAIN r /\ q[i] = r[i]
           D == {i \in DOMAIN q \cup DOMAIN r : ~Agrees(i)}
<1>3. D = {}
  <2> SUFFICES ASSUME D # {} PROVE FALSE
    OBVIOUS
  <2>1. D \subseteq Nat
    BY <1>1
  <2>2. PICK m \in D : \A i \in D : m <= i
    <3> HIDE DEF D
    <3> QED
      BY <2>1, LeastNumber
  <2>3. \A i \in 1..(m - 1) : i \in DOMAIN q \cup DOMAIN r => Agrees(i)
    <3> SUFFICES ASSUME NEW i \in 1..(m - 1), i \in DOMAIN q \cup DOMAIN r PROVE Agrees(i)
      OBVIOUS
    <3>1. m \in Nat /\ i \in Nat /\ ~(m <= i)
      BY <2>1
    <3> QED
      BY <2>2, <3>1
  <2>4. ~Agrees(m) /\ m \in Nat /\ (m \in DOMAIN q \/ m \in DOMAIN r) /\ m >= 1
    BY <1>1
  <2>5. ASSUME m \in DOMAIN q
        PROVE  m \in DOMAIN r /\ ~(q[m] < r[m])
    <3>1. PICK j \in DOMAIN r : q[m] = r[j]
      BY <1>2, <2>5
    <3>2. ~(j < m)
      <4> SUFFICES ASSUME j < m PROVE FALSE
        OBVIOUS
      <4>1. Agrees(j)
        BY <1>1, <2>3, <2>4
      <4>2. q[j] < q[m]
        BY <2>5, <4>1 DEF InOrder
      <4> QED
        BY <1>1, <2>5, <3>1, <4>1, <4>2
    <3>3. m \in DOMAIN r /\ m <= j
      BY <1>1, <2>4, <3>2
    <3>4. m < j => r[m] < r[j]
      BY <3>3 DEF InOrder
    <3> QED
      BY <1>1, <2>5, <3>1, <3>3, <3>4
  <2>6. ASSUME m \in DOMAIN r
        PROVE  m \in DOMAIN q /\ ~(r[m] < q[m])
    <3>1. PICK j \in DOMAIN q : r[m] = q[j]
      BY <1>2, <2>6
    <3>2. ~(j < m)
      <4> SUFFICES ASSUME j < m PROVE FALSE
        OBVIOUS
      <4>1. Agrees(j)
        BY <1>1, <2>3, <2>4
      <4>2. r[j] < r[m]
        BY <2>6, <4>1 DEF InOrder
      <4> QED
        BY <1>1, <2>6, <3>1, <4>1, <4>2
    <3>3. m \in DOMAIN q /\ m <= j
      BY <1>1, <2>4, <3>2
    <3>4. m < j => q[m] < q[j]
      BY <3>3 DEF InOrder
    <3> QED
      BY <1>1, <2>6, <3>1, <3>3, <3>4
  <2>7. m \in DOMAIN q /\ m \in DOMAIN r /\ ~(q[m] < r[m]) /\ ~(r[m] < q[m])
    BY <2>4, <2>5, <2>6
  <2> QED
    BY <1>1, <2>4, <2>7
<1>4. /\ \A i \in DOMAIN q : i \in DOMAIN r /\ q[i] = r[i]
      /\ \A i \in DOMAIN r : i \in DOMAIN q
  BY <1>3
<1>5. Len(q) = Len(r)
  <2>1. Len(q) > 0 => Len(q) \in 1..Len(r)
    BY <1>1, <1>4
  <2>2. Len(r) > 0 => Len(r) \in 1..Len(q)
    BY <1>1, <1>4
  <2>3. Len(q) \in Nat /\ Len(r) \in Nat
    OBVIOUS
  <2> QED
    BY <2>1, <2>2, <2>3
<1> QED
  BY <1>1, <1>4, <1>5, SeqEqual

\* The positions behind a up to b that are in T, in order.
LEMMA KeptPositions ==
    ASSUME NEW a \in Nat, NEW b \in Nat, NEW T
    PROVE  /\ Keeping(Positions(a, b), T) \in Seq(Nat)
           /\ InOrder(Keeping(Positions(a, b), T))
           /\ ToSet(Keeping(Positions(a, b), T)) = {i \in (a + 1)..b : i \in T}
<1> DEFINE q == Positions(a, b)
           w == Keeping(q, T)
<1>1. /\ q \in Seq(Nat) /\ DOMAIN q = 1..(b - a)
      /\ \A i \in 1..(b - a) : q[i] = a + i
  <2>1. /\ q \in Seq(Nat) /\ Len(q) = IF a <= b THEN b - a ELSE 0
        /\ \A i \in 1..(b - a) : q[i] = a + i
    BY PositionsProperties
  <2> HIDE DEF q
  <2>2. DOMAIN q = 1..Len(q) /\ 1..Len(q) = 1..(b - a)
    BY <2>1
  <2> QED
    BY <2>1, <2>2
<1>2. /\ w \in Seq(Nat) /\ ToSet(w) = ToSet(q) \cap T
      /\ \A k, l \in DOMAIN w : k < l =>
            \E i, j \in DOMAIN q : i < j /\ w[k] = q[i] /\ w[l] = q[j]
  <2> HIDE DEF q
  <2>1. q \in Seq(Nat)
    BY <1>1
  <2>2. Keeping(q, T) \in Seq(Nat) /\ ToSet(Keeping(q, T)) = ToSet(q) \cap T
    BY ONLY <2>1, KeepingProperties
  <2>3. \A k, l \in DOMAIN Keeping(q, T) : k < l =>
           \E i, j \in DOMAIN q :
              i < j /\ Keeping(q, T)[k] = q[i] /\ Keeping(q, T)[l] = q[j]
    BY ONLY <2>1, KeepingProperties
  <2> QED
    BY <2>2, <2>3, Zenon
<1> HIDE DEF q, w
<1>3. InOrder(w)
  <2> SUFFICES ASSUME NEW k \in DOMAIN w, NEW l \in DOMAIN w, k < l PROVE w[k] < w[l]
    BY DEF InOrder
  <2>1. PICK i, j \in DOMAIN q : i < j /\ w[k] = q[i] /\ w[l] = q[j]
    BY <1>2
  <2> QED
    BY <1>1, <2>1
<1>4. ToSet(q) = (a + 1)..b
  <2>1. ToSet(q) = {a + i : i \in 1..(b - a)}
    BY <1>1 DEF ToSet
  <2>2. \A x \in (a + 1)..b : x - a \in 1..(b - a) /\ x = a + (x - a)
    OBVIOUS
  <2>3. (a + 1)..b \subseteq {a + i : i \in 1..(b - a)}
    BY <2>2
  <2>4. {a + i : i \in 1..(b - a)} \subseteq (a + 1)..b
    OBVIOUS
  <2> QED
    BY <2>1, <2>3, <2>4
<1>5. ToSet(w) = {i \in (a + 1)..b : i \in T}
  BY <1>2, <1>4
<1> QED
  BY <1>2, <1>3, <1>5 DEF w, q

\* What is kept of positions, and of those that follow them.
LEMMA KeptJoin ==
    ASSUME NEW T, NEW a \in Nat, NEW b \in Nat, NEW c \in Nat, a <= b, b <= c
    PROVE  Keeping(Positions(a, b), T) \o Keeping(Positions(b, c), T)
              = Keeping(Positions(a, c), T)
<1> DEFINE u == Keeping(Positions(a, b), T)
           v == Keeping(Positions(b, c), T)
           w == Keeping(Positions(a, c), T)
<1>1. /\ u \in Seq(Nat) /\ InOrder(u) /\ ToSet(u) = {i \in (a + 1)..b : i \in T}
      /\ v \in Seq(Nat) /\ InOrder(v) /\ ToSet(v) = {i \in (b + 1)..c : i \in T}
      /\ w \in Seq(Nat) /\ InOrder(w) /\ ToSet(w) = {i \in (a + 1)..c : i \in T}
  BY KeptPositions
<1> HIDE DEF u, v, w
<1>2. /\ u \o v \in Seq(Nat) /\ Len(u \o v) = Len(u) + Len(v)
      /\ \A i \in 1..(Len(u) + Len(v)) :
            (u \o v)[i] = IF i <= Len(u) THEN u[i] ELSE v[i - Len(u)]
  BY <1>1, ConcatProperties
<1>3. /\ DOMAIN u = 1..Len(u) /\ Len(u) \in Nat /\ DOMAIN v = 1..Len(v) /\ Len(v) \in Nat
      /\ DOMAIN (u \o v) = 1..(Len(u) + Len(v))
  BY <1>1, <1>2
<1>4. /\ \A i \in DOMAIN u : u[i] \in (a + 1)..b /\ u[i] \in T
      /\ \A i \in DOMAIN v : v[i] \in (b + 1)..c /\ v[i] \in T
  <2>1. (\A i \in DOMAIN u : u[i] \in ToSet(u)) /\ (\A i \in DOMAIN v : v[i] \in ToSet(v))
    BY DEF ToSet
  <2> QED
    BY <1>1, <2>1
<1>5. InOrder(u \o v)
  <2> SUFFICES ASSUME NEW i \in 1..(Len(u) + Len(v)), NEW j \in 1..(Len(u) + Len(v)), i < j
               PROVE  (u \o v)[i] < (u \o v)[j]
    BY <1>3 DEF InOrder
  <2>1. CASE j <= Len(u)
    <3>1. i \in DOMAIN u /\ j \in DOMAIN u /\ (u \o v)[i] = u[i] /\ (u \o v)[j] = u[j]
      BY <1>2, <1>3, <2>1
    <3> QED
      BY <1>1, <3>1 DEF InOrder
  <2>2. CASE i <= Len(u) /\ Len(u) < j
    <3>1. /\ i \in DOMAIN u /\ j - Len(u) \in DOMAIN v
          /\ (u \o v)[i] = u[i] /\ (u \o v)[j] = v[j - Len(u)]
      BY <1>2, <1>3, <2>2
    <3>2. u[i] \in (a + 1)..b /\ v[j - Len(u)] \in (b + 1)..c
      BY <1>4, <3>1
    <3> QED
      BY <3>1, <3>2
  <2>3. CASE Len(u) < i
    <3>1. /\ i - Len(u) \in DOMAIN v /\ j - Len(u) \in DOMAIN v /\ i - Len(u) < j - Len(u)
          /\ (u \o v)[i] = v[i - Len(u)] /\ (u \o v)[j] = v[j - Len(u)]
      BY <1>2, <1>3, <2>3
    <3> QED
      BY <1>1, <3>1 DEF InOrder
  <2> QED
    BY <1>3, <2>1, <2>2, <2>3
<1>6. ToSet(u \o v) = ToSet(w)
  <2>1. ASSUME NEW x \in ToSet(u \o v) PROVE x \in ToSet(w)
    <3>1. PICK i \in 1..(Len(u) + Len(v)) : x = (u \o v)[i]
      BY <1>3 DEF ToSet
    <3>2. CASE i <= Len(u)
      <4>1. i \in DOMAIN u /\ x = u[i]
        BY <1>2, <1>3, <3>1, <3>2
      <4>2. x \in (a + 1)..b /\ x \in T
        BY <1>4, <4>1
      <4> QED
        BY <1>1, <4>2
    <3>3. CASE Len(u) < i
      <4>1. i - Len(u) \in DOMAIN v /\ x = v[i - Len(u)]
        BY <1>2, <1>3, <3>1, <3>3
      <4>2. x \in (b + 1)..c /\ x \in T
        BY <1>4, <4>1
      <4> QED
        BY <1>1, <4>2
    <3> QED
      BY <1>3, <3>2, <3>3
  <2>2. ASSUME NEW x \in ToSet(w) PROVE x \in ToSet(u \o v)
    <3>1. x \in (a + 1)..c /\ x \in T
      BY <1>1
    <3>2. CASE x <= b
      <4>1. x \in ToSet(u)
        BY <1>1, <3>1, <3>2
      <4>2. PICK i \in DOMAIN u : x = u[i]
        BY <4>1 DEF ToSet
      <4>3. i \in 1..(Len(u) + Len(v)) /\ (u \o v)[i] = x
        BY <1>2, <1>3, <4>2
      <4> QED
        BY <1>3, <4>3 DEF ToSet
    <3>3. CASE b < x
      <4>1. x \in ToSet(v)
        BY <1>1, <3>1, <3>3
      <4>2. PICK i \in DOMAIN v : x = v[i]
        BY <4>1 DEF ToSet
      <4>3. /\ i + Len(u) \in 1..(Len(u) + Len(v)) /\ ~(i + Len(u) <= Len(u))
            /\ (i + Len(u)) - Len(u) = i
        BY <1>3
      <4>4. (u \o v)[i + Len(u)] = x
        BY <1>2, <4>2, <4>3
      <4> QED
        BY <1>3, <4>3, <4>4 DEF ToSet
    <3> QED
      BY <3>1, <3>2, <3>3
  <2> QED
    BY <2>1, <2>2
<1>7. u \o v = w
  BY <1>1, <1>2, <1>5, <1>6, SameInOrder
<1> QED
  BY <1>7 DEF u, v, w

\* What is kept depends only on which of the positions are in the set.
LEMMA KeptSame ==
    ASSUME NEW a \in Nat, NEW b \in Nat, NEW T, NEW V,
           \A i \in (a + 1)..b : i \in T <=> i \in V
    PROVE  Keeping(Positions(a, b), T) = Keeping(Positions(a, b), V)
<1> DEFINE u == Keeping(Positions(a, b), T)
           v == Keeping(Positions(a, b), V)
<1>1. /\ u \in Seq(Nat) /\ InOrder(u) /\ ToSet(u) = {i \in (a + 1)..b : i \in T}
      /\ v \in Seq(Nat) /\ InOrder(v) /\ ToSet(v) = {i \in (a + 1)..b : i \in V}
  BY KeptPositions
<1> HIDE DEF u, v
<1>2. ToSet(u) = ToSet(v)
  BY <1>1
<1>3. u = v
  BY <1>1, <1>2, SameInOrder
<1> QED
  BY <1>3 DEF u, v

\* All is kept.
LEMMA KeptAll ==
    ASSUME NEW a \in Nat, NEW b \in Nat, NEW T, \A i \in (a + 1)..b : i \in T
    PROVE  Keeping(Positions(a, b), T) = Positions(a, b)
<1> DEFINE u == Keeping(Positions(a, b), T)
           q == Positions(a, b)
<1>1. u \in Seq(Nat) /\ InOrder(u) /\ ToSet(u) = {i \in (a + 1)..b : i \in T}
  BY KeptPositions
<1>2. /\ q \in Seq(Nat) /\ Len(q) = IF a <= b THEN b - a ELSE 0
      /\ \A i \in 1..(b - a) : q[i] = a + i
  BY PositionsProperties
<1> HIDE DEF u, q
<1>3. DOMAIN q = 1..(b - a)
  <2>1. DOMAIN q = 1..Len(q) /\ 1..Len(q) = 1..(b - a)
    BY <1>2
  <2> QED
    BY <2>1
<1>4. InOrder(q)
  BY <1>2, <1>3 DEF InOrder
<1>5. ToSet(q) = ToSet(u)
  <2>1. ToSet(q) = {a + i : i \in 1..(b - a)}
    BY <1>2, <1>3 DEF ToSet
  <2>2. \A x \in (a + 1)..b : x - a \in 1..(b - a) /\ x = a + (x - a)
    OBVIOUS
  <2>3. (a + 1)..b \subseteq {a + i : i \in 1..(b - a)}
    BY <2>2
  <2>4. {a + i : i \in 1..(b - a)} \subseteq (a + 1)..b
    OBVIOUS
  <2> QED
    BY <1>1, <2>1, <2>3, <2>4
<1>6. u = q
  BY <1>1, <1>2, <1>4, <1>5, SameInOrder
<1> QED
  BY <1>6 DEF u, q

\* Nothing is kept.
LEMMA KeptNone ==
    ASSUME NEW a \in Nat, NEW b \in Nat, NEW T, \A i \in (a + 1)..b : i \notin T
    PROVE  Keeping(Positions(a, b), T) = <<>>
<1> DEFINE u == Keeping(Positions(a, b), T)
<1>1. u \in Seq(Nat) /\ ToSet(u) = {i \in (a + 1)..b : i \in T}
  BY KeptPositions
<1> HIDE DEF u
<1>2. ToSet(u) = {}
  BY <1>1
<1>3. u = <<>>
  BY <1>1, <1>2, EmptyQueue
<1> QED
  BY <1>3 DEF u

-----------------------------------------------------------------------------
(* Streams of messages *)

\* Message k begins right behind position f.
StartsBehind(s, k, f) ==
    \A i \in DOMAIN s : IF i <= f THEN s[i].message < k ELSE s[i].message >= k

\* The empty line behind message k.
IsEmptyLine(s, k, i) == i \in DOMAIN s /\ s[i].is = "epilogue" /\ s[i].message = k

\* The pieces of message k at a+1..b that are of these kinds.
Picked(s, k, kinds, a, b) ==
    Keeping(Positions(a, b), {i \in DOMAIN s : s[i].message = k /\ s[i].is \in kinds})

\* The tokens of a stream, which are those of one message behind those of another.
LEMMA StreamTokens ==
    ASSUME NEW s, IsStream(s)
    PROVE  /\ s \in Seq(Tokens) /\ DOMAIN s = 1..Len(s) /\ Len(s) \in Nat
           /\ \A i \in DOMAIN s :
                 /\ s[i].message \in Nat /\ s[i].message >= 1 /\ s[i].is \in PieceKinds
                 /\ s[i].n \in Nat /\ s[i].more \in Nat
           /\ \A i, j \in DOMAIN s : i <= j => s[i].message <= s[j].message
<1>1. s \in Seq(Tokens) /\ \A i, j \in DOMAIN s : i <= j => s[i].message <= s[j].message
  BY DEF IsStream
<1>2. DOMAIN s = 1..Len(s) /\ Len(s) \in Nat /\ \A i \in DOMAIN s : s[i] \in Tokens
  BY <1>1
<1>3. ASSUME NEW t \in Tokens
      PROVE  /\ t.message \in Nat /\ t.message >= 1 /\ t.is \in PieceKinds
             /\ t.n \in Nat /\ t.more \in Nat
  <2>1. t.message \in Nat \ {0} /\ t.is \in PieceKinds /\ t.n \in Nat /\ t.more \in Nat
    BY DEF Tokens
  <2> QED
    BY <2>1
<1>4. ASSUME NEW i \in DOMAIN s
      PROVE  /\ s[i].message \in Nat /\ s[i].message >= 1 /\ s[i].is \in PieceKinds
             /\ s[i].n \in Nat /\ s[i].more \in Nat
  BY <1>2, <1>3
<1> QED
  BY <1>1, <1>2, <1>4

\* Behind the last token of a message begins the next one.
LEMMA MessageEnds ==
    ASSUME NEW s, IsStream(s), NEW z \in DOMAIN s, IsLast(s, z)
    PROVE  StartsBehind(s, s[z].message + 1, z)
<1>1. /\ DOMAIN s = 1..Len(s) /\ Len(s) \in Nat
      /\ \A i \in DOMAIN s : s[i].message \in Nat
      /\ \A i, j \in DOMAIN s : i <= j => s[i].message <= s[j].message
  BY StreamTokens
<1>2. ASSUME NEW i \in DOMAIN s, i <= z PROVE s[i].message < s[z].message + 1
  BY <1>1, <1>2
<1>3. ASSUME NEW i \in DOMAIN s, ~(i <= z) PROVE s[i].message >= s[z].message + 1
  <2>1. z + 1 \in DOMAIN s /\ z + 1 <= i
    BY <1>1, <1>3
  <2>2. s[z].message < s[z + 1].message
    BY <2>1 DEF IsLast
  <2> QED
    BY <1>1, <2>1, <2>2
<1> QED
  BY <1>2, <1>3 DEF StartsBehind

\* A message that there is has its first token where it begins.
LEMMA MessageBegins ==
    ASSUME NEW s, IsStream(s), NEW k \in Nat, NEW f \in Nat, StartsBehind(s, k, f),
           NEW i \in DOMAIN s, s[i].message = k
    PROVE  /\ f + 1 \in DOMAIN s /\ s[f + 1].message = k /\ f + 1 <= i
           /\ IsFirst(s, f + 1)
           /\ s[f + 1].is \in {"head", "opcode", "junk"}
<1>1. /\ DOMAIN s = 1..Len(s) /\ Len(s) \in Nat
      /\ \A j \in DOMAIN s : s[j].message \in Nat
      /\ \A m, j \in DOMAIN s : m <= j => s[m].message <= s[j].message
  BY StreamTokens
<1>2. ~(i <= f)
  BY <1>1 DEF StartsBehind
<1>3. f + 1 \in DOMAIN s /\ f + 1 <= i
  BY <1>1, <1>2
<1>4. s[f + 1].message >= k
  BY <1>3 DEF StartsBehind
<1>5. s[f + 1].message = k
  BY <1>1, <1>3, <1>4
<1>6. IsFirst(s, f + 1)
  <2>1. CASE f = 0
    BY <2>1 DEF IsFirst
  <2>2. CASE f # 0
    <3>1. f \in DOMAIN s
      BY <1>1, <1>3, <2>2
    <3>2. s[f].message < k
      BY <3>1 DEF StartsBehind
    <3>3. (f + 1) - 1 = f
      OBVIOUS
    <3> QED
      BY <1>5, <3>2, <3>3 DEF IsFirst
  <2> QED
    BY <2>1, <2>2
<1>7. s[f + 1].is \in {"head", "opcode", "junk"}
  BY <1>3, <1>6 DEF IsStream
<1> QED
  BY <1>3, <1>5, <1>6, <1>7

\* A message begins behind one position only.
LEMMA BeginsOnce ==
    ASSUME NEW s, IsStream(s), NEW k \in Nat, NEW f \in Nat, StartsBehind(s, k, f),
           NEW i \in DOMAIN s, s[i].message = k, IsFirst(s, i)
    PROVE  i = f + 1
<1>1. /\ DOMAIN s = 1..Len(s) /\ Len(s) \in Nat
      /\ \A j \in DOMAIN s : s[j].message \in Nat
  BY StreamTokens
<1>2. f + 1 <= i
  BY MessageBegins
<1>3. ASSUME f + 1 < i PROVE FALSE
  <2>1. i # 1 /\ i - 1 \in DOMAIN s /\ ~(i - 1 <= f)
    BY <1>1, <1>3
  <2>2. s[i - 1].message < k
    BY <2>1 DEF IsFirst
  <2>3. s[i - 1].message >= k
    BY <2>1 DEF StartsBehind
  <2> QED
    BY <1>1, <2>1, <2>2, <2>3
<1> QED
  BY <1>1, <1>2, <1>3

\* Pieces of a message, and those that follow them.
LEMMA AreJoin ==
    ASSUME NEW s, NEW k, NEW K, NEW a \in Nat, NEW b \in Nat, NEW c \in Nat,
           Are(s, k, K, a, b), Are(s, k, K, b, c)
    PROVE  Are(s, k, K, a, c)
<1>1. \A i \in (a + 1)..c : i \in (a + 1)..b \/ i \in (b + 1)..c
  OBVIOUS
<1> QED
  BY <1>1 DEF Are

\* Pieces of some kinds are of more kinds.
LEMMA AreMore ==
    ASSUME NEW s, NEW k, NEW K, NEW L, NEW a, NEW b, Are(s, k, K, a, b), K \subseteq L
    PROVE  Are(s, k, L, a, b)
  BY DEF Are

\* A part of some pieces.
LEMMA AreWithin ==
    ASSUME NEW s, NEW k, NEW K, NEW a \in Nat, NEW b \in Nat, Are(s, k, K, a, b),
           NEW c \in Nat, NEW d \in Nat, a <= c, d <= b
    PROVE  Are(s, k, K, c, d)
<1>1. \A i \in (c + 1)..d : i \in (a + 1)..b
  OBVIOUS
<1> QED
  BY <1>1 DEF Are

-----------------------------------------------------------------------------
(* Pieces of messages *)

\* Pieces are picked by their positions.
LEMMA PickedTyped ==
    ASSUME NEW s, NEW k, NEW K, NEW a \in Nat, NEW b \in Nat
    PROVE  Picked(s, k, K, a, b) \in Seq(Nat) /\ Len(Picked(s, k, K, a, b)) \in Nat
<1>1. Picked(s, k, K, a, b) \in Seq(Nat)
  BY KeptPositions DEF Picked
<1> QED
  BY <1>1

\* Pieces, and those that follow them.
LEMMA PickedJoin ==
    ASSUME NEW s, NEW k, NEW K, NEW a \in Nat, NEW b \in Nat, NEW c \in Nat, a <= b, b <= c
    PROVE  Picked(s, k, K, a, b) \o Picked(s, k, K, b, c) = Picked(s, k, K, a, c)
<1> DEFINE T == {i \in DOMAIN s : s[i].message = k /\ s[i].is \in K}
<1> HIDE DEF T
<1>1. Keeping(Positions(a, b), T) \o Keeping(Positions(b, c), T) = Keeping(Positions(a, c), T)
  BY KeptJoin
<1> QED
  BY <1>1 DEF Picked, T

\* How many pieces there are, and of those that follow them.
LEMMA PickedLengths ==
    ASSUME NEW s, NEW k, NEW K, NEW a \in Nat, NEW b \in Nat, NEW c \in Nat, a <= b, b <= c
    PROVE  Len(Picked(s, k, K, a, c)) = Len(Picked(s, k, K, a, b)) + Len(Picked(s, k, K, b, c))
<1>1. Picked(s, k, K, a, b) \in Seq(Nat) /\ Picked(s, k, K, b, c) \in Seq(Nat)
  BY PickedTyped
<1>2. Picked(s, k, K, a, b) \o Picked(s, k, K, b, c) = Picked(s, k, K, a, c)
  BY PickedJoin
<1>3. Len(Picked(s, k, K, a, b) \o Picked(s, k, K, b, c))
         = Len(Picked(s, k, K, a, b)) + Len(Picked(s, k, K, b, c))
  BY <1>1, ConcatProperties
<1> QED
  BY <1>2, <1>3

\* All of the positions are picked, or none, or the same as by other kinds.
LEMMA PickedAll ==
    ASSUME NEW s, NEW k, NEW K, NEW L, NEW a \in Nat, NEW b \in Nat, Are(s, k, L, a, b),
           L \subseteq K
    PROVE  Picked(s, k, K, a, b) = Positions(a, b)
<1> DEFINE T == {i \in DOMAIN s : s[i].message = k /\ s[i].is \in K}
<1>1. \A i \in (a + 1)..b : i \in T
  BY DEF Are
<1> HIDE DEF T
<1>2. Keeping(Positions(a, b), T) = Positions(a, b)
  BY <1>1, KeptAll
<1> QED
  BY <1>2 DEF Picked, T

\* There are no pieces of other kinds.
LEMMA PickedNone ==
    ASSUME NEW s, NEW k, NEW K, NEW L, NEW a \in Nat, NEW b \in Nat, Are(s, k, L, a, b),
           L \cap K = {}
    PROVE  Picked(s, k, K, a, b) = <<>>
<1> DEFINE T == {i \in DOMAIN s : s[i].message = k /\ s[i].is \in K}
<1>1. \A i \in (a + 1)..b : i \notin T
  BY DEF Are
<1> HIDE DEF T
<1>2. Keeping(Positions(a, b), T) = <<>>
  BY <1>1, KeptNone
<1> QED
  BY <1>2 DEF Picked, T

\* Kinds that do not come here make no difference.
LEMMA PickedSame ==
    ASSUME NEW s, NEW k, NEW K, NEW M, NEW L, NEW a \in Nat, NEW b \in Nat,
           Are(s, k, L, a, b), L \cap K = L \cap M
    PROVE  Picked(s, k, K, a, b) = Picked(s, k, M, a, b)
<1> DEFINE T == {i \in DOMAIN s : s[i].message = k /\ s[i].is \in K}
           V == {i \in DOMAIN s : s[i].message = k /\ s[i].is \in M}
<1>1. \A i \in (a + 1)..b : i \in T <=> i \in V
  BY DEF Are
<1> HIDE DEF T, V
<1>2. Keeping(Positions(a, b), T) = Keeping(Positions(a, b), V)
  BY <1>1, KeptSame
<1> QED
  BY <1>2 DEF Picked, T, V

\* A message is where it begins, up to where the next one begins.
LEMMA PickedOfMessage ==
    ASSUME NEW s, IsStream(s), NEW k \in Nat, NEW K, NEW f \in Nat, NEW z \in Nat,
           f <= z, z <= Len(s), StartsBehind(s, k, f), StartsBehind(s, k + 1, z)
    PROVE  Picked(s, k, K, 0, Len(s)) = Picked(s, k, K, f, z)
<1>1. /\ DOMAIN s = 1..Len(s) /\ Len(s) \in Nat
      /\ \A j \in DOMAIN s : s[j].message \in Nat
  BY StreamTokens
<1> DEFINE T == {i \in DOMAIN s : s[i].message = k /\ s[i].is \in K}
<1>2. (\A i \in (0 + 1)..f : i \notin T) /\ (\A i \in (z + 1)..Len(s) : i \notin T)
  BY <1>1 DEF StartsBehind
<1> HIDE DEF T
<1>3. Keeping(Positions(0, f), T) = <<>> /\ Keeping(Positions(z, Len(s)), T) = <<>>
  BY <1>1, <1>2, KeptNone
<1>4. /\ Keeping(Positions(0, f), T) \o Keeping(Positions(f, z), T) = Keeping(Positions(0, z), T)
      /\ Keeping(Positions(0, z), T) \o Keeping(Positions(z, Len(s)), T)
            = Keeping(Positions(0, Len(s)), T)
  <2>1. 0 \in Nat /\ 0 <= f /\ 0 <= z
    OBVIOUS
  <2> DEFINE n == Len(s)
  <2>2. n \in Nat /\ z <= n
    BY <1>1
  <2> HIDE DEF n
  <2>3. Keeping(Positions(0, f), T) \o Keeping(Positions(f, z), T) = Keeping(Positions(0, z), T)
    BY <2>1, KeptJoin
  <2>4. Keeping(Positions(0, z), T) \o Keeping(Positions(z, n), T) = Keeping(Positions(0, n), T)
    BY <2>1, <2>2, KeptJoin
  <2> QED
    BY <2>3, <2>4 DEF n
<1>5. Keeping(Positions(f, z), T) \in Seq(Nat) /\ Keeping(Positions(0, z), T) \in Seq(Nat)
  BY KeptPositions
<1>6. Keeping(Positions(0, Len(s)), T) = Keeping(Positions(f, z), T)
  BY <1>3, <1>4, <1>5, ConcatEmptySeq
<1> QED
  BY <1>6 DEF Picked, T

\* There are at least as many pieces in the whole stream.
LEMMA PickedWithin ==
    ASSUME NEW s, NEW k, NEW K, NEW a \in Nat, NEW b \in Nat, a <= b, b <= Len(s),
           Len(s) \in Nat
    PROVE  /\ Len(Picked(s, k, K, a, b)) \in Nat
           /\ Len(Picked(s, k, K, 0, Len(s))) \in Nat
           /\ Len(Picked(s, k, K, a, b)) <= Len(Picked(s, k, K, 0, Len(s)))
<1> DEFINE o == 0
           n == Len(s)
<1>0. o \in Nat /\ o <= a /\ o <= b /\ n \in Nat /\ b <= n
  OBVIOUS
<1> HIDE DEF o, n
<1>1. Len(Picked(s, k, K, o, b)) = Len(Picked(s, k, K, o, a)) + Len(Picked(s, k, K, a, b))
  BY <1>0, PickedLengths
<1>2. Len(Picked(s, k, K, o, n)) = Len(Picked(s, k, K, o, b)) + Len(Picked(s, k, K, b, n))
  BY <1>0, PickedLengths
<1>3. /\ Len(Picked(s, k, K, o, a)) \in Nat /\ Len(Picked(s, k, K, a, b)) \in Nat
      /\ Len(Picked(s, k, K, b, n)) \in Nat
  BY <1>0, PickedTyped
<1>4. /\ Len(Picked(s, k, K, a, b)) \in Nat
      /\ Len(Picked(s, k, K, o, n)) \in Nat
      /\ Len(Picked(s, k, K, a, b)) <= Len(Picked(s, k, K, o, n))
  BY <1>1, <1>2, <1>3
<1> QED
  BY <1>4 DEF o, n

\* A message has at least the pieces that are here.
LEMMA PiecesAtLeast ==
    ASSUME NEW s, IsStream(s), NEW k, NEW K, NEW L, NEW a \in Nat, NEW b \in Nat, a <= b,
           Are(s, k, L, a, b), L \subseteq K
    PROVE  /\ Len(Picked(s, k, K, 0, Len(s))) \in Nat
           /\ b - a <= Len(Picked(s, k, K, 0, Len(s)))
<1>1. DOMAIN s = 1..Len(s) /\ Len(s) \in Nat
  BY StreamTokens
<1>2. CASE a = b
  <2>1. Picked(s, k, K, 0, Len(s)) \in Seq(Nat)
    BY <1>1, KeptPositions DEF Picked
  <2>2. Len(Picked(s, k, K, 0, Len(s))) \in Nat
    BY <2>1
  <2> QED
    BY <1>2, <2>2
<1>3. CASE a < b
  <2>1. b \in (a + 1)..b
    BY <1>3
  <2>2. b \in DOMAIN s
    BY <2>1 DEF Are
  <2>3. b <= Len(s)
    BY <1>1, <2>2
  <2>4. /\ Len(Picked(s, k, K, 0, Len(s))) \in Nat
        /\ Len(Picked(s, k, K, a, b)) <= Len(Picked(s, k, K, 0, Len(s)))
    BY <1>1, <2>3, PickedWithin
  <2>5. Picked(s, k, K, a, b) = Positions(a, b)
    BY PickedAll
  <2>6. Len(Positions(a, b)) = b - a
    BY PositionsProperties
  <2> QED
    BY <2>4, <2>5, <2>6
<1> QED
  BY <1>2, <1>3

\* A single piece of a message.
LEMMA AreOne ==
    ASSUME NEW s, NEW k, NEW K, NEW a \in Nat
    PROVE  Are(s, k, K, a, a + 1)
              <=> a + 1 \in DOMAIN s /\ s[a + 1].message = k /\ s[a + 1].is \in K
<1>1. (a + 1)..(a + 1) = {a + 1}
  OBVIOUS
<1> QED
  BY <1>1 DEF Are

\* There is nothing between a and a.
LEMMA AreZero ==
    ASSUME NEW s, NEW k, NEW K, NEW a \in Nat
    PROVE  Are(s, k, K, a, a)
<1>1. (a + 1)..a = {}
  OBVIOUS
<1> QED
  BY <1>1 DEF Are

\* The last of some pieces of message k is one.
LEMMA AreLast ==
    ASSUME NEW s, NEW k, NEW K, NEW a \in Nat, NEW b \in Nat, a < b, Are(s, k, K, a, b)
    PROVE  b \in DOMAIN s /\ s[b].message = k /\ s[b].is \in K
<1>1. b \in (a + 1)..b
  OBVIOUS
<1> QED
  BY <1>1 DEF Are

\* The frame that begins at i.
LEMMA FrameOf ==
    ASSUME NEW s, IsStream(s), NEW i \in DOMAIN s, s[i].is = "opcode",
           NEW k, k = s[i].message
    PROVE  /\ IsFirst(s, i) /\ i + 1 \in DOMAIN s /\ s[i + 1].more \in Nat /\ s[i + 1].n \in Nat
           /\ Are(s, k, {"length"}, i, i + 1)
           /\ Are(s, k, {"extended"}, i + 1, i + 1 + s[i + 1].more)
           /\ Are(s, k, {"data"}, i + 1 + s[i + 1].more, i + 1 + s[i + 1].more + s[i + 1].n)
           /\ i + 1 + s[i + 1].more + s[i + 1].n \in DOMAIN s
           /\ StartsBehind(s, k + 1, i + 1 + s[i + 1].more + s[i + 1].n)
<1>1. HasFrame(s, i)
  BY DEF IsStream
<1>2. i \in Nat
  BY StreamTokens
<1>3. IsFirst(s, i) /\ Are(s, k, {"length"}, i, i + 1)
  BY <1>1 DEF HasFrame
<1>4. i + 1 \in DOMAIN s /\ s[i + 1].message = k
  BY <1>2, <1>3, AreOne
<1>5. s[i + 1].more \in Nat /\ s[i + 1].n \in Nat
  BY <1>4, StreamTokens
<1> DEFINE start == i + 1 + s[i + 1].more
           end == start + s[i + 1].n
<1>6. Are(s, k, {"extended"}, i + 1, start) /\ Are(s, k, {"data"}, start, end) /\ IsLast(s, end)
  BY <1>1 DEF HasFrame
<1>7. i + 1 \in Nat /\ start \in Nat /\ end \in Nat /\ i + 1 <= start /\ start <= end
  BY <1>2, <1>5
<1> HIDE DEF start, end
<1>8. start \in DOMAIN s /\ s[start].message = k
  <2>1. CASE i + 1 < start
    BY <1>6, <1>7, <2>1, AreLast
  <2>2. CASE i + 1 = start
    BY <1>4, <2>2
  <2> QED
    BY <1>7, <2>1, <2>2
<1>9. end \in DOMAIN s /\ s[end].message = k
  <2>1. CASE start < end
    BY <1>6, <1>7, <2>1, AreLast
  <2>2. CASE start = end
    BY <1>8, <2>2
  <2> QED
    BY <1>7, <2>1, <2>2
<1>10. StartsBehind(s, k + 1, end)
  BY <1>6, <1>9, MessageEnds
<1> QED
  BY <1>3, <1>4, <1>5, <1>6, <1>9, <1>10 DEF start, end

\* A frame has no pieces of HTTP.
LEMMA FrameHasNoHeaders ==
    ASSUME NEW s, IsStream(s), NEW i \in DOMAIN s, s[i].is = "opcode",
           NEW j \in DOMAIN s, s[j].message = s[i].message
    PROVE  s[j].is \in {"opcode", "length", "extended", "data"}
<1> DEFINE k == s[i].message
           start == i + 1 + s[i + 1].more
           end == start + s[i + 1].n
<1>1. /\ IsFirst(s, i) /\ s[i + 1].more \in Nat /\ s[i + 1].n \in Nat
      /\ Are(s, k, {"length"}, i, i + 1) /\ Are(s, k, {"extended"}, i + 1, start)
      /\ Are(s, k, {"data"}, start, end)
      /\ StartsBehind(s, k + 1, end)
  BY FrameOf
<1>2. /\ DOMAIN s = 1..Len(s) /\ Len(s) \in Nat /\ k \in Nat
      /\ \A x, y \in DOMAIN s : x <= y => s[x].message <= s[y].message
      /\ \A x \in DOMAIN s : s[x].message \in Nat
  BY StreamTokens
<1>3. i <= j
  <2> SUFFICES ASSUME j < i PROVE FALSE
    BY <1>2
  <2>1. i # 1 /\ i - 1 \in DOMAIN s /\ j <= i - 1
    BY <1>2
  <2>2. s[i - 1].message < k
    BY <1>1, <2>1 DEF IsFirst
  <2>3. s[j].message <= s[i - 1].message
    BY <1>2, <2>1
  <2> QED
    BY <1>2, <2>1, <2>2, <2>3
<1>4. j <= end
  <2>1. ASSUME ~(j <= end) PROVE s[j].message >= k + 1
    BY <1>1, <2>1 DEF StartsBehind
  <2> QED
    BY <1>2, <2>1
<1>5. start \in Nat /\ end \in Nat /\ i + 1 <= start /\ start <= end
  <2> DEFINE more == s[i + 1].more
             n == s[i + 1].n
  <2>1. more \in Nat /\ n \in Nat /\ i \in Nat
    BY <1>1, <1>2
  <2> HIDE DEF more, n
  <2>2. /\ i + 1 + more \in Nat /\ i + 1 <= i + 1 + more
        /\ i + 1 + more + n \in Nat /\ i + 1 + more <= i + 1 + more + n
    BY <2>1
  <2> QED
    BY <2>2 DEF more, n
<1> HIDE DEF start, end, k
<1>6. j = i \/ j \in (i + 1)..(i + 1) \/ j \in (i + 1 + 1)..start \/ j \in (start + 1)..end
  BY <1>2, <1>3, <1>4, <1>5
<1>7. CASE j = i
  BY <1>7
<1>8. CASE j \in (i + 1)..(i + 1)
  BY <1>1, <1>8 DEF Are
<1>9. CASE j \in (i + 1 + 1)..start
  BY <1>1, <1>9 DEF Are
<1>10. CASE j \in (start + 1)..end
  BY <1>1, <1>10 DEF Are
<1> QED
  BY <1>6, <1>7, <1>8, <1>9, <1>10

\* The body with a length behind the headers that end at p, and the end of the message.
LEMMA LengthOf ==
    ASSUME NEW s, IsStream(s), NEW p \in DOMAIN s, s[p].is = "blank",
           s[p].body \notin {"chunked", "multipart"}, NEW k, k = s[p].message
    PROVE  /\ Are(s, k, {"data"}, p, p + s[p].n)
           /\ p + s[p].n \in DOMAIN s
           /\ StartsBehind(s, k + 1, p + s[p].n)
<1>1. p \in Nat /\ s[p].n \in Nat
  BY StreamTokens
<1>2. HasBody(s, p)
  BY DEF IsStream
<1> DEFINE end == p + s[p].n
<1>3. Are(s, k, {"data"}, p, end) /\ IsLast(s, end)
  BY <1>2 DEF HasBody
<1>4. end \in Nat /\ p <= end
  BY <1>1
<1> HIDE DEF end
<1>5. end \in DOMAIN s /\ s[end].message = k
  <2>1. CASE p < end
    BY <1>1, <1>3, <1>4, <2>1, AreLast
  <2>2. CASE p = end
    BY <2>2
  <2> QED
    BY <1>1, <1>4, <2>1, <2>2
<1>6. StartsBehind(s, k + 1, end)
  BY <1>3, <1>5, MessageEnds
<1> QED
  BY <1>3, <1>5, <1>6 DEF end

\* The multipart body behind the headers that end at p.
LEMMA MultipartOf ==
    ASSUME NEW s, IsStream(s), NEW p \in DOMAIN s, s[p].is = "blank",
           s[p].body = "multipart", NEW k, k = s[p].message
    PROVE  \E e \in (p + 1)..(p + s[p].n) :
              /\ Are(s, k, {"part", "mark"}, p, e - 1)
              /\ \/ Are(s, k, {"junk"}, e - 1, p + s[p].n)
                 \/ /\ Are(s, k, {"close"}, e - 1, e)
                    /\ Are(s, k, {"epilogue"}, e, p + s[p].n) /\ p + s[p].n <= e + 1
              /\ p + s[p].n \in DOMAIN s
              /\ StartsBehind(s, k + 1, p + s[p].n)
<1>1. p \in Nat /\ s[p].n \in Nat
  BY StreamTokens
<1>2. HasBody(s, p)
  BY DEF IsStream
<1> DEFINE end == p + s[p].n
<1>3. PICK e \in (p + 1)..end :
         /\ Are(s, k, {"part", "mark"}, p, e - 1)
         /\ \/ Are(s, k, {"junk"}, e - 1, end)
            \/ /\ Are(s, k, {"close"}, e - 1, e)
               /\ Are(s, k, {"epilogue"}, e, end) /\ end <= e + 1
         /\ IsLast(s, end)
  BY <1>2 DEF HasBody
<1>4. end \in Nat /\ e \in Nat /\ e - 1 \in Nat /\ e - 1 < e /\ e <= end
  BY <1>1, <1>3
<1> HIDE DEF end
<1>5. end \in DOMAIN s /\ s[end].message = k
  <2>1. CASE Are(s, k, {"junk"}, e - 1, end)
    <3>1. e - 1 < end
      BY <1>4
    <3> QED
      BY <1>4, <2>1, <3>1, AreLast
  <2>2. CASE Are(s, k, {"epilogue"}, e, end) /\ e < end
    BY <1>4, <2>2, AreLast
  <2>3. CASE Are(s, k, {"close"}, e - 1, e) /\ e = end
    BY <1>4, <2>3, AreLast
  <2> QED
    BY <1>3, <1>4, <2>1, <2>2, <2>3
<1>6. StartsBehind(s, k + 1, end)
  BY <1>3, <1>5, MessageEnds
<1> QED
  BY <1>3, <1>5, <1>6 DEF end
===============================================================================
