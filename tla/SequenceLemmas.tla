---------------------------- MODULE SequenceLemmas ----------------------------
(***************************************************************************)
(* Facts about the operators on queues that the components' proofs keep    *)
(* needing: what is left of a queue when an element is taken out, put at   *)
(* its end or put back to its front, and the least of a set of indices.    *)
(***************************************************************************)
EXTENDS QueueOps, SequencesExt, SequenceTheorems, FiniteSetTheorems,
        WellFoundedInduction, NaturalsInduction, TLAPS

\* A nonempty set of naturals has a least element, which Min chooses.
LEMMA MinOfNaturals ==
    ASSUME NEW S \in SUBSET Nat, S # {}
    PROVE  Min(S) \in S /\ \A n \in S : Min(S) <= n
<1>1. PICK n \in S : \A m \in Nat : <<m, n>> \in OpToRel(<, Nat) => m \notin S
  BY WFMin, NatLessThanWellFounded
<1>2. \A m \in S : ~(m < n)
  BY <1>1 DEF OpToRel
<1>3. \A m \in S : n <= m
  BY <1>2
<1> QED BY <1>3 DEF Min

\* Taking one element out of a sequence: the ones behind it move up.
LEMMA RemoveAtElements ==
    ASSUME NEW S, NEW q \in Seq(S), NEW i \in DOMAIN q
    PROVE  /\ RemoveAt(q, i) \in Seq(S)
           /\ Len(RemoveAt(q, i)) = Len(q) - 1
           /\ DOMAIN RemoveAt(q, i) = 1..(Len(q) - 1)
           /\ \A k \in 1..(Len(q) - 1) :
                 RemoveAt(q, i)[k] = IF k < i THEN q[k] ELSE q[k + 1]
<1> DEFINE front == SubSeq(q, 1, i - 1)
           rest == SubSeq(q, i + 1, Len(q))
<1>1. /\ Len(q) \in Nat /\ i \in 1..Len(q)
      /\ \A k \in 1..Len(q) : q[k] \in S
  BY LenProperties, ElementOfSeq
<1>2. /\ front \in Seq(S) /\ Len(front) = i - 1
      /\ \A k \in 1..(i - 1) : front[k] = q[k]
  <2>1. \A k \in 1..(i - 1) : q[k] \in S
    BY <1>1
  <2> QED BY <1>1, <2>1, SubSeqProperties
<1>3. /\ rest \in Seq(S) /\ Len(rest) = Len(q) - i
      /\ \A k \in 1..(Len(q) - i) : rest[k] = q[i + k]
  <2>1. \A k \in (i + 1)..Len(q) : q[k] \in S
    BY <1>1
  <2>2. i + 1 \in Int /\ Len(q) \in Int
    BY <1>1
  <2>3. /\ rest \in Seq(S)
        /\ Len(rest) = IF i + 1 <= Len(q) THEN Len(q) - (i + 1) + 1 ELSE 0
        /\ \A k \in 1..(Len(q) - (i + 1) + 1) : rest[k] = q[(i + 1) + k - 1]
    BY <2>1, <2>2, SubSeqProperties
  <2> QED BY <1>1, <2>3
<1> HIDE DEF front, rest
<1>4. /\ front \o rest \in Seq(S)
      /\ Len(front \o rest) = Len(front) + Len(rest)
      /\ \A k \in 1..(Len(front) + Len(rest)) : (front \o rest)[k] =
            IF k <= Len(front) THEN front[k] ELSE rest[k - Len(front)]
  BY <1>2, <1>3, ConcatProperties
<1>5. RemoveAt(q, i) = front \o rest
  BY DEF RemoveAt, front, rest
<1>6. Len(front \o rest) = Len(q) - 1
  BY <1>1, <1>2, <1>3, <1>4
<1>7. ASSUME NEW k \in 1..(Len(q) - 1)
      PROVE  (front \o rest)[k] = IF k < i THEN q[k] ELSE q[k + 1]
  <2>1. (front \o rest)[k] = IF k <= i - 1 THEN front[k] ELSE rest[k - (i - 1)]
    <3>1. Len(front) = i - 1 /\ k \in 1..(Len(front) + Len(rest))
      BY <1>1, <1>2, <1>3
    <3>2. (front \o rest)[k]
             = IF k <= Len(front) THEN front[k] ELSE rest[k - Len(front)]
      BY <1>4, <3>1
    <3> QED BY <3>1, <3>2
  <2>2. CASE k < i
    BY <1>1, <1>2, <2>1, <2>2
  <2>3. CASE ~(k < i)
    <3>1. k - (i - 1) \in 1..(Len(q) - i)
      BY <1>1, <2>3
    <3>2. i + (k - (i - 1)) = k + 1
      BY <1>1
    <3> QED BY <1>1, <1>3, <2>1, <2>3, <3>1, <3>2
  <2> QED BY <2>2, <2>3
<1>8. DOMAIN (front \o rest) = 1..(Len(q) - 1)
  BY <1>4, <1>6, LenProperties
<1> QED BY <1>4, <1>5, <1>6, <1>7, <1>8

\* A queue without repetitions, an element of which is taken out, holds the
\* others, once each.
LEMMA RemoveAtInjective ==
    ASSUME NEW S, NEW q \in Seq(S), IsInjective(q), NEW i \in DOMAIN q
    PROVE  /\ IsInjective(RemoveAt(q, i))
           /\ ToSet(RemoveAt(q, i)) = ToSet(q) \ {q[i]}
<1> DEFINE p == RemoveAt(q, i)
<1>1. /\ Len(q) \in Nat /\ i \in 1..Len(q) /\ DOMAIN q = 1..Len(q)
      /\ DOMAIN p = 1..(Len(q) - 1)
      /\ \A k \in 1..(Len(q) - 1) : p[k] = IF k < i THEN q[k] ELSE q[k + 1]
  BY RemoveAtElements, LenProperties
<1> HIDE DEF p
<1>2. \A a, b \in 1..Len(q) : q[a] = q[b] => a = b
  BY <1>1 DEF IsInjective
<1>3. IsInjective(p)
  <2>1. ASSUME NEW a \in 1..(Len(q) - 1), NEW b \in 1..(Len(q) - 1), p[a] = p[b]
        PROVE  a = b
    <3>1. /\ a \in 1..Len(q) /\ a + 1 \in 1..Len(q)
          /\ b \in 1..Len(q) /\ b + 1 \in 1..Len(q)
      BY <1>1
    <3>2. /\ p[a] = IF a < i THEN q[a] ELSE q[a + 1]
          /\ p[b] = IF b < i THEN q[b] ELSE q[b + 1]
      BY <1>1
    <3>3. CASE a < i /\ b < i
      BY <1>2, <2>1, <3>1, <3>2, <3>3
    <3>4. CASE a < i /\ ~(b < i)
      <4>1. q[a] = q[b + 1]
        BY <2>1, <3>2, <3>4
      <4>2. a = b + 1
        BY <1>2, <3>1, <4>1
      <4> QED BY <1>1, <3>4, <4>2
    <3>5. CASE ~(a < i) /\ b < i
      <4>1. q[a + 1] = q[b]
        BY <2>1, <3>2, <3>5
      <4>2. a + 1 = b
        BY <1>2, <3>1, <4>1
      <4> QED BY <1>1, <3>5, <4>2
    <3>6. CASE ~(a < i) /\ ~(b < i)
      <4>1. q[a + 1] = q[b + 1]
        BY <2>1, <3>2, <3>6
      <4>2. a + 1 = b + 1
        BY <1>2, <3>1, <4>1
      <4> QED BY <1>1, <4>2
    <3> QED BY <3>3, <3>4, <3>5, <3>6
  <2> QED BY <1>1, <2>1 DEF IsInjective
<1>4. ASSUME NEW x \in ToSet(p) PROVE x \in ToSet(q) \ {q[i]}
  <2>1. PICK k \in 1..(Len(q) - 1) : x = p[k]
    BY <1>1, <1>4 DEF ToSet
  <2>2. k \in 1..Len(q) /\ k + 1 \in 1..Len(q)
    BY <1>1
  <2>3. CASE k < i
    BY <1>1, <1>2, <2>1, <2>2, <2>3 DEF ToSet
  <2>4. CASE ~(k < i)
    <3>1. x = q[k + 1] /\ k + 1 # i
      BY <1>1, <2>1, <2>4
    <3> QED BY <1>1, <1>2, <2>2, <3>1 DEF ToSet
  <2> QED BY <2>3, <2>4
<1>5. ASSUME NEW x \in ToSet(q), x # q[i] PROVE x \in ToSet(p)
  <2>1. PICK k \in 1..Len(q) : x = q[k]
    BY <1>1 DEF ToSet
  <2>2. CASE k < i
    <3>1. k \in 1..(Len(q) - 1)
      BY <1>1, <2>2
    <3> QED BY <1>1, <2>1, <2>2, <3>1 DEF ToSet
  <2>3. CASE k > i
    <3>1. k - 1 \in 1..(Len(q) - 1) /\ ~(k - 1 < i) /\ (k - 1) + 1 = k
      BY <1>1, <2>3
    <3>2. p[k - 1] = q[k]
      BY <1>1, <3>1
    <3> QED BY <1>1, <2>1, <3>1, <3>2 DEF ToSet
  <2> QED BY <1>1, <1>5, <2>1, <2>2, <2>3
<1> QED BY <1>3, <1>4, <1>5 DEF p

\* The elements that stay keep their order.
LEMMA RemoveAtOrder ==
    ASSUME NEW S, NEW q \in Seq(S), NEW i \in DOMAIN q,
           NEW k \in DOMAIN RemoveAt(q, i)
    PROVE  \E j \in DOMAIN q :
              /\ RemoveAt(q, i)[k] = q[j]
              /\ \A n \in DOMAIN q : n < j /\ n # i =>
                    \E m \in DOMAIN RemoveAt(q, i) :
                       m < k /\ RemoveAt(q, i)[m] = q[n]
<1> DEFINE p == RemoveAt(q, i)
<1>1. /\ Len(q) \in Nat /\ i \in 1..Len(q) /\ DOMAIN q = 1..Len(q)
      /\ DOMAIN p = 1..(Len(q) - 1)
      /\ \A n \in 1..(Len(q) - 1) : p[n] = IF n < i THEN q[n] ELSE q[n + 1]
  BY RemoveAtElements, LenProperties
<1> HIDE DEF p
<1>2. PICK j \in DOMAIN q : p[k] = q[j] /\ (k < i => j = k) /\ (~(k < i) => j = k + 1)
  <2>1. k \in 1..(Len(q) - 1)
    BY <1>1 DEF p
  <2> QED BY <1>1, <2>1
<1>3. ASSUME NEW n \in DOMAIN q, n < j, n # i
      PROVE  \E m \in DOMAIN p : m < k /\ p[m] = q[n]
  <2>1. k \in 1..(Len(q) - 1)
    BY <1>1 DEF p
  <2>2. CASE n < i
    <3>1. n \in DOMAIN p /\ p[n] = q[n] /\ n < k
      BY <1>1, <1>2, <1>3, <2>1, <2>2
    <3> QED BY <3>1
  <2>3. CASE n > i
    <3>1. n - 1 \in DOMAIN p /\ ~(n - 1 < i) /\ (n - 1) + 1 = n
      BY <1>1, <2>3
    <3>2. p[n - 1] = q[n]
      BY <1>1, <3>1
    <3>3. n - 1 < k
      BY <1>1, <1>2, <1>3, <2>1, <2>3
    <3> QED BY <3>1, <3>2, <3>3
  <2> QED BY <1>1, <1>3, <2>2, <2>3
<1> QED BY <1>2, <1>3 DEF p

\* A new element at the end of a queue.
LEMMA AppendNew ==
    ASSUME NEW S, NEW q \in Seq(S), IsInjective(q),
           NEW x \in S, x \notin ToSet(q)
    PROVE  /\ Append(q, x) \in Seq(S)
           /\ IsInjective(Append(q, x))
           /\ ToSet(Append(q, x)) = ToSet(q) \cup {x}
           /\ Len(Append(q, x)) = Len(q) + 1
           /\ DOMAIN Append(q, x) = 1..(Len(q) + 1)
           /\ \A k \in 1..Len(q) : Append(q, x)[k] = q[k]
           /\ Append(q, x)[Len(q) + 1] = x
<1> DEFINE p == Append(q, x)
<1>1. /\ Len(q) \in Nat /\ DOMAIN q = 1..Len(q)
      /\ p \in Seq(S) /\ Len(p) = Len(q) + 1 /\ DOMAIN p = 1..(Len(q) + 1)
      /\ \A k \in 1..Len(q) : p[k] = q[k]
      /\ p[Len(q) + 1] = x
  BY AppendProperties, LenProperties
<1> HIDE DEF p
<1>2. /\ \A k \in 1..Len(q) : q[k] # x
      /\ \A a, b \in 1..Len(q) : q[a] = q[b] => a = b
  BY <1>1 DEF ToSet, IsInjective
<1>3. IsInjective(p)
  BY <1>1, <1>2 DEF IsInjective
<1>4. ToSet(p) = ToSet(q) \cup {x}
  BY <1>1 DEF ToSet
<1> QED BY <1>1, <1>3, <1>4 DEF p

\* A new element at the front of a queue.
LEMMA PrependNew ==
    ASSUME NEW S, NEW q \in Seq(S), IsInjective(q),
           NEW x \in S, x \notin ToSet(q)
    PROVE  /\ <<x>> \o q \in Seq(S)
           /\ IsInjective(<<x>> \o q)
           /\ ToSet(<<x>> \o q) = ToSet(q) \cup {x}
           /\ Len(<<x>> \o q) = Len(q) + 1
           /\ DOMAIN (<<x>> \o q) = 1..(Len(q) + 1)
           /\ (<<x>> \o q)[1] = x
           /\ \A k \in 1..Len(q) : (<<x>> \o q)[k + 1] = q[k]
<1> DEFINE p == <<x>> \o q
<1>1. <<x>> \in Seq(S) /\ Len(<<x>>) = 1 /\ <<x>>[1] = x
  OBVIOUS
<1>2. /\ Len(q) \in Nat /\ DOMAIN q = 1..Len(q)
      /\ p \in Seq(S) /\ Len(p) = 1 + Len(q)
      /\ \A k \in 1..(1 + Len(q)) : p[k] = IF k <= 1 THEN x ELSE q[k - 1]
  BY <1>1, ConcatProperties, LenProperties
<1> HIDE DEF p
<1>3. DOMAIN p = 1..(Len(q) + 1) /\ Len(p) = Len(q) + 1
  BY <1>2, LenProperties
<1>4. /\ p[1] = x
      /\ \A k \in 1..Len(q) : p[k + 1] = q[k]
  BY <1>2
<1>5. /\ \A k \in 1..Len(q) : q[k] # x
      /\ \A a, b \in 1..Len(q) : q[a] = q[b] => a = b
  BY <1>2 DEF ToSet, IsInjective
<1>6. \A k \in 1..(Len(q) + 1) : k = 1 \/ k - 1 \in 1..Len(q)
  BY <1>2
<1>7. \A k \in 1..(Len(q) + 1) : k # 1 => p[k] = q[k - 1]
  BY <1>2
<1>8. IsInjective(p)
  <2>1. ASSUME NEW a \in 1..(Len(q) + 1), NEW b \in 1..(Len(q) + 1), p[a] = p[b]
        PROVE  a = b
    <3>1. CASE a = 1 \/ b = 1
      BY <1>4, <1>5, <1>6, <1>7, <2>1, <3>1
    <3>2. CASE a # 1 /\ b # 1
      <4>1. q[a - 1] = q[b - 1]
        BY <1>7, <2>1, <3>2
      <4>2. a - 1 = b - 1
        BY <1>5, <1>6, <3>2, <4>1
      <4> QED BY <1>2, <4>2
    <3> QED BY <3>1, <3>2
  <2> QED BY <1>3, <2>1 DEF IsInjective
<1>9. ToSet(p) = ToSet(q) \cup {x}
  <2>1. ASSUME NEW y \in ToSet(p) PROVE y \in ToSet(q) \cup {x}
    BY <1>2, <1>3, <1>4, <1>6, <1>7, <2>1 DEF ToSet
  <2>2. x \in ToSet(p)
    <3>1. 1 \in DOMAIN p
      BY <1>2, <1>3
    <3> QED BY <1>4, <3>1 DEF ToSet
  <2>3. ASSUME NEW y \in ToSet(q) PROVE y \in ToSet(p)
    <3>1. PICK k \in 1..Len(q) : y = q[k]
      BY <1>2 DEF ToSet
    <3>2. k + 1 \in DOMAIN p
      BY <1>2, <1>3
    <3> QED BY <1>4, <3>1, <3>2 DEF ToSet
  <2> QED BY <2>1, <2>2, <2>3
<1> QED BY <1>2, <1>3, <1>4, <1>8, <1>9 DEF p

-----------------------------------------------------------------------------
(* Filtering and sorting                                                   *)

\* Elements that are placed at different ones of as many places: each of them
\* is in the sequence, where it was placed, and nothing else is.
LEMMA PlacedElements ==
    ASSUME NEW S, NEW q \in Seq(S), NEW I, I \subseteq DOMAIN q,
           NEW place \in [I -> 1..Cardinality(I)], IsInjective(place)
    PROVE  /\ IsFiniteSet(I) /\ Cardinality(I) \in Nat
           /\ Placed(q, place) \in Seq(S)
           /\ Len(Placed(q, place)) = Cardinality(I)
           /\ DOMAIN Placed(q, place) = 1..Cardinality(I)
           /\ \A i \in I : Placed(q, place)[place[i]] = q[i]
           /\ \A n \in 1..Cardinality(I) : \E i \in I : place[i] = n
<1>1. /\ Len(q) \in Nat /\ DOMAIN q = 1..Len(q)
      /\ \A i \in DOMAIN q : q[i] \in S
  BY LenProperties, ElementOfSeq
<1>2. IsFiniteSet(1..Len(q))
  BY <1>1, FS_Interval
<1>3. IsFiniteSet(I) /\ Cardinality(I) \in Nat
  BY <1>1, <1>2, FS_Subset, FS_CardinalityType
<1> DEFINE n0 == Cardinality(I)
<1> HIDE DEF n0
<1>4. n0 \in Nat /\ IsFiniteSet(1..n0) /\ Cardinality(1..n0) = n0
  BY <1>3, FS_Interval DEF n0
<1>5. place \in Injection(I, 1..n0) /\ Cardinality(I) = Cardinality(1..n0)
  BY <1>4 DEF Injection, n0
<1>6. place \in Surjection(I, 1..n0)
  BY <1>4, <1>5, FS_Injection
<1>7. \A n \in 1..n0 : \E i \in I : place[i] = n
  BY <1>6 DEF Surjection
<1>8. DOMAIN place = I /\ \A i \in I : place[i] \in 1..n0
  BY DEF n0
<1>9. /\ Placed(q, place) = [n \in 1..n0 |-> q[CHOOSE i \in I : place[i] = n]]
      /\ \A n \in 1..n0 : /\ (CHOOSE i \in I : place[i] = n) \in I
                          /\ place[CHOOSE i \in I : place[i] = n] = n
  BY <1>7, <1>8 DEF Placed, n0
<1>10. Placed(q, place) \in [1..n0 -> S]
  BY <1>1, <1>9
<1>11. /\ Placed(q, place) \in Seq(S)
       /\ Len(Placed(q, place)) = n0 /\ DOMAIN Placed(q, place) = 1..n0
  BY <1>4, <1>10
<1>12. ASSUME NEW i \in I PROVE Placed(q, place)[place[i]] = q[i]
  <2>1. (CHOOSE j \in I : place[j] = place[i]) = i
    BY <1>8, <1>9 DEF IsInjective
  <2> QED BY <1>8, <1>9, <2>1
<1> QED BY <1>3, <1>7, <1>11, <1>12 DEF n0

\* Counting the members of a finite set of naturals up to each of them numbers
\* them in their order.
LEMMA RankOrders ==
    ASSUME NEW I \in SUBSET Nat, IsFiniteSet(I)
    PROVE  LET rank == [i \in I |-> Cardinality({j \in I : j <= i})]
           IN  /\ rank \in [I -> 1..Cardinality(I)]
               /\ IsInjective(rank)
               /\ \A i, j \in I : i < j <=> rank[i] < rank[j]
<1> DEFINE upTo(i) == {j \in I : j <= i}
           rank == [i \in I |-> Cardinality(upTo(i))]
<1>1. ASSUME NEW i \in I
      PROVE  /\ IsFiniteSet(upTo(i)) /\ Cardinality(upTo(i)) \in Nat
             /\ Cardinality(I) \in Nat
             /\ Cardinality(upTo(i)) <= Cardinality(I)
             /\ Cardinality(upTo(i)) # 0
  <2>1. upTo(i) \in SUBSET I /\ i \in upTo(i)
    BY <1>1
  <2> HIDE DEF upTo
  <2> QED BY <2>1, FS_Subset, FS_CardinalityType, FS_EmptySet
<1>2. ASSUME NEW i \in I, NEW j \in I, i < j
      PROVE  Cardinality(upTo(i)) < Cardinality(upTo(j))
  <2>1. upTo(i) \in SUBSET upTo(j) /\ j \in upTo(j) /\ j \notin upTo(i)
    <3>1. i \in Nat /\ j \in Nat /\ \A k \in I : k \in Nat
      OBVIOUS
    <3>2. \A k \in upTo(i) : k \in upTo(j)
      BY <1>2, <3>1
    <3>3. j \in upTo(j) /\ j \notin upTo(i)
      BY <1>2, <3>1
    <3> QED BY <3>2, <3>3
  <2> HIDE DEF upTo
  <2>2. /\ Cardinality(upTo(i)) <= Cardinality(upTo(j))
        /\ Cardinality(upTo(j)) = Cardinality(upTo(i)) => upTo(j) = upTo(i)
    BY <1>1, <2>1, FS_Subset
  <2> QED BY <1>1, <2>1, <2>2
<1> HIDE DEF upTo
<1>3. \A i \in I : rank[i] = Cardinality(upTo(i))
  OBVIOUS
<1>4. rank \in [I -> 1..Cardinality(I)]
  BY <1>1
<1>5. \A i, j \in I : rank[i] \in Nat /\ (i < j => rank[i] < rank[j])
  BY <1>1, <1>2, <1>3
<1>6. DOMAIN rank = I
  OBVIOUS
<1> HIDE DEF rank
<1>7. ASSUME NEW i \in I, NEW j \in I
      PROVE  (rank[i] = rank[j] => i = j) /\ (i < j <=> rank[i] < rank[j])
  <2>1. i \in Nat /\ j \in Nat
    OBVIOUS
  <2>2. /\ rank[i] \in Nat /\ rank[j] \in Nat
        /\ i < j => rank[i] < rank[j]
        /\ j < i => rank[j] < rank[i]
    BY <1>5
  <2> QED BY <2>1, <2>2
<1>8. IsInjective(rank) /\ \A i, j \in I : i < j <=> rank[i] < rank[j]
  <2>1. IsInjective(rank)
    BY <1>6, <1>7 DEF IsInjective
  <2> QED BY <1>7, <2>1
<1> QED BY <1>4, <1>8 DEF rank, upTo

\* p lists the elements of q at the indices of I, in their order.
Lists(p, q, I) ==
    /\ DOMAIN p = 1..Cardinality(I) /\ Cardinality(I) \in Nat
    /\ \E at \in [DOMAIN p -> I] :
          /\ \A n \in DOMAIN p : p[n] = q[at[n]]
          /\ \A i \in I : \E n \in DOMAIN p : at[n] = i
          /\ \A m, n \in DOMAIN p : m < n => at[m] < at[n]

\* That is what picking the elements at some indices does.
LEMMA PickedElements ==
    ASSUME NEW S, NEW q \in Seq(S), NEW I, I \subseteq DOMAIN q
    PROVE  Picked(q, I) \in Seq(S) /\ Lists(Picked(q, I), q, I)
<1> DEFINE place == [i \in I |-> Cardinality({j \in I : j <= i})]
<1>1. I \in SUBSET Nat /\ IsFiniteSet(I)
  <2>1. Len(q) \in Nat /\ DOMAIN q = 1..Len(q)
    BY LenProperties
  <2>2. IsFiniteSet(1..Len(q)) /\ I \in SUBSET (1..Len(q))
    BY <2>1, FS_Interval
  <2> QED BY <2>2, FS_Subset
<1>2. Picked(q, I) = Placed(q, place)
  BY DEF Picked
<1>3. /\ place \in [I -> 1..Cardinality(I)] /\ IsInjective(place)
      /\ \A i, j \in I : i < j <=> place[i] < place[j]
  BY <1>1, RankOrders
<1> HIDE DEF place
<1>4. /\ IsFiniteSet(I) /\ Cardinality(I) \in Nat
      /\ Placed(q, place) \in Seq(S)
      /\ DOMAIN Placed(q, place) = 1..Cardinality(I)
      /\ \A i \in I : Placed(q, place)[place[i]] = q[i]
      /\ \A n \in 1..Cardinality(I) : \E i \in I : place[i] = n
  BY <1>3, PlacedElements
<1> DEFINE at == [n \in 1..Cardinality(I) |-> CHOOSE i \in I : place[i] = n]
<1>5. \A n \in 1..Cardinality(I) : at[n] \in I /\ place[at[n]] = n
  BY <1>4
<1>6. at \in [1..Cardinality(I) -> I]
  BY <1>5
<1> HIDE DEF at
<1>7. \A n \in 1..Cardinality(I) : Placed(q, place)[n] = q[at[n]]
  <2> TAKE n \in 1..Cardinality(I)
  <2>1. Placed(q, place)[place[at[n]]] = q[at[n]]
    BY <1>4, <1>5
  <2> QED BY <1>5, <2>1
<1>8. \A i \in I : place[i] \in 1..Cardinality(I) /\ at[place[i]] = i
  <2> TAKE i \in I
  <2>1. place[i] \in 1..Cardinality(I)
    BY <1>3
  <2>2. at[place[i]] \in I /\ place[at[place[i]]] = place[i]
    BY <1>5, <2>1
  <2> QED BY <1>3, <2>1, <2>2 DEF IsInjective
<1>9. \A m, n \in 1..Cardinality(I) : m < n => at[m] < at[n]
  BY <1>3, <1>5
<1> DEFINE p == Placed(q, place)
<1>10. DOMAIN p = 1..Cardinality(I) /\ p \in Seq(S)
  BY <1>4
<1> HIDE DEF p
<1>11. Lists(p, q, I)
  <2>1. \A n \in DOMAIN p : p[n] = q[at[n]]
    BY <1>7, <1>10 DEF p
  <2>2. at \in [DOMAIN p -> I] /\ \A i \in I : \E n \in DOMAIN p : at[n] = i
    BY <1>6, <1>8, <1>10
  <2>3. \A m, n \in DOMAIN p : m < n => at[m] < at[n]
    BY <1>9, <1>10
  <2> QED BY <1>4, <1>10, <2>1, <2>2, <2>3 DEF Lists
<1> QED BY <1>2, <1>10, <1>11 DEF p

\* A queue without repetitions, from which some are taken out: the others are
\* left, once each and in their order.
LEMMA WithoutElements ==
    ASSUME NEW S, NEW q \in Seq(S), IsInjective(q), NEW C
    PROVE  /\ Without(q, C) \in Seq(S)
           /\ IsInjective(Without(q, C))
           /\ ToSet(Without(q, C)) = ToSet(q) \ C
           /\ \A m, n \in DOMAIN Without(q, C) : m < n =>
                 \E i, j \in DOMAIN q : /\ i < j
                                        /\ Without(q, C)[m] = q[i]
                                        /\ Without(q, C)[n] = q[j]
<1> DEFINE I == {i \in DOMAIN q : q[i] \notin C}
           place == [i \in I |-> Cardinality({j \in I : j <= i})]
           p == Placed(q, place)
<1>1. /\ Len(q) \in Nat /\ DOMAIN q = 1..Len(q)
      /\ I \subseteq DOMAIN q /\ I \in SUBSET Nat
  BY LenProperties
<1>2. IsFiniteSet(I)
  <2>1. IsFiniteSet(1..Len(q)) /\ I \in SUBSET (1..Len(q))
    BY <1>1, FS_Interval
  <2> QED BY <2>1, FS_Subset
<1>3. Without(q, C) = p
  BY DEF Without, Picked
<1>4. \A i \in DOMAIN q : i \in I <=> q[i] \notin C
  OBVIOUS
<1> HIDE DEF I
<1>5. /\ place \in [I -> 1..Cardinality(I)] /\ IsInjective(place)
      /\ \A i, j \in I : i < j <=> place[i] < place[j]
  BY <1>1, <1>2, RankOrders
<1> HIDE DEF place
<1>6. /\ p \in Seq(S) /\ DOMAIN p = 1..Cardinality(I) /\ Cardinality(I) \in Nat
      /\ \A i \in I : p[place[i]] = q[i]
      /\ \A n \in 1..Cardinality(I) : \E i \in I : place[i] = n
  BY <1>1, <1>5, PlacedElements
<1> HIDE DEF p
<1>7. \A n \in DOMAIN p : \E i \in I : place[i] = n /\ p[n] = q[i]
  BY <1>6
<1>8. IsInjective(p)
  <2>1. ASSUME NEW a \in DOMAIN p, NEW b \in DOMAIN p, p[a] = p[b]
        PROVE  a = b
    <3>1. PICK i \in I : place[i] = a /\ p[a] = q[i]
      BY <1>7
    <3>2. PICK j \in I : place[j] = b /\ p[b] = q[j]
      BY <1>7
    <3>3. i = j
      BY <1>1, <2>1, <3>1, <3>2 DEF IsInjective
    <3> QED BY <3>1, <3>2, <3>3
  <2> QED BY <2>1 DEF IsInjective
<1>9. ToSet(p) = ToSet(q) \ C
  <2>1. \A x \in ToSet(p) : x \in ToSet(q) \ C
    BY <1>1, <1>4, <1>7 DEF ToSet
  <2>2. ASSUME NEW x \in ToSet(q), x \notin C PROVE x \in ToSet(p)
    <3>1. PICK i \in DOMAIN q : x = q[i]
      BY DEF ToSet
    <3>2. i \in I /\ place[i] \in 1..Cardinality(I)
      BY <1>4, <1>5, <2>2, <3>1
    <3> QED BY <1>6, <3>1, <3>2 DEF ToSet
  <2> QED BY <2>1, <2>2
<1>10. ASSUME NEW m \in DOMAIN p, NEW n \in DOMAIN p, m < n
       PROVE  \E i, j \in DOMAIN q : i < j /\ p[m] = q[i] /\ p[n] = q[j]
  <2>1. PICK i \in I : place[i] = m /\ p[m] = q[i]
    BY <1>7
  <2>2. PICK j \in I : place[j] = n /\ p[n] = q[j]
    BY <1>7
  <2>3. i < j /\ i \in DOMAIN q /\ j \in DOMAIN q
    BY <1>1, <1>5, <1>10, <2>1, <2>2
  <2> QED BY <2>1, <2>2, <2>3
<1> QED BY <1>3, <1>6, <1>8, <1>9, <1>10
=============================================================================
