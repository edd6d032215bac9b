----------------------- MODULE VectorizationQueueProofs -----------------------
(***************************************************************************)
(* Proofs about VectorizationQueue: types, with every source queued once   *)
(* and a batch exactly while it is worked on; and that an edit is never    *)
(* taken for a sweep.                                                      *)
(***************************************************************************)
EXTENDS VectorizationQueue, SequenceLemmas

\* An array of jobs in which no source occurs twice.
Lined(jobs) ==
    /\ jobs \in Seq(Job)
    /\ \A i, j \in DOMAIN jobs : jobs[i].source = jobs[j].source => i = j

\* The array holds a job that forces a reindex of the source.
Forces(jobs, source) ==
    \E i \in DOMAIN jobs : jobs[i].source = source /\ jobs[i].forced

-----------------------------------------------------------------------------
(* Numbers and jobs *)

\* A finite, nonempty set of naturals has a greatest element, which Max chooses.
LEMMA MaxOfNaturals ==
    ASSUME NEW S \in SUBSET Nat, IsFiniteSet(S), S # {}
    PROVE  Max(S) \in S /\ \A n \in S : n <= Max(S)
<1> DEFINE Tops(T) == {x \in T : \A y \in T : y <= x}
           Bad == {n \in Nat : \E T \in SUBSET Nat :
                     IsFiniteSet(T) /\ T # {} /\ Cardinality(T) = n /\ Tops(T) = {}}
<1>1. Bad = {}
  <2> SUFFICES ASSUME Bad # {} PROVE FALSE
    OBVIOUS
  <2>1. Min(Bad) \in Bad /\ \A n \in Bad : Min(Bad) <= n
    BY MinOfNaturals
  <2>2. PICK T \in SUBSET Nat : /\ IsFiniteSet(T) /\ T # {}
                                /\ Cardinality(T) = Min(Bad) /\ Tops(T) = {}
    BY <2>1
  <2>3. PICK x \in T : TRUE
    BY <2>2
  <2> DEFINE U == T \ {x}
  <2>4. /\ IsFiniteSet(U) /\ Cardinality(U) \in Nat /\ Cardinality(U) < Cardinality(T)
        /\ U \in SUBSET Nat
    <3>1. IsFiniteSet(U) /\ Cardinality(U) = Cardinality(T) - 1
      BY <2>2, <2>3, FS_RemoveElement
    <3>2. Cardinality(U) \in Nat /\ Cardinality(T) \in Nat
      BY <2>2, <3>1, FS_CardinalityType
    <3>3. U \in SUBSET Nat
      OBVIOUS
    <3> HIDE DEF U, Bad
    <3> QED BY <3>1, <3>2, <3>3
  <2>5. Cardinality(U) \notin Bad
    <3>1. Cardinality(U) < Min(Bad) /\ Min(Bad) \in Nat
      BY <2>1, <2>2, <2>4
    <3>2. Cardinality(U) \in Nat
      BY <2>4
    <3> HIDE DEF U, Bad
    <3> QED BY <2>1, <3>1, <3>2
  <2>6. CASE U = {}
    <3>1. x \in Tops(T)
      BY <2>2, <2>3, <2>6
    <3> QED BY <2>2, <3>1
  <2>7. CASE U # {}
    <3>1. PICK m \in U : \A y \in U : y <= m
      BY <2>4, <2>5, <2>7
    <3>2. m \in Nat /\ x \in Nat /\ T = U \cup {x} /\ m \in T
      BY <2>2, <2>3
    <3>3. (\A y \in T : y <= m) \/ (\A y \in T : y <= x)
      BY <2>2, <3>1, <3>2
    <3> QED BY <2>2, <2>3, <3>2, <3>3
  <2> QED BY <2>6, <2>7
<1>2. Cardinality(S) \in Nat /\ Cardinality(S) \notin Bad
  BY <1>1, FS_CardinalityType
<1>3. PICK x \in S : \A y \in S : y <= x
  BY <1>2
<1>4. \A y \in S : x >= y
  BY <1>3
<1>5. Max(S) \in S /\ \A n \in S : Max(S) >= n
  BY <1>4 DEF Max
<1>6. \A n \in S : n \in Nat /\ Max(S) \in Nat
  BY <1>5
<1> QED BY <1>5, <1>6

\* The greater of two numbers and the smaller of two.
LEMMA PairFacts ==
    ASSUME NEW a \in Nat, NEW b \in Nat
    PROVE  /\ Max({a, b}) \in {a, b} /\ a <= Max({a, b}) /\ b <= Max({a, b})
           /\ Min({a, b}) \in {a, b} /\ Min({a, b}) <= a /\ Min({a, b}) <= b
<1>1. {a, b} \in SUBSET Nat /\ {a, b} # {} /\ IsFiniteSet({a, b})
  <2>1. IsFiniteSet({a} \cup {b})
    BY FS_Singleton, FS_Union
  <2>2. {a, b} = {a} \cup {b}
    OBVIOUS
  <2> QED BY <2>1, <2>2
<1>2. Max({a, b}) \in {a, b} /\ \A n \in {a, b} : n <= Max({a, b})
  BY <1>1, MaxOfNaturals
<1>3. Min({a, b}) \in {a, b} /\ \A n \in {a, b} : Min({a, b}) <= n
  BY <1>1, MinOfNaturals
<1> QED BY <1>2, <1>3

\* What the constants say about the numbers of a job.
LEMMA JobNumbers ==
    /\ TopPriority \in Nat /\ MaxWait \in Nat
    /\ \A p \in Priorities : p \in 0 .. TopPriority
<1>1. Priorities \in SUBSET Nat /\ IsFiniteSet(Priorities) /\ Priorities # {}
  BY QueueAssumption
<1>2. Max(Priorities) \in Priorities /\ \A n \in Priorities : n <= Max(Priorities)
  BY <1>1, MaxOfNaturals
<1>3. TopPriority \in Priorities /\ \A n \in Priorities : n <= TopPriority
  BY <1>2 DEF TopPriority
<1>4. TopPriority \in Nat /\ \A n \in Priorities : n \in Nat
  BY <1>1, <1>3
<1>5. MaxWait \in Nat
  BY QueueAssumption
<1> QED BY <1>3, <1>4, <1>5

\* Merging a job into another one for the same source: the merged job is one
\* for that source, and it forces a reindex if one of the two does.
LEMMA MergedFacts ==
    ASSUME NEW old \in Job, NEW job \in Job
    PROVE  /\ Merged(old, job) \in Job
           /\ Merged(old, job).source = old.source
           /\ old.forced => Merged(old, job).forced
           /\ job.forced => Merged(old, job).forced
<1> DEFINE p == Max({old.priority, job.priority})
<1>1. /\ old.priority \in 0 .. TopPriority /\ job.priority \in 0 .. TopPriority
      /\ job.age \in 0 .. MaxWait /\ old.source \in Sources
      /\ old.forced \in BOOLEAN /\ job.forced \in BOOLEAN
  BY DEF Job
<1>2. p \in 0 .. TopPriority
  BY <1>1, JobNumbers, PairFacts
<1> HIDE DEF p
<1>3. Merged(old, job) = [old EXCEPT !.priority = p,
                                     !.forced = old.forced \/ job.forced,
                                     !.age = job.age]
  BY DEF Merged, p
<1>4. (old.forced \/ job.forced) \in BOOLEAN
  OBVIOUS
<1>5. Merged(old, job) \in Job /\ Merged(old, job).source = old.source
  BY <1>1, <1>2, <1>3, <1>4 DEF Job
<1>6. Merged(old, job).forced = (old.forced \/ job.forced)
  BY <1>3 DEF Job
<1> QED BY <1>5, <1>6

-----------------------------------------------------------------------------
(* Sorting and adding *)

\* p holds the elements of q, each at one place.
Shuffles(p, q) ==
    /\ DOMAIN p = DOMAIN q
    /\ \E to \in [DOMAIN q -> DOMAIN q] :
          /\ \A i \in DOMAIN q : p[to[i]] = q[i]
          /\ \A n \in DOMAIN q : \E i \in DOMAIN q : to[i] = n

\* The stable sort does that.
LEMMA SortedElements ==
    ASSUME NEW jobs \in Seq(Job)
    PROVE  Sorted(jobs) \in Seq(Job) /\ Shuffles(Sorted(jobs), jobs)
<1> DEFINE I == DOMAIN jobs
           upTo(i) == {j \in I : \/ jobs[j].priority > jobs[i].priority
                                 \/ jobs[j].priority = jobs[i].priority /\ j <= i}
           to == [i \in I |-> Cardinality(upTo(i))]
<1>1. /\ Len(jobs) \in Nat /\ I = 1 .. Len(jobs)
      /\ IsFiniteSet(I) /\ Cardinality(I) = Len(jobs)
  <2>1. Len(jobs) \in Nat /\ I = 1 .. Len(jobs)
    BY LenProperties
  <2> HIDE DEF I
  <2>2. IsFiniteSet(1 .. Len(jobs)) /\ Cardinality(1 .. Len(jobs)) = Len(jobs)
    BY <2>1, FS_Interval
  <2> QED BY <2>1, <2>2
<1>2. \A i \in I : jobs[i].priority \in Nat /\ i \in Nat
  <2> TAKE i \in I
  <2>1. i \in 1 .. Len(jobs) /\ jobs[i] \in Job
    BY <1>1, ElementOfSeq
  <2>2. jobs[i].priority \in 0 .. TopPriority
    BY <2>1 DEF Job
  <2> QED BY <1>1, <2>1, <2>2, JobNumbers
<1>3. ASSUME NEW i \in I
      PROVE  /\ i \in upTo(i)
             /\ IsFiniteSet(upTo(i)) /\ Cardinality(upTo(i)) \in 1 .. Cardinality(I)
  <2>1. upTo(i) \in SUBSET I /\ i \in upTo(i)
    BY <1>2
  <2> HIDE DEF upTo
  <2>2. IsFiniteSet(upTo(i)) /\ Cardinality(upTo(i)) <= Cardinality(I)
    BY <1>1, <2>1, FS_Subset
  <2>3. Cardinality(upTo(i)) \in Nat /\ Cardinality(upTo(i)) # 0
    BY <2>1, <2>2, FS_EmptySet, FS_CardinalityType
  <2> HIDE DEF I
  <2> QED BY <1>1, <2>1, <2>2, <2>3
<1>4. ASSUME NEW i \in I, NEW j \in I, j \in upTo(i), j # i
      PROVE  Cardinality(upTo(j)) < Cardinality(upTo(i))
  <2>1. upTo(j) \in SUBSET upTo(i)
    <3>1. jobs[i].priority \in Nat /\ jobs[j].priority \in Nat /\ i \in Nat /\ j \in Nat
      BY <1>2
    <3>2. ASSUME NEW k \in upTo(j) PROVE k \in upTo(i)
      <4>1. jobs[k].priority \in Nat /\ k \in Nat /\ k \in I
        BY <1>2
      <4> QED BY <1>4, <3>1, <4>1
    <3> QED BY <3>2
  <2>2. i \notin upTo(j)
    BY <1>2, <1>4
  <2>3. i \in upTo(i)
    BY <1>3
  <2> HIDE DEF upTo
  <2>4. /\ Cardinality(upTo(j)) <= Cardinality(upTo(i))
        /\ Cardinality(upTo(j)) = Cardinality(upTo(i)) => upTo(j) = upTo(i)
    BY <1>3, <2>1, FS_Subset
  <2>5. Cardinality(upTo(j)) \in Nat /\ Cardinality(upTo(i)) \in Nat
    BY <1>3, FS_CardinalityType
  <2> QED BY <2>2, <2>3, <2>4, <2>5
<1>5. \A i, j \in I : i \in upTo(j) \/ j \in upTo(i)
  BY <1>2
<1>6. Sorted(jobs) = Placed(jobs, to)
  BY DEF Sorted
<1> HIDE DEF upTo
<1>7. to \in [I -> 1 .. Cardinality(I)]
  BY <1>3
<1>8. \A i \in I : to[i] = Cardinality(upTo(i)) /\ to[i] \in Nat
  BY <1>3, FS_CardinalityType
<1> HIDE DEF to
<1>9. IsInjective(to)
  <2>1. ASSUME NEW i \in I, NEW j \in I, to[i] = to[j] PROVE i = j
    <3>1. CASE j \in upTo(i) /\ i # j
      BY <1>4, <1>8, <2>1, <3>1
    <3>2. CASE i \in upTo(j) /\ i # j
      BY <1>4, <1>8, <2>1, <3>2
    <3> QED BY <1>5, <3>1, <3>2
  <2> QED BY <1>7, <2>1 DEF IsInjective
<1>10. /\ Placed(jobs, to) \in Seq(Job)
       /\ DOMAIN Placed(jobs, to) = 1 .. Cardinality(I)
       /\ \A i \in I : Placed(jobs, to)[to[i]] = jobs[i]
       /\ \A n \in 1 .. Cardinality(I) : \E i \in I : to[i] = n
  BY <1>7, <1>9, PlacedElements
<1>11. 1 .. Cardinality(I) = I
  BY <1>1
<1> DEFINE p == Placed(jobs, to)
<1>12. p \in Seq(Job) /\ DOMAIN p = I /\ \A i \in I : p[to[i]] = jobs[i]
  BY <1>10, <1>11
<1>13. to \in [I -> I] /\ \A n \in I : \E i \in I : to[i] = n
  BY <1>7, <1>10, <1>11
<1> HIDE DEF p
<1>14. Shuffles(p, jobs)
  BY <1>12, <1>13 DEF Shuffles
<1> QED BY <1>6, <1>12, <1>14 DEF p

\* Sorting keeps the jobs, and each source once.
LEMMA SortedFacts ==
    ASSUME NEW jobs, Lined(jobs)
    PROVE  /\ Lined(Sorted(jobs)) /\ DOMAIN Sorted(jobs) = DOMAIN jobs
           /\ \A s : Forces(jobs, s) => Forces(Sorted(jobs), s)
<1> DEFINE sorted == Sorted(jobs)
<1>1. /\ jobs \in Seq(Job)
      /\ \A i, j \in DOMAIN jobs : jobs[i].source = jobs[j].source => i = j
  BY DEF Lined
<1>2. sorted \in Seq(Job) /\ Shuffles(sorted, jobs)
  BY <1>1, SortedElements
<1> HIDE DEF sorted
<1>3. DOMAIN sorted = DOMAIN jobs
  BY <1>2 DEF Shuffles
<1>4. PICK to \in [DOMAIN jobs -> DOMAIN jobs] :
         /\ \A i \in DOMAIN jobs : sorted[to[i]] = jobs[i]
         /\ \A n \in DOMAIN jobs : \E i \in DOMAIN jobs : to[i] = n
  BY <1>2 DEF Shuffles
<1>5. ASSUME NEW m \in DOMAIN sorted, NEW n \in DOMAIN sorted,
             sorted[m].source = sorted[n].source
      PROVE  m = n
  <2>1. PICK i \in DOMAIN jobs : to[i] = m
    BY <1>3, <1>4
  <2>2. PICK j \in DOMAIN jobs : to[j] = n
    BY <1>3, <1>4
  <2>3. jobs[i].source = jobs[j].source
    BY <1>4, <1>5, <2>1, <2>2
  <2> QED BY <1>1, <2>1, <2>2, <2>3
<1>6. Lined(sorted)
  BY <1>2, <1>5 DEF Lined
<1>7. ASSUME NEW s, Forces(jobs, s) PROVE Forces(sorted, s)
  <2>1. PICK i \in DOMAIN jobs : jobs[i].source = s /\ jobs[i].forced
    BY <1>7 DEF Forces
  <2>2. to[i] \in DOMAIN sorted /\ sorted[to[i]] = jobs[i]
    BY <1>3, <1>4
  <2> QED BY <2>1, <2>2 DEF Forces
<1> QED BY <1>3, <1>6, <1>7 DEF sorted

\* Adding a job: no source comes to be queued twice, no force is lost, and the
\* job's own is kept.
LEMMA AddedFacts ==
    ASSUME NEW jobs, Lined(jobs), NEW job \in Job
    PROVE  /\ Lined(Added(jobs, job))
           /\ Added(jobs, job) # <<>>
           /\ \A s : Forces(jobs, s) => Forces(Added(jobs, job), s)
           /\ job.forced => Forces(Added(jobs, job), job.source)
<1> DEFINE added == Added(jobs, job)
<1>1. /\ jobs \in Seq(Job)
      /\ Len(jobs) \in Nat /\ DOMAIN jobs = 1 .. Len(jobs)
      /\ \A i \in DOMAIN jobs : jobs[i] \in Job
      /\ \A i, j \in DOMAIN jobs : jobs[i].source = jobs[j].source => i = j
  BY LenProperties, ElementOfSeq DEF Lined
<1>2. CASE job.source \in SourcesOf(jobs)
  <2>1. added = [i \in DOMAIN jobs |-> IF jobs[i].source = job.source
                                       THEN Merged(jobs[i], job) ELSE jobs[i]]
    BY <1>2 DEF Added
  <2>2. PICK k \in DOMAIN jobs : jobs[k].source = job.source
    BY <1>2 DEF SourcesOf
  <2> HIDE DEF added
  <2>3. \A i \in DOMAIN jobs : /\ added[i] \in Job /\ added[i].source = jobs[i].source
                               /\ jobs[i].forced => added[i].forced
    <3> TAKE i \in DOMAIN jobs
    <3>1. CASE jobs[i].source = job.source
      <4>1. added[i] = Merged(jobs[i], job)
        BY <2>1, <3>1
      <4> QED BY <1>1, <4>1, MergedFacts
    <3>2. CASE jobs[i].source # job.source
      BY <1>1, <2>1, <3>2
    <3> QED BY <3>1, <3>2
  <2>4. added \in [1 .. Len(jobs) -> Job] /\ DOMAIN added = DOMAIN jobs
    BY <1>1, <2>1, <2>3
  <2>5. added \in Seq(Job)
    BY <1>1, <2>4
  <2>6. Lined(added)
    BY <1>1, <2>3, <2>4, <2>5 DEF Lined
  <2>7. added # <<>>
    BY <2>2, <2>4
  <2>8. \A s : Forces(jobs, s) => Forces(added, s)
    BY <2>3, <2>4 DEF Forces
  <2>9. job.forced => Forces(added, job.source)
    <3>1. added[k] = Merged(jobs[k], job) /\ k \in DOMAIN added
      BY <2>1, <2>2, <2>4
    <3>2. job.forced => added[k].forced
      BY <1>1, <3>1, MergedFacts
    <3> QED BY <2>2, <2>3, <3>1, <3>2 DEF Forces
  <2> QED BY <2>6, <2>7, <2>8, <2>9 DEF added
<1>3. CASE job.source \notin SourcesOf(jobs)
  <2> DEFINE more == Append(jobs, job)
  <2>1. added = Sorted(more)
    BY <1>3 DEF Added
  <2>2. /\ more \in Seq(Job) /\ DOMAIN more = 1 .. (Len(jobs) + 1)
        /\ \A i \in 1 .. Len(jobs) : more[i] = jobs[i]
        /\ more[Len(jobs) + 1] = job
    BY <1>1, AppendProperties, LenProperties
  <2> HIDE DEF more, added
  <2>3. \A i \in DOMAIN jobs : jobs[i].source # job.source
    BY <1>3 DEF SourcesOf
  <2>4. \A i \in DOMAIN more : i \in DOMAIN jobs \/ i = Len(jobs) + 1
    BY <1>1, <2>2
  <2>5. Lined(more)
    BY <1>1, <2>2, <2>3, <2>4 DEF Lined
  <2>6. /\ Lined(added) /\ DOMAIN added = DOMAIN more
        /\ \A s : Forces(more, s) => Forces(added, s)
    BY <2>1, <2>5, SortedFacts
  <2>7. Len(jobs) + 1 \in DOMAIN more
    BY <1>1, <2>2
  <2>8. added # <<>>
    BY <2>6, <2>7
  <2>9. \A s : Forces(jobs, s) => Forces(more, s)
    <3>1. \A i \in DOMAIN jobs : i \in DOMAIN more /\ more[i] = jobs[i]
      BY <1>1, <2>2
    <3> QED BY <3>1 DEF Forces
  <2>10. job.forced => Forces(more, job.source)
    BY <2>2, <2>7 DEF Forces
  <2> QED BY <2>6, <2>8, <2>9, <2>10 DEF added
<1> QED BY <1>2, <1>3
-----------------------------------------------------------------------------
(* Coming back *)

\* The recursive function in Requeued: what it is for no retries, and for n.
LEMMA RequeuedUnfolds ==
    ASSUME NEW jobs, NEW retries \in Seq(Job)
    PROVE  \E after :
              /\ Requeued(jobs, retries) = after[Len(retries)]
              /\ after[0] = jobs
              /\ \A n \in 1 .. Len(retries) :
                    after[n] = Added(after[n - 1], retries[n])
<1> DEFINE N == Len(retries)
           Is(g, m) == g = [n \in 0 .. m |-> IF n = 0 THEN jobs
                                             ELSE Added(g[n - 1], retries[n])]
           Bad == {m \in 0 .. N : ~ \E g : Is(g, m)}
<1>1. N \in Nat
  BY LenProperties
<1>2. Bad = {}
  <2> SUFFICES ASSUME Bad # {} PROVE FALSE
    OBVIOUS
  <2> DEFINE m == Min(Bad)
  <2>1. Bad \in SUBSET Nat
    BY <1>1
  <2>2. m \in Bad /\ \A k \in Bad : m <= k
    BY <2>1, MinOfNaturals
  <2> HIDE DEF m
  <2>3. m \in 0 .. N /\ m \in Nat /\ ~ \E g : Is(g, m)
    BY <1>1, <2>2
  <2>4. m # 0
    <3>1. Is([n \in {0} |-> jobs], 0)
      <4>1. 0 .. 0 = {0}
        OBVIOUS
      <4>2. \A n \in {0} : n = 0
        OBVIOUS
      <4> QED BY <4>1, <4>2
    <3> QED BY <2>3, <3>1
  <2>5. m - 1 \in 0 .. N /\ m - 1 \notin Bad
    <3>1. m - 1 \in 0 .. N /\ ~(m <= m - 1)
      BY <1>1, <2>3, <2>4
    <3> HIDE DEF Bad
    <3> QED BY <2>2, <3>1
  <2>6. PICK g : Is(g, m - 1)
    BY <2>5
  <2> DEFINE h == [n \in 0 .. m |-> IF n = m THEN Added(g[m - 1], retries[m])
                                             ELSE g[n]]
  <2>7. \A n \in 0 .. m : /\ n # m => n \in 0 .. (m - 1)
                          /\ n # 0 => n - 1 \in 0 .. m /\ n - 1 # m
    BY <2>3
  <2>8. \A n \in 0 .. (m - 1) : g[n] = IF n = 0 THEN jobs
                                       ELSE Added(g[n - 1], retries[n])
    BY <2>6
  <2>9. \A n \in 0 .. m : h[n] = IF n = 0 THEN jobs ELSE Added(h[n - 1], retries[n])
    <3> TAKE n \in 0 .. m
    <3>1. CASE n = m
      <4>1. n # 0 /\ h[n - 1] = g[m - 1]
        BY <2>4, <2>7, <3>1
      <4> QED BY <3>1, <4>1
    <3>2. CASE n # m
      <4>1. n # 0 => h[n - 1] = g[n - 1]
        BY <2>7, <3>2
      <4> QED BY <2>7, <2>8, <3>2, <4>1
    <3> QED BY <3>1, <3>2
  <2>10. h = [n \in 0 .. m |-> h[n]]
    OBVIOUS
  <2> HIDE DEF h
  <2>11. Is(h, m)
    BY <2>9, <2>10
  <2> QED BY <2>3, <2>11
<1>3. N \in 0 .. N /\ N \notin Bad
  BY <1>1, <1>2
<1> DEFINE after == CHOOSE g : Is(g, N)
<1>4. Is(after, N)
  BY <1>3
<1>5. Requeued(jobs, retries) = after[N]
  BY DEF Requeued
<1> HIDE DEF after
<1>6. after[0] = jobs
  <2>1. 0 \in 0 .. N
    BY <1>1
  <2> QED BY <1>4, <2>1
<1>7. ASSUME NEW n \in 1 .. N PROVE after[n] = Added(after[n - 1], retries[n])
  <2>1. n \in 0 .. N /\ n # 0
    BY <1>1
  <2> QED BY <1>4, <2>1
<1> QED BY <1>5, <1>6, <1>7

\* Whatever comes back, no source comes to be queued twice and no force is lost.
LEMMA RequeuedFacts ==
    ASSUME NEW jobs, Lined(jobs), NEW retries \in Seq(Job)
    PROVE  /\ Lined(Requeued(jobs, retries))
           /\ \A s : Forces(jobs, s) => Forces(Requeued(jobs, retries), s)
<1>1. PICK after :
         /\ Requeued(jobs, retries) = after[Len(retries)]
         /\ after[0] = jobs
         /\ \A n \in 1 .. Len(retries) : after[n] = Added(after[n - 1], retries[n])
  BY RequeuedUnfolds
<1> DEFINE N == Len(retries)
           Good(n) == /\ Lined(after[n])
                      /\ \A s : Forces(jobs, s) => Forces(after[n], s)
           Bad == {n \in 0 .. N : ~Good(n)}
<1>2. N \in Nat /\ DOMAIN retries = 1 .. N
  BY LenProperties
<1>3. Bad = {}
  <2> SUFFICES ASSUME Bad # {} PROVE FALSE
    OBVIOUS
  <2> DEFINE m == Min(Bad)
  <2>1. Bad \in SUBSET Nat
    BY <1>2
  <2>2. m \in Bad /\ \A k \in Bad : m <= k
    BY <2>1, MinOfNaturals
  <2> HIDE DEF m
  <2>3. m \in 0 .. N /\ m \in Nat /\ ~Good(m)
    BY <1>2, <2>2
  <2>4. m # 0
    BY <1>1, <2>3
  <2>5. m - 1 \in 0 .. N /\ m - 1 \notin Bad /\ m \in 1 .. N
    <3>1. m - 1 \in 0 .. N /\ ~(m <= m - 1) /\ m \in 1 .. N
      BY <1>2, <2>3, <2>4
    <3> HIDE DEF Bad
    <3> QED BY <2>2, <3>1
  <2>6. Good(m - 1)
    BY <2>5
  <2>7. after[m] = Added(after[m - 1], retries[m]) /\ retries[m] \in Job
    BY <1>1, <1>2, <2>5, ElementOfSeq
  <2>8. /\ Lined(after[m])
        /\ \A s : Forces(after[m - 1], s) => Forces(after[m], s)
    BY <2>6, <2>7, AddedFacts
  <2> QED BY <2>3, <2>6, <2>8
<1>4. Good(N)
  BY <1>2, <1>3
<1> QED BY <1>1, <1>4

\* What comes back of a batch are jobs.
LEMMA RetriesAreJobs ==
    ASSUME batch \in Seq(Job), NEW failed
    PROVE  Retries(failed) \in Seq(Job)
<1> DEFINE I == {i \in DOMAIN batch : /\ batch[i].source \in failed
                                      /\ batch[i].priority > 0}
           again == Picked(batch, I)
<1>1. I \subseteq DOMAIN batch /\ \A i \in I : batch[i].priority > 0
  OBVIOUS
<1>2. Retries(failed) = [n \in DOMAIN again |-> [again[n] EXCEPT !.priority = @ - 1]]
  BY DEF Retries
<1> HIDE DEF I, again
<1>3. again \in Seq(Job) /\ Lists(again, batch, I)
  BY <1>1, PickedElements DEF again
<1>4. \A n \in DOMAIN again : again[n] \in Job /\ again[n].priority > 0
  BY <1>1, <1>3, ElementOfSeq DEF Lists
<1>5. ASSUME NEW n \in DOMAIN again
      PROVE  [again[n] EXCEPT !.priority = @ - 1] \in Job
  <2>1. again[n] \in Job /\ again[n].priority > 0
    BY <1>4
  <2>2. again[n].priority \in 0 .. TopPriority
    BY <2>1 DEF Job
  <2>3. again[n].priority - 1 \in 0 .. TopPriority
    BY <2>1, <2>2, JobNumbers
  <2> QED BY <2>1, <2>3 DEF Job
<1>6. Retries(failed) \in [1 .. Cardinality(I) -> Job] /\ Cardinality(I) \in Nat
  BY <1>2, <1>3, <1>5 DEF Lists
<1> QED BY <1>6

-----------------------------------------------------------------------------
(* The invariant *)

\* An entry that was edited has a job that forces its reindex, and the loop that
\* awaits the settings has something to take.
QueueInv ==
    /\ TypeOK
    /\ EditsStayForced
    /\ awaits = "settings" => queue # <<>>

Awaited == {"nothing", "maintenance", "settings", "work", "pause"}
Timers == {"none", "short", "long"}

\* What the invariant says of the jobs, and of the rest.
LEMMA InvParts ==
    QueueInv <=>
        /\ Lined(queue) /\ \A book \in edited : Forces(queue, book)
        /\ batch \in Seq(Job) /\ (batch # <<>> <=> awaits = "work")
        /\ awaits \in Awaited /\ timer \in Timers
        /\ processing <=> awaits # "nothing"
        /\ adds \in 0 .. MaxAdds /\ troubles \in 0 .. MaxTroubles
        /\ stranded \in BOOLEAN /\ edited \subseteq Books
        /\ awaits = "settings" => queue # <<>>
  BY DEF QueueInv, TypeOK, EditsStayForced, Lined, Forces, Awaited, Timers

LEMMA InvPartsNext ==
    QueueInv' <=>
        /\ Lined(queue') /\ \A book \in edited' : Forces(queue', book)
        /\ batch' \in Seq(Job) /\ (batch' # <<>> <=> awaits' = "work")
        /\ awaits' \in Awaited /\ timer' \in Timers
        /\ processing' <=> awaits' # "nothing"
        /\ adds' \in 0 .. MaxAdds /\ troubles' \in 0 .. MaxTroubles
        /\ stranded' \in BOOLEAN /\ edited' \subseteq Books
        /\ awaits' = "settings" => queue' # <<>>
  BY DEF QueueInv, TypeOK, EditsStayForced, Lined, Forces, Awaited, Timers

LEMMA InitHolds == Init => QueueInv
<1> SUFFICES ASSUME Init PROVE QueueInv
  OBVIOUS
<1>1. /\ queue = <<>> /\ batch = <<>> /\ awaits = "nothing" /\ timer = "none"
      /\ processing = FALSE /\ stranded = FALSE /\ edited = {}
      /\ adds = 0 /\ troubles = 0
  BY DEF Init
<1>2. <<>> \in Seq(Job) /\ DOMAIN <<>> = {}
  BY EmptySeq
<1>3. Lined(queue) /\ batch \in Seq(Job)
  BY <1>1, <1>2 DEF Lined
<1>4. adds \in 0 .. MaxAdds /\ troubles \in 0 .. MaxTroubles
  BY <1>1, QueueAssumption
<1>5. processing <=> awaits # "nothing"
  BY <1>1
<1> QED BY <1>1, <1>3, <1>4, <1>5, InvParts DEF Awaited, Timers

-----------------------------------------------------------------------------
(* The actions *)

LEMMA Schedules ==
    ASSUME NEW jobs, ScheduleProcessing(jobs)
    PROVE  timer' \in Timers /\ stranded' = FALSE
  BY DEF ScheduleProcessing, Delay, Timers

LEMMA AddKeeps ==
    ASSUME QueueInv, NEW source \in Sources, NEW priority \in Priorities,
           NEW forced \in BOOLEAN, Add(source, priority, forced)
    PROVE  QueueInv'
<1> DEFINE job == [source |-> source, priority |-> priority,
                   forced |-> forced, age |-> 0]
<1>1. /\ adds < MaxAdds /\ (forced => source \in Books)
      /\ adds' = adds + 1
      /\ queue' = Added(queue, job)
      /\ ScheduleProcessing(queue')
      /\ edited' = IF forced THEN edited \cup {source} ELSE edited
      /\ UNCHANGED <<processing, awaits, batch, troubles>>
  BY DEF Add
<1>2. /\ Lined(queue) /\ \A book \in edited : Forces(queue, book)
      /\ batch \in Seq(Job) /\ (batch # <<>> <=> awaits = "work")
      /\ awaits \in Awaited /\ (processing <=> awaits # "nothing")
      /\ adds \in 0 .. MaxAdds /\ troubles \in 0 .. MaxTroubles
      /\ edited \subseteq Books
  BY InvParts
<1>3. job \in Job /\ job.source = source /\ job.forced = forced
  <2>1. priority \in 0 .. TopPriority /\ 0 \in 0 .. MaxWait
    BY JobNumbers
  <2> QED BY <2>1 DEF Job
<1> HIDE DEF job
<1>4. /\ Lined(queue') /\ queue' # <<>>
      /\ \A s : Forces(queue, s) => Forces(queue', s)
      /\ job.forced => Forces(queue', job.source)
  BY <1>1, <1>2, <1>3, AddedFacts
<1>5. edited' \subseteq Books /\ \A book \in edited' : Forces(queue', book)
  <2>1. CASE forced
    BY <1>1, <1>2, <1>3, <1>4, <2>1
  <2>2. CASE ~forced
    BY <1>1, <1>2, <1>4, <2>2
  <2> QED BY <2>1, <2>2
<1>6. timer' \in Timers /\ stranded' = FALSE
  BY <1>1, Schedules
<1>7. adds' \in 0 .. MaxAdds
  BY <1>1, <1>2, QueueAssumption
<1>8. processing' <=> awaits' # "nothing"
  BY <1>1, <1>2
<1> QED BY <1>1, <1>2, <1>4, <1>5, <1>6, <1>7, <1>8, InvPartsNext

\* The turn at the top of the loop, when no batch is worked on.
LEMMA LoopTopKeeps ==
    ASSUME QueueInv, NEW t \in Timers, awaits # "work", LoopTop(t),
           UNCHANGED <<queue, batch, adds, troubles, edited>>
    PROVE  QueueInv'
<1>1. /\ Lined(queue) /\ \A book \in edited : Forces(queue, book)
      /\ batch \in Seq(Job) /\ batch = <<>>
      /\ adds \in 0 .. MaxAdds /\ troubles \in 0 .. MaxTroubles
      /\ stranded \in BOOLEAN /\ edited \subseteq Books
  BY InvParts
<1>2. /\ awaits' \in Awaited /\ awaits' # "work"
      /\ awaits' = "settings" => queue # <<>>
      /\ timer' \in Timers
  <2>1. CASE UNCHANGED stranded
    BY <2>1, Schedules DEF LoopTop, ReturnUnsettled, Awaited
  <2>2. CASE ReturnUnsettled
    BY <2>2, Schedules DEF ReturnUnsettled, Awaited
  <2> QED BY <2>1, <2>2 DEF LoopTop
<1>3. stranded' \in BOOLEAN
  <2>1. stranded' = stranded \/ stranded' = FALSE
    BY Schedules DEF LoopTop, ReturnUnsettled
  <2> QED BY <1>1, <2>1
<1>4. processing' <=> awaits' # "nothing"
  BY DEF LoopTop, ReturnUnsettled
<1> QED BY <1>1, <1>2, <1>3, <1>4, InvPartsNext

LEMMA TimerFiresKeeps ==
    ASSUME QueueInv, TimerFires
    PROVE  QueueInv'
<1>1. /\ processing <=> awaits # "nothing"
      /\ stranded \in BOOLEAN /\ awaits \in Awaited
  BY InvParts
<1>2. CASE processing
  <2>1. /\ timer' = "none"
        /\ UNCHANGED <<processing, awaits, stranded, queue, batch, adds, troubles,
                       edited>>
    BY <1>2 DEF TimerFires
  <2>2. processing' <=> awaits' # "nothing"
    BY <1>1, <2>1
  <2>3. timer' \in Timers
    BY <2>1 DEF Timers
  <2> QED BY <2>1, <2>2, <2>3, InvParts, InvPartsNext
<1>3. CASE ~processing
  <2>1. LoopTop("none") /\ UNCHANGED <<queue, batch, adds, troubles, edited>>
    BY <1>3 DEF TimerFires
  <2>2. awaits # "work" /\ "none" \in Timers
    BY <1>1, <1>3 DEF Timers
  <2> QED BY <2>1, <2>2, LoopTopKeeps
<1> QED BY <1>2, <1>3

LEMMA MaintenanceIsOverKeeps ==
    ASSUME QueueInv, MaintenanceIsOver
    PROVE  QueueInv'
<1>1. /\ awaits = "maintenance"
      /\ UNCHANGED <<queue, batch, adds, troubles, edited>>
  BY DEF MaintenanceIsOver
<1>2. /\ processing <=> awaits # "nothing"
      /\ timer \in Timers
  BY InvParts
<1>3. CASE LoopTop(timer)
  BY <1>1, <1>2, <1>3, LoopTopKeeps
<1>4. CASE /\ queue # <<>> /\ awaits' = "settings"
           /\ UNCHANGED <<processing, timer, stranded>>
  <2>1. processing' <=> awaits' # "nothing"
    BY <1>1, <1>2, <1>4
  <2>2. awaits' \in Awaited /\ awaits' # "work" /\ awaits # "work"
    BY <1>1, <1>4 DEF Awaited
  <2> QED BY <1>1, <1>4, <2>1, <2>2, InvParts, InvPartsNext
<1> QED BY <1>3, <1>4 DEF MaintenanceIsOver

LEMMA PauseEndsKeeps ==
    ASSUME QueueInv, PauseEnds
    PROVE  QueueInv'
<1>1. /\ awaits # "work" /\ LoopTop(timer)
      /\ UNCHANGED <<queue, batch, adds, troubles, edited>>
  BY DEF PauseEnds
<1>2. timer \in Timers
  BY InvParts
<1> QED BY <1>1, <1>2, LoopTopKeeps

\* What is picked of an array in which no source occurs twice.
LEMMA PickedLined ==
    ASSUME NEW jobs, Lined(jobs), NEW I, I \subseteq DOMAIN jobs
    PROVE  /\ Lined(Picked(jobs, I))
           /\ \A i \in I : \E n \in DOMAIN Picked(jobs, I) :
                              Picked(jobs, I)[n] = jobs[i]
<1> DEFINE p == Picked(jobs, I)
<1>1. /\ jobs \in Seq(Job) /\ Len(jobs) \in Nat /\ DOMAIN jobs = 1 .. Len(jobs)
      /\ \A i, j \in DOMAIN jobs : jobs[i].source = jobs[j].source => i = j
  BY LenProperties DEF Lined
<1>2. p \in Seq(Job) /\ Lists(p, jobs, I)
  BY <1>1, PickedElements
<1> HIDE DEF p
<1>3. PICK at \in [DOMAIN p -> I] :
         /\ \A n \in DOMAIN p : p[n] = jobs[at[n]]
         /\ \A i \in I : \E n \in DOMAIN p : at[n] = i
         /\ \A m, n \in DOMAIN p : m < n => at[m] < at[n]
  BY <1>2 DEF Lists
<1>4. ASSUME NEW m \in DOMAIN p, NEW n \in DOMAIN p, p[m].source = p[n].source
      PROVE  m = n
  <2>1. at[m] = at[n] /\ at[m] \in DOMAIN jobs
    BY <1>1, <1>3, <1>4
  <2>2. ~(at[m] < at[n]) /\ ~(at[n] < at[m])
    BY <1>1, <2>1
  <2>3. ~(m < n) /\ ~(n < m)
    BY <1>3, <2>2
  <2>4. m \in Nat /\ n \in Nat
    BY <1>2 DEF Lists
  <2> QED BY <2>3, <2>4
<1>5. Lined(p)
  BY <1>2, <1>4 DEF Lined
<1>6. \A i \in I : \E n \in DOMAIN p : p[n] = jobs[i]
  BY <1>3
<1> QED BY <1>5, <1>6 DEF p

LEMMA TakeBatchKeeps ==
    ASSUME QueueInv, NEW size \in BatchSizes, TakeBatch(size)
    PROVE  QueueInv'
<1> DEFINE mine  == {i \in DOMAIN queue : SameKind(queue[i], Head(queue))}
           taken == {i \in mine : Cardinality({j \in mine : j < i}) < size}
           left  == DOMAIN queue \ taken
<1>1. /\ awaits = "settings" /\ awaits' = "work"
      /\ batch' = Picked(queue, taken)
      /\ queue' = Picked(queue, left)
      /\ edited' = edited \ SourcesOf(batch')
      /\ UNCHANGED <<processing, timer, adds, troubles, stranded>>
  BY DEF TakeBatch
<1>2. /\ Lined(queue) /\ \A book \in edited : Forces(queue, book)
      /\ queue # <<>> /\ edited \subseteq Books
      /\ processing <=> awaits # "nothing"
  BY <1>1, InvParts
<1>3. 1 \in taken
  <2>1. queue \in Seq(Job) /\ Len(queue) \in Nat \ {0} /\ DOMAIN queue = 1 .. Len(queue)
    BY <1>2, LenProperties, EmptySeq DEF Lined
  <2>2. 1 \in DOMAIN queue /\ Head(queue) = queue[1]
    BY <2>1, HeadTailProperties
  <2>3. 1 \in mine
    BY <2>2 DEF SameKind
  <2>4. {j \in mine : j < 1} = {}
    BY <2>1
  <2>5. size \in Nat \ {0} /\ Cardinality({}) = 0
    BY QueueAssumption, FS_EmptySet
  <2> HIDE DEF mine
  <2> QED BY <2>3, <2>4, <2>5
<1>4. taken \subseteq DOMAIN queue /\ left \subseteq DOMAIN queue
  OBVIOUS
<1>5. \A i \in DOMAIN queue : i \in taken \/ i \in left
  OBVIOUS
<1> HIDE DEF taken, left
<1>6. /\ Lined(batch')
      /\ \A i \in taken : \E n \in DOMAIN batch' : batch'[n] = queue[i]
  BY <1>1, <1>2, <1>4, PickedLined
<1>7. /\ Lined(queue')
      /\ \A i \in left : \E n \in DOMAIN queue' : queue'[n] = queue[i]
  BY <1>1, <1>2, <1>4, PickedLined
<1>8. batch' \in Seq(Job) /\ batch' # <<>>
  BY <1>3, <1>6, EmptySeq DEF Lined
<1>9. ASSUME NEW book \in edited' PROVE Forces(queue', book)
  <2>1. PICK i \in DOMAIN queue : queue[i].source = book /\ queue[i].forced
    BY <1>1, <1>2, <1>9 DEF Forces
  <2>2. CASE i \in taken
    <3>1. book \in SourcesOf(batch')
      BY <1>6, <2>1, <2>2 DEF SourcesOf
    <3> QED BY <1>1, <1>9, <3>1
  <2>3. CASE i \in left
    <3>1. PICK n \in DOMAIN queue' : queue'[n] = queue[i]
      BY <1>7, <2>3
    <3> QED BY <2>1, <3>1 DEF Forces
  <2> QED BY <1>5, <2>2, <2>3
<1>10. processing' <=> awaits' # "nothing"
  BY <1>1, <1>2
<1>11. awaits' \in Awaited
  BY <1>1 DEF Awaited
<1> QED BY <1>1, <1>2, <1>7, <1>8, <1>9, <1>10, <1>11, InvParts, InvPartsNext

\* A batch ends and some of it comes back.
LEMMA RequeueKeeps ==
    ASSUME QueueInv, awaits = "work", NEW retries \in Seq(Job), Requeue(retries),
           troubles' \in 0 .. MaxTroubles, UNCHANGED <<processing, adds, edited>>
    PROVE  QueueInv'
<1>1. /\ queue' = Requeued(queue, retries) /\ batch' = <<>> /\ awaits' = "pause"
      /\ \/ UNCHANGED <<timer, stranded>>
         \/ ScheduleProcessing(queue')
  BY DEF Requeue
<1>2. /\ Lined(queue) /\ \A book \in edited : Forces(queue, book)
      /\ processing <=> awaits # "nothing"
      /\ timer \in Timers /\ stranded \in BOOLEAN
      /\ adds \in 0 .. MaxAdds /\ edited \subseteq Books
  BY InvParts
<1>3. /\ Lined(queue')
      /\ \A s : Forces(queue, s) => Forces(queue', s)
  BY <1>1, <1>2, RequeuedFacts
<1>4. \A book \in edited' : Forces(queue', book)
  BY <1>2, <1>3
<1>5. timer' \in Timers /\ stranded' \in BOOLEAN
  <2>1. CASE UNCHANGED <<timer, stranded>>
    BY <1>2, <2>1
  <2>2. CASE ScheduleProcessing(queue')
    BY <2>2, Schedules
  <2> QED BY <1>1, <2>1, <2>2
<1>6. processing' <=> awaits' # "nothing"
  BY <1>1, <1>2
<1>7. batch' \in Seq(Job) /\ (batch' # <<>> <=> awaits' = "work") /\ awaits' \in Awaited
  BY <1>1, EmptySeq DEF Awaited
<1> QED BY <1>1, <1>2, <1>3, <1>4, <1>5, <1>6, <1>7, InvPartsNext

LEMMA ChunksEndKeeps ==
    ASSUME QueueInv, ChunksEnd
    PROVE  QueueInv'
<1>1. batch \in Seq(Job) /\ troubles \in 0 .. MaxTroubles
  BY InvParts
<1>2. ASSUME NEW failed \in SUBSET Chunks, ChunksDone(failed) PROVE QueueInv'
  <2>1. /\ awaits = "work" /\ Requeue(Retries(failed))
        /\ UNCHANGED <<processing, adds, troubles, edited>>
    BY <1>2 DEF ChunksDone, ChunkWork
  <2>2. Retries(failed) \in Seq(Job)
    BY <1>1, RetriesAreJobs
  <2> QED BY <1>1, <2>1, <2>2, RequeueKeeps
<1>3. ASSUME ChunksPreempted PROVE QueueInv'
  <2>1. /\ awaits = "work" /\ Requeue(batch) /\ UNCHANGED <<processing, adds, edited>>
        /\ troubles < MaxTroubles /\ troubles' = troubles + 1
    BY <1>3 DEF ChunksPreempted, ChunkWork
  <2>2. troubles' \in 0 .. MaxTroubles
    BY <1>1, <2>1, QueueAssumption
  <2> QED BY <1>1, <2>1, <2>2, RequeueKeeps
<1> QED BY <1>2, <1>3 DEF ChunksEnd

LEMMA BooksEndKeeps ==
    ASSUME QueueInv, BooksEnd
    PROVE  QueueInv'
<1>1. /\ Lined(queue) /\ \A book \in edited : Forces(queue, book)
      /\ timer \in Timers /\ stranded \in BOOLEAN
      /\ adds \in 0 .. MaxAdds /\ troubles \in 0 .. MaxTroubles
      /\ edited \subseteq Books
  BY InvParts
<1>2. <<>> \in Seq(Job)
  BY EmptySeq
<1>3. ASSUME BooksDone PROVE QueueInv'
  <2>1. /\ awaits = "work" /\ Requeue(<<>>)
        /\ UNCHANGED <<processing, adds, troubles, edited>>
    BY <1>3 DEF BooksDone, BookWork
  <2> QED BY <1>1, <1>2, <2>1, RequeueKeeps
<1>4. ASSUME BooksThrow PROVE QueueInv'
  <2>1. /\ batch' = <<>> /\ processing' = FALSE /\ awaits' = "nothing"
        /\ stranded' = (timer = "none")
        /\ troubles < MaxTroubles /\ troubles' = troubles + 1
        /\ UNCHANGED <<queue, timer, adds, edited>>
    BY <1>4 DEF BooksThrow
  <2>2. troubles' \in 0 .. MaxTroubles
    BY <1>1, <2>1, QueueAssumption
  <2>3. stranded' \in BOOLEAN
    BY <2>1
  <2>4. processing' <=> awaits' # "nothing"
    BY <2>1
  <2>5. awaits' \in Awaited /\ awaits' # "work" /\ awaits' # "settings"
    BY <2>1 DEF Awaited
  <2> QED BY <1>1, <1>2, <2>1, <2>2, <2>3, <2>4, <2>5, InvPartsNext
<1> QED BY <1>3, <1>4 DEF BooksEnd

LEMMA TickKeeps ==
    ASSUME QueueInv, Tick
    PROVE  QueueInv'
<1> DEFINE older(job) == [job EXCEPT !.age = Min({MaxWait, @ + 1})]
<1>1. /\ queue' = [i \in DOMAIN queue |-> IF IsBook(queue[i]) THEN older(queue[i])
                                                             ELSE queue[i]]
      /\ UNCHANGED <<processing, awaits, batch, timer, adds, troubles, stranded,
                     edited>>
      /\ DOMAIN queue # {}
  BY DEF Tick
<1>2. /\ Lined(queue) /\ \A book \in edited : Forces(queue, book)
      /\ processing <=> awaits # "nothing"
  BY InvParts
<1>3. /\ queue \in Seq(Job) /\ Len(queue) \in Nat /\ DOMAIN queue = 1 .. Len(queue)
      /\ \A i \in DOMAIN queue : queue[i] \in Job
  BY <1>2, LenProperties, ElementOfSeq DEF Lined
<1>4. \A job \in Job : /\ older(job) \in Job /\ older(job).source = job.source
                       /\ older(job).forced = job.forced
  <2> TAKE job \in Job
  <2>1. job.age \in 0 .. MaxWait /\ MaxWait \in Nat
    BY JobNumbers DEF Job
  <2>2. Min({MaxWait, job.age + 1}) \in 0 .. MaxWait
    <3>1. job.age + 1 \in Nat
      BY <2>1
    <3>2. /\ Min({MaxWait, job.age + 1}) \in {MaxWait, job.age + 1}
          /\ Min({MaxWait, job.age + 1}) <= MaxWait
      BY <2>1, <3>1, PairFacts
    <3> QED BY <2>1, <3>1, <3>2
  <2> QED BY <2>2 DEF Job
<1> HIDE DEF older
<1>5. \A i \in DOMAIN queue : /\ queue'[i] \in Job
                              /\ queue'[i].source = queue[i].source
                              /\ queue'[i].forced = queue[i].forced
  BY <1>1, <1>3, <1>4
<1>6. queue' \in [1 .. Len(queue) -> Job] /\ DOMAIN queue' = DOMAIN queue
  BY <1>1, <1>3, <1>5
<1>7. queue' \in Seq(Job) /\ queue' # <<>>
  BY <1>1, <1>3, <1>6, EmptySeq
<1>8. Lined(queue')
  BY <1>2, <1>5, <1>6, <1>7 DEF Lined
<1>9. \A book \in edited' : Forces(queue', book)
  BY <1>1, <1>2, <1>5, <1>6 DEF Forces
<1>10. processing' <=> awaits' # "nothing"
  BY <1>1, <1>2
<1> QED BY <1>1, <1>7, <1>8, <1>9, <1>10, InvParts, InvPartsNext

-----------------------------------------------------------------------------
(* The theorems *)

\* Every step keeps the invariant: one case per action.
LEMMA NextKeeps ==
    ASSUME QueueInv, [Next]_vars
    PROVE  QueueInv'
<1>1. CASE UNCHANGED vars
  <2>1. UNCHANGED <<queue, processing, awaits, batch, timer, adds, troubles, stranded,
                    edited>>
    BY <1>1 DEF vars
  <2>2. processing <=> awaits # "nothing"
    BY InvParts
  <2>3. processing' <=> awaits' # "nothing"
    BY <2>1, <2>2
  <2> QED BY <2>1, <2>3, InvParts, InvPartsNext
<1>2. ASSUME NEW source \in Sources, NEW priority \in Priorities,
             NEW forced \in BOOLEAN, Add(source, priority, forced)
      PROVE  QueueInv'
  BY <1>2, AddKeeps
<1>3. CASE TimerFires
  BY <1>3, TimerFiresKeeps
<1>4. CASE LoopGoesOn
  <2>1. CASE MaintenanceIsOver
    BY <2>1, MaintenanceIsOverKeeps
  <2>2. ASSUME NEW size \in BatchSizes, TakeBatch(size) PROVE QueueInv'
    BY <2>2, TakeBatchKeeps
  <2>3. CASE ChunksEnd
    BY <2>3, ChunksEndKeeps
  <2>4. CASE BooksEnd
    BY <2>4, BooksEndKeeps
  <2>5. CASE PauseEnds
    BY <2>5, PauseEndsKeeps
  <2> QED BY <1>4, <2>1, <2>2, <2>3, <2>4, <2>5 DEF LoopGoesOn
<1>5. CASE Tick
  BY <1>5, TickKeeps
<1> QED BY <1>1, <1>2, <1>3, <1>4, <1>5 DEF Next

LEMMA Invariance == Spec => []QueueInv
<1>1. Init => QueueInv
  BY InitHolds
<1>2. QueueInv /\ [Next]_vars => QueueInv'
  BY NextKeeps
<1> QED BY <1>1, <1>2, PTL DEF Spec

\* Types; a source is queued once, however jobs are merged, sorted, taken and
\* put back, and there is a batch exactly while the loop works on it.
THEOREM TypeCorrect == Spec => []TypeOK
<1>1. QueueInv => TypeOK
  BY DEF QueueInv
<1> QED BY <1>1, Invariance, PTL

\* An edit is never taken for a sweep: the job of an entry edited since a batch
\* last took it forces a reindex, whatever was merged with it (add,
\* mergeVectorizationJobs, takeBatch and the retries).
THEOREM EditsForce == Spec => []EditsStayForced
<1>1. QueueInv => EditsStayForced
  BY DEF QueueInv
<1> QED BY <1>1, Invariance, PTL
=============================================================================
