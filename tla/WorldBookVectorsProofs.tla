----------------------- MODULE WorldBookVectorsProofs -----------------------
(***************************************************************************)
(* Theorems about WorldBookVectors, for any entries, any number of reindex *)
(* requests, drops and deletions at the same time, and any bound on the    *)
(* updates and the failures.                                               *)
(***************************************************************************)
EXTENDS WorldBookVectors, SequenceLemmas

-----------------------------------------------------------------------------
(* The inductive invariant                                                 *)

\* p stands before x in the queue q of a lock.
Ahead(q, p, x) == \E i, j \in DOMAIN q : i < j /\ q[i] = p /\ q[j] = x

\* The operation has checked its entries, or erased one, under its locks.
Inside(o) == \/ op[o].goal \in {"commit", "mark"} /\ op[o].step # "check"
             \/ op[o].goal = "delete" /\ op[o].step = "remove"

\* An operation takes the locks of the entries it deals with, stands in no
\* other queue, and holds all of them once it is past its check.
Disciplined(o) ==
    /\ op[o].stable \subseteq op[o].need
    /\ op[o].step = "check" => op[o].stable = {}
    /\ op[o].goal \in {"none", "reindex"} => op[o].need = {}
    /\ op[o].goal \in {"commit", "mark", "delete"} => op[o].need = Batch(o)
    /\ op[o].goal = "clear" => op[o].need \subseteq Batch(o)
    /\ op[o].goal \notin {"none", "drop"} => Batch(o) # {}
    /\ \A e \in Entries : o \in ToSet(locks[e]) => e \in op[o].need
    /\ Inside(o) => \A e \in op[o].need : Held(o, e)

\* What an operation has read is a row as it was at that time, and only
\* entries that were on are committed.
Remembers(o) ==
    \A e \in Batch(o) :
        /\ op[o].seen[e].stamp \in 1..stamp
        /\ op[o].goal = "commit" => op[o].seen[e].on

\* What a commit that is past its check has found unchanged is indexed by
\* nobody else, and the vectors it has written are still there; those a
\* deletion has erased are still gone.
Guarded(o) ==
    /\ \A e \in op[o].stable :
          /\ op[o].goal = "commit" /\ On(e) /\ entry[e].status = "indexed" =>
                entry[e].row.content = op[o].seen[e].content
          /\ op[o].goal = "commit" /\ op[o].step = "mark" =>
                vectors[e] = op[o].seen[e].content
    /\ op[o].goal = "delete" /\ op[o].step = "remove" =>
          \A e \in op[o].need : vectors[e] = 0

\* An entry with a drop to come is not marked indexed: whoever gets its lock
\* earlier has read it before it was turned off.
DropsFirst(o) ==
    op[o].goal = "drop" =>
        \A e \in op[o].need :
            /\ entry[e].status # "indexed"
            /\ o \in ToSet(locks[e])
            /\ \A p \in Ops : Ahead(locks[e], p, o) /\ e \in Batch(p) =>
                  entry[e].row.stamp # op[p].seen[e].stamp

Sound(o) == Disciplined(o) /\ Remembers(o) /\ Guarded(o) /\ DropsFirst(o)

\* The operation is about to put the vectors of e right, or to give up.
Answers(o, e) ==
    \/ /\ op[o].goal = "commit" /\ op[o].step \in {"write", "mark", "scrub"}
       /\ e \in op[o].stable
    \/ op[o].goal \in {"mark", "drop", "delete"} /\ e \in op[o].need

Accounted ==
    \A e \in Bare \cup Haunted :
        e \in lost \/ \E o \in Ops : Answers(o, e)

VectorsInv ==
    /\ TypeOK
    /\ \A e \in Entries : entry[e].row.stamp <= stamp
    /\ \A o \in Ops : Sound(o)
    /\ NeverFoundByOldText
    /\ Accounted

-----------------------------------------------------------------------------
(* The queues of the locks                                                 *)

\* Who is first in a queue has nobody ahead of him.
LEMMA HeadIsFirst ==
    ASSUME NEW S, NEW q \in Seq(S), IsInjective(q), NEW p \in ToSet(q)
    PROVE  (q # <<>> /\ Head(q) = p) <=> \A x \in S : ~Ahead(q, x, p)
<1>1. /\ Len(q) \in Nat /\ DOMAIN q = 1..Len(q)
      /\ \A k \in DOMAIN q : q[k] \in S
  BY LenProperties, ElementOfSeq
<1>2. PICK k \in DOMAIN q : q[k] = p
  BY DEF ToSet
<1>3. q # <<>> /\ Head(q) = q[1] /\ 1 \in DOMAIN q /\ q[1] \in S
  <2>1. Len(q) # 0
    BY <1>1, <1>2
  <2>2. q # <<>>
    BY <2>1, EmptySeq
  <2> QED BY <1>1, <2>1, <2>2, HeadTailProperties
<1>4. ASSUME Head(q) = p, NEW x \in S, Ahead(q, x, p) PROVE FALSE
  <2>1. PICK i, j \in DOMAIN q : i < j /\ q[i] = x /\ q[j] = p
    BY <1>4 DEF Ahead
  <2>2. j = 1
    BY <1>3, <1>4, <2>1 DEF IsInjective
  <2> QED BY <1>1, <2>1, <2>2
<1>5. ASSUME Head(q) # p PROVE Ahead(q, q[1], p)
  <2>1. k # 1 /\ 1 < k
    BY <1>1, <1>2, <1>3, <1>5
  <2> QED BY <1>2, <1>3, <2>1 DEF Ahead
<1> QED BY <1>3, <1>4, <1>5

\* Everybody but o is where he was in the queues, with nobody new ahead.
Keeps(queues, o) ==
    /\ queues \in [Entries -> Seq(Ops)]
    /\ \A e \in Entries : IsInjective(queues[e])
    /\ \A e \in Entries : \A p \in Ops \ {o} :
          /\ p \in ToSet(queues[e]) <=> p \in ToSet(locks[e])
          /\ \A x \in Ops : Ahead(queues[e], x, p) => Ahead(locks[e], x, p)

\* Somebody is ahead in a queue only if he stands in it.
LEMMA AheadStands ==
    ASSUME NEW q, NEW p, NEW x, Ahead(q, p, x)
    PROVE  p \in ToSet(q) /\ x \in ToSet(q)
  BY DEF Ahead, ToSet

\* An operation that leaves its locks disturbs nobody.
LEMMA FreedKeeps ==
    ASSUME TypeOK, NEW o \in Ops
    PROVE  Keeps(Freed(o), o) /\ \A e \in Entries : o \notin ToSet(Freed(o)[e])
<1>1. \A e \in Entries : locks[e] \in Seq(Ops) /\ IsInjective(locks[e])
  BY DEF TypeOK
<1>2. \A e \in Entries : Freed(o)[e] = Without(locks[e], {o})
  BY DEF Freed
<1>3. ASSUME NEW e \in Entries
      PROVE  /\ Freed(o)[e] \in Seq(Ops)
             /\ IsInjective(Freed(o)[e])
             /\ ToSet(Freed(o)[e]) = ToSet(locks[e]) \ {o}
             /\ \A m, n \in DOMAIN Freed(o)[e] : m < n =>
                   \E i, j \in DOMAIN locks[e] :
                      i < j /\ Freed(o)[e][m] = locks[e][i]
                            /\ Freed(o)[e][n] = locks[e][j]
  BY <1>1, <1>2, WithoutElements
<1>4. Freed(o) \in [Entries -> Seq(Ops)]
  BY <1>3 DEF Freed
<1>5. \A e \in Entries : \A p, x \in Ops :
         Ahead(Freed(o)[e], x, p) => Ahead(locks[e], x, p)
  BY <1>3 DEF Ahead
<1> QED BY <1>3, <1>4, <1>5 DEF Keeps

\* An operation that asks for a lock comes last.
LEMMA AskedKeeps ==
    ASSUME NEW queues, NEW o \in Ops, Keeps(queues, o),
           NEW e \in Entries, o \notin ToSet(queues[e])
    PROVE  /\ Keeps(Asked(queues, o, e), o)
           /\ ToSet(Asked(queues, o, e)[e]) = ToSet(queues[e]) \cup {o}
           /\ \A f \in Entries \ {e} : Asked(queues, o, e)[f] = queues[f]
           /\ \A f \in Entries : \A p \in Ops \ {o} :
                 Ahead(Asked(queues, o, e)[f], o, p) => Ahead(queues[f], o, p)
<1> DEFINE q == queues[e]
           later == Asked(queues, o, e)
<1>1. queues \in [Entries -> Seq(Ops)] /\ q \in Seq(Ops) /\ IsInjective(q)
  BY DEF Keeps
<1>2. /\ later[e] = Append(q, o)
      /\ \A f \in Entries \ {e} : later[f] = queues[f]
      /\ later = [queues EXCEPT ![e] = Append(@, o)]
  BY <1>1 DEF Asked
<1>3. /\ Append(q, o) \in Seq(Ops) /\ IsInjective(Append(q, o))
      /\ ToSet(Append(q, o)) = ToSet(q) \cup {o}
      /\ DOMAIN Append(q, o) = 1..(Len(q) + 1)
      /\ \A k \in 1..Len(q) : Append(q, o)[k] = q[k]
      /\ Append(q, o)[Len(q) + 1] = o
  BY <1>1, AppendNew
<1>4. Len(q) \in Nat /\ DOMAIN q = 1..Len(q)
  BY <1>1, LenProperties
<1>5. ASSUME NEW p \in Ops \ {o}, NEW x \in Ops, Ahead(Append(q, o), x, p)
      PROVE  Ahead(q, x, p)
  <2>1. PICK i, j \in DOMAIN Append(q, o) :
           i < j /\ Append(q, o)[i] = x /\ Append(q, o)[j] = p
    BY <1>5 DEF Ahead
  <2>2. j # Len(q) + 1
    BY <1>3, <2>1
  <2>3. i \in 1..Len(q) /\ j \in 1..Len(q)
    BY <1>3, <1>4, <2>1, <2>2
  <2>4. i < j /\ q[i] = x /\ q[j] = p
    BY <1>3, <2>1, <2>3
  <2> QED BY <1>4, <2>3, <2>4 DEF Ahead
<1>6. later \in [Entries -> Seq(Ops)]
  BY <1>1, <1>2, <1>3
<1> HIDE DEF later
<1>7. \A f \in Entries : \A p \in Ops \ {o}, x \in Ops :
         Ahead(later[f], x, p) => Ahead(queues[f], x, p)
  BY <1>2, <1>5
<1>8. \A f \in Entries : IsInjective(later[f])
  BY <1>2, <1>3 DEF Keeps
<1>9. \A f \in Entries : \A p \in Ops \ {o} :
         p \in ToSet(later[f]) <=> p \in ToSet(queues[f])
  BY <1>2, <1>3
<1>10. Keeps(later, o)
  BY <1>6, <1>7, <1>8, <1>9 DEF Keeps
<1> QED BY <1>2, <1>3, <1>7, <1>10 DEF later

\* Who holds a lock stands in its queue.
LEMMA HeldStands ==
    ASSUME TypeOK, NEW p \in Ops, NEW e \in Entries, Held(p, e)
    PROVE  p \in ToSet(locks[e])
<1>1. locks[e] \in Seq(Ops) /\ locks[e] # <<>> /\ Head(locks[e]) = p
  BY DEF TypeOK, Held
<1>2. Len(locks[e]) # 0 /\ Len(locks[e]) \in Nat
      /\ DOMAIN locks[e] = 1..Len(locks[e])
  BY <1>1, EmptySeq, LenProperties
<1>3. Head(locks[e]) = locks[e][1] /\ 1 \in DOMAIN locks[e]
  BY <1>1, <1>2, HeadTailProperties
<1> QED BY <1>1, <1>3 DEF ToSet

\* Who holds a lock holds it until he leaves it.
LEMMA HeldKept ==
    ASSUME TypeOK, NEW o \in Ops, Keeps(locks', o),
           NEW p \in Ops \ {o}, NEW e \in Entries, Held(p, e)
    PROVE  Held(p, e)'
<1>1. /\ locks[e] \in Seq(Ops) /\ IsInjective(locks[e])
      /\ locks'[e] \in Seq(Ops) /\ IsInjective(locks'[e])
  BY DEF TypeOK, Keeps
<1>2. p \in ToSet(locks[e])
  BY HeldStands
<1>3. \A x \in Ops : ~Ahead(locks[e], x, p)
  BY <1>1, <1>2, HeadIsFirst DEF Held
<1>4. p \in ToSet(locks'[e]) /\ \A x \in Ops : ~Ahead(locks'[e], x, p)
  BY <1>2, <1>3 DEF Keeps
<1>5. locks'[e] # <<>> /\ Head(locks'[e]) = p
  BY <1>1, <1>4, HeadIsFirst
<1> QED BY <1>5 DEF Held

\* o ends where nobody is behind him, but for whom he has read nothing new.
LEMMA EndsLocks ==
    ASSUME TypeOK, NEW o \in Ops, locks' = Freed(o)
    PROVE  /\ Keeps(locks', o)
           /\ \A e \in Entries : o \notin ToSet(locks'[e])
  BY FreedKeeps

\* o goes on to the locks of need, where he comes last.
LEMMA GoesOnLocks ==
    ASSUME TypeOK, NEW o \in Ops, NEW goal, NEW step, NEW seen,
           NEW need \in SUBSET Entries, need # {},
           GoesOn(o, goal, step, need, seen)
    PROVE  /\ Keeps(locks', o)
           /\ \A e \in Entries : o \in ToSet(locks'[e]) => e \in need
           /\ \E e \in need : o \in ToSet(locks'[e])
           /\ \A e \in Entries : \A p \in Ops \ {o} : ~Ahead(locks'[e], o, p)
<1>1. need \in SUBSET Nat
  BY WorldBookAssumption DEF WorldBookAssumption
<1>2. Min(need) \in need
  BY <1>1, MinOfNaturals
<1> DEFINE e0 == Min(need)
           q == Freed(o)
<1>3. /\ e0 \in Entries
      /\ Keeps(q, o) /\ \A e \in Entries : o \notin ToSet(q[e])
  BY <1>2, FreedKeeps
<1>4. locks' = Asked(q, o, e0)
  BY DEF GoesOn
<1>5. e0 \in need
  BY <1>2
<1> HIDE DEF e0, q
<1>6. /\ Keeps(locks', o)
      /\ ToSet(locks'[e0]) = ToSet(q[e0]) \cup {o}
      /\ \A f \in Entries \ {e0} : locks'[f] = q[f]
      /\ \A f \in Entries : \A p \in Ops \ {o} :
            Ahead(locks'[f], o, p) => Ahead(q[f], o, p)
  <2>1. o \notin ToSet(q[e0])
    BY <1>3
  <2>2. /\ Keeps(Asked(q, o, e0), o)
        /\ ToSet(Asked(q, o, e0)[e0]) = ToSet(q[e0]) \cup {o}
        /\ \A f \in Entries \ {e0} : Asked(q, o, e0)[f] = q[f]
    BY <1>3, <2>1, AskedKeeps
  <2>3. \A f \in Entries : \A p \in Ops \ {o} :
            Ahead(Asked(q, o, e0)[f], o, p) => Ahead(q[f], o, p)
    BY <1>3, <2>1, AskedKeeps
  <2> QED BY <1>4, <2>2, <2>3
<1>7. \A f \in Entries : \A p \in Ops : ~Ahead(q[f], o, p)
  BY <1>3, AheadStands
<1>8. \A e \in Entries : o \in ToSet(locks'[e]) => e = e0
  BY <1>3, <1>6
<1>9. \A e \in Entries : \A p \in Ops \ {o} : ~Ahead(locks'[e], o, p)
  BY <1>6, <1>7
<1>10. o \in ToSet(locks'[e0])
  BY <1>6
<1> QED BY <1>6, <1>5, <1>8, <1>9, <1>10

\* o asks for one more of the locks it needs.
LEMMA LockNextLocks ==
    ASSUME TypeOK, NEW o \in Ops, LockNext(o)
    PROVE  /\ Keeps(locks', o)
           /\ \A e \in Entries : o \in ToSet(locks'[e]) =>
                 o \in ToSet(locks[e]) \/ e \in op[o].need
           /\ \A e \in Entries : o \in ToSet(locks[e]) => o \in ToSet(locks'[e])
<1>1. /\ Missing(o) # {} /\ Missing(o) \subseteq op[o].need
      /\ op[o].need \subseteq Entries
  BY DEF LockNext, Missing, TypeOK, Operations
<1>2. Missing(o) \in SUBSET Nat
  BY <1>1, WorldBookAssumption DEF WorldBookAssumption
<1> DEFINE e0 == Min(Missing(o))
<1>3. e0 \in Missing(o)
  BY <1>1, <1>2, MinOfNaturals
<1>4. locks' = Asked(locks, o, e0)
  BY DEF LockNext
<1> HIDE DEF e0
<1>5. e0 \in Entries /\ e0 \in op[o].need /\ o \notin ToSet(locks[e0])
  BY <1>1, <1>3 DEF Missing
<1>6. Keeps(locks, o)
  BY DEF TypeOK, Keeps
<1>7. /\ Keeps(locks', o)
      /\ ToSet(locks'[e0]) = ToSet(locks[e0]) \cup {o}
      /\ \A f \in Entries \ {e0} : locks'[f] = locks[f]
  BY <1>4, <1>5, <1>6, AskedKeeps
<1> QED BY <1>5, <1>7

-----------------------------------------------------------------------------
(* What the others do leaves an operation sound                            *)

\* An entry p does not hold may be written by others; one that p holds is at
\* most updated, and what is updated is not indexed with a new text.
LEMMA Undisturbed ==
    ASSUME TypeOK, TypeOK', NEW p \in Ops, Sound(p), \A x \in Ops : Sound(x),
           op'[p] = op[p], stamp <= stamp',
           \A e \in Entries : Held(p, e) =>
              Held(p, e)' /\ vectors'[e] = vectors[e],
           \A e \in Entries : p \in ToSet(locks'[e]) <=> p \in ToSet(locks[e]),
           \A e \in Entries, x \in Ops : Ahead(locks'[e], x, p) =>
              Ahead(locks[e], x, p) /\ op'[x].seen = op[x].seen,
           \A e \in Entries : entry'[e].row.stamp \in {entry[e].row.stamp, 0}
                                 \/ entry'[e].row.stamp > stamp,
           \A e \in Entries : entry'[e].status = "indexed" =>
              \/ /\ entry[e].status = "indexed"
                 /\ On(e)' => /\ On(e)
                              /\ entry'[e].row.content = entry[e].row.content
              \/ ~Held(p, e) /\ ~(op[p].goal = "drop" /\ e \in op[p].need)
    PROVE  Sound(p)'
<1>1. /\ DOMAIN op[p].seen \subseteq Entries /\ op[p].need \subseteq Entries
      /\ op[p].stable \subseteq Entries
      /\ stamp \in Nat /\ stamp' \in Nat
  <2>1. op[p] \in Operations
    BY DEF TypeOK
  <2>2. stamp \in Stamps /\ stamp' \in Stamps
    BY DEF TypeOK, Stamps
  <2>3. MaxStamp \in Nat
    BY WorldBookAssumption DEF WorldBookAssumption
  <2> QED BY <2>1, <2>2, <2>3 DEF Operations, Readings, Stamps
<1>2. Disciplined(p)'
  <2>1. Inside(p)' <=> Inside(p)
    BY DEF Inside
  <2>2. Inside(p) => \A e \in op[p].need : Held(p, e)'
    BY <1>1 DEF Sound, Disciplined
  <2>3. \A e \in Entries : p \in ToSet(locks'[e]) => e \in op[p].need
    BY DEF Sound, Disciplined
  <2> QED BY <2>1, <2>2, <2>3 DEF Sound, Disciplined, Batch
<1>3. Remembers(p)'
  <2>1. \A e \in Batch(p) : op[p].seen[e].stamp \in 1..stamp'
    BY <1>1 DEF Sound, Remembers, Batch
  <2> QED BY <2>1 DEF Sound, Remembers, Batch
<1>4. Guarded(p)'
  <2>1. ASSUME NEW e \in op[p].stable, op[p].goal = "commit"
        PROVE  e \in Entries /\ Held(p, e)
    BY <1>1, <2>1 DEF Sound, Disciplined, Inside
  <2>2. ASSUME NEW e \in op[p].stable, op[p].goal = "commit", On(e)',
               entry'[e].status = "indexed"
        PROVE  entry'[e].row.content = op[p].seen[e].content
    BY <2>1, <2>2 DEF Sound, Guarded
  <2>3. ASSUME NEW e \in op[p].stable, op[p].goal = "commit", op[p].step = "mark"
        PROVE  vectors'[e] = op[p].seen[e].content
    BY <2>1, <2>3 DEF Sound, Guarded
  <2>4. ASSUME NEW e \in op[p].need, op[p].goal = "delete", op[p].step = "remove"
        PROVE  vectors'[e] = 0
    <3>1. e \in Entries /\ Held(p, e)
      BY <1>1, <2>4 DEF Sound, Disciplined, Inside
    <3> QED BY <2>4, <3>1 DEF Sound, Guarded
  <2> QED BY <2>2, <2>3, <2>4 DEF Guarded
<1>5. DropsFirst(p)'
  <2> SUFFICES ASSUME op[p].goal = "drop", NEW e \in op[p].need
               PROVE  /\ entry'[e].status # "indexed"
                      /\ p \in ToSet(locks'[e])
                      /\ \A x \in Ops :
                            Ahead(locks'[e], x, p) /\ e \in DOMAIN op'[x].seen =>
                               entry'[e].row.stamp # op'[x].seen[e].stamp
    BY DEF DropsFirst, Batch
  <2>1. /\ e \in Entries
        /\ entry[e].status # "indexed" /\ p \in ToSet(locks[e])
        /\ \A x \in Ops : Ahead(locks[e], x, p) /\ e \in DOMAIN op[x].seen =>
              entry[e].row.stamp # op[x].seen[e].stamp
    BY <1>1 DEF Sound, DropsFirst, Batch
  <2>2. ASSUME NEW x \in Ops, Ahead(locks'[e], x, p), e \in DOMAIN op'[x].seen
        PROVE  entry'[e].row.stamp # op'[x].seen[e].stamp
    <3>1. op'[x].seen = op[x].seen
          /\ entry[e].row.stamp # op[x].seen[e].stamp
      BY <2>1, <2>2
    <3>2. op[x].seen[e].stamp \in 1..stamp
      BY <2>1, <2>2, <3>1 DEF Sound, Remembers, Batch
    <3>3. \/ entry'[e].row.stamp \in {entry[e].row.stamp, 0}
          \/ entry'[e].row.stamp > stamp
      BY <2>1
    <3> QED BY <1>1, <3>1, <3>2, <3>3
  <2> QED BY <2>1, <2>2
<1> QED BY <1>2, <1>3, <1>4, <1>5 DEF Sound

-----------------------------------------------------------------------------
(* Steps of an operation                                                   *)

\* A step of o changes nobody else's place or progress, and nobody finds that
\* o, still ahead of him, has read the rows anew.
Moves(o) ==
    /\ op' \in [Ops -> Operations]
    /\ Keeps(locks', o)
    /\ \A p \in Ops \ {o} : op'[p] = op[p]
    /\ \A e \in Entries : \A p \in Ops \ {o} :
          Ahead(locks'[e], o, p) => op'[o].seen = op[o].seen

\* What a step of o may do: nobody else's place or progress changes; vectors
\* and rows change under the lock of their entry, but for a row that is
\* deleted; an entry is marked indexed with the text that was read and the
\* vectors of it; and what is wrong with an entry stays somebody's business.
Acts(o) ==
    /\ Moves(o)
    /\ stamp' = stamp
    /\ \A e \in Entries :
          \/ vectors'[e] = vectors[e]
          \/ /\ Held(o, e)
             /\ On(e)' /\ entry'[e].status = "indexed" =>
                   vectors'[e] \in {0, entry'[e].row.content}
    /\ \A e \in Entries :
          \/ entry'[e] = entry[e]
          \/ /\ Held(o, e)
             /\ entry'[e].row = entry[e].row
             /\ entry'[e].status = "indexed" =>
                   /\ e \in Batch(o) /\ Unchanged(o, e)
                   /\ vectors'[e] = entry[e].row.content
          \/ /\ entry'[e].row.stamp = 0
             /\ entry'[e].status = entry[e].status
    /\ \A e \in Bare' \cup Haunted' :
          /\ e \in lost => e \in lost'
          /\ entry'[e] # entry[e] \/ vectors'[e] # vectors[e] \/ Answers(o, e) =>
                e \in lost' \/ Answers(o, e)'

\* The other operations stay sound.
LEMMA ActsSpareOthers ==
    ASSUME VectorsInv, TypeOK', NEW o \in Ops, Acts(o), NEW p \in Ops \ {o}
    PROVE  Sound(p)'
<1>1. TypeOK /\ (\A x \in Ops : Sound(x)) /\ Sound(p) /\ op'[p] = op[p]
  BY DEF VectorsInv, Acts, Moves
<1>2. stamp \in Nat /\ stamp' = stamp
  BY WorldBookAssumption DEF VectorsInv, TypeOK, Stamps, Acts, WorldBookAssumption
<1>3. ASSUME NEW e \in Entries, Held(p, e)
      PROVE  ~Held(o, e) /\ Held(p, e)' /\ vectors'[e] = vectors[e]
  <2>1. ~Held(o, e)
    BY <1>3 DEF Held
  <2>2. Keeps(locks', o)
    BY DEF Acts, Moves
  <2>3. Held(p, e)'
    BY <1>1, <1>3, <2>2, HeldKept
  <2> QED BY <2>1, <2>3 DEF Acts
<1>4. \A e \in Entries : p \in ToSet(locks'[e]) <=> p \in ToSet(locks[e])
  BY DEF Acts, Moves, Keeps
<1>5. \A e \in Entries, x \in Ops : Ahead(locks'[e], x, p) =>
         Ahead(locks[e], x, p) /\ op'[x].seen = op[x].seen
  BY DEF Acts, Moves, Keeps
<1>6. \A e \in Entries : entry'[e].row.stamp \in {entry[e].row.stamp, 0}
                            \/ entry'[e].row.stamp > stamp
  BY DEF Acts
<1>7. ASSUME NEW e \in Entries, entry'[e].status = "indexed"
      PROVE  \/ /\ entry[e].status = "indexed"
                /\ On(e)' => /\ On(e)
                             /\ entry'[e].row.content = entry[e].row.content
             \/ ~Held(p, e) /\ ~(op[p].goal = "drop" /\ e \in op[p].need)
  <2>1. CASE entry'[e] = entry[e]
    BY <1>7, <2>1 DEF On, Exists
  <2>2. CASE entry'[e].row.stamp = 0 /\ entry'[e].status = entry[e].status
    BY <1>7, <2>2 DEF On, Exists
  <2>3. CASE /\ Held(o, e)
             /\ e \in Batch(o) /\ Unchanged(o, e)
    <3>1. ~Held(p, e)
      BY <2>3 DEF Held
    <3>2. ASSUME op[p].goal = "drop", e \in op[p].need PROVE FALSE
      <4>1. /\ p \in ToSet(locks[e])
            /\ Ahead(locks[e], o, p) => entry[e].row.stamp # op[o].seen[e].stamp
        BY <1>1, <2>3, <3>2 DEF Sound, DropsFirst
      <4>2. locks[e] \in Seq(Ops) /\ IsInjective(locks[e])
        BY <1>1 DEF TypeOK
      <4>3. PICK x \in Ops : Ahead(locks[e], x, p)
        BY <3>1, <4>1, <4>2, HeadIsFirst DEF Held
      <4>4. Ahead(locks[e], o, p)
        <5>1. PICK i, j \in DOMAIN locks[e] :
                 i < j /\ locks[e][i] = x /\ locks[e][j] = p
          BY <4>3 DEF Ahead
        <5>2. Len(locks[e]) \in Nat /\ DOMAIN locks[e] = 1..Len(locks[e])
          BY <4>2, LenProperties
        <5>3. locks[e][1] = o /\ 1 \in DOMAIN locks[e]
          BY <2>3, <4>2, <5>1, <5>2, HeadTailProperties DEF Held
        <5>4. 1 < j
          BY <5>1, <5>2
        <5> QED BY <5>1, <5>3, <5>4 DEF Ahead
      <4> QED BY <2>3, <4>1, <4>4 DEF Unchanged
    <3> QED BY <3>1, <3>2
  <2> QED BY <1>7, <2>1, <2>2, <2>3 DEF Acts
<1> QED BY <1>1, <1>2, <1>3, <1>4, <1>5, <1>6, <1>7, Undisturbed

\* A step of a sound operation keeps the invariant.
LEMMA ActsKeep ==
    ASSUME VectorsInv, TypeOK', NEW o \in Ops, Acts(o), Sound(o)'
    PROVE  VectorsInv'
<1>1. \A p \in Ops : Sound(p)'
  BY ActsSpareOthers
<1>2. \A e \in Entries : entry'[e].row.stamp <= stamp'
  <2>1. stamp \in Nat /\ stamp' = stamp
    BY WorldBookAssumption DEF VectorsInv, TypeOK, Stamps, Acts, WorldBookAssumption
  <2> QED BY <2>1 DEF VectorsInv, Acts, Moves
<1>3. NeverFoundByOldText'
  <2> SUFFICES ASSUME NEW e \in Entries, On(e)', entry'[e].status = "indexed"
               PROVE  vectors'[e] \in {0, entry'[e].row.content}
    BY DEF NeverFoundByOldText
  <2>1. entry'[e].row.stamp # 0
    BY DEF On, Exists
  <2>2. CASE vectors'[e] # vectors[e]
    BY <2>2 DEF Acts
  <2>3. CASE vectors'[e] = vectors[e] /\ entry'[e] = entry[e]
    BY <2>3 DEF VectorsInv, NeverFoundByOldText, On, Exists
  <2> QED BY <2>1, <2>2, <2>3 DEF Acts
<1>4. Accounted'
  <2> SUFFICES ASSUME NEW e \in Bare' \cup Haunted', e \notin lost'
               PROVE  \E p \in Ops : Answers(p, e)'
    BY DEF Accounted
  <2>1. CASE entry'[e] # entry[e] \/ vectors'[e] # vectors[e] \/ Answers(o, e)
    BY <2>1 DEF Acts
  <2>2. CASE entry'[e] = entry[e] /\ vectors'[e] = vectors[e] /\ ~Answers(o, e)
    <3>1. e \in Bare \cup Haunted /\ e \notin lost
      BY <2>2 DEF Acts, Bare, Haunted, On, Exists
    <3>2. PICK p \in Ops : Answers(p, e)
      BY <3>1 DEF VectorsInv, Accounted
    <3>3. op'[p] = op[p]
      BY <2>2, <3>2 DEF Acts, Moves
    <3> QED BY <3>2, <3>3 DEF Answers
  <2> QED BY <2>1, <2>2
<1> QED BY <1>1, <1>2, <1>3, <1>4 DEF VectorsInv

-----------------------------------------------------------------------------
(* The ways an operation goes on                                           *)

\* An operation that is set up well has its type.
LEMMA OpTyped ==
    ASSUME NEW goal \in Goals, NEW step \in Steps, NEW need \in SUBSET Entries,
           NEW seen, seen \in Readings
    PROVE  Op(goal, step, need, seen) \in Operations
  BY DEF Op, Operations

\* So has none.
LEMMA NoOpTyped == NoOp \in Operations /\ DOMAIN NoOp.seen = {}
<1>1. DOMAIN <<>> = {} /\ <<>> = [e \in {} |-> 0]
  OBVIOUS
<1>2. <<>> \in Readings
  BY <1>1 DEF Readings
<1>3. "none" \in Goals /\ "check" \in Steps
  BY DEF Goals, Steps
<1>4. Op("none", "check", {}, <<>>) \in Operations
  BY <1>2, <1>3, OpTyped
<1> QED BY <1>1, <1>4 DEF NoOp, Op

\* What an operation has read are rows of entries.
LEMMA SeenTyped ==
    ASSUME TypeOK, NEW o \in Ops
    PROVE  /\ op[o] \in Operations
           /\ op[o].need \subseteq Entries /\ op[o].stable \subseteq Entries
           /\ Batch(o) \in SUBSET Entries
           /\ op[o].seen \in [Batch(o) -> Rows] /\ op[o].seen \in Readings
<1>1. op[o] \in Operations
  BY DEF TypeOK
<1>2. op[o].seen \in Readings
  BY <1>1 DEF Operations
<1>3. PICK S \in SUBSET Entries : op[o].seen \in [S -> Rows]
  BY <1>2 DEF Readings
<1> QED BY <1>1, <1>2, <1>3 DEF Operations, Batch

\* Going on to a task under locks.
LEMMA GoesOnMoves ==
    ASSUME TypeOK, NEW o \in Ops, NEW goal \in Goals, NEW step \in Steps,
           NEW need \in SUBSET Entries, need # {},
           NEW seen, seen \in Readings,
           GoesOn(o, goal, step, need, seen)
    PROVE  /\ Moves(o)
           /\ op'[o] = Op(goal, step, need, seen)
           /\ \A e \in Entries : o \in ToSet(locks'[e]) => e \in need
           /\ \E e \in need : o \in ToSet(locks'[e])
<1>1. op' = [op EXCEPT ![o] = Op(goal, step, need, seen)] /\ op \in [Ops -> Operations]
  BY DEF GoesOn, TypeOK
<1>2. Op(goal, step, need, seen) \in Operations
  BY OpTyped
<1>3. /\ op' \in [Ops -> Operations]
      /\ op'[o] = Op(goal, step, need, seen)
      /\ \A p \in Ops \ {o} : op'[p] = op[p]
  BY <1>1, <1>2
<1> QED BY <1>3, GoesOnLocks DEF Moves

\* In particular under the lock of one entry.
LEMMA GoesOnMovesOne ==
    ASSUME TypeOK, NEW o \in Ops, NEW goal \in Goals, NEW step \in Steps,
           NEW e \in Entries,
           NEW seen, seen \in Readings,
           GoesOn(o, goal, step, {e}, seen)
    PROVE  /\ Moves(o)
           /\ op'[o] = Op(goal, step, {e}, seen)
           /\ \A f \in Entries : o \in ToSet(locks'[f]) => f = e
           /\ o \in ToSet(locks'[e])
<1> DEFINE need == {e}
<1>1. need \in SUBSET Entries /\ need # {} /\ GoesOn(o, goal, step, need, seen)
      /\ \A f \in need : f = e
  OBVIOUS
<1> HIDE DEF need
<1>2. /\ Moves(o)
      /\ op'[o] = Op(goal, step, need, seen)
      /\ \A f \in Entries : o \in ToSet(locks'[f]) => f \in need
      /\ \E f \in need : o \in ToSet(locks'[f])
  BY <1>1, GoesOnMoves
<1> QED BY <1>1, <1>2 DEF need

\* Ending: what ends is sound.
LEMMA EndsMoves ==
    ASSUME TypeOK, NEW o \in Ops, op' = [op EXCEPT ![o] = NoOp],
           locks' = Freed(o)
    PROVE  Moves(o) /\ op'[o] = NoOp /\ Sound(o)'
<1>1. /\ op' \in [Ops -> Operations] /\ op'[o] = NoOp
      /\ \A p \in Ops \ {o} : op'[p] = op[p]
  BY NoOpTyped DEF TypeOK
<1>2. /\ Keeps(locks', o)
      /\ \A e \in Entries : o \notin ToSet(locks'[e])
  BY EndsLocks
<1>3. Moves(o)
  BY <1>1, <1>2, AheadStands DEF Moves
<1>4. /\ op'[o].goal = "none" /\ op'[o].step = "check" /\ op'[o].need = {}
      /\ op'[o].stable = {} /\ DOMAIN op'[o].seen = {}
  BY <1>1, NoOpTyped DEF NoOp, Op
<1>5. Disciplined(o)'
  BY <1>2, <1>4 DEF Disciplined, Inside
<1>6. Remembers(o)' /\ Guarded(o)' /\ DropsFirst(o)'
  BY <1>4 DEF Remembers, Guarded, DropsFirst, Batch
<1> QED BY <1>1, <1>3, <1>5, <1>6 DEF Sound

\* Going on to the next step of the same task, under the same locks.
LEMMA StepsToMoves ==
    ASSUME TypeOK, NEW o \in Ops, NEW step \in Steps,
           NEW stable \in SUBSET Entries, StepsTo(o, step, stable)
    PROVE  /\ Moves(o)
           /\ op'[o].goal = op[o].goal /\ op'[o].step = step
           /\ op'[o].need = op[o].need /\ op'[o].stable = stable
           /\ op'[o].seen = op[o].seen
           /\ locks' = locks
<1>1. /\ op' = [op EXCEPT ![o].step = step, ![o].stable = stable]
      /\ op \in [Ops -> Operations] /\ locks' = locks
  BY DEF StepsTo, TypeOK
<1>2. /\ op'[o] = [op[o] EXCEPT !.step = step, !.stable = stable]
      /\ op[o] \in Operations
  BY <1>1
<1>3. /\ op'[o].goal = op[o].goal /\ op'[o].step = step
      /\ op'[o].need = op[o].need /\ op'[o].stable = stable
      /\ op'[o].seen = op[o].seen
      /\ op'[o] \in Operations
  BY <1>2 DEF Operations
<1>4. op' \in [Ops -> Operations] /\ \A p \in Ops \ {o} : op'[p] = op[p]
  BY <1>1, <1>3
<1>5. Keeps(locks', o)
  BY <1>1 DEF TypeOK, Keeps
<1> QED BY <1>1, <1>3, <1>4, <1>5 DEF Moves

\* A task that is asked for, but not under way, is sound if what it has read
\* fits it.
LEMMA AskedSound ==
    ASSUME NEW o \in Ops, NEW goal \in {"clear", "commit", "mark", "delete"},
           NEW step, step = IF goal \in {"clear", "delete"} THEN "erase" ELSE "check",
           NEW need, NEW seen, op'[o] = Op(goal, step, need, seen),
           need \subseteq DOMAIN seen, DOMAIN seen # {},
           goal # "clear" => need = DOMAIN seen,
           \A e \in DOMAIN seen : seen[e].stamp \in 1..stamp'
                                  /\ (goal = "commit" => seen[e].on),
           \A e \in Entries : o \in ToSet(locks'[e]) => e \in need
    PROVE  Sound(o)'
<1>1. /\ op'[o].goal = goal /\ op'[o].step = step /\ op'[o].need = need
      /\ op'[o].stable = {} /\ op'[o].seen = seen
  BY DEF Op
<1>2. Disciplined(o)'
  BY <1>1 DEF Disciplined, Inside, Batch
<1>3. Remembers(o)'
  BY <1>1 DEF Remembers, Batch
<1>4. Guarded(o)' /\ DropsFirst(o)'
  BY <1>1 DEF Guarded, DropsFirst
<1> QED BY <1>2, <1>3, <1>4 DEF Sound

\* An indexer that has read rows and holds no lock is sound.
LEMMA ReadsSound ==
    ASSUME NEW o \in Ops, NEW seen, op'[o] = Op("reindex", "check", {}, seen),
           DOMAIN seen # {},
           \A e \in DOMAIN seen : seen[e].stamp \in 1..stamp',
           \A e \in Entries : o \notin ToSet(locks'[e])
    PROVE  Sound(o)'
<1>1. /\ op'[o].goal = "reindex" /\ op'[o].step = "check" /\ op'[o].need = {}
      /\ op'[o].stable = {} /\ op'[o].seen = seen
  BY DEF Op
<1>2. Disciplined(o)'
  BY <1>1 DEF Disciplined, Inside, Batch
<1>3. Remembers(o)'
  BY <1>1 DEF Remembers, Batch
<1>4. Guarded(o)' /\ DropsFirst(o)'
  BY <1>1 DEF Guarded, DropsFirst
<1> QED BY <1>2, <1>3, <1>4 DEF Sound

\* What an operation gives up on is accounted for.
LEMMA GivesUp ==
    ASSUME NEW S \in SUBSET Entries, lost \subseteq Entries, GivesUpOn(S)
    PROVE  /\ lost' \subseteq Entries
           /\ \A e \in Bare' \cup Haunted' : e \in lost \cup S => e \in lost'
  BY DEF GivesUpOn

LEMMA TroublesTyped ==
    ASSUME TypeOK, Trouble \/ UNCHANGED troubles
    PROVE  troubles' \in 0..MaxTroubles
<1>1. MaxTroubles \in Nat /\ troubles \in 0..MaxTroubles
  BY WorldBookAssumption DEF WorldBookAssumption, TypeOK
<1> QED BY <1>1 DEF Trouble

\* A step that changes neither rows nor vectors keeps the invariant, if what
\* the operation answered for is not forgotten.
LEMMA QuietKeeps ==
    ASSUME VectorsInv, NEW o \in Ops, Moves(o),
           UNCHANGED <<entry, vectors, stamp>>,
           jobs' \in [Entries -> {"none", "plain", "forced"}],
           Trouble \/ UNCHANGED troubles,
           lost' \subseteq Entries,
           \A e \in Bare' \cup Haunted' :
              /\ e \in lost => e \in lost'
              /\ Answers(o, e) => e \in lost' \/ Answers(o, e)',
           Sound(o)'
    PROVE  VectorsInv'
<1>1. TypeOK
  BY DEF VectorsInv
<1>2. TypeOK'
  <2>1. op' \in [Ops -> Operations] /\ Keeps(locks', o)
    BY DEF Moves
  <2>2. troubles' \in 0..MaxTroubles
    BY <1>1, TroublesTyped
  <2> QED BY <1>1, <2>1, <2>2 DEF TypeOK, Keeps, Stamps
<1>3. Bare' \cup Haunted' \subseteq Entries
  BY DEF Bare, Haunted
<1>4. Acts(o)
  BY <1>3 DEF Acts
<1> QED BY <1>2, <1>4, ActsKeep

\* In particular if it gives up on nothing.
LEMMA UnlostKeeps ==
    ASSUME VectorsInv, NEW o \in Ops, Moves(o),
           UNCHANGED <<entry, vectors, stamp, lost>>,
           jobs' \in [Entries -> {"none", "plain", "forced"}],
           Trouble \/ UNCHANGED troubles,
           \A e \in Entries : Answers(o, e) => Answers(o, e)',
           Sound(o)'
    PROVE  VectorsInv'
<1>1. lost' \subseteq Entries
  BY DEF VectorsInv, TypeOK
<1>2. Bare' \cup Haunted' \subseteq Entries
  BY DEF Bare, Haunted
<1> QED BY <1>1, <1>2, QuietKeeps

\* Or if it gives up on what it answered for.
LEMMA GivingUpKeeps ==
    ASSUME VectorsInv, NEW o \in Ops, Moves(o),
           UNCHANGED <<entry, vectors, jobs, stamp>>,
           Trouble \/ UNCHANGED troubles,
           NEW S \in SUBSET Entries, GivesUpOn(S),
           \A e \in Entries : Answers(o, e) => e \in S,
           Sound(o)'
    PROVE  VectorsInv'
<1>1. lost \subseteq Entries /\ jobs' \in [Entries -> {"none", "plain", "forced"}]
  BY DEF VectorsInv, TypeOK
<1>2. /\ lost' \subseteq Entries
      /\ \A e \in Bare' \cup Haunted' : e \in lost \cup S => e \in lost'
  BY <1>1, GivesUp
<1>3. Bare' \cup Haunted' \subseteq Entries
  BY DEF Bare, Haunted
<1> QED BY <1>1, <1>2, <1>3, QuietKeeps

-----------------------------------------------------------------------------
(* Steps that change neither rows nor vectors                              *)

\* What an operation has read was read at some stamp.
LEMMA SeenStamps ==
    ASSUME VectorsInv, NEW o \in Ops
    PROVE  \A e \in Batch(o) : op[o].seen[e].stamp \in 1..stamp
  BY DEF VectorsInv, Sound, Remembers

\* The part of what was read that is left is still a reading.
LEMMA PartTyped ==
    ASSUME TypeOK, NEW o \in Ops, NEW S \in SUBSET Batch(o)
    PROVE  /\ S \in SUBSET Entries
           /\ [e \in S |-> op[o].seen[e]] \in Readings
<1>1. op[o].seen \in [Batch(o) -> Rows] /\ Batch(o) \in SUBSET Entries
  BY SeenTyped
<1> QED BY <1>1 DEF Readings

LEMMA LockNextKeeps ==
    ASSUME VectorsInv, NEW o \in Ops, LockNext(o)
    PROVE  VectorsInv'
<1>1. TypeOK /\ Sound(o) /\ UNCHANGED <<entry, vectors, jobs, op, stamp, troubles, lost>>
  BY DEF VectorsInv, LockNext
<1>2. /\ Keeps(locks', o)
      /\ \A e \in Entries : o \in ToSet(locks'[e]) =>
            o \in ToSet(locks[e]) \/ e \in op[o].need
      /\ \A e \in Entries : o \in ToSet(locks[e]) => o \in ToSet(locks'[e])
  BY <1>1, LockNextLocks
<1>3. Moves(o)
  BY <1>1, <1>2 DEF Moves, TypeOK
<1>4. PICK e0 \in op[o].need : e0 \in Entries /\ o \notin ToSet(locks[e0])
  BY <1>1, SeenTyped DEF LockNext, Missing
<1>5. ~Inside(o) /\ op[o].goal # "drop"
  <2>1. ~Held(o, e0)
    BY <1>1, <1>4, HeldStands
  <2> QED BY <1>1, <1>4, <2>1 DEF Sound, Disciplined, DropsFirst
<1>6. Disciplined(o)'
  BY <1>1, <1>2, <1>5 DEF Sound, Disciplined, Inside, Batch
<1>7. Remembers(o)' /\ Guarded(o)' /\ DropsFirst(o)'
  BY <1>1, <1>5 DEF Sound, Remembers, Guarded, DropsFirst, Batch, On, Exists
<1>8. Sound(o)'
  BY <1>6, <1>7 DEF Sound
<1>9. jobs' \in [Entries -> {"none", "plain", "forced"}]
  BY <1>1 DEF TypeOK
<1>10. \A e \in Entries : Answers(o, e) => Answers(o, e)'
  BY <1>1 DEF Answers
<1> QED BY <1>1, <1>3, <1>8, <1>9, <1>10, UnlostKeeps

\* A batch, or what is left of it, goes on to be committed, if all of it was
\* on, or to be marked, and then its operation answers for it.
LEMMA BatchMoves ==
    ASSUME VectorsInv, NEW o \in Ops, stamp' = stamp,
           NEW S \in SUBSET Batch(o), S # {}, NEW goal \in {"commit", "mark"},
           goal = "commit" => \A e \in S : op[o].seen[e].on,
           GoesOn(o, goal, "check", S, [e \in S |-> op[o].seen[e]])
    PROVE  /\ Moves(o) /\ Sound(o)'
           /\ goal = "mark" => \A e \in S : Answers(o, e)'
<1> DEFINE seen == [e \in S |-> op[o].seen[e]]
<1>1. TypeOK /\ S \in SUBSET Entries /\ seen \in Readings
  BY PartTyped DEF VectorsInv
<1>2. goal \in Goals /\ "check" \in Steps
  BY DEF Goals, Steps
<1>3. DOMAIN seen = S /\ \A e \in S : /\ seen[e].stamp \in 1..stamp'
                                      /\ goal = "commit" => seen[e].on
  BY SeenStamps
<1>4. GoesOn(o, goal, "check", S, seen)
  OBVIOUS
<1> HIDE DEF seen
<1>5. /\ Moves(o) /\ op'[o] = Op(goal, "check", S, seen)
      /\ \A e \in Entries : o \in ToSet(locks'[e]) => e \in S
  BY <1>1, <1>2, <1>4, GoesOnMoves
<1>6. Sound(o)'
  BY <1>3, <1>5, AskedSound
<1>7. goal = "mark" => \A e \in S : Answers(o, e)'
  BY <1>5 DEF Answers, Op
<1> QED BY <1>5, <1>6, <1>7

LEMMA EmbeddedKeeps ==
    ASSUME VectorsInv, NEW o \in Ops, Embedded(o)
    PROVE  VectorsInv'
<1>1. /\ TypeOK /\ op[o].goal = "reindex" /\ AllOn(o)
      /\ UNCHANGED <<entry, vectors, jobs, stamp, lost>>
  BY DEF VectorsInv, Embedded
<1>2. PICK stable \in SUBSET Batch(o) :
         /\ Filter(o, Batch(o), stable)
         /\ IF stable = {} THEN Ends(o)
            ELSE GoesOn(o, "commit", "check", stable,
                        [e \in stable |-> op[o].seen[e]])
  BY DEF Embedded
<1>3. Moves(o) /\ Sound(o)'
  <2>1. CASE stable = {}
    BY <1>1, <1>2, <2>1, EndsMoves DEF Ends
  <2>2. CASE stable # {}
    <3>1. GoesOn(o, "commit", "check", stable, [e \in stable |-> op[o].seen[e]])
      BY <1>2, <2>2
    <3>2. \A e \in stable : op[o].seen[e].on
      BY <1>1 DEF AllOn
    <3> QED BY <1>1, <2>2, <3>1, <3>2, BatchMoves
  <2> QED BY <2>1, <2>2
<1>4. \A e \in Entries : ~Answers(o, e)
  BY <1>1 DEF Answers
<1>5. Trouble \/ UNCHANGED troubles
  BY <1>2 DEF Filter
<1>6. jobs' \in [Entries -> {"none", "plain", "forced"}]
  BY <1>1 DEF TypeOK
<1> QED BY <1>1, <1>3, <1>4, <1>5, <1>6, UnlostKeeps

LEMMA IndexFailsKeeps ==
    ASSUME VectorsInv, NEW o \in Ops, IndexFails(o)
    PROVE  VectorsInv'
<1>1. /\ TypeOK /\ Sound(o) /\ Trouble
      /\ op[o].goal \in {"reindex", "commit"}
      /\ UNCHANGED <<entry, vectors, jobs, stamp, lost>>
      /\ GoesOn(o, "mark", "check", Batch(o), op[o].seen)
  BY DEF VectorsInv, IndexFails
<1>2. Batch(o) # {} /\ Batch(o) \in SUBSET Entries
      /\ [e \in Batch(o) |-> op[o].seen[e]] = op[o].seen
  <2>1. op[o].seen \in [Batch(o) -> Rows]
    BY <1>1, SeenTyped
  <2> QED BY <1>1, <2>1, SeenTyped DEF Sound, Disciplined
<1>3. Moves(o) /\ Sound(o)' /\ \A e \in Batch(o) : Answers(o, e)'
  BY <1>1, <1>2, BatchMoves
<1>4. \A e \in Entries : Answers(o, e) => e \in Batch(o)
  BY <1>1 DEF Answers, Sound, Disciplined
<1>5. jobs' \in [Entries -> {"none", "plain", "forced"}]
  BY <1>1 DEF TypeOK
<1> QED BY <1>1, <1>3, <1>4, <1>5, UnlostKeeps

\* A step on, under all locks, is sound if it guards what it found unchanged.
LEMMA SteppedSound ==
    ASSUME VectorsInv, NEW o \in Ops, op[o].goal \in {"commit", "mark", "delete"},
           Holds(o), NEW step \in Steps \ {"check"},
           NEW stable \in SUBSET op[o].need, StepsTo(o, step, stable),
           stamp' = stamp, Guarded(o)'
    PROVE  Sound(o)' /\ Moves(o)
<1>1. TypeOK /\ Sound(o) /\ op[o].need \subseteq Entries
  BY SeenTyped DEF VectorsInv
<1>2. /\ Moves(o)
      /\ op'[o].goal = op[o].goal /\ op'[o].step = step
      /\ op'[o].need = op[o].need /\ op'[o].stable = stable
      /\ op'[o].seen = op[o].seen
      /\ locks' = locks
  BY <1>1, StepsToMoves
<1>3. \A e \in op[o].need : Held(o, e)'
  BY <1>2 DEF Holds, Held
<1>4. Disciplined(o)'
  BY <1>1, <1>2, <1>3 DEF Sound, Disciplined, Batch
<1>5. Remembers(o)' /\ DropsFirst(o)'
  BY <1>1, <1>2 DEF Sound, Remembers, DropsFirst, Batch
<1> QED BY <1>2, <1>4, <1>5 DEF Sound

LEMMA CommitChecksKeeps ==
    ASSUME VectorsInv, NEW o \in Ops, CommitChecks(o)
    PROVE  VectorsInv'
<1>1. /\ TypeOK /\ op[o].goal = "commit" /\ op[o].step = "check" /\ Holds(o)
      /\ UNCHANGED <<entry, vectors, jobs, stamp, lost>>
  BY DEF VectorsInv, CommitChecks
<1>2. PICK stable \in SUBSET op[o].need :
         /\ Filter(o, op[o].need, stable)
         /\ IF stable = {} THEN Ends(o) ELSE StepsTo(o, "erase", stable)
  BY DEF CommitChecks
<1>3. Moves(o) /\ Sound(o)'
  <2>1. CASE stable = {}
    BY <1>1, <1>2, <2>1, EndsMoves DEF Ends
  <2>2. CASE stable # {}
    <3>1. \A e \in stable : Unchanged(o, e)
      BY <1>2, <2>2 DEF Filter, Current
    <3>2. StepsTo(o, "erase", stable) /\ stable \in SUBSET Entries
          /\ "erase" \in Steps
      BY <1>1, <1>2, <2>2, SeenTyped DEF Steps
    <3>3. /\ op'[o].goal = "commit" /\ op'[o].step = "erase"
          /\ op'[o].stable = stable /\ op'[o].seen = op[o].seen
      BY <1>1, <3>2, StepsToMoves
    <3>4. Guarded(o)'
      BY <1>1, <3>1, <3>3 DEF Guarded, Unchanged
    <3> QED BY <1>1, <3>2, <3>4, SteppedSound
  <2> QED BY <2>1, <2>2
<1>4. \A e \in Entries : ~Answers(o, e)
  BY <1>1 DEF Answers
<1>5. Trouble \/ UNCHANGED troubles
  BY <1>2 DEF Filter
<1>6. jobs' \in [Entries -> {"none", "plain", "forced"}]
  BY <1>1 DEF TypeOK
<1> QED BY <1>1, <1>3, <1>4, <1>5, <1>6, UnlostKeeps

LEMMA ErrorChecksKeeps ==
    ASSUME VectorsInv, NEW o \in Ops, ErrorChecks(o)
    PROVE  VectorsInv'
<1>1. /\ TypeOK /\ op[o].goal = "mark" /\ Holds(o)
      /\ UNCHANGED <<entry, vectors, jobs, stamp>>
      /\ GivesUpOn(op[o].need)
  BY DEF VectorsInv, ErrorChecks
<1>2. PICK stable \in SUBSET op[o].need :
         /\ Filter(o, op[o].need, stable)
         /\ IF stable = {} THEN Ends(o) ELSE StepsTo(o, "erase", stable)
  BY DEF ErrorChecks
<1>3. op[o].need \in SUBSET Entries
  BY <1>1, SeenTyped
<1>4. Moves(o) /\ Sound(o)'
  <2>1. CASE stable = {}
    BY <1>1, <1>2, <2>1, EndsMoves DEF Ends
  <2>2. CASE stable # {}
    <3>1. StepsTo(o, "erase", stable) /\ stable \in SUBSET Entries
          /\ "erase" \in Steps
      BY <1>2, <1>3, <2>2 DEF Steps
    <3>2. op'[o].goal = "mark"
      BY <1>1, <3>1, StepsToMoves
    <3>3. Guarded(o)'
      BY <3>2 DEF Guarded
    <3> QED BY <1>1, <3>1, <3>3, SteppedSound
  <2> QED BY <2>1, <2>2
<1>5. \A e \in Entries : Answers(o, e) => e \in op[o].need
  BY <1>1 DEF Answers
<1>6. Trouble \/ UNCHANGED troubles
  BY <1>2 DEF Filter
<1> QED BY <1>1, <1>3, <1>4, <1>5, <1>6, GivingUpKeeps

LEMMA ClearNextKeeps ==
    ASSUME VectorsInv, NEW o \in Ops, NEW e \in Entries, ClearNext(o, e)
    PROVE  VectorsInv'
<1>1. /\ TypeOK /\ op[o].goal = "reindex" /\ e \in Batch(o)
      /\ GoesOn(o, "clear", "erase", {e}, op[o].seen)
      /\ UNCHANGED <<entry, vectors, jobs, stamp, troubles, lost>>
  BY DEF VectorsInv, ClearNext
<1>2. /\ "clear" \in Goals /\ "erase" \in Steps
      /\ {e} \in SUBSET Entries /\ {e} # {}
      /\ op[o].seen \in Readings
  BY <1>1, SeenTyped DEF Goals, Steps
<1>3. /\ Moves(o)
      /\ op'[o] = Op("clear", "erase", {e}, op[o].seen)
      /\ \A f \in Entries : o \in ToSet(locks'[f]) => f \in {e}
  <2>1. TypeOK
    BY <1>1
  <2>2. GoesOn(o, "clear", "erase", {e}, op[o].seen)
    BY <1>1
  <2>3. /\ Moves(o)
        /\ op'[o] = Op("clear", "erase", {e}, op[o].seen)
        /\ \A f \in Entries : o \in ToSet(locks'[f]) => f = e
    BY <1>1, <1>2, <2>1, <2>2, GoesOnMovesOne
  <2> QED BY <2>3
<1>4. {e} \subseteq DOMAIN op[o].seen /\ DOMAIN op[o].seen # {}
      /\ \A f \in DOMAIN op[o].seen : op[o].seen[f].stamp \in 1..stamp'
  BY <1>1, SeenStamps DEF Batch
<1>5. Sound(o)'
  BY <1>3, <1>4, AskedSound
<1>6. \A f \in Entries : ~Answers(o, f)
  BY <1>1 DEF Answers
<1>7. jobs' \in [Entries -> {"none", "plain", "forced"}]
  BY <1>1 DEF TypeOK
<1> QED BY <1>1, <1>3, <1>5, <1>6, <1>7, UnlostKeeps

LEMMA ClearFailsKeeps ==
    ASSUME VectorsInv, NEW o \in Ops, NEW e \in Entries, ClearFails(o, e)
    PROVE  VectorsInv'
<1> DEFINE rest == {f \in Batch(o) : op[o].seen[f].on}
<1>1. /\ TypeOK /\ op[o].goal = "clear"
      /\ UNCHANGED <<entry, vectors, jobs, stamp>>
      /\ Trouble /\ GivesUpOn({e})
      /\ \/ Ends(o)
         \/ /\ rest # {}
            /\ GoesOn(o, "mark", "check", rest, [f \in rest |-> op[o].seen[f]])
  BY DEF VectorsInv, ClearFails
<1>2. rest \in SUBSET Batch(o)
  OBVIOUS
<1> HIDE DEF rest
<1>3. Moves(o) /\ Sound(o)'
  <2>1. CASE Ends(o)
    BY <1>1, <2>1, EndsMoves DEF Ends
  <2>2. CASE /\ rest # {}
             /\ GoesOn(o, "mark", "check", rest, [f \in rest |-> op[o].seen[f]])
    BY <1>1, <1>2, <2>2, BatchMoves
  <2> QED BY <1>1, <2>1, <2>2
<1>4. \A f \in Entries : ~Answers(o, f)
  BY <1>1 DEF Answers
<1> QED BY <1>1, <1>3, <1>4, GivingUpKeeps

LEMMA DropFailsKeeps ==
    ASSUME VectorsInv, NEW o \in Ops, NEW e \in Entries, DropFails(o, e)
    PROVE  VectorsInv'
<1>1. /\ TypeOK /\ op[o].goal \in {"drop", "delete"} /\ op[o].need = {e}
      /\ UNCHANGED <<entry, vectors, jobs, stamp>>
      /\ Trouble /\ Ends(o) /\ GivesUpOn({e})
  BY DEF VectorsInv, DropFails
<1>2. Moves(o) /\ Sound(o)'
  BY <1>1, EndsMoves DEF Ends
<1>3. \A f \in Entries : Answers(o, f) => f \in {e}
  BY <1>1 DEF Answers
<1> QED BY <1>1, <1>2, <1>3, GivingUpKeeps

\* Rows that exist have been stamped, by a number the clock has reached.
LEMMA RowStamps ==
    ASSUME VectorsInv, NEW e \in Entries, Exists(e)
    PROVE  entry[e].row \in Rows /\ entry[e].row.stamp \in 1..stamp
<1>1. entry[e].row \in Rows /\ stamp \in Nat /\ MaxStamp \in Nat
  BY WorldBookAssumption
     DEF VectorsInv, TypeOK, Stamps, WorldBookAssumption
<1>2. entry[e].row.stamp \in Nat
  BY <1>1 DEF Rows, Stamps
<1> QED BY <1>1, <1>2 DEF VectorsInv, Exists

\* An idle operation stands in no queue and answers for nothing.
LEMMA IdleFacts ==
    ASSUME VectorsInv, NEW o \in Ops, Idle(o)
    PROVE  /\ \A e \in Entries : o \notin ToSet(locks[e])
           /\ \A e \in Entries : ~Answers(o, e)
  BY DEF VectorsInv, Sound, Disciplined, Idle, Answers

LEMMA DeleteKeeps ==
    ASSUME VectorsInv, NEW e \in Entries, NEW d \in Deleters, Delete(e, d)
    PROVE  VectorsInv'
<1> DEFINE seen == [f \in {e} |-> entry[e].row]
<1>1. /\ TypeOK /\ Exists(e) /\ Idle(d) /\ d \in Ops
      /\ GoesOn(d, "delete", "erase", {e}, seen)
      /\ UNCHANGED <<entry, vectors, jobs, stamp, troubles, lost>>
  BY DEF VectorsInv, Delete, Ops
<1>2. /\ "delete" \in Goals /\ "erase" \in Steps
      /\ {e} \in SUBSET Entries /\ {e} # {} /\ seen \in Readings
      /\ DOMAIN seen = {e}
      /\ \A f \in {e} : seen[f].stamp \in 1..stamp'
  BY <1>1, RowStamps DEF Goals, Steps, Readings
<1> HIDE DEF seen
<1>3. /\ Moves(d)
      /\ op'[d] = Op("delete", "erase", {e}, seen)
      /\ \A f \in Entries : d \in ToSet(locks'[f]) => f \in {e}
  <2>1. TypeOK
    BY <1>1
  <2>2. GoesOn(d, "delete", "erase", {e}, seen)
    BY <1>1
  <2>3. /\ Moves(d)
        /\ op'[d] = Op("delete", "erase", {e}, seen)
        /\ \A f \in Entries : d \in ToSet(locks'[f]) => f = e
    BY <1>1, <1>2, <2>1, <2>2, GoesOnMovesOne
  <2> QED BY <2>3
<1>4. Sound(d)'
  BY <1>1, <1>2, <1>3, AskedSound
<1>5. \A f \in Entries : ~Answers(d, f)
  BY <1>1, IdleFacts
<1>6. jobs' \in [Entries -> {"none", "plain", "forced"}]
  BY <1>1 DEF TypeOK
<1> QED BY <1>1, <1>3, <1>4, <1>5, <1>6, UnlostKeeps

\* An idle indexer that reads existing rows.
LEMMA ReadsKeeps ==
    ASSUME VectorsInv, NEW o \in Ops, Idle(o), NEW S \in SUBSET Entries, S # {},
           \A e \in S : Exists(e), Reads(o, S),
           UNCHANGED <<entry, vectors, locks, stamp, troubles, lost>>,
           jobs' \in [Entries -> {"none", "plain", "forced"}]
    PROVE  VectorsInv'
<1> DEFINE seen == [e \in S |-> entry[e].row]
<1>1. TypeOK
  BY DEF VectorsInv
<1>2. /\ "reindex" \in Goals /\ "check" \in Steps /\ {} \in SUBSET Entries
      /\ seen \in Readings /\ DOMAIN seen = S
      /\ \A e \in S : seen[e].stamp \in 1..stamp'
  BY RowStamps DEF Goals, Steps, Readings
<1>3. op' = [op EXCEPT ![o] = Op("reindex", "check", {}, seen)]
  BY DEF Reads
<1> HIDE DEF seen
<1>4. Op("reindex", "check", {}, seen) \in Operations
  BY <1>2, OpTyped
<1>5. /\ op' \in [Ops -> Operations]
      /\ op'[o] = Op("reindex", "check", {}, seen)
      /\ \A p \in Ops \ {o} : op'[p] = op[p]
  BY <1>1, <1>3, <1>4 DEF TypeOK
<1>6. \A e \in Entries : o \notin ToSet(locks'[e])
  BY IdleFacts
<1>7. Moves(o)
  <2>1. Keeps(locks', o)
    BY <1>1 DEF TypeOK, Keeps
  <2> QED BY <1>5, <1>6, <2>1, AheadStands DEF Moves
<1>8. Sound(o)'
  BY <1>2, <1>5, <1>6, ReadsSound
<1> QED BY <1>7, <1>8, IdleFacts, UnlostKeeps

LEMMA TakeBatchKeeps ==
    ASSUME VectorsInv, NEW S \in SUBSET Entries, TakeBatch(S)
    PROVE  VectorsInv'
<1>1. /\ TypeOK /\ Idle(Worker) /\ Worker \in Ops
      /\ UNCHANGED <<entry, vectors, locks, stamp, troubles, lost>>
      /\ jobs' = [e \in Entries |-> IF e \in S THEN "none" ELSE jobs[e]]
      /\ IF Due(S) = {} THEN UNCHANGED op ELSE Reads(Worker, Due(S))
  BY DEF VectorsInv, TakeBatch, Ops, Indexers
<1>2. jobs' \in [Entries -> {"none", "plain", "forced"}]
  BY <1>1 DEF TypeOK
<1>3. Due(S) \in SUBSET Entries /\ \A e \in Due(S) : Exists(e)
  BY DEF Due
<1>4. CASE Due(S) # {}
  BY <1>1, <1>2, <1>3, <1>4, ReadsKeeps
<1>5. CASE Due(S) = {}
  BY <1>1, <1>2, <1>5 DEF VectorsInv, TypeOK, Stamps, Sound, Disciplined, Inside,
     Remembers, Guarded, DropsFirst, Batch, Held, On, Exists, Accounted, Bare,
     Haunted, Answers, NeverFoundByOldText
<1> QED BY <1>4, <1>5

LEMMA RouteReindexesKeeps ==
    ASSUME VectorsInv, NEW o \in Routes, RouteReindexes(o)
    PROVE  VectorsInv'
<1> DEFINE S == {e \in Entries : Exists(e)}
<1>1. /\ Idle(o) /\ o \in Ops /\ S # {} /\ Reads(o, S)
      /\ S \in SUBSET Entries /\ \A e \in S : Exists(e)
      /\ UNCHANGED <<entry, vectors, jobs, locks, stamp, troubles, lost>>
  BY DEF RouteReindexes, Ops, Indexers
<1>2. jobs' \in [Entries -> {"none", "plain", "forced"}]
  BY <1>1 DEF VectorsInv, TypeOK
<1> HIDE DEF S
<1> QED BY <1>1, <1>2, ReadsKeeps

-----------------------------------------------------------------------------
(* Steps that write vectors or mark rows                                   *)

\* Such a step leaves every variable typed.
LEMMA WritesTyped ==
    ASSUME TypeOK, NEW o \in Ops, Moves(o), UNCHANGED <<jobs, stamp>>,
           Trouble \/ UNCHANGED troubles, lost' \subseteq Entries,
           entry' \in [Entries -> [row: Rows, status: Statuses]],
           vectors' \in [Entries -> Stamps]
    PROVE  TypeOK'
<1>1. op' \in [Ops -> Operations] /\ Keeps(locks', o)
  BY DEF Moves
<1>2. troubles' \in 0..MaxTroubles
  BY TroublesTyped
<1> QED BY <1>1, <1>2 DEF TypeOK, Keeps, Stamps

\* Marking sets the status and nothing else.
LEMMA MarkedTyped ==
    ASSUME TypeOK, NEW S, NEW status \in Statuses
    PROVE  /\ Marked(S, status) \in [Entries -> [row: Rows, status: Statuses]]
           /\ \A e \in Entries :
                 /\ Marked(S, status)[e].row = entry[e].row
                 /\ e \in S => Marked(S, status)[e].status = status
                 /\ e \notin S => Marked(S, status)[e] = entry[e]
<1>1. entry \in [Entries -> [row: Rows, status: Statuses]]
  BY DEF TypeOK
<1>2. ASSUME NEW e \in Entries, e \in S
      PROVE  /\ Marked(S, status)[e] \in [row: Rows, status: Statuses]
             /\ Marked(S, status)[e].row = entry[e].row
             /\ Marked(S, status)[e].status = status
  BY <1>1, <1>2 DEF Marked
<1>3. ASSUME NEW e \in Entries, e \notin S
      PROVE  Marked(S, status)[e] = entry[e]
  BY <1>3 DEF Marked
<1>4. Marked(S, status) = [e \in Entries |-> Marked(S, status)[e]]
  BY DEF Marked
<1> QED BY <1>1, <1>2, <1>3, <1>4

LEMMA ZeroStamp == 0 \in Stamps
  BY WorldBookAssumption DEF WorldBookAssumption, Stamps

LEMMA CommitErasesKeeps ==
    ASSUME VectorsInv, NEW o \in Ops, CommitErases(o)
    PROVE  VectorsInv'
<1>1. /\ TypeOK /\ Sound(o) /\ op[o].goal = "commit" /\ op[o].step = "erase"
      /\ Holds(o) /\ StepsTo(o, "write", op[o].stable)
      /\ vectors' = [e \in Entries |->
                       IF e \in op[o].stable THEN 0 ELSE vectors[e]]
      /\ UNCHANGED <<entry, jobs, stamp, troubles, lost>>
  BY DEF VectorsInv, CommitErases
<1>2. /\ op[o].stable \in SUBSET Entries /\ op[o].stable \in SUBSET op[o].need
      /\ "write" \in Steps \ {"check"}
  BY <1>1, SeenTyped DEF Sound, Disciplined, Steps
<1>3. /\ op'[o].goal = "commit" /\ op'[o].step = "write"
      /\ op'[o].stable = op[o].stable /\ op'[o].seen = op[o].seen
  BY <1>1, <1>2, StepsToMoves
<1>4. Guarded(o)'
  BY <1>1, <1>3 DEF Sound, Guarded, On, Exists
<1>5. Moves(o) /\ Sound(o)'
  BY <1>1, <1>2, <1>4, SteppedSound
<1>6. TypeOK'
  <2>1. vectors' \in [Entries -> Stamps]
    BY <1>1, ZeroStamp DEF TypeOK
  <2> QED BY <1>1, <1>5, <2>1, WritesTyped DEF TypeOK
<1>7. \A e \in Entries : e \in op[o].stable => Held(o, e)
  BY <1>1, <1>2 DEF Holds
<1>8. \A e \in Entries : e \in op[o].stable => Answers(o, e)'
  BY <1>3 DEF Answers
<1>9. \A e \in Entries : ~Answers(o, e)
  BY <1>1 DEF Answers
<1>10. Bare' \cup Haunted' \subseteq Entries
  BY DEF Bare, Haunted
<1>11. Acts(o)
  BY <1>1, <1>5, <1>7, <1>8, <1>9, <1>10 DEF Acts
<1> QED BY <1>5, <1>6, <1>11, ActsKeep

LEMMA CommitWritesKeeps ==
    ASSUME VectorsInv, NEW o \in Ops, CommitWrites(o)
    PROVE  VectorsInv'
<1>1. /\ TypeOK /\ Sound(o) /\ op[o].goal = "commit" /\ op[o].step = "write"
      /\ Holds(o) /\ StepsTo(o, "mark", op[o].stable)
      /\ vectors' = [e \in Entries |->
                       IF e \in op[o].stable THEN op[o].seen[e].content
                                             ELSE vectors[e]]
      /\ UNCHANGED <<entry, jobs, stamp, troubles>>
      /\ GivesUpOn({})
  BY DEF VectorsInv, CommitWrites
<1>2. /\ op[o].stable \in SUBSET Entries /\ op[o].stable \in SUBSET op[o].need
      /\ op[o].stable \subseteq Batch(o)
      /\ "mark" \in Steps \ {"check"}
  BY <1>1, SeenTyped DEF Sound, Disciplined, Steps
<1>3. /\ op'[o].goal = "commit" /\ op'[o].step = "mark"
      /\ op'[o].stable = op[o].stable /\ op'[o].seen = op[o].seen
  BY <1>1, <1>2, StepsToMoves
<1>4. /\ \A e \in op[o].stable : vectors'[e] = op[o].seen[e].content
      /\ \A e \in Entries \ op[o].stable : vectors'[e] = vectors[e]
  BY <1>1, <1>2
<1>5. Guarded(o)'
  BY <1>1, <1>3, <1>4 DEF Sound, Guarded, On, Exists
<1>6. Moves(o) /\ Sound(o)'
  BY <1>1, <1>2, <1>5, SteppedSound
<1>7. /\ lost' \subseteq Entries
      /\ \A e \in Bare' \cup Haunted' : e \in lost => e \in lost'
  BY <1>1, GivesUp DEF TypeOK
<1>8. TypeOK'
  <2>1. \A e \in op[o].stable : op[o].seen[e].content \in Stamps
    BY <1>1, <1>2, SeenTyped DEF Rows
  <2>2. vectors' \in [Entries -> Stamps]
    BY <1>1, <2>1 DEF TypeOK
  <2> QED BY <1>1, <1>6, <1>7, <2>2, WritesTyped DEF TypeOK
<1>9. ASSUME NEW e \in op[o].stable
      PROVE  /\ Held(o, e)
             /\ On(e)' /\ entry'[e].status = "indexed" =>
                   vectors'[e] = entry'[e].row.content
  BY <1>1, <1>2, <1>4 DEF Sound, Guarded, Holds, On, Exists
<1>10. \A e \in op[o].stable : Answers(o, e)'
  BY <1>3 DEF Answers
<1>11. \A e \in Entries : Answers(o, e) => e \in op[o].stable
  BY <1>1 DEF Answers
<1>12. Bare' \cup Haunted' \subseteq Entries
  BY DEF Bare, Haunted
<1>13. Acts(o)
  BY <1>1, <1>4, <1>6, <1>7, <1>9, <1>10, <1>11, <1>12 DEF Acts
<1> QED BY <1>6, <1>8, <1>13, ActsKeep

LEMMA CommitMarksKeeps ==
    ASSUME VectorsInv, NEW o \in Ops, CommitMarks(o)
    PROVE  VectorsInv'
<1>1. /\ TypeOK /\ Sound(o) /\ op[o].goal = "commit" /\ op[o].step = "mark"
      /\ Holds(o)
      /\ UNCHANGED <<vectors, jobs, stamp>>
      /\ GivesUpOn({})
  BY DEF VectorsInv, CommitMarks
<1>2. PICK stable \in SUBSET op[o].stable :
         /\ Filter(o, op[o].stable, stable)
         /\ entry' = Marked(stable, "indexed")
         /\ IF stable = op[o].stable THEN Ends(o)
            ELSE StepsTo(o, "scrub", op[o].stable \ stable)
  BY DEF CommitMarks
<1>3. /\ op[o].stable \in SUBSET Entries /\ op[o].stable \in SUBSET op[o].need
      /\ op[o].stable \subseteq Batch(o)
      /\ "scrub" \in Steps \ {"check"} /\ "indexed" \in Statuses
  BY <1>1, SeenTyped DEF Sound, Disciplined, Steps, Statuses
<1>4. /\ entry' \in [Entries -> [row: Rows, status: Statuses]]
      /\ \A e \in Entries : /\ entry'[e].row = entry[e].row
                            /\ e \notin stable => entry'[e] = entry[e]
  BY <1>1, <1>2, <1>3, MarkedTyped
<1>5. ASSUME NEW e \in stable
      PROVE  /\ Unchanged(o, e) /\ Held(o, e) /\ e \in Batch(o)
             /\ vectors[e] = entry[e].row.content
             /\ On(e)'
  <2>1. Unchanged(o, e)
    BY <1>2 DEF Filter, Current
  <2>2. /\ e \in Batch(o) /\ e \in Entries /\ Held(o, e)
        /\ vectors[e] = op[o].seen[e].content
        /\ op[o].seen[e].on
    BY <1>1, <1>3 DEF Sound, Guarded, Remembers, Holds
  <2>3. op[o].seen[e].stamp # 0
    <3>1. op[o].seen[e].stamp \in 1..stamp
      BY <2>2, SeenStamps
    <3>2. stamp \in Nat
      BY <1>1, WorldBookAssumption DEF TypeOK, Stamps, WorldBookAssumption
    <3> QED BY <3>1, <3>2
  <2> QED BY <1>4, <2>1, <2>2, <2>3 DEF Unchanged, On, Exists
<1>6. Moves(o) /\ Sound(o)' /\ \A e \in op[o].stable \ stable : Answers(o, e)'
  <2>1. CASE stable = op[o].stable
    BY <1>1, <1>2, <2>1, EndsMoves DEF Ends
  <2>2. CASE stable # op[o].stable
    <3> DEFINE rest == op[o].stable \ stable
    <3>1. StepsTo(o, "scrub", rest) /\ rest \in SUBSET op[o].need
          /\ rest \in SUBSET Entries
      BY <1>2, <1>3, <2>2
    <3>2. \A e \in rest : entry'[e] = entry[e] /\ e \in op[o].stable
      BY <1>3, <1>4
    <3> HIDE DEF rest
    <3>3. /\ op'[o].goal = "commit" /\ op'[o].step = "scrub"
          /\ op'[o].stable = rest /\ op'[o].seen = op[o].seen
      BY <1>1, <1>3, <3>1, StepsToMoves
    <3>4. Guarded(o)'
      BY <1>1, <3>2, <3>3 DEF Sound, Guarded, On, Exists
    <3>5. Moves(o) /\ Sound(o)'
      BY <1>1, <1>3, <3>1, <3>4, SteppedSound
    <3>6. \A e \in rest : Answers(o, e)'
      BY <3>3 DEF Answers
    <3> QED BY <3>5, <3>6 DEF rest
  <2> QED BY <2>1, <2>2
<1>7. /\ lost' \subseteq Entries
      /\ \A e \in Bare' \cup Haunted' : e \in lost => e \in lost'
  BY <1>1, GivesUp DEF TypeOK
<1>8. Trouble \/ UNCHANGED troubles
  BY <1>2 DEF Filter
<1>9. TypeOK'
  BY <1>1, <1>4, <1>6, <1>7, <1>8, WritesTyped DEF TypeOK
<1>10. \A e \in Entries : Answers(o, e) => e \in op[o].stable
  BY <1>1 DEF Answers
<1>11. \A e \in stable : e \notin Bare' \cup Haunted'
  BY <1>1, <1>3, <1>4, <1>5 DEF Bare, Haunted
<1>12. Bare' \cup Haunted' \subseteq Entries
  BY DEF Bare, Haunted
<1>13. \A e \in Entries : entry'[e] # entry[e] => e \in stable
  BY <1>4
<1>14. Acts(o)
  BY <1>1, <1>4, <1>5, <1>6, <1>7, <1>10, <1>11, <1>12, <1>13 DEF Acts
<1> QED BY <1>6, <1>9, <1>14, ActsKeep

LEMMA CommitScrubsKeeps ==
    ASSUME VectorsInv, NEW o \in Ops, CommitScrubs(o)
    PROVE  VectorsInv'
<1> DEFINE S == {e \in op[o].stable :
                    entry[e].row.content = op[o].seen[e].content}
<1>1. /\ TypeOK /\ Sound(o) /\ op[o].goal = "commit" /\ op[o].step = "scrub"
      /\ Holds(o) /\ Ends(o)
      /\ vectors' = [e \in Entries |->
                       IF e \in op[o].stable THEN 0 ELSE vectors[e]]
      /\ UNCHANGED <<entry, jobs, stamp, troubles>>
      /\ GivesUpOn(S)
  BY DEF VectorsInv, CommitScrubs
<1>2. /\ op[o].stable \in SUBSET Entries /\ op[o].stable \in SUBSET op[o].need
      /\ S \in SUBSET Entries
  BY <1>1, SeenTyped DEF Sound, Disciplined
<1>3. ASSUME NEW e \in op[o].stable, e \in Bare' \cup Haunted'
      PROVE  e \in S
  BY <1>1, <1>2, <1>3 DEF Sound, Guarded, Bare, Haunted, On, Exists
<1> HIDE DEF S
<1>4. Moves(o) /\ Sound(o)'
  BY <1>1, EndsMoves DEF Ends
<1>5. /\ lost' \subseteq Entries
      /\ \A e \in Bare' \cup Haunted' : e \in lost \cup S => e \in lost'
  BY <1>1, <1>2, GivesUp DEF TypeOK
<1>6. TypeOK'
  <2>1. vectors' \in [Entries -> Stamps]
    BY <1>1, ZeroStamp DEF TypeOK
  <2> QED BY <1>1, <1>4, <1>5, <2>1, WritesTyped DEF TypeOK
<1>7. \A e \in Entries : e \in op[o].stable => Held(o, e)
  BY <1>1, <1>2 DEF Holds
<1>8. \A e \in Entries : Answers(o, e) => e \in op[o].stable
  BY <1>1 DEF Answers
<1>9. Bare' \cup Haunted' \subseteq Entries
  BY DEF Bare, Haunted
<1>10. Acts(o)
  BY <1>1, <1>3, <1>4, <1>5, <1>7, <1>8, <1>9 DEF Acts
<1> QED BY <1>4, <1>6, <1>10, ActsKeep

LEMMA ErrorErasesKeeps ==
    ASSUME VectorsInv, NEW o \in Ops, ErrorErases(o)
    PROVE  VectorsInv'
<1>1. /\ TypeOK /\ Sound(o) /\ op[o].goal = "mark"
      /\ Holds(o) /\ StepsTo(o, "mark", op[o].stable)
      /\ \/ vectors' = [e \in Entries |->
                          IF e \in op[o].stable THEN 0 ELSE vectors[e]]
         \/ vectors' = vectors
      /\ Trouble \/ UNCHANGED troubles
      /\ UNCHANGED <<entry, jobs, stamp, lost>>
  BY DEF VectorsInv, ErrorErases
<1>2. /\ op[o].stable \in SUBSET Entries /\ op[o].stable \in SUBSET op[o].need
      /\ "mark" \in Steps \ {"check"}
  BY <1>1, SeenTyped DEF Sound, Disciplined, Steps
<1>3. op'[o].goal = "mark" /\ op'[o].need = op[o].need
  BY <1>1, <1>2, StepsToMoves
<1>4. Guarded(o)'
  BY <1>3 DEF Guarded
<1>5. Moves(o) /\ Sound(o)'
  BY <1>1, <1>2, <1>4, SteppedSound
<1>6. TypeOK'
  <2>1. vectors' \in [Entries -> Stamps]
    BY <1>1, ZeroStamp DEF TypeOK
  <2> QED BY <1>1, <1>5, <2>1, WritesTyped DEF TypeOK
<1>7. \A e \in Entries : vectors'[e] # vectors[e] =>
         e \in op[o].stable /\ Held(o, e) /\ vectors'[e] = 0
  BY <1>1, <1>2 DEF Holds
<1>8. \A e \in op[o].need : Answers(o, e)'
  BY <1>3 DEF Answers
<1>9. \A e \in Entries : Answers(o, e) => e \in op[o].need
  BY <1>1 DEF Answers
<1>10. Bare' \cup Haunted' \subseteq Entries
  BY DEF Bare, Haunted
<1>11. Acts(o)
  BY <1>1, <1>2, <1>5, <1>7, <1>8, <1>9, <1>10 DEF Acts
<1> QED BY <1>5, <1>6, <1>11, ActsKeep

LEMMA ErrorMarksKeeps ==
    ASSUME VectorsInv, NEW o \in Ops, ErrorMarks(o)
    PROVE  VectorsInv'
<1>1. /\ TypeOK /\ Sound(o) /\ op[o].goal = "mark" /\ Holds(o) /\ Ends(o)
      /\ UNCHANGED <<vectors, jobs, stamp>>
      /\ GivesUpOn(op[o].need)
  BY DEF VectorsInv, ErrorMarks
<1>2. PICK stable \in SUBSET op[o].stable :
         /\ Filter(o, op[o].stable, stable)
         /\ entry' = Marked(stable, "error")
  BY DEF ErrorMarks
<1>3. /\ op[o].need \in SUBSET Entries /\ op[o].stable \in SUBSET op[o].need
      /\ "error" \in Statuses
  BY <1>1, SeenTyped DEF Sound, Disciplined, Statuses
<1>4. /\ entry' \in [Entries -> [row: Rows, status: Statuses]]
      /\ \A e \in Entries : /\ entry'[e].row = entry[e].row
                            /\ e \in stable => entry'[e].status = "error"
                            /\ e \notin stable => entry'[e] = entry[e]
  BY <1>1, <1>2, <1>3, MarkedTyped
<1>5. Moves(o) /\ Sound(o)'
  BY <1>1, EndsMoves DEF Ends
<1>6. /\ lost' \subseteq Entries
      /\ \A e \in Bare' \cup Haunted' : e \in lost \cup op[o].need => e \in lost'
  BY <1>1, <1>3, GivesUp DEF TypeOK
<1>7. Trouble \/ UNCHANGED troubles
  BY <1>2 DEF Filter
<1>8. TypeOK'
  BY <1>1, <1>4, <1>5, <1>6, <1>7, WritesTyped DEF TypeOK
<1>9. \A e \in Entries : entry'[e] # entry[e] =>
         e \in op[o].need /\ Held(o, e) /\ entry'[e].status = "error"
  BY <1>1, <1>2, <1>3, <1>4 DEF Holds
<1>10. \A e \in Entries : Answers(o, e) => e \in op[o].need
  BY <1>1 DEF Answers
<1>11. Bare' \cup Haunted' \subseteq Entries
  BY DEF Bare, Haunted
<1>12. Acts(o)
  BY <1>1, <1>4, <1>5, <1>6, <1>9, <1>10, <1>11 DEF Acts
<1> QED BY <1>5, <1>8, <1>12, ActsKeep

LEMMA ForgottenTyped ==
    ASSUME TypeOK, NEW e \in Entries
    PROVE  /\ Forgotten(e) \in [Entries -> Stamps]
           /\ Forgotten(e)[e] = 0
           /\ \A f \in Entries \ {e} : Forgotten(e)[f] = vectors[f]
  BY ZeroStamp DEF TypeOK, Forgotten

LEMMA ClearsKeeps ==
    ASSUME VectorsInv, NEW o \in Ops, NEW e \in Entries, Clears(o, e)
    PROVE  VectorsInv'
<1> DEFINE S == Batch(o) \ {e}
           seen == [f \in S |-> op[o].seen[f]]
<1>1. /\ TypeOK /\ Sound(o) /\ op[o].goal = "clear" /\ op[o].need = {e}
      /\ Held(o, e)
      /\ vectors' = Forgotten(e)
      /\ entry' = IF Exists(e) THEN Marked({e}, "not_enabled") ELSE entry
      /\ locks' = Freed(o)
      /\ op' = [op EXCEPT ![o] = IF Batch(o) = {e} THEN NoOp
                                 ELSE Op("reindex", "check", {}, seen)]
      /\ UNCHANGED <<jobs, stamp, troubles>>
      /\ GivesUpOn({})
  BY DEF VectorsInv, Clears, Holds
<1>2. /\ vectors' \in [Entries -> Stamps] /\ vectors'[e] = 0
      /\ \A f \in Entries \ {e} : vectors'[f] = vectors[f]
  BY <1>1, ForgottenTyped
<1>3. "not_enabled" \in Statuses
  BY DEF Statuses
<1>4. /\ entry' \in [Entries -> [row: Rows, status: Statuses]]
      /\ \A f \in Entries : entry'[f].row = entry[f].row
      /\ \A f \in Entries \ {e} : entry'[f] = entry[f]
      /\ entry'[e] = entry[e] \/ entry'[e].status = "not_enabled"
      /\ ~On(e)' \/ entry'[e].status = "not_enabled"
  <2>1. CASE Exists(e)
    BY <1>1, <1>3, <2>1, MarkedTyped
  <2>2. CASE ~Exists(e)
    BY <1>1, <2>2 DEF TypeOK, On, Exists
  <2> QED BY <2>1, <2>2
<1>5. Moves(o) /\ Sound(o)'
  <2>1. CASE Batch(o) = {e}
    BY <1>1, <2>1, EndsMoves
  <2>2. CASE Batch(o) # {e}
    <3>1. S # {} /\ S \in SUBSET Batch(o)
      BY <1>1, <2>2 DEF Sound, Disciplined
    <3>2. seen \in Readings
      BY <1>1, <3>1, PartTyped
    <3>3. /\ DOMAIN seen = S
          /\ \A f \in S : seen[f].stamp \in 1..stamp'
      BY <1>1, <3>1, SeenStamps
    <3>4. op' = [op EXCEPT ![o] = Op("reindex", "check", {}, seen)]
      BY <1>1, <2>2
    <3> HIDE DEF seen, S
    <3>5. "reindex" \in Goals /\ "check" \in Steps /\ {} \in SUBSET Entries
      BY DEF Goals, Steps
    <3>6. Op("reindex", "check", {}, seen) \in Operations
      BY <3>2, <3>5, OpTyped
    <3>7. /\ op' \in [Ops -> Operations]
          /\ op'[o] = Op("reindex", "check", {}, seen)
          /\ \A p \in Ops \ {o} : op'[p] = op[p]
      BY <1>1, <3>4, <3>6 DEF TypeOK
    <3>8. /\ Keeps(locks', o)
          /\ \A f \in Entries : o \notin ToSet(locks'[f])
      BY <1>1, EndsLocks
    <3>9. Moves(o)
      BY <3>7, <3>8, AheadStands DEF Moves
    <3>10. Sound(o)'
      BY <3>1, <3>3, <3>7, <3>8, ReadsSound
    <3> QED BY <3>9, <3>10
  <2> QED BY <2>1, <2>2
<1>6. /\ lost' \subseteq Entries
      /\ \A f \in Bare' \cup Haunted' : f \in lost => f \in lost'
  BY <1>1, GivesUp DEF TypeOK
<1>7. TypeOK'
  BY <1>1, <1>2, <1>4, <1>5, <1>6, WritesTyped DEF TypeOK
<1>8. e \notin Bare' \cup Haunted'
  BY <1>2, <1>4 DEF Bare, Haunted
<1>9. \A f \in Entries : ~Answers(o, f)
  BY <1>1 DEF Answers
<1>10. Bare' \cup Haunted' \subseteq Entries
  BY DEF Bare, Haunted
<1>11. Acts(o)
  BY <1>1, <1>2, <1>4, <1>5, <1>6, <1>8, <1>9, <1>10 DEF Acts
<1> QED BY <1>5, <1>7, <1>11, ActsKeep

LEMMA DropsKeeps ==
    ASSUME VectorsInv, NEW o \in Ops, NEW e \in Entries, Drops(o, e)
    PROVE  VectorsInv'
<1>1. /\ TypeOK /\ Sound(o) /\ op[o].goal = "drop" /\ op[o].need = {e}
      /\ Held(o, e) /\ Ends(o)
      /\ vectors' = Forgotten(e)
      /\ UNCHANGED <<entry, jobs, stamp, troubles>>
      /\ GivesUpOn({})
  BY DEF VectorsInv, Drops, Holds
<1>2. /\ vectors' \in [Entries -> Stamps] /\ vectors'[e] = 0
      /\ \A f \in Entries \ {e} : vectors'[f] = vectors[f]
  BY <1>1, ForgottenTyped
<1>3. Moves(o) /\ Sound(o)'
  BY <1>1, EndsMoves DEF Ends
<1>4. /\ lost' \subseteq Entries
      /\ \A f \in Bare' \cup Haunted' : f \in lost => f \in lost'
  BY <1>1, GivesUp DEF TypeOK
<1>5. TypeOK'
  BY <1>1, <1>2, <1>3, <1>4, WritesTyped DEF TypeOK
<1>6. e \notin Bare' \cup Haunted'
  BY <1>1, <1>2 DEF Sound, DropsFirst, Bare, Haunted
<1>7. \A f \in Entries : Answers(o, f) => f = e
  BY <1>1 DEF Answers
<1>8. Bare' \cup Haunted' \subseteq Entries
  BY DEF Bare, Haunted
<1>9. Acts(o)
  BY <1>1, <1>2, <1>3, <1>4, <1>6, <1>7, <1>8 DEF Acts
<1> QED BY <1>3, <1>5, <1>9, ActsKeep

LEMMA DeleteErasesKeeps ==
    ASSUME VectorsInv, NEW o \in Ops, NEW e \in Entries, DeleteErases(o, e)
    PROVE  VectorsInv'
<1>1. /\ TypeOK /\ Sound(o) /\ op[o].goal = "delete" /\ op[o].need = {e}
      /\ Holds(o) /\ Held(o, e) /\ StepsTo(o, "remove", {})
      /\ vectors' = Forgotten(e)
      /\ UNCHANGED <<entry, jobs, stamp, troubles>>
      /\ GivesUpOn({})
  BY DEF VectorsInv, DeleteErases, Holds
<1>2. /\ vectors' \in [Entries -> Stamps] /\ vectors'[e] = 0
      /\ \A f \in Entries \ {e} : vectors'[f] = vectors[f]
  BY <1>1, ForgottenTyped
<1>3. "remove" \in Steps \ {"check"} /\ {} \in SUBSET Entries
      /\ {} \in SUBSET op[o].need
  BY DEF Steps
<1>4. /\ op'[o].goal = "delete" /\ op'[o].need = {e} /\ op'[o].stable = {}
  BY <1>1, <1>3, StepsToMoves
<1>5. Guarded(o)'
  BY <1>2, <1>4 DEF Guarded
<1>6. Moves(o) /\ Sound(o)'
  BY <1>1, <1>3, <1>5, SteppedSound
<1>7. /\ lost' \subseteq Entries
      /\ \A f \in Bare' \cup Haunted' : f \in lost => f \in lost'
  BY <1>1, GivesUp DEF TypeOK
<1>8. TypeOK'
  BY <1>1, <1>2, <1>6, <1>7, WritesTyped DEF TypeOK
<1>9. Answers(o, e)' /\ \A f \in Entries : Answers(o, f) => f = e
  BY <1>1, <1>4 DEF Answers
<1>10. Bare' \cup Haunted' \subseteq Entries
  BY DEF Bare, Haunted
<1>11. Acts(o)
  BY <1>1, <1>2, <1>6, <1>7, <1>9, <1>10 DEF Acts
<1> QED BY <1>6, <1>8, <1>11, ActsKeep

LEMMA DeleteRemovesKeeps ==
    ASSUME VectorsInv, NEW o \in Ops, NEW e \in Entries, DeleteRemoves(o, e)
    PROVE  VectorsInv'
<1> DEFINE gone == [entry EXCEPT ![e].row =
                      [stamp |-> 0, content |-> 0, on |-> FALSE]]
<1>1. /\ TypeOK /\ Sound(o) /\ op[o].goal = "delete" /\ op[o].step = "remove"
      /\ Batch(o) = {e} /\ Ends(o)
      /\ UNCHANGED <<vectors, jobs, stamp, troubles>>
      /\ \/ entry' = gone /\ GivesUpOn({})
         \/ entry' = entry /\ GivesUpOn({e})
  BY DEF VectorsInv, DeleteRemoves
<1>2. op[o].need = {e} /\ vectors[e] = 0
  BY <1>1 DEF Sound, Disciplined, Guarded
<1>3. /\ gone \in [Entries -> [row: Rows, status: Statuses]]
      /\ gone[e].row = [stamp |-> 0, content |-> 0, on |-> FALSE]
      /\ gone[e].status = entry[e].status
      /\ \A f \in Entries \ {e} : gone[f] = entry[f]
  <2>1. [stamp |-> 0, content |-> 0, on |-> FALSE] \in Rows
    BY ZeroStamp DEF Rows
  <2>2. entry \in [Entries -> [row: Rows, status: Statuses]]
    BY <1>1 DEF TypeOK
  <2> QED BY <2>1, <2>2
<1>4. gone[e].row.stamp = 0
  BY <1>3
<1> HIDE DEF gone
<1>5. Moves(o) /\ Sound(o)'
  BY <1>1, EndsMoves DEF Ends
<1>6. /\ lost' \subseteq Entries
      /\ \A f \in Bare' \cup Haunted' : f \in lost => f \in lost'
      /\ entry' = entry => \A f \in Bare' \cup Haunted' : f = e => f \in lost'
  <2>1. {} \in SUBSET Entries /\ {e} \in SUBSET Entries /\ lost \subseteq Entries
    BY <1>1 DEF TypeOK
  <2>2. CASE entry' = entry /\ GivesUpOn({e})
    BY <2>1, <2>2, GivesUp
  <2>3. CASE entry' = gone /\ GivesUpOn({})
    <3>1. /\ lost' \subseteq Entries
          /\ \A f \in Bare' \cup Haunted' : f \in lost => f \in lost'
      BY <2>1, <2>3, GivesUp
    <3>2. e \notin Bare' \cup Haunted'
      BY <1>1, <1>2, <1>4, <2>3 DEF Bare, Haunted, On, Exists
    <3> QED BY <3>1, <3>2
  <2> QED BY <1>1, <2>2, <2>3
<1>7. TypeOK'
  BY <1>1, <1>3, <1>5, <1>6, WritesTyped DEF TypeOK
<1>8. entry' = gone => e \notin Bare' \cup Haunted'
  BY <1>1, <1>2, <1>4 DEF Bare, Haunted, On, Exists
<1>9. \A f \in Entries : Answers(o, f) => f = e
  BY <1>1, <1>2 DEF Answers
<1>10. Bare' \cup Haunted' \subseteq Entries
  BY DEF Bare, Haunted
<1>11. /\ \A f \in Entries \ {e} : entry'[f] = entry[f]
       /\ \/ entry'[e] = entry[e]
          \/ entry'[e].row.stamp = 0 /\ entry'[e].status = entry[e].status
       /\ e \in Bare' \cup Haunted' => e \in lost'
  BY <1>1, <1>3, <1>4, <1>6, <1>8
<1>12. Acts(o)
  BY <1>1, <1>5, <1>6, <1>9, <1>10, <1>11 DEF Acts
<1> QED BY <1>5, <1>7, <1>12, ActsKeep

-----------------------------------------------------------------------------
(* Updates, the sweep and crashes                                          *)

\* An update stamps the row anew, and either the entry is not indexed any more
\* or nothing that is embedded has changed.
Updates(e, row, status) ==
    /\ Update(e, row, status)
    /\ row \in Rows /\ status \in Statuses /\ row.stamp = stamp + 1
    /\ \/ status # "indexed"
       \/ /\ status = entry[e].status
          /\ row.content = entry[e].row.content /\ row.on = entry[e].row.on

LEMMA UpdateFacts ==
    ASSUME VectorsInv, NEW e \in Entries, NEW row, NEW status,
           Updates(e, row, status)
    PROVE  /\ entry' \in [Entries -> [row: Rows, status: Statuses]]
           /\ entry'[e].row = row /\ entry'[e].status = status
           /\ \A f \in Entries \ {e} : entry'[f] = entry[f]
           /\ vectors' = vectors /\ troubles' = troubles
           /\ stamp' = stamp + 1 /\ stamp' \in Stamps /\ stamp \in Nat
           /\ lost' \subseteq Entries
           /\ \A f \in Bare' \cup Haunted' : f \in lost => f \in lost'
<1>1. /\ stamp' = stamp + 1 /\ stamp < MaxStamp
      /\ entry' = [entry EXCEPT ![e] = [row |-> row, status |-> status]]
      /\ vectors' = vectors /\ troubles' = troubles /\ GivesUpOn({})
      /\ row \in Rows /\ status \in Statuses
  BY DEF Updates, Update
<1>2. /\ entry \in [Entries -> [row: Rows, status: Statuses]]
      /\ stamp \in 0..MaxStamp /\ MaxStamp \in Nat /\ lost \subseteq Entries
  BY WorldBookAssumption DEF VectorsInv, TypeOK, Stamps, WorldBookAssumption
<1>3. stamp' \in Stamps /\ stamp \in Nat
  BY <1>1, <1>2 DEF Stamps
<1>4. /\ lost' \subseteq Entries
      /\ \A f \in Bare' \cup Haunted' : f \in lost => f \in lost'
  BY <1>1, <1>2, GivesUp
<1> QED BY <1>1, <1>2, <1>3, <1>4

\* An update spares every operation whose place and progress it leaves alone.
LEMMA UpdateSpares ==
    ASSUME VectorsInv, TypeOK', NEW e \in Entries, NEW row, NEW status,
           Updates(e, row, status), NEW p \in Ops, op'[p] = op[p],
           \A f \in Entries : Held(p, f) => Held(p, f)',
           \A f \in Entries : p \in ToSet(locks'[f]) <=> p \in ToSet(locks[f]),
           \A f \in Entries, x \in Ops : Ahead(locks'[f], x, p) =>
              Ahead(locks[f], x, p) /\ op'[x].seen = op[x].seen
    PROVE  Sound(p)'
<1>1. TypeOK /\ (\A x \in Ops : Sound(x)) /\ Sound(p)
  BY DEF VectorsInv
<1>2. /\ entry'[e].row = row /\ entry'[e].status = status
      /\ \A f \in Entries \ {e} : entry'[f] = entry[f]
      /\ vectors' = vectors
      /\ stamp' = stamp + 1 /\ stamp \in Nat
  BY UpdateFacts
<1>3. stamp <= stamp'
  BY <1>2
<1>4. \A f \in Entries : Held(p, f) => Held(p, f)' /\ vectors'[f] = vectors[f]
  BY <1>2
<1>5. \A f \in Entries : entry'[f].row.stamp \in {entry[f].row.stamp, 0}
                            \/ entry'[f].row.stamp > stamp
  <2>1. entry'[e].row.stamp > stamp
    BY <1>2 DEF Updates
  <2> QED BY <1>2, <2>1
<1>6. ASSUME NEW f \in Entries, entry'[f].status = "indexed"
      PROVE  /\ entry[f].status = "indexed"
             /\ On(f)' => /\ On(f)
                          /\ entry'[f].row.content = entry[f].row.content
  <2>1. CASE f # e
    BY <1>2, <1>6, <2>1 DEF On, Exists
  <2>2. CASE f = e
    BY <1>2, <1>6, <2>2 DEF Updates, Update, On, Exists
  <2> QED BY <2>1, <2>2
<1> QED BY <1>1, <1>3, <1>4, <1>5, <1>6, Undisturbed

\* If nothing is wrong with the entry that was not before, or the operation
\* set up for it answers for it, the rest of the invariant holds too.
LEMMA UpdateKeeps ==
    ASSUME VectorsInv, TypeOK', NEW e \in Entries, NEW row, NEW status,
           Updates(e, row, status), \A p \in Ops : Sound(p)',
           \A p \in Ops : op'[p] = op[p] \/ \A f \in Entries : ~Answers(p, f),
           \/ e \in Bare' \cup Haunted' => e \in Bare \cup Haunted
           \/ \E p \in Ops : Answers(p, e)'
    PROVE  VectorsInv'
<1>1. /\ entry'[e].row = row /\ entry'[e].status = status
      /\ \A f \in Entries \ {e} : entry'[f] = entry[f]
      /\ vectors' = vectors
      /\ stamp' = stamp + 1 /\ stamp \in Nat
      /\ \A f \in Bare' \cup Haunted' : f \in lost => f \in lost'
  BY UpdateFacts
<1>2. \A f \in Entries : entry'[f].row.stamp <= stamp'
  <2>1. \A f \in Entries : entry[f].row.stamp \in Nat /\ entry[f].row.stamp <= stamp
    <3>1. \A f \in Entries : entry[f].row \in Rows /\ entry[f].row.stamp <= stamp
      BY DEF VectorsInv, TypeOK
    <3>2. \A x \in Rows : x.stamp \in Nat
      BY WorldBookAssumption DEF Rows, Stamps, WorldBookAssumption
    <3> QED BY <3>1, <3>2
  <2>2. entry'[e].row.stamp = stamp'
    BY <1>1 DEF Updates
  <2> QED BY <1>1, <2>1, <2>2
<1>3. NeverFoundByOldText'
  <2> SUFFICES ASSUME NEW f \in Entries, On(f)', entry'[f].status = "indexed"
               PROVE  vectors'[f] \in {0, entry'[f].row.content}
    BY DEF NeverFoundByOldText
  <2>1. CASE f # e
    BY <1>1, <2>1 DEF VectorsInv, NeverFoundByOldText, On, Exists
  <2>2. CASE f = e
    BY <1>1, <2>2 DEF VectorsInv, NeverFoundByOldText, Updates, Update, On, Exists
  <2> QED BY <2>1, <2>2
<1>4. Accounted'
  <2> SUFFICES ASSUME NEW f \in Bare' \cup Haunted', f \notin lost'
               PROVE  \E p \in Ops : Answers(p, f)'
    BY DEF Accounted
  <2>1. f \in Entries /\ f \notin lost
    BY <1>1 DEF Bare, Haunted
  <2>2. CASE f \in Bare \cup Haunted
    <3>1. PICK p \in Ops : Answers(p, f)
      BY <2>1, <2>2 DEF VectorsInv, Accounted
    <3> QED BY <2>1, <3>1 DEF Answers
  <2>3. CASE f \notin Bare \cup Haunted
    <3>1. f = e
      BY <1>1, <2>1, <2>3 DEF Bare, Haunted, On, Exists
    <3> QED BY <2>3, <3>1
  <2> QED BY <2>2, <2>3
<1> QED BY <1>2, <1>3, <1>4 DEF VectorsInv

\* An update that sets up nothing.
LEMMA PlainUpdateKeeps ==
    ASSUME VectorsInv, NEW e \in Entries, NEW row, NEW status,
           Updates(e, row, status),
           jobs' \in [Entries -> {"none", "plain", "forced"}],
           UNCHANGED <<op, locks>>,
           e \in Bare' \cup Haunted' => e \in Bare \cup Haunted
    PROVE  VectorsInv'
<1>1. TypeOK'
  <2>1. /\ entry' \in [Entries -> [row: Rows, status: Statuses]]
        /\ vectors' = vectors /\ troubles' = troubles
        /\ stamp' \in Stamps /\ lost' \subseteq Entries
    BY UpdateFacts
  <2> QED BY <2>1 DEF VectorsInv, TypeOK, Stamps
<1>2. \A p \in Ops : Sound(p)'
  <2> SUFFICES ASSUME NEW p \in Ops
               PROVE  Sound(p)'
    OBVIOUS
  <2>1. \A f \in Entries : Held(p, f) => Held(p, f)'
    BY DEF Held
  <2>2. \A f \in Entries : p \in ToSet(locks'[f]) <=> p \in ToSet(locks[f])
    OBVIOUS
  <2>3. \A f \in Entries, x \in Ops : Ahead(locks'[f], x, p) =>
           Ahead(locks[f], x, p) /\ op'[x].seen = op[x].seen
    OBVIOUS
  <2>4. op'[p] = op[p]
    OBVIOUS
  <2> QED BY <1>1, <2>1, <2>2, <2>3, <2>4, UpdateSpares
<1> QED BY <1>1, <1>2, UpdateKeeps

LEMMA QueuedTyped ==
    ASSUME TypeOK, NEW e \in Entries, NEW job \in {"plain", "forced"}
    PROVE  Queued(e, job) \in [Entries -> {"none", "plain", "forced"}]
  BY DEF TypeOK, Queued

\* The stamp of an update is one.
LEMMA NextStamp ==
    ASSUME VectorsInv, stamp < MaxStamp
    PROVE  stamp + 1 \in Stamps /\ stamp + 1 # 0
  BY WorldBookAssumption DEF VectorsInv, TypeOK, Stamps, WorldBookAssumption

LEMMA EditKeeps ==
    ASSUME VectorsInv, NEW e \in Entries, Edit(e)
    PROVE  VectorsInv'
<1> DEFINE row == [stamp |-> stamp + 1, content |-> stamp + 1, on |-> TRUE]
<1>1. /\ Update(e, row, "pending")
      /\ jobs' = Queued(e, "forced")
      /\ UNCHANGED <<op, locks>>
  BY DEF Edit
<1>2. row \in Rows /\ row.stamp = stamp + 1 /\ row.stamp # 0 /\ row.on
  BY <1>1, NextStamp DEF Update, Rows
<1> HIDE DEF row
<1>3. Updates(e, row, "pending")
  BY <1>1, <1>2 DEF Updates, Statuses
<1>4. entry'[e].row = row /\ entry'[e].status = "pending"
  BY <1>3, UpdateFacts
<1>5. e \notin Bare' \cup Haunted'
  BY <1>2, <1>4 DEF Bare, Haunted, On, Exists
<1>6. jobs' \in [Entries -> {"none", "plain", "forced"}]
  BY <1>1, QueuedTyped DEF VectorsInv
<1> QED BY <1>1, <1>3, <1>5, <1>6, PlainUpdateKeeps

\* An update of a field that is not embedded.
LEMMA StampKeeps ==
    ASSUME VectorsInv, NEW e \in Entries,
           Update(e, [entry[e].row EXCEPT !.stamp = stamp + 1], entry[e].status),
           jobs' \in [Entries -> {"none", "plain", "forced"}],
           UNCHANGED <<op, locks>>
    PROVE  VectorsInv'
<1> DEFINE row == [entry[e].row EXCEPT !.stamp = stamp + 1]
           status == entry[e].status
<1>1. entry[e].row \in Rows /\ status \in Statuses
  BY DEF VectorsInv, TypeOK
<1>2. /\ row \in Rows /\ row.stamp = stamp + 1 /\ row.stamp # 0
      /\ row.content = entry[e].row.content /\ row.on = entry[e].row.on
      /\ Exists(e) /\ Update(e, row, status)
  BY <1>1, NextStamp DEF Update, Rows
<1> HIDE DEF row
<1>3. Updates(e, row, status)
  BY <1>1, <1>2 DEF Updates
<1> HIDE DEF status
<1>4. entry'[e].row = row /\ entry'[e].status = status /\ vectors' = vectors
  BY <1>3, UpdateFacts
<1>5. e \in Bare' \cup Haunted' => e \in Bare \cup Haunted
  BY <1>2, <1>4 DEF Bare, Haunted, On, Exists, status
<1> QED BY <1>3, <1>5, PlainUpdateKeeps

LEMMA TurnOffKeeps ==
    ASSUME VectorsInv, NEW e \in Entries, NEW d \in Droppers, TurnOff(e, d)
    PROVE  VectorsInv'
<1> DEFINE row == [stamp |-> stamp + 1, content |-> stamp + 1, on |-> FALSE]
<1>1. /\ TypeOK /\ Idle(d) /\ d \in Ops
      /\ Update(e, row, "not_enabled")
      /\ GoesOn(d, "drop", "erase", {e}, <<>>)
      /\ jobs' = jobs
  BY DEF VectorsInv, TurnOff, Ops
<1>2. row \in Rows /\ row.stamp = stamp + 1
  BY <1>1, NextStamp DEF Update, Rows
<1> HIDE DEF row
<1>3. Updates(e, row, "not_enabled")
  BY <1>1, <1>2 DEF Updates, Statuses
<1>4. /\ entry' \in [Entries -> [row: Rows, status: Statuses]]
      /\ entry'[e].row = row /\ entry'[e].status = "not_enabled"
      /\ vectors' = vectors /\ troubles' = troubles
      /\ stamp' = stamp + 1 /\ stamp' \in Stamps /\ stamp \in Nat
      /\ lost' \subseteq Entries
  BY <1>3, UpdateFacts
<1>5. /\ <<>> \in Readings /\ DOMAIN <<>> = {}
      /\ "drop" \in Goals /\ "erase" \in Steps
  <2>1. NoOp.seen = <<>> /\ NoOp \in Operations
    BY NoOpTyped DEF NoOp, Op
  <2> QED BY <2>1, NoOpTyped DEF Operations, Goals, Steps
<1>6. /\ Moves(d)
      /\ op'[d] = Op("drop", "erase", {e}, <<>>)
      /\ \A f \in Entries : d \in ToSet(locks'[f]) => f = e
      /\ d \in ToSet(locks'[e])
  <2>1. TypeOK /\ GoesOn(d, "drop", "erase", {e}, <<>>)
    BY <1>1
  <2> QED BY <1>1, <1>5, <2>1, GoesOnMovesOne
<1>7. /\ op' \in [Ops -> Operations]
      /\ Keeps(locks', d)
      /\ \A p \in Ops \ {d} : op'[p] = op[p]
      /\ \A f \in Entries : \A p \in Ops \ {d} :
            Ahead(locks'[f], d, p) => op'[d].seen = op[d].seen
  BY <1>6 DEF Moves
<1>8. TypeOK'
  BY <1>1, <1>4, <1>7 DEF TypeOK, Keeps, Stamps
<1>9. ASSUME NEW p \in Ops \ {d}
      PROVE  Sound(p)'
  <2>1. \A f \in Entries : Held(p, f) => Held(p, f)'
    BY <1>1, <1>7, HeldKept
  <2>2. \A f \in Entries : p \in ToSet(locks'[f]) <=> p \in ToSet(locks[f])
    BY <1>7 DEF Keeps
  <2>3. \A f \in Entries, x \in Ops : Ahead(locks'[f], x, p) =>
           Ahead(locks[f], x, p) /\ op'[x].seen = op[x].seen
    BY <1>7 DEF Keeps
  <2>4. op'[p] = op[p]
    BY <1>7
  <2> QED BY <1>3, <1>8, <2>1, <2>2, <2>3, <2>4, UpdateSpares
<1>10. /\ op'[d].goal = "drop" /\ op'[d].step = "erase" /\ op'[d].need = {e}
       /\ op'[d].stable = {} /\ DOMAIN op'[d].seen = {}
  BY <1>5, <1>6 DEF Op
<1>11. Sound(d)'
  <2>1. Disciplined(d)'
    BY <1>6, <1>10 DEF Disciplined, Inside, Batch
  <2>2. Remembers(d)' /\ Guarded(d)'
    BY <1>10 DEF Remembers, Guarded, Batch
  <2>3. ASSUME NEW p \in Ops, Ahead(locks'[e], p, d), e \in DOMAIN op'[p].seen
        PROVE  entry'[e].row.stamp # op'[p].seen[e].stamp
    <3>1. p # d /\ op'[p] = op[p]
      BY <1>7, <1>10, <2>3
    <3>2. op[p].seen[e].stamp \in 1..stamp
      BY <2>3, <3>1, SeenStamps DEF Batch
    <3> QED BY <1>2, <1>4, <3>1, <3>2
  <2>4. DropsFirst(d)'
    BY <1>4, <1>6, <1>10, <2>3 DEF DropsFirst, Batch
  <2> QED BY <2>1, <2>2, <2>4 DEF Sound
<1>12. Answers(d, e)'
  BY <1>10 DEF Answers
<1>13. \A p \in Ops : op'[p] = op[p] \/ \A f \in Entries : ~Answers(p, f)
  BY <1>1, <1>7, IdleFacts
<1>14. \A p \in Ops : Sound(p)'
  BY <1>9, <1>11
<1> QED BY <1>1, <1>3, <1>8, <1>12, <1>13, <1>14, UpdateKeeps

\* A step that changes nothing but the jobs.
LEMMA JobsKeep ==
    ASSUME VectorsInv, jobs' \in [Entries -> {"none", "plain", "forced"}],
           UNCHANGED <<entry, vectors, op, locks, stamp, troubles, lost>>
    PROVE  VectorsInv'
  BY DEF VectorsInv, TypeOK, Stamps, Sound, Disciplined, Inside,
     Remembers, Guarded, DropsFirst, Batch, Held, On, Exists, Accounted, Bare,
     Haunted, Answers, NeverFoundByOldText

LEMMA SweepKeeps ==
    ASSUME VectorsInv, NEW e \in Entries, Sweep(e)
    PROVE  VectorsInv'
<1>1. /\ jobs' = Queued(e, "plain")
      /\ UNCHANGED <<entry, vectors, op, locks, stamp, troubles, lost>>
  BY DEF Sweep
<1>2. jobs' \in [Entries -> {"none", "plain", "forced"}]
  BY <1>1, QueuedTyped DEF VectorsInv
<1> QED BY <1>1, <1>2, JobsKeep

\* Operations that are gone, or not begun, are sound.
LEMMA NoneSound ==
    ASSUME NEW o \in Ops, op[o] = NoOp, \A e \in Entries : locks[e] = <<>>
    PROVE  Sound(o)
<1>1. /\ op[o].goal = "none" /\ op[o].step = "check" /\ op[o].need = {}
      /\ op[o].stable = {} /\ DOMAIN op[o].seen = {}
  BY NoOpTyped DEF NoOp, Op
<1>2. \A e \in Entries : o \notin ToSet(locks[e])
  BY DEF ToSet
<1>3. Disciplined(o)
  BY <1>1, <1>2 DEF Disciplined, Inside
<1>4. Remembers(o) /\ Guarded(o) /\ DropsFirst(o)
  BY <1>1 DEF Remembers, Guarded, DropsFirst, Batch
<1> QED BY <1>3, <1>4 DEF Sound

LEMMA CrashKeeps ==
    ASSUME VectorsInv, Crash
    PROVE  VectorsInv'
<1>1. /\ TypeOK /\ Trouble
      /\ jobs' = [e \in Entries |-> "none"]
      /\ op' = [o \in Ops |-> NoOp]
      /\ locks' = [e \in Entries |-> <<>>]
      /\ UNCHANGED <<entry, vectors, stamp>>
      /\ GivesUpOn(Entries)
  BY DEF VectorsInv, Crash
<1>2. /\ lost' \subseteq Entries
      /\ \A e \in Bare' \cup Haunted' : e \in lost \cup Entries => e \in lost'
  BY <1>1, GivesUp DEF TypeOK
<1>3. TypeOK'
  <2>1. op' \in [Ops -> Operations]
    BY <1>1, NoOpTyped
  <2>2. locks' \in [Entries -> Seq(Ops)] /\ \A e \in Entries : IsInjective(locks'[e])
    BY <1>1 DEF IsInjective
  <2>3. troubles' \in 0..MaxTroubles
    BY <1>1, TroublesTyped
  <2> QED BY <1>1, <1>2, <2>1, <2>2, <2>3 DEF TypeOK, Stamps
<1>4. \A o \in Ops : Sound(o)'
  <2>1. ASSUME NEW o \in Ops PROVE Sound(o)'
    <3>1. /\ op'[o].goal = "none" /\ op'[o].step = "check" /\ op'[o].need = {}
          /\ op'[o].stable = {} /\ DOMAIN op'[o].seen = {}
      BY <1>1, NoOpTyped DEF NoOp, Op
    <3>2. \A e \in Entries : o \notin ToSet(locks'[e])
      BY <1>1 DEF ToSet
    <3>3. Disciplined(o)'
      BY <3>1, <3>2 DEF Disciplined, Inside
    <3>4. Remembers(o)' /\ Guarded(o)' /\ DropsFirst(o)'
      BY <3>1 DEF Remembers, Guarded, DropsFirst, Batch
    <3> QED BY <3>3, <3>4 DEF Sound
  <2> QED BY <2>1
<1>5. NeverFoundByOldText' /\ \A e \in Entries : entry'[e].row.stamp <= stamp'
  BY <1>1 DEF VectorsInv, NeverFoundByOldText, On, Exists
<1>6. Accounted'
  <2>1. Bare' \cup Haunted' \subseteq Entries
    BY DEF Bare, Haunted
  <2> QED BY <1>2, <2>1 DEF Accounted
<1> QED BY <1>3, <1>4, <1>5, <1>6 DEF VectorsInv

LEMMA AdjustKeeps ==
    ASSUME VectorsInv, NEW e \in Entries, Adjust(e)
    PROVE  VectorsInv'
<1>1. /\ Update(e, [entry[e].row EXCEPT !.stamp = stamp + 1], entry[e].status)
      /\ jobs' \in {jobs, Queued(e, "plain")}
      /\ UNCHANGED <<op, locks>>
  BY DEF Adjust
<1>2. /\ jobs \in [Entries -> {"none", "plain", "forced"}]
      /\ Queued(e, "plain") \in [Entries -> {"none", "plain", "forced"}]
  BY QueuedTyped DEF VectorsInv, TypeOK
<1>3. jobs' \in [Entries -> {"none", "plain", "forced"}]
  BY <1>1, <1>2
<1> QED BY <1>1, <1>3, StampKeeps

LEMMA OrganizeKeeps ==
    ASSUME VectorsInv, NEW e \in Entries, Organize(e)
    PROVE  VectorsInv'
<1>1. /\ Update(e, [entry[e].row EXCEPT !.stamp = stamp + 1], entry[e].status)
      /\ UNCHANGED <<op, locks>>
      /\ jobs' = jobs
  BY DEF Organize
<1>2. jobs' \in [Entries -> {"none", "plain", "forced"}]
  BY <1>1 DEF VectorsInv, TypeOK
<1> QED BY <1>1, <1>2, StampKeeps

-----------------------------------------------------------------------------
(* The invariant holds                                                     *)

LEMMA InitVectors == Init => VectorsInv
<1> SUFFICES ASSUME Init PROVE VectorsInv
  OBVIOUS
<1>1. /\ stamp = 1 /\ lost = {} /\ troubles = 0
      /\ vectors = [e \in Entries |-> 0]
      /\ op = [o \in Ops |-> NoOp] /\ locks = [e \in Entries |-> <<>>]
      /\ jobs = [e \in Entries |-> IF On(e) THEN "plain" ELSE "none"]
  BY DEF Init
<1>2. 0 \in Stamps /\ 1 \in Stamps /\ 0 \in 0..MaxTroubles
  BY WorldBookAssumption DEF WorldBookAssumption, Stamps
<1> DEFINE new == [row |-> [stamp |-> 1, content |-> 1, on |-> TRUE],
                  status |-> "pending"]
           off == [row |-> [stamp |-> 1, content |-> 1, on |-> FALSE],
                   status |-> "not_enabled"]
<1>3. /\ {new, off} \subseteq [row: Rows, status: Statuses]
      /\ \A x \in {new, off} :
            x.row.stamp = 1 /\ x.row.content = 1 /\ x.status # "indexed"
  <2>1. /\ [stamp |-> 1, content |-> 1, on |-> TRUE] \in Rows
        /\ [stamp |-> 1, content |-> 1, on |-> FALSE] \in Rows
    BY <1>2 DEF Rows
  <2> QED BY <2>1 DEF Statuses
<1>4. /\ entry \in [Entries -> [row: Rows, status: Statuses]]
      /\ \A e \in Entries : /\ entry[e].row.stamp = 1
                            /\ entry[e].row.content = 1
                            /\ entry[e].status # "indexed"
  <2>1. entry \in [Entries -> {new, off}]
    BY DEF Init
  <2> HIDE DEF new, off
  <2> QED BY <1>3, <2>1
<1>5. TypeOK
  <2>1. op \in [Ops -> Operations]
    BY <1>1, NoOpTyped
  <2>2. locks \in [Entries -> Seq(Ops)] /\ \A e \in Entries : IsInjective(locks[e])
    BY <1>1 DEF IsInjective
  <2>3. jobs \in [Entries -> {"none", "plain", "forced"}]
    BY <1>1
  <2> QED BY <1>1, <1>2, <1>4, <2>1, <2>2, <2>3 DEF TypeOK
<1>6. \A o \in Ops : Sound(o)
  BY <1>1, NoneSound
<1>7. NeverFoundByOldText /\ \A e \in Entries : entry[e].row.stamp <= stamp
  BY <1>1, <1>4 DEF NeverFoundByOldText
<1>8. Accounted
  BY <1>1, <1>4 DEF Accounted, Bare, Haunted
<1> QED BY <1>5, <1>6, <1>7, <1>8 DEF VectorsInv

LEMMA ProceedsKeeps ==
    ASSUME VectorsInv, NEW o \in Ops, Proceeds(o)
    PROVE  VectorsInv'
<1>1. CASE LockNext(o)
  BY <1>1, LockNextKeeps
<1>2. CASE Embedded(o)
  BY <1>2, EmbeddedKeeps
<1>3. CASE IndexFails(o)
  BY <1>3, IndexFailsKeeps
<1>4. CASE CommitChecks(o)
  BY <1>4, CommitChecksKeeps
<1>5. CASE CommitErases(o)
  BY <1>5, CommitErasesKeeps
<1>6. CASE CommitWrites(o)
  BY <1>6, CommitWritesKeeps
<1>7. CASE CommitMarks(o)
  BY <1>7, CommitMarksKeeps
<1>8. CASE CommitScrubs(o)
  BY <1>8, CommitScrubsKeeps
<1>9. CASE ErrorChecks(o)
  BY <1>9, ErrorChecksKeeps
<1>10. CASE ErrorErases(o)
  BY <1>10, ErrorErasesKeeps
<1>11. CASE ErrorMarks(o)
  BY <1>11, ErrorMarksKeeps
<1>12. ASSUME NEW e \in Entries,
              \/ ClearNext(o, e) \/ Clears(o, e) \/ ClearFails(o, e)
              \/ Drops(o, e) \/ DropFails(o, e)
              \/ DeleteErases(o, e) \/ DeleteRemoves(o, e)
       PROVE  VectorsInv'
  BY <1>12, ClearNextKeeps, ClearsKeeps, ClearFailsKeeps, DropsKeeps,
     DropFailsKeeps, DeleteErasesKeeps, DeleteRemovesKeeps
<1> QED BY <1>1, <1>2, <1>3, <1>4, <1>5, <1>6, <1>7, <1>8, <1>9, <1>10, <1>11,
           <1>12 DEF Proceeds

LEMMA StepVectors == VectorsInv /\ [Next]_vars => VectorsInv'
<1> SUFFICES ASSUME VectorsInv, [Next]_vars PROVE VectorsInv'
  OBVIOUS
<1>1. ASSUME NEW e \in Edited, Edit(e) \/ Organize(e) \/ Adjust(e)
      PROVE  VectorsInv'
  <2>1. e \in Entries
    BY WorldBookAssumption DEF WorldBookAssumption
  <2> QED BY <1>1, <2>1, EditKeeps, OrganizeKeeps, AdjustKeeps
<1>2. ASSUME NEW e \in Edited, NEW d \in Droppers, TurnOff(e, d)
      PROVE  VectorsInv'
  <2>1. e \in Entries
    BY WorldBookAssumption DEF WorldBookAssumption
  <2> QED BY <1>2, <2>1, TurnOffKeeps
<1>3. ASSUME NEW e \in Edited, NEW d \in Deleters, Delete(e, d)
      PROVE  VectorsInv'
  <2>1. e \in Entries
    BY WorldBookAssumption DEF WorldBookAssumption
  <2> QED BY <1>3, <2>1, DeleteKeeps
<1>4. ASSUME NEW e \in Entries, Sweep(e) PROVE VectorsInv'
  BY <1>4, SweepKeeps
<1>5. CASE WorkerTakes
  BY <1>5, TakeBatchKeeps DEF WorkerTakes
<1>6. ASSUME NEW o \in Routes, RouteReindexes(o) PROVE VectorsInv'
  BY <1>6, RouteReindexesKeeps
<1>7. ASSUME NEW o \in Ops, Proceeds(o) PROVE VectorsInv'
  BY <1>7, ProceedsKeeps
<1>8. CASE Crash
  BY <1>8, CrashKeeps
<1>9. CASE UNCHANGED vars
  <2>1. /\ UNCHANGED <<entry, vectors, op, locks, stamp, troubles, lost>>
        /\ jobs' = jobs
    BY <1>9 DEF vars
  <2>2. jobs' \in [Entries -> {"none", "plain", "forced"}]
    BY <2>1 DEF VectorsInv, TypeOK
  <2> QED BY <2>1, <2>2, JobsKeep
<1> QED BY <1>1, <1>2, <1>3, <1>4, <1>5, <1>6, <1>7, <1>8, <1>9 DEF Next

LEMMA Invariance == Spec => []VectorsInv
  BY InitVectors, StepVectors, PTL DEF Spec

-----------------------------------------------------------------------------
(* The theorems                                                            *)

\* Every variable keeps its type, and nobody stands twice in the queue of a
\* lock (withWorldBookEntryVectorLocks).
THEOREM TypeCorrect == Spec => []TypeOK
<1>1. VectorsInv => TypeOK
  BY DEF VectorsInv
<1> QED BY <1>1, Invariance, PTL

\* The search never finds an entry by a text it no longer has, whatever is
\* edited, turned off, reindexed, deleted, failed or restarted in between
\* (commitWorldBookVectorWritesIfCurrent compares under the locks).
THEOREM NeverByOldText == Spec => []NeverFoundByOldText
<1>1. VectorsInv => NeverFoundByOldText
  BY DEF VectorsInv
<1> QED BY <1>1, Invariance, PTL

\* At rest an indexed entry has its vectors and one that is off or deleted
\* has none, but for the entries that an operation is known to have given up.
THEOREM VectorsFollow == Spec => []VectorsFollowEntry
<1>1. ASSUME VectorsInv PROVE VectorsFollowEntry
  <2> SUFFICES ASSUME NEW e \in Bare \cup Haunted, AtRest(e), e \notin lost
               PROVE  FALSE
    BY DEF VectorsFollowEntry
  <2>1. PICK o \in Ops : Answers(o, e)
    BY <1>1 DEF VectorsInv, Accounted
  <2>2. op[o].stable \subseteq op[o].need
    BY <1>1 DEF VectorsInv, Sound, Disciplined
  <2>3. e \in op[o].need
    BY <2>1, <2>2 DEF Answers
  <2> QED BY <2>3 DEF AtRest
<1> QED BY <1>1, Invariance, PTL

\* A step that writes vectors is one of an operation that holds the entry's
\* lock.
LEMMA WritersHold ==
    ASSUME VectorsInv, NEW o \in Ops, Proceeds(o),
           NEW e \in Entries, vectors'[e] # vectors[e]
    PROVE  Held(o, e) /\ op'[o] # op[o]
<1>1. TypeOK /\ Disciplined(o) /\ op[o] \in Operations
  BY DEF VectorsInv, Sound, TypeOK
<1>2. vectors' # vectors
  OBVIOUS
<1>3. \A stable : op[o].stable = stable => stable \subseteq op[o].need
  BY <1>1 DEF Disciplined
<1>4. ASSUME NEW step, StepsTo(o, step, op[o].stable) \/ StepsTo(o, step, {}),
             step # op[o].step
      PROVE  op'[o] # op[o]
  <2>1. op \in [Ops -> Operations]
    BY <1>1 DEF TypeOK
  <2>2. op'[o].step = step
    BY <1>4, <2>1 DEF StepsTo, Operations
  <2> QED BY <1>4, <2>2
<1>5. ASSUME Ends(o), op[o].goal # "none"
      PROVE  op'[o] # op[o]
  <2>1. op \in [Ops -> Operations]
    BY <1>1 DEF TypeOK
  <2>2. op'[o] = NoOp /\ NoOp.goal = "none"
    BY <1>5, <2>1 DEF Ends, NoOp, Op
  <2> QED BY <1>5, <2>2
<1>6. CASE CommitErases(o)
  <2>1. e \in op[o].stable /\ Holds(o) /\ op[o].step = "erase"
        /\ StepsTo(o, "write", op[o].stable)
    BY <1>1, <1>6 DEF CommitErases, TypeOK
  <2> QED BY <1>3, <1>4, <2>1 DEF Holds
<1>7. CASE CommitWrites(o)
  <2>1. e \in op[o].stable /\ Holds(o) /\ op[o].step = "write"
        /\ StepsTo(o, "mark", op[o].stable)
    BY <1>1, <1>7 DEF CommitWrites, TypeOK
  <2> QED BY <1>3, <1>4, <2>1 DEF Holds
<1>8. CASE CommitScrubs(o)
  <2>1. e \in op[o].stable /\ Holds(o) /\ op[o].goal = "commit" /\ Ends(o)
    BY <1>1, <1>8 DEF CommitScrubs, TypeOK
  <2> QED BY <1>3, <1>5, <2>1 DEF Holds
<1>9. CASE ErrorErases(o)
  <2>1. e \in op[o].stable /\ Holds(o) /\ op[o].step = "erase"
        /\ StepsTo(o, "mark", op[o].stable)
    BY <1>1, <1>9 DEF ErrorErases, TypeOK
  <2> QED BY <1>3, <1>4, <2>1 DEF Holds
<1>10. ASSUME NEW f \in Entries, Clears(o, f)
       PROVE  Held(o, e) /\ op'[o] # op[o]
  <2>1. e = f /\ Held(o, e) /\ op[o].goal = "clear"
    BY <1>1, <1>10 DEF Clears, Forgotten, TypeOK, Holds
  <2>2. op \in [Ops -> Operations]
    BY <1>1 DEF TypeOK
  <2>3. op'[o].goal # "clear"
    BY <1>10, <2>2 DEF Clears, NoOp, Op
  <2> QED BY <2>1, <2>3
<1>11. ASSUME NEW f \in Entries, Drops(o, f)
       PROVE  Held(o, e) /\ op'[o] # op[o]
  <2>1. e = f /\ Held(o, e) /\ op[o].goal = "drop" /\ Ends(o)
    BY <1>1, <1>11 DEF Drops, Forgotten, TypeOK, Holds
  <2> QED BY <1>5, <2>1
<1>12. ASSUME NEW f \in Entries, DeleteErases(o, f)
       PROVE  Held(o, e) /\ op'[o] # op[o]
  <2>1. e = f /\ Held(o, e) /\ op[o].step = "erase" /\ StepsTo(o, "remove", {})
    BY <1>1, <1>12 DEF DeleteErases, Forgotten, TypeOK, Holds
  <2> QED BY <1>4, <2>1
<1>13. /\ ~LockNext(o) /\ ~Embedded(o) /\ ~IndexFails(o) /\ ~CommitChecks(o)
       /\ ~CommitMarks(o) /\ ~ErrorChecks(o) /\ ~ErrorMarks(o)
       /\ \A f \in Entries : ~ClearNext(o, f) /\ ~ClearFails(o, f)
                             /\ ~DropFails(o, f) /\ ~DeleteRemoves(o, f)
  BY <1>2 DEF LockNext, Embedded, IndexFails, CommitChecks, CommitMarks,
     ErrorChecks, ErrorMarks, ClearNext, ClearFails, DropFails, DeleteRemoves
<1> QED BY <1>6, <1>7, <1>8, <1>9, <1>10, <1>11, <1>12, <1>13 DEF Proceeds

\* Nobody touches the vectors of an entry, not even to erase them, except the
\* operation whose turn it is at the entry's lock.
THEOREM OneWriter == Spec => OneWriterPerEntry
<1>1. ASSUME VectorsInv, [Next]_vars, NEW e \in Entries,
             vectors'[e] # vectors[e]
      PROVE  \E o \in Ops : Held(o, e) /\ op'[o] # op[o]
  <2>1. vectors' # vectors
    BY <1>1
  <2>2. /\ \A f \in Edited : ~Edit(f) /\ ~Organize(f) /\ ~Adjust(f)
        /\ \A f \in Edited, d \in Droppers : ~TurnOff(f, d)
        /\ \A f \in Edited, d \in Deleters : ~Delete(f, d)
        /\ \A f \in Entries : ~Sweep(f)
        /\ ~WorkerTakes /\ ~Crash
        /\ \A o \in Routes : ~RouteReindexes(o)
    BY <2>1 DEF Edit, Organize, Adjust, TurnOff, Update, Delete, Sweep,
       WorkerTakes, TakeBatch, RouteReindexes, Crash
  <2>3. Next
    BY <1>1, <2>1 DEF vars
  <2>4. PICK o \in Ops : Proceeds(o)
    BY <2>2, <2>3 DEF Next
  <2> QED BY <1>1, <2>4, WritersHold
<1>2. VectorsInv /\ [Next]_vars =>
         [\A e \in Entries : vectors'[e] # vectors[e] =>
             \E o \in Ops : Held(o, e) /\ op'[o] # op[o]]_vars
  BY <1>1
<1> QED BY <1>2, Invariance, PTL DEF Spec, OneWriterPerEntry
=============================================================================
