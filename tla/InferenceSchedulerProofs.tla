---------------------- MODULE InferenceSchedulerProofs ----------------------
(***************************************************************************)
(* Theorems about InferenceScheduler, for every set of requests, accounts, *)
(* settings and classes.                                                   *)
(***************************************************************************)
EXTENDS InferenceScheduler, FiniteSetTheorems, WellFoundedInduction,
        NaturalsInduction, TLAPS

WaiterFunctions == [Requests -> WaiterRecord \cup {NoWaiter}]
LeaseFunctions  == [Requests -> LeaseRecord \cup {NoLease}]
LimitFunctions  == [Users -> Limits \cup {0}]

-----------------------------------------------------------------------------
(* The shared limit *)

\* A non-empty set of limits has a smallest member.
LEMMA SmallestLimit ==
    ASSUME NEW S \in SUBSET Limits, S # {}
    PROVE  \E n \in S : \A m \in S : n <= m
<1> SUFFICES ASSUME \A n \in S : \E m \in S : m < n
             PROVE  FALSE
  BY DEF Limits
<1>0. \A m \in S : m \in Int /\ 1 <= m /\ m <= 8
  BY DEF Limits
<1>1. 1 \notin S
  BY <1>0
<1>2. 2 \notin S
  BY <1>0, <1>1
<1>3. 3 \notin S
  BY <1>0, <1>1, <1>2
<1>4. 4 \notin S
  BY <1>0, <1>1, <1>2, <1>3
<1>5. 5 \notin S
  BY <1>0, <1>1, <1>2, <1>3, <1>4
<1>6. 6 \notin S
  BY <1>0, <1>1, <1>2, <1>3, <1>4, <1>5
<1>7. 7 \notin S
  BY <1>0, <1>1, <1>2, <1>3, <1>4, <1>5, <1>6
<1>8. 8 \notin S
  BY <1>0, <1>1, <1>2, <1>3, <1>4, <1>5, <1>6, <1>7
<1> QED
  BY <1>0, <1>1, <1>2, <1>3, <1>4, <1>5, <1>6, <1>7, <1>8

\* updateResourceConcurrency: the limit is one of 1..8, below every entry, and
\* one of the entries if there are any.
LEMMA EffectiveLimitFacts ==
    ASSUME NEW limits \in LimitFunctions
    PROVE  /\ EffectiveLimit(limits) \in Limits
           /\ \A u \in Users : limits[u] # 0 => EffectiveLimit(limits) <= limits[u]
           /\ (\E u \in Users : limits[u] # 0)
                => \E u \in Users : EffectiveLimit(limits) = limits[u]
<1> DEFINE configured == {limits[u] : u \in Users} \ {0}
<1>1. configured \in SUBSET Limits
  BY DEF LimitFunctions
<1>2. CASE configured = {}
  BY <1>2 DEF EffectiveLimit, Limits
<1>3. CASE configured # {}
  <2>1. PICK n \in configured : \A m \in configured : n <= m
    BY <1>1, <1>3, SmallestLimit
  <2> DEFINE least == CHOOSE k \in configured : \A m \in configured : k <= m
  <2>2. least \in configured /\ \A m \in configured : least <= m
    BY <2>1
  <2>3. EffectiveLimit(limits) = least
    BY <1>3 DEF EffectiveLimit
  <2> QED
    BY <1>1, <2>2, <2>3
<1> QED
  BY <1>2, <1>3

-----------------------------------------------------------------------------
(* Records *)

\* Taking waiters off `ahead' leaves a waiter's record a record of its user.
LEMMA ShortenedWaiter ==
    ASSUME NEW w \in WaiterRecord, NEW S
    PROVE  /\ [w EXCEPT !.ahead = @ \ S] \in WaiterRecord
           /\ [w EXCEPT !.ahead = @ \ S] # NoWaiter
           /\ [w EXCEPT !.ahead = @ \ S].user = w.user
  BY SchedulerAssumption DEF WaiterRecord

\* An aborted lease is still a lease of its user.
LEMMA AbortedLease ==
    ASSUME NEW l \in LeaseRecord
    PROVE  /\ [l EXCEPT !.aborted = TRUE] \in LeaseRecord
           /\ [l EXCEPT !.aborted = TRUE] # NoLease
           /\ [l EXCEPT !.aborted = TRUE].user = l.user
  BY SchedulerAssumption DEF LeaseRecord

\* A grant turns a waiter into a lease of the same user.
LEMMA GrantedLease ==
    ASSUME NEW w \in WaiterRecord
    PROVE  /\ Granted(w) \in LeaseRecord
           /\ Granted(w) # NoLease
           /\ Granted(w).user = w.user
<1>1. w.user \in Users /\ w.class \in OfferedClasses
  BY DEF WaiterRecord
<1>2. Granted(w) \in LeaseRecord
  BY <1>1 DEF LeaseRecord, Granted
<1>3. Granted(w).user = w.user
  BY DEF Granted
<1> QED
  BY <1>2, <1>3, SchedulerAssumption

\* Sets of requests are finite, and so are their sizes.
LEMMA RequestSets ==
    ASSUME NEW S \in SUBSET Requests
    PROVE  IsFiniteSet(S) /\ Cardinality(S) \in Nat
  BY SchedulerAssumption, FS_Subset, FS_CardinalityType

-----------------------------------------------------------------------------
(* The order of the queue *)

\* The waiters ahead of each one order the queue, and have waited as long.
Ordered(wt) ==
    LET W == Present(wt, NoWaiter)
    IN  /\ \A r \in W : wt[r].ahead \subseteq W \ {r}
        /\ \A r, s \in W : r = s \/ r \in wt[s].ahead \/ s \in wt[r].ahead
        /\ \A r \in W : \A s \in wt[r].ahead :
              wt[s].ahead \subseteq wt[r].ahead /\ wt[r].age <= wt[s].age

\* Ages are divided by the aging step.
LEMMA DivisionFacts ==
    ASSUME NEW d \in Nat \ {0}, NEW a \in Nat, NEW b \in Nat, a <= b
    PROVE  /\ a \div d \in Nat /\ b \div d \in Nat
           /\ a \div d <= b \div d
           /\ 0 \div d = 0
  OBVIOUS

\* The base priorities are 0..4, and only background and bulk are aged, or
\* told to stop.
LEMMA BaseFacts ==
    ASSUME NEW class \in Classes
    PROVE  /\ BasePriority[class] \in 0..4
           /\ class \in {"interactive", "user"} <=> BasePriority[class] < 2
           /\ class \in {"background", "bulk"} <=> BasePriority[class] >= 3
           /\ MinAgedPriority = 2 /\ PreemptibleMinPriority = 3
  BY DEF BasePriority, Classes, MinAgedPriority, PreemptibleMinPriority

\* effectivePriority: aging never makes a waiter less urgent, nor more urgent
\* than retrieval, and has not begun at age 0.
LEMMA PriorityFacts ==
    ASSUME NEW w \in WaiterRecord, NEW c \in Configs
    PROVE  /\ EffectivePriority(w, c) \in 0..4
           /\ EffectivePriority(w, c) <= BasePriority[w.class]
           /\ BasePriority[w.class] < 2 \/ EffectivePriority(w, c) < 2
                 => EffectivePriority(w, c) = BasePriority[w.class]
           /\ w.age = 0 => EffectivePriority(w, c) = BasePriority[w.class]
<1> DEFINE base == BasePriority[w.class]
           aged == base - (w.age \div c.agingTicks)
<1>1. w.class \in Classes /\ w.age \in Nat /\ c.agingTicks \in Nat
  BY SchedulerAssumption DEF WaiterRecord, ConfigRecord
<1>2. base \in 0..4 /\ MinAgedPriority = 2
  BY <1>1, BaseFacts
<1>3. CASE base <= 2 \/ c.agingTicks = 0
  <2>1. EffectivePriority(w, c) = base
    BY <1>2, <1>3 DEF EffectivePriority
  <2> QED BY <1>2, <2>1
<1>4. CASE ~(base <= 2 \/ c.agingTicks = 0)
  <2>1. EffectivePriority(w, c) = IF aged < 2 THEN 2 ELSE aged
    BY <1>2, <1>4 DEF EffectivePriority
  <2>2. w.age \div c.agingTicks \in Nat
        /\ (w.age = 0 => w.age \div c.agingTicks = 0)
    BY <1>1, <1>4, DivisionFacts
  <2> HIDE DEF base
  <2> QED BY <1>2, <1>4, <2>1, <2>2 DEF base
<1> QED BY <1>3, <1>4

\* Of two waiters, the one whose class is as urgent and who has waited as long
\* is as urgent under anybody's settings.
LEMMA AgingKeepsOrder ==
    ASSUME NEW v \in WaiterRecord, NEW w \in WaiterRecord, NEW c \in Configs,
           BasePriority[v.class] <= BasePriority[w.class], w.age <= v.age
    PROVE  EffectivePriority(v, c) <= EffectivePriority(w, c)
<1> DEFINE bv == BasePriority[v.class]
           bw == BasePriority[w.class]
           d == c.agingTicks
<1>1. /\ v.class \in Classes /\ v.age \in Nat /\ w.class \in Classes
      /\ w.age \in Nat /\ d \in Nat
  BY SchedulerAssumption DEF WaiterRecord, ConfigRecord
<1>2. bv \in 0..4 /\ bw \in 0..4 /\ MinAgedPriority = 2
  BY <1>1, BaseFacts
<1>3. /\ EffectivePriority(v, c) =
           IF bv <= 2 \/ d = 0 THEN bv
           ELSE IF bv - (v.age \div d) < 2 THEN 2 ELSE bv - (v.age \div d)
      /\ EffectivePriority(w, c) =
           IF bw <= 2 \/ d = 0 THEN bw
           ELSE IF bw - (w.age \div d) < 2 THEN 2 ELSE bw - (w.age \div d)
  BY <1>2 DEF EffectivePriority
<1>4. d # 0 => /\ v.age \div d \in Nat /\ w.age \div d \in Nat
               /\ w.age \div d <= v.age \div d
  BY <1>1, DivisionFacts
<1>5. bv <= bw
  OBVIOUS
<1> HIDE DEF bv, bw, d
<1> QED BY <1>1, <1>2, <1>3, <1>4, <1>5

\* A nonempty set of naturals has a least element.
LEMMA LeastNatural ==
    ASSUME NEW S \in SUBSET Nat, S # {}
    PROVE  \E n \in S : \A m \in S : n <= m
<1>1. PICK n \in S : \A m \in Nat : <<m, n>> \in OpToRel(<, Nat) => m \notin S
  BY WFMin, NatLessThanWellFounded
<1>2. \A m \in S : ~(m < n)
  BY <1>1 DEF OpToRel
<1> QED BY <1>2

\* pickBestWaiter always finds somebody.
LEMMA BestExists ==
    ASSUME NEW wt \in WaiterFunctions, Ordered(wt), NEW c \in Configs,
           NEW W \in SUBSET Present(wt, NoWaiter), W # {}
    PROVE  \E r \in W : IsBest(wt, c, W, r)
<1> DEFINE rank(r) == EffectivePriority(wt[r], c)
           place(r) == Cardinality(wt[r].ahead)
<1>1. \A r \in W : wt[r] \in WaiterRecord /\ wt[r].ahead \in SUBSET Requests
  BY DEF Present, WaiterFunctions, WaiterRecord
<1>2. \A r \in W : rank(r) \in Nat
  BY <1>1, PriorityFacts
<1>3. \A r \in W : place(r) \in Nat
  BY <1>1, RequestSets
<1>4. \A r, s \in W : r \in wt[s].ahead => place(r) < place(s)
  <2> SUFFICES ASSUME NEW r \in W, NEW s \in W, r \in wt[s].ahead
               PROVE  place(r) < place(s)
    OBVIOUS
  <2>1. wt[r].ahead \subseteq wt[s].ahead /\ r \notin wt[r].ahead
    BY DEF Ordered
  <2>2. IsFiniteSet(wt[s].ahead)
    BY <1>1, RequestSets
  <2>3. wt[r].ahead # wt[s].ahead
    BY <2>1
  <2>4. Cardinality(wt[r].ahead) <= Cardinality(wt[s].ahead)
        /\ Cardinality(wt[r].ahead) # Cardinality(wt[s].ahead)
    BY <2>1, <2>2, <2>3, FS_Subset
  <2> QED BY <1>3, <2>4
<1> HIDE DEF rank, place
<1> DEFINE ranks == {rank(r) : r \in W}
<1>5. PICK n \in ranks : \A m \in ranks : n <= m
  <2>1. ranks \in SUBSET Nat /\ ranks # {}
    BY <1>2
  <2> HIDE DEF ranks
  <2> QED BY <2>1, LeastNatural
<1> DEFINE best == {r \in W : rank(r) = n}
           places == {place(r) : r \in best}
<1>6. best # {} /\ \A r \in best, s \in W : rank(r) <= rank(s)
  BY <1>5
<1> HIDE DEF ranks
<1>7. places # {} /\ places \in SUBSET Nat
  BY <1>3, <1>6
<1>8. PICK k \in places : \A m \in places : k <= m
  BY <1>7, LeastNatural
<1>9. PICK r \in best : place(r) = k
  BY <1>8
<1>10. ASSUME NEW s \in W \ {r} PROVE Before(wt, c, r, s)
  <2>1. rank(r) <= rank(s) /\ rank(r) \in Nat /\ rank(s) \in Nat
    BY <1>2, <1>6
  <2>2. CASE rank(r) < rank(s)
    BY <2>2 DEF Before, rank
  <2>3. CASE rank(r) = rank(s)
    <3>1. s \in best /\ place(r) <= place(s)
      BY <1>8, <1>9, <2>3
    <3>2. s \notin wt[r].ahead
      BY <1>3, <1>4, <3>1
    <3>3. r \in wt[s].ahead
      BY <3>2 DEF Ordered
    <3> QED BY <2>3, <3>3 DEF Before, rank
  <2> QED BY <2>1, <2>2, <2>3
<1> QED BY <1>10 DEF IsBest

-----------------------------------------------------------------------------
(* maybePreempt *)

\* Among some holders there is one of the least urgent class.
LEMMA LeastUrgentExists ==
    ASSUME NEW ls \in LeaseFunctions, NEW S \in SUBSET Present(ls, NoLease), S # {}
    PROVE  LeastUrgent(ls, S) # {}
<1> DEFINE base(t) == BasePriority[ls[t].class]
           slack == {4 - base(t) : t \in S}
<1>1. \A t \in S : ls[t] \in LeaseRecord
  BY DEF Present, LeaseFunctions
<1>2. \A t \in S : base(t) \in 0..4
  BY <1>1, BaseFacts, SchedulerAssumption DEF LeaseRecord
<1> HIDE DEF base
<1>3. slack \in SUBSET Nat /\ slack # {}
  BY <1>2
<1>4. PICK n \in slack : \A m \in slack : n <= m
  BY <1>3, LeastNatural
<1>5. PICK t \in S : 4 - base(t) = n
  BY <1>4
<1>6. \A x \in S : base(x) <= base(t)
  <2> SUFFICES ASSUME NEW x \in S PROVE base(x) <= base(t)
    OBVIOUS
  <2>1. n <= 4 - base(x)
    BY <1>4
  <2> QED BY <1>2, <1>5, <2>1
<1> QED BY <1>6 DEF LeastUrgent, base

\* V is one holder, which was not aborted yet and whose work is background or
\* bulk, with the resource full and a more urgent waiter among W.
OneYields(wt, ls, W, V) ==
    \E t \in Present(ls, NoLease) :
       /\ V = {t} /\ ~ls[t].aborted
       /\ ls[t].class \in {"background", "bulk"}
       /\ ~(Cardinality(Present(ls, NoLease)) < concurrency')
       /\ \E r \in W : BasePriority[wt[r].class] < BasePriority[ls[t].class]

\* maybePreempt aborts at most one holder, and has to.
LEMMA VictimFacts ==
    ASSUME NEW wt \in WaiterFunctions, NEW ls \in LeaseFunctions, NEW c,
           NEW W \in SUBSET Present(wt, NoWaiter),
           NEW V \in Victims(wt, ls, c, W), V # {}
    PROVE  OneYields(wt, ls, W, V)
<1> DEFINE targets ==
       UNION {LeastUrgent(ls, Preemptable(ls, BasePriority[wt[r].class])) :
                r \in {s \in W : IsBest(wt, c, W, s)}}
<1>1. /\ ~(Cardinality(Present(ls, NoLease)) < concurrency')
      /\ V \in {{t} : t \in targets}
  BY DEF Victims
<1>2. PICK t \in targets : V = {t}
  BY <1>1
<1>3. PICK r \in W : t \in Preemptable(ls, BasePriority[wt[r].class])
  BY <1>2 DEF LeastUrgent
<1>4. /\ t \in Present(ls, NoLease) /\ ~ls[t].aborted
      /\ BasePriority[ls[t].class] >= PreemptibleMinPriority
      /\ BasePriority[ls[t].class] > BasePriority[wt[r].class]
  BY <1>3 DEF Preemptable
<1>5. ls[t].class \in Classes /\ wt[r].class \in Classes
  BY <1>4, SchedulerAssumption
     DEF Present, LeaseFunctions, LeaseRecord, WaiterFunctions, WaiterRecord
<1>6. ls[t].class \in {"background", "bulk"}
  BY <1>4, <1>5, BaseFacts
<1>7. BasePriority[wt[r].class] < BasePriority[ls[t].class]
  BY <1>4, <1>5, BaseFacts
<1> QED BY <1>1, <1>2, <1>4, <1>6, <1>7 DEF OneYields

\* It aborts one when an interactive or user request is left waiting for a full
\* resource and background or bulk work goes on.
LEMMA VictimFound ==
    ASSUME NEW wt \in WaiterFunctions, Ordered(wt), NEW ls \in LeaseFunctions,
           NEW c \in Configs, c.preempt,
           ~(Cardinality(Present(ls, NoLease)) < concurrency'),
           NEW W \in SUBSET Present(wt, NoWaiter),
           NEW w \in W, wt[w].class \in {"interactive", "user"},
           NEW t \in Present(ls, NoLease), ~ls[t].aborted,
           ls[t].class \in {"background", "bulk"},
           NEW V \in Victims(wt, ls, c, W)
    PROVE  V # {}
<1> DEFINE base(r) == BasePriority[wt[r].class]
           targets == UNION {LeastUrgent(ls, Preemptable(ls, base(r))) :
                               r \in {s \in W : IsBest(wt, c, W, s)}}
<1>1. PICK r \in W : IsBest(wt, c, W, r)
  BY BestExists
<1>2. wt[r] \in WaiterRecord /\ wt[w] \in WaiterRecord /\ ls[t] \in LeaseRecord
  BY DEF Present, WaiterFunctions, LeaseFunctions
<1>3. wt[r].class \in Classes /\ wt[w].class \in Classes /\ ls[t].class \in Classes
  BY <1>2, SchedulerAssumption DEF WaiterRecord, LeaseRecord
<1>4. EffectivePriority(wt[r], c) <= EffectivePriority(wt[w], c)
  <2>1. EffectivePriority(wt[w], c) \in 0..4
    BY <1>2, PriorityFacts
  <2>2. EffectivePriority(wt[r], c) \in 0..4
    BY <1>2, PriorityFacts
  <2>3. r = w \/ Before(wt, c, r, w)
    BY <1>1 DEF IsBest
  <2> QED BY <2>1, <2>2, <2>3 DEF Before
<1>5. BasePriority[wt[w].class] < 2 /\ BasePriority[wt[w].class] \in 0..4
  BY <1>3, BaseFacts
<1>6. EffectivePriority(wt[r], c) < 2
  <2>1. EffectivePriority(wt[w], c) <= BasePriority[wt[w].class]
        /\ EffectivePriority(wt[w], c) \in 0..4
    BY <1>2, PriorityFacts
  <2>2. EffectivePriority(wt[r], c) \in 0..4
    BY <1>2, PriorityFacts
  <2> QED BY <1>4, <1>5, <2>1, <2>2
<1>7. base(r) < 2 /\ base(r) \in 0..4
  BY <1>2, <1>3, <1>6, PriorityFacts, BaseFacts
<1>8. t \in Preemptable(ls, base(r))
  <2>1. BasePriority[ls[t].class] >= 3 /\ PreemptibleMinPriority = 3
        /\ BasePriority[ls[t].class] \in 0..4
    BY <1>3, BaseFacts
  <2> QED BY <1>7, <2>1 DEF Preemptable
<1> HIDE DEF base
<1>9. Preemptable(ls, base(r)) \in SUBSET Present(ls, NoLease)
  BY DEF Preemptable
<1>10. LeastUrgent(ls, Preemptable(ls, base(r))) # {}
  BY <1>8, <1>9, LeastUrgentExists
<1>11. targets # {}
  BY <1>1, <1>10
<1>12. V \in {{x} : x \in targets}
  BY <1>11 DEF Victims, base
<1> QED BY <1>12

-----------------------------------------------------------------------------
(* pumpResource *)

\* The pump grants the batch G and then aborts the holders V.
Grants(wt, ls, G) == [r \in Requests |-> IF r \in G THEN Granted(wt[r]) ELSE ls[r]]

Pumps(wt, ls, c, G, V) ==
    /\ G \subseteq Present(wt, NoWaiter)
    /\ IsBatch(wt, c, Present(wt, NoWaiter), Present(ls, NoLease), G)
    /\ waiter' = [r \in Requests |-> IF r \in Present(wt, NoWaiter) \ G
                                     THEN [wt[r] EXCEPT !.ahead = @ \ G]
                                     ELSE NoWaiter]
    /\ V \in Victims(wt, Grants(wt, ls, G), c, Present(wt, NoWaiter) \ G)
    /\ lease' = [r \in Requests |->
                   IF r \in V THEN [Grants(wt, ls, G)[r] EXCEPT !.aborted = TRUE]
                              ELSE Grants(wt, ls, G)[r]]

LEMMA PumpPumps ==
    ASSUME NEW wt, NEW ls, NEW c, Pump(wt, ls, c)
    PROVE  \E G, V : Pumps(wt, ls, c, G, V)
  BY DEF Pump, Pumps, Grants

\* What became of the records of the queue wt and of the leases ls when G was
\* admitted and V told to stop.
Pumped(wt, ls, G, V) ==
    /\ Grants(wt, ls, G) \in LeaseFunctions
    /\ Present(Grants(wt, ls, G), NoLease) = Present(ls, NoLease) \cup G
    /\ V \subseteq Present(ls, NoLease) \cup G
    /\ Waiting' = Present(wt, NoWaiter) \ G
    /\ Active' = Present(ls, NoLease) \cup G
    /\ \A r \in Waiting' : waiter'[r] = [wt[r] EXCEPT !.ahead = @ \ G]
    /\ \A r \in Active' :
          lease'[r].class = (IF r \in G THEN wt[r] ELSE ls[r]).class
    /\ \A r \in Active' \ V : lease'[r] = Grants(wt, ls, G)[r]
    /\ \A r \in V : lease'[r].aborted

\* Whom it grants a slot and whom it aborts, record by record.
LEMMA PumpRecords ==
    ASSUME NEW wt \in WaiterFunctions, NEW ls \in LeaseFunctions, NEW c,
           NEW G, NEW V, Pumps(wt, ls, c, G, V)
    PROVE  Pumped(wt, ls, G, V)
<1> DEFINE W == Present(wt, NoWaiter)
           A == Present(ls, NoLease)
           granted == Grants(wt, ls, G)
<1>1. G \subseteq W /\ W \subseteq Requests /\ A \subseteq Requests
  BY DEF Pumps, Present
<1>2. \A r \in W : wt[r] \in WaiterRecord
  BY DEF Present, WaiterFunctions
<1>3. /\ granted \in LeaseFunctions
      /\ Present(granted, NoLease) = A \cup G
      /\ \A r \in A \cup G :
            granted[r].class = (IF r \in G THEN wt[r] ELSE ls[r]).class
  <2>1. \A r \in G : /\ granted[r] = Granted(wt[r])
                     /\ Granted(wt[r]) \in LeaseRecord /\ Granted(wt[r]) # NoLease
                     /\ Granted(wt[r]).class = wt[r].class
    BY <1>1, <1>2, GrantedLease DEF Grants, Granted
  <2>2. \A r \in Requests \ G : granted[r] = ls[r]
    BY DEF Grants
  <2>3. granted \in LeaseFunctions
    BY <2>1, <2>2, <1>1 DEF Grants, LeaseFunctions
  <2>4. Present(granted, NoLease) = A \cup G
    BY <1>1, <2>1, <2>2 DEF Present
  <2> QED BY <1>1, <2>1, <2>2, <2>3, <2>4
<1>4. V \in Victims(wt, granted, c, W \ G)
  BY DEF Pumps
<1> HIDE DEF granted
<1>5. V \subseteq Present(granted, NoLease)
  <2>1. V # {} => OneYields(wt, granted, W \ G, V)
    BY <1>3, <1>4, VictimFacts
  <2> QED BY <2>1 DEF OneYields
<1>6. /\ lease' = [r \in Requests |-> IF r \in V THEN [granted[r] EXCEPT !.aborted = TRUE]
                                              ELSE granted[r]]
      /\ waiter' = [r \in Requests |-> IF r \in W \ G
                                       THEN [wt[r] EXCEPT !.ahead = @ \ G]
                                       ELSE NoWaiter]
  BY DEF Pumps, granted
<1>7. /\ Waiting' = W \ G
      /\ \A r \in W \ G : waiter'[r] = [wt[r] EXCEPT !.ahead = @ \ G]
  BY <1>1, <1>2, <1>6, ShortenedWaiter DEF Waiting, Present
<1>8. \A r \in A \cup G : granted[r] \in LeaseRecord
  BY <1>3 DEF LeaseFunctions, Present
<1>9. \A r \in V : /\ lease'[r] = [granted[r] EXCEPT !.aborted = TRUE]
                   /\ lease'[r].aborted /\ lease'[r].class = granted[r].class
                   /\ lease'[r] # NoLease
  BY <1>1, <1>3, <1>5, <1>6, <1>8, AbortedLease DEF LeaseRecord
<1>10. \A r \in Requests \ V : lease'[r] = granted[r]
  BY <1>6
<1>11. Active' = A \cup G
  BY <1>1, <1>3, <1>5, <1>9, <1>10 DEF Active, Present
<1>12. \A r \in A \cup G : lease'[r].class = granted[r].class
  BY <1>1, <1>9, <1>10
<1>13. \A r \in A \cup G :
          lease'[r].class = (IF r \in G THEN wt[r] ELSE ls[r]).class
  BY <1>3, <1>12
<1>14. V \subseteq A \cup G /\ A \cup G \subseteq Requests
  BY <1>1, <1>3, <1>5
<1> HIDE DEF W, A
<1>15. /\ \A r \in Waiting' : waiter'[r] = [wt[r] EXCEPT !.ahead = @ \ G]
       /\ \A r \in Active' \ V : lease'[r] = granted[r]
       /\ \A r \in V : lease'[r].aborted
       /\ \A r \in Active' :
             lease'[r].class = (IF r \in G THEN wt[r] ELSE ls[r]).class
  BY <1>7, <1>9, <1>10, <1>11, <1>13, <1>14
<1>16. /\ granted \in LeaseFunctions
       /\ Present(granted, NoLease) = A \cup G
       /\ V \subseteq A \cup G
       /\ Waiting' = W \ G
       /\ Active' = A \cup G
  BY <1>3, <1>7, <1>11, <1>14
<1> QED BY <1>15, <1>16 DEF Pumped, granted, W, A

\* What the pump does to the queue wt and the leases ls, as far as types, the
\* users and the numbers are concerned: it moves a batch from the queue to the
\* leases, as large as the room under the new limit and the queue allow.
LEMMA PumpFacts ==
    ASSUME NEW wt \in WaiterFunctions, NEW ls \in LeaseFunctions, NEW c,
           Pump(wt, ls, c)
    PROVE  /\ waiter' \in WaiterFunctions
           /\ lease' \in LeaseFunctions
           /\ \E G \in SUBSET Present(wt, NoWaiter) :
                /\ Waiting' = Present(wt, NoWaiter) \ G
                /\ Active' = Present(ls, NoLease) \cup G
                /\ Cardinality(G) =
                     Smaller(Cardinality(Present(wt, NoWaiter)),
                             Room(concurrency', Cardinality(Present(ls, NoLease))))
           /\ \A r \in Waiting' : waiter'[r].user = wt[r].user
           /\ \A r \in Active' : \/ ls[r] # NoLease /\ lease'[r].user = ls[r].user
                                 \/ wt[r] # NoWaiter /\ lease'[r].user = wt[r].user
<1> DEFINE W == Present(wt, NoWaiter)
           A == Present(ls, NoLease)
           granted(G) == [r \in Requests |-> IF r \in G THEN Granted(wt[r]) ELSE ls[r]]
<1>1. PICK G \in SUBSET W :
        /\ IsBatch(wt, c, W, A, G)
        /\ waiter' = [r \in Requests |-> IF r \in W \ G
                                         THEN [wt[r] EXCEPT !.ahead = @ \ G]
                                         ELSE NoWaiter]
        /\ \E V \in Victims(wt, granted(G), c, W \ G) :
              lease' = [r \in Requests |->
                          IF r \in V THEN [granted(G)[r] EXCEPT !.aborted = TRUE]
                                     ELSE granted(G)[r]]
  BY DEF Pump
<1>2. PICK V \in Victims(wt, granted(G), c, W \ G) :
         lease' = [r \in Requests |->
                     IF r \in V THEN [granted(G)[r] EXCEPT !.aborted = TRUE]
                                ELSE granted(G)[r]]
  BY <1>1
<1>3. V \subseteq Present(granted(G), NoLease)
  <2>1. \A p : LeastUrgent(granted(G), Preemptable(granted(G), p))
                 \subseteq Present(granted(G), NoLease)
    BY DEF LeastUrgent, Preemptable
  <2> QED
    BY <2>1, <1>2 DEF Victims
<1>4. \A r \in W : wt[r] \in WaiterRecord
  BY DEF Present, WaiterFunctions
<1>5. \A r \in A : ls[r] \in LeaseRecord
  BY DEF Present, LeaseFunctions
<1>6. /\ granted(G) \in LeaseFunctions
      /\ Present(granted(G), NoLease) = A \cup G
      /\ \A r \in A \cup G : \/ ls[r] # NoLease /\ granted(G)[r].user = ls[r].user
                             \/ wt[r] # NoWaiter /\ granted(G)[r].user = wt[r].user
  BY <1>4, <1>5, GrantedLease DEF LeaseFunctions, Present
<1>7. /\ waiter' \in WaiterFunctions
      /\ Waiting' = W \ G
      /\ \A r \in W \ G : waiter'[r].user = wt[r].user
  BY <1>1, <1>4, ShortenedWaiter DEF WaiterFunctions, Present, Waiting
<1>8. \A r \in Present(granted(G), NoLease) : granted(G)[r] \in LeaseRecord
  BY <1>6 DEF LeaseFunctions, Present
<1>9. /\ lease' \in LeaseFunctions
      /\ Active' = A \cup G
      /\ \A r \in A \cup G : lease'[r].user = granted(G)[r].user
  <2> HIDE DEF granted
  <2> QED
    BY <1>2, <1>3, <1>6, <1>8, AbortedLease DEF LeaseFunctions, Present, Active
<1> QED
  BY <1>1, <1>6, <1>7, <1>9 DEF IsBatch

-----------------------------------------------------------------------------
(* Every handler that pumps *)

\* The inductive invariant.  LimitIsSmallest is needed for the type of the
\* limits, the rest because the pump reads what earlier handlers left.
IInv == /\ TypeOK /\ WorkConserving /\ LimitIsSmallest
        /\ Ordered(waiter) /\ UrgentWaiterPreempts

Busy(wt, ls, u) ==
    \/ \E r \in Present(wt, NoWaiter) : wt[r].user = u
    \/ \E r \in Present(ls, NoLease)  : ls[r].user = u

\* Before it pumps, a handler leaves those who stay in the queue or hold a slot
\* what they were, and adds newcomers at age 0.
Rearranges(wt, ls) ==
    /\ Present(wt, NoWaiter) \cap Active = {}
    /\ \A t \in Present(ls, NoLease) : t \in Active /\ ls[t] = lease[t]
    /\ \A s \in Present(wt, NoWaiter) :
          IF s \in Waiting
          THEN /\ wt[s].class = waiter[s].class
               /\ wt[s].ahead = waiter[s].ahead \cap Present(wt, NoWaiter)
          ELSE wt[s].age = 0

\* A handler rearranges the queue to wt and the leases to ls, books the limits
\* of exactly the accounts that have work there, and pumps.
Handler(wt, ls, limits, c) ==
    /\ wt \in WaiterFunctions
    /\ ls \in LeaseFunctions
    /\ limits \in LimitFunctions
    /\ Present(wt, NoWaiter) \cap Present(ls, NoLease) = {}
    /\ c \in Configs
    /\ Ordered(wt) /\ Rearranges(wt, ls)
    /\ \A u \in Users : Busy(wt, ls, u) <=> limits[u] # 0
    /\ SetLimits(limits)
    /\ Pump(wt, ls, c)
    /\ UNCHANGED config

\* releaseIdleParticipant: if the limits were booked for everybody but u, who
\* has an entry at least when busy, then they are booked for everybody.
LEMMA DropIdleFacts ==
    ASSUME NEW limits \in LimitFunctions, NEW u \in Users, NEW wt, NEW ls,
           \A v \in Users \ {u} : Busy(wt, ls, v) <=> limits[v] # 0,
           Busy(wt, ls, u) => limits[u] # 0
    PROVE  /\ DropIdle(limits, u, wt, ls) \in LimitFunctions
           /\ \A v \in Users : Busy(wt, ls, v) <=> DropIdle(limits, u, wt, ls)[v] # 0
<1>1. CASE Busy(wt, ls, u)
  BY <1>1 DEF DropIdle, Busy
<1>2. CASE ~Busy(wt, ls, u)
  <2>1. DropIdle(limits, u, wt, ls) = [limits EXCEPT ![u] = 0]
    BY <1>2 DEF DropIdle, Busy
  <2> QED
    BY <1>2, <2>1 DEF LimitFunctions
<1> QED
  BY <1>1, <1>2

\* The size of two disjoint sets of requests together.
LEMMA DisjointSize ==
    ASSUME NEW S \in SUBSET Requests, NEW T \in SUBSET Requests, S \cap T = {}
    PROVE  Cardinality(S \cup T) = Cardinality(S) + Cardinality(T)
<1>1. /\ IsFiniteSet(S) /\ IsFiniteSet(T)
      /\ Cardinality(S) \in Nat /\ Cardinality(T) \in Nat
  BY RequestSets
<1>2. Cardinality(S \cup T) = Cardinality(S) + Cardinality(T) - Cardinality(S \cap T)
  BY <1>1, FS_Union
<1>3. Cardinality(S \cap T) = 0
  BY FS_EmptySet
<1> QED
  BY <1>1, <1>2, <1>3

\* The admission loop leaves nobody waiting beside a free slot, and whom it
\* admits fits under the limit.
LEMMA BatchFills ==
    ASSUME NEW W \in SUBSET Requests, NEW A \in SUBSET Requests, W \cap A = {},
           NEW n \in Limits, NEW G \in SUBSET W,
           Cardinality(G) = Smaller(Cardinality(W), Room(n, Cardinality(A)))
    PROVE  /\ W \ G # {} => Cardinality(A \cup G) >= n
           /\ G # {} => Cardinality(A \cup G) <= n
<1>1. /\ Cardinality(W) \in Nat /\ Cardinality(A) \in Nat /\ Cardinality(G) \in Nat
      /\ IsFiniteSet(W) /\ IsFiniteSet(G)
  BY RequestSets
<1>2. Cardinality(A \cup G) = Cardinality(A) + Cardinality(G)
  BY DisjointSize
<1>3. n \in Nat
  BY DEF Limits
<1>4. ASSUME W \ G # {}
      PROVE  Cardinality(G) < Cardinality(W)
  BY <1>1, <1>4, FS_Subset
<1>5. ASSUME G # {}
      PROVE  Cardinality(G) > 0
  BY <1>1, <1>5, FS_EmptySet
<1>6. ASSUME W \ G # {}
      PROVE  Cardinality(A \cup G) >= n
  BY <1>1, <1>2, <1>3, <1>4, <1>6 DEF Smaller, Room
<1>7. ASSUME G # {}
      PROVE  Cardinality(A \cup G) <= n
  BY <1>1, <1>2, <1>3, <1>5, <1>7 DEF Smaller, Room
<1> QED
  BY <1>6, <1>7

\* The abstract pool counts as the scheduler does.
LEMMA SameCardinality ==
    \A S : Pool!Cardinality(S) = Cardinality(S)
  BY DEF Pool!Cardinality, Cardinality

\* The pump leaves the queue in order.
LEMMA PumpOrders ==
    ASSUME NEW wt \in WaiterFunctions, NEW ls \in LeaseFunctions, NEW c,
           Ordered(wt), Pump(wt, ls, c)
    PROVE  Ordered(waiter)'
<1> DEFINE W == Present(wt, NoWaiter)
<1>1. PICK G, V : Pumps(wt, ls, c, G, V)
  BY PumpPumps
<1>2. /\ Waiting' = W \ G
      /\ \A r \in W \ G : waiter'[r] = [wt[r] EXCEPT !.ahead = @ \ G]
  <2>1. Pumped(wt, ls, G, V)
    BY <1>1, PumpRecords
  <2> QED BY <2>1 DEF Pumped
<1>3. \A r \in W : wt[r] \in WaiterRecord
  BY DEF Present, WaiterFunctions
<1>4. \A r \in W \ G : /\ waiter'[r].ahead = wt[r].ahead \ G
                       /\ waiter'[r].age = wt[r].age
  BY <1>2, <1>3 DEF WaiterRecord
<1>5. Present(waiter', NoWaiter) = W \ G
  BY <1>2 DEF Waiting, Present
<1>6. /\ \A r \in W : wt[r].ahead \subseteq W \ {r}
      /\ \A r, s \in W : r = s \/ r \in wt[s].ahead \/ s \in wt[r].ahead
      /\ \A r \in W : \A s \in wt[r].ahead :
            wt[s].ahead \subseteq wt[r].ahead /\ wt[r].age <= wt[s].age
  BY DEF Ordered
<1> HIDE DEF W
<1> QED BY <1>4, <1>5, <1>6 DEF Ordered

\* With preemption in every account's settings, a pump that leaves an urgent
\* waiter before a full resource has told a holder to stop, if one could be.
LEMMA PumpYields ==
    ASSUME NEW wt \in WaiterFunctions, NEW ls \in LeaseFunctions, NEW c \in Configs,
           Ordered(wt), Pump(wt, ls, c),
           Waiting' # {} => ~(Cardinality(Active') < concurrency')
    PROVE  UrgentWaiterPreempts'
<1> DEFINE W == Present(wt, NoWaiter)
           A == Present(ls, NoLease)
<1>1. PICK G, V : Pumps(wt, ls, c, G, V)
  BY PumpPumps
<1>2. /\ Grants(wt, ls, G) \in LeaseFunctions
      /\ Present(Grants(wt, ls, G), NoLease) = Active'
      /\ V \subseteq Active'
      /\ Waiting' = W \ G
      /\ \A r \in Waiting' : waiter'[r] = [wt[r] EXCEPT !.ahead = @ \ G]
      /\ \A r \in Active' \ V : lease'[r] = Grants(wt, ls, G)[r]
      /\ \A r \in V : lease'[r].aborted
  <2>1. Pumped(wt, ls, G, V)
    BY <1>1, PumpRecords
  <2> QED BY <2>1 DEF Pumped
<1>3. V \in Victims(wt, Grants(wt, ls, G), c, W \ G)
  BY <1>1 DEF Pumps
<1> SUFFICES ASSUME \A x \in Configs : x.preempt,
                    NEW w \in Waiting', waiter'[w].class \in {"interactive", "user"},
                    \A r \in Active' : ~lease'[r].aborted,
                    NEW t \in Active', lease'[t].class \in {"background", "bulk"}
             PROVE  FALSE
  BY DEF UrgentWaiterPreempts
<1>4. V = {}
  BY <1>2
<1>5. /\ ~Grants(wt, ls, G)[t].aborted
      /\ Grants(wt, ls, G)[t].class \in {"background", "bulk"}
  BY <1>2, <1>4
<1>6. wt[w].class \in {"interactive", "user"}
  <2>1. wt[w] \in WaiterRecord
    BY <1>2 DEF Present, WaiterFunctions
  <2> QED BY <1>2, <2>1 DEF WaiterRecord
<1>7. ~(Cardinality(Present(Grants(wt, ls, G), NoLease)) < concurrency')
  BY <1>2
<1>8. W \ G \in SUBSET W /\ w \in W \ G /\ c.preempt
      /\ t \in Present(Grants(wt, ls, G), NoLease)
  BY <1>2
<1> QED BY <1>2, <1>3, <1>4, <1>5, <1>6, <1>7, <1>8, VictimFound

\* Whatever a handler did before it pumped, the pump restores the invariant,
\* fills the abstract pool and keeps to every participant's limit.
LEMMA HandlerFacts ==
    ASSUME IInv, NEW wt, NEW ls, NEW limits, NEW c, Handler(wt, ls, limits, c)
    PROVE  /\ IInv'
           /\ Pool!Fill(Present(wt, NoWaiter), Present(ls, NoLease))
           /\ \/ Active' \subseteq Present(ls, NoLease)
              \/ Cardinality(Active') <= concurrency'
<1> DEFINE W == Present(wt, NoWaiter)
           A == Present(ls, NoLease)
<1> USE DEF Handler
<1>1. /\ limitOf' = limits
      /\ concurrency' = EffectiveLimit(limits)
      /\ concurrency' \in Limits
      /\ \A u \in Users : limits[u] # 0 => concurrency' <= limits[u]
      /\ (\E u \in Users : limits[u] # 0) => \E u \in Users : concurrency' = limits[u]
  BY EffectiveLimitFacts DEF SetLimits
<1>2. PICK G \in SUBSET W :
        /\ Waiting' = W \ G
        /\ Active' = A \cup G
        /\ Cardinality(G) = Smaller(Cardinality(W), Room(concurrency', Cardinality(A)))
  BY PumpFacts
<1>3. /\ waiter' \in WaiterFunctions
      /\ lease' \in LeaseFunctions
      /\ \A r \in Waiting' : waiter'[r].user = wt[r].user
      /\ \A r \in Active' : \/ ls[r] # NoLease /\ lease'[r].user = ls[r].user
                            \/ wt[r] # NoWaiter /\ lease'[r].user = wt[r].user
  BY PumpFacts
<1>4. W \in SUBSET Requests /\ A \in SUBSET Requests /\ W \cap A = {}
  BY DEF Present
<1>5. /\ W \ G # {} => Cardinality(A \cup G) >= concurrency'
      /\ G # {} => Cardinality(A \cup G) <= concurrency'
  BY <1>1, <1>2, <1>4, BatchFills
<1>6. TypeOK'
  BY <1>1, <1>2, <1>3, <1>4 DEF TypeOK, IInv, WaiterFunctions, LeaseFunctions, LimitFunctions
<1>7. WorkConserving'
  BY <1>2, <1>5 DEF WorkConserving
<1>8. LimitIsSmallest'
  <2>1. \A u \in Users : HasWork(u)' <=> Busy(wt, ls, u)
    <3> SUFFICES ASSUME NEW u \in Users
                 PROVE  HasWork(u)' <=> Busy(wt, ls, u)
      OBVIOUS
    <3>1. HasWork(u)' <=> \/ \E r \in Waiting' : waiter'[r].user = u
                          \/ \E r \in Active'  : lease'[r].user = u
      BY DEF HasWork
    <3>2. HasWork(u)' => Busy(wt, ls, u)
      BY <3>1, <1>2, <1>3 DEF Busy, Present
    <3>3. Busy(wt, ls, u) => HasWork(u)'
      BY <3>1, <1>2, <1>3, <1>4 DEF Busy, Present
    <3> QED
      BY <3>2, <3>3
  <2>2. \A u \in Users : HasWork(u)' <=> limitOf'[u] # 0
    BY <1>1, <2>1
  <2>3. Idle' # Requests => \E u \in Users : HasWork(u)'
    <3>1. Idle' # Requests => Waiting' \cup Active' # {}
      BY DEF Idle
    <3>2. \A r \in Waiting' : waiter'[r].user \in Users
      BY <1>3 DEF Waiting, Present, WaiterFunctions, WaiterRecord
    <3>3. \A r \in Active' : lease'[r].user \in Users
      BY <1>3 DEF Active, Present, LeaseFunctions, LeaseRecord
    <3> QED
      BY <3>1, <3>2, <3>3 DEF HasWork
  <2> QED
    BY <1>1, <2>2, <2>3 DEF LimitIsSmallest
<1>9. Pool!Fill(W, A)
  BY <1>2, SameCardinality DEF Pool!Fill, Pool!Smaller, Pool!Room, Smaller, Room
<1>10. Ordered(waiter)'
  BY PumpOrders
<1>11. UrgentWaiterPreempts'
  <2>1. Cardinality(Active') \in Nat /\ concurrency' \in Int
    BY <1>2, <1>4, <1>6, RequestSets DEF TypeOK, Limits
  <2>2. Waiting' # {} => ~(Cardinality(Active') < concurrency')
    BY <1>7, <2>1 DEF WorkConserving
  <2> QED BY <2>2, PumpYields
<1> QED
  BY <1>2, <1>5, <1>6, <1>7, <1>8, <1>9, <1>10, <1>11 DEF IInv

-----------------------------------------------------------------------------
(* The actions that pump are handlers. *)

\* Without takes exactly one waiter out of the queue.
LEMMA WithoutFacts ==
    ASSUME NEW wt \in WaiterFunctions, NEW r \in Requests
    PROVE  /\ Without(wt, r) \in WaiterFunctions
           /\ Present(Without(wt, r), NoWaiter) = Present(wt, NoWaiter) \ {r}
           /\ \A s \in Present(wt, NoWaiter) \ {r} :
                 /\ Without(wt, r)[s].user = wt[s].user
                 /\ Without(wt, r)[s].class = wt[s].class
                 /\ Without(wt, r)[s].ahead = wt[s].ahead \ {r}
                 /\ Without(wt, r)[s].age = wt[s].age
<1>1. \A s \in Present(wt, NoWaiter) : wt[s] \in WaiterRecord
  BY DEF Present, WaiterFunctions
<1>2. \A s \in Present(wt, NoWaiter) \ {r} :
         Without(wt, r)[s] = [wt[s] EXCEPT !.ahead = @ \ {r}]
  BY DEF Without, Present
<1>3. /\ Without(wt, r) \in WaiterFunctions
      /\ Present(Without(wt, r), NoWaiter) = Present(wt, NoWaiter) \ {r}
  BY <1>1, ShortenedWaiter DEF Without, Present, WaiterFunctions
<1>4. \A s \in Present(wt, NoWaiter) \ {r} :
         /\ Without(wt, r)[s].user = wt[s].user
         /\ Without(wt, r)[s].class = wt[s].class
         /\ Without(wt, r)[s].ahead = wt[s].ahead \ {r}
         /\ Without(wt, r)[s].age = wt[s].age
  BY <1>1, <1>2 DEF WaiterRecord
<1> QED
  BY <1>3, <1>4

\* The others keep their order.
LEMMA WithoutOrders ==
    ASSUME NEW wt \in WaiterFunctions, Ordered(wt), NEW r \in Requests
    PROVE  Ordered(Without(wt, r))
<1> DEFINE W == Present(wt, NoWaiter)
<1>1. /\ Present(Without(wt, r), NoWaiter) = W \ {r}
      /\ \A s \in W \ {r} : /\ Without(wt, r)[s].ahead = wt[s].ahead \ {r}
                            /\ Without(wt, r)[s].age = wt[s].age
  BY WithoutFacts
<1>2. /\ \A p \in W : wt[p].ahead \subseteq W \ {p}
      /\ \A p, s \in W : p = s \/ p \in wt[s].ahead \/ s \in wt[p].ahead
      /\ \A p \in W : \A s \in wt[p].ahead :
            wt[s].ahead \subseteq wt[p].ahead /\ wt[p].age <= wt[s].age
  BY DEF Ordered
<1> HIDE DEF W
<1> QED BY <1>1, <1>2 DEF Ordered

\* The typing and the booking of the limits, in the terms of the lemmas above.
LEMMA IInvFacts ==
    ASSUME IInv
    PROVE  /\ waiter \in WaiterFunctions
           /\ lease \in LeaseFunctions
           /\ limitOf \in LimitFunctions
           /\ Present(waiter, NoWaiter) \cap Present(lease, NoLease) = {}
           /\ \A u \in Users : Busy(waiter, lease, u) <=> limitOf[u] # 0
           /\ \A u \in Users : config[u] \in Configs /\ config[u].concurrency \in Limits
           /\ Ordered(waiter) /\ Rearranges(waiter, lease)
<1>1. \A c \in Configs : c.concurrency \in Limits
  BY SchedulerAssumption DEF ConfigRecord
<1>2. Ordered(waiter)
  BY DEF IInv
<1>3. Rearranges(waiter, lease)
  <2>1. Waiting \cap Active = {}
    BY DEF IInv, TypeOK
  <2>2. \A s \in Waiting : waiter[s].ahead \subseteq Waiting
    BY <1>2 DEF Ordered, Waiting
  <2> QED BY <2>1, <2>2 DEF Rearranges, Waiting, Active
<1> QED
  BY <1>1, <1>2, <1>3 DEF IInv, TypeOK, LimitIsSmallest, HasWork, Busy, Waiting, Active,
              WaiterFunctions, LeaseFunctions, LimitFunctions

LEMMA AcquireIsHandler ==
    ASSUME IInv, NEW r \in Requests, NEW u \in Users, NEW class \in OfferedClasses,
           NEW o \in MaxWaitOverride, Acquire(r, u, class, o)
    PROVE  \E wt, limits, c :
              /\ Handler(wt, lease, limits, c)
              /\ r \notin Waiting \cup Active
              /\ Present(wt, NoWaiter) = Waiting \cup {r}
<1> DEFINE c   == config[u]
           new == [user |-> u, class |-> class, config |-> c, age |-> 0,
                   timed |-> TimerArmed(c, class, o), ahead |-> Waiting]
           wt  == [waiter EXCEPT ![r] = new]
           limits == [limitOf EXCEPT ![u] = c.concurrency]
<1>1. new \in WaiterRecord /\ new # NoWaiter /\ new.user = u
  <2>1. 0 \in 0..AgeCap
    BY SchedulerAssumption
  <2>2. TimerArmed(c, class, o) \in BOOLEAN
    BY DEF TimerArmed
  <2>3. Waiting \subseteq Requests
    BY DEF Waiting, Present
  <2>4. new \in WaiterRecord
    BY <2>1, <2>2, <2>3, IInvFacts DEF WaiterRecord
  <2> QED
    BY <2>4, SchedulerAssumption
<1>2. r \notin Waiting \cup Active
  BY DEF Acquire, Idle
<1> HIDE DEF new
<1>3. wt \in WaiterFunctions /\ Present(wt, NoWaiter) = Waiting \cup {r}
  BY <1>1, IInvFacts DEF Present, WaiterFunctions, Waiting
<1>4. limits \in LimitFunctions /\ limits[u] # 0
  BY IInvFacts DEF LimitFunctions, Limits
<1>5. \A v \in Users : Busy(wt, lease, v) <=> Busy(waiter, lease, v) \/ v = u
  <2>1. \A s \in Waiting : wt[s] = waiter[s]
    BY <1>2, IInvFacts DEF WaiterFunctions
  <2>2. wt[r].user = u
    BY <1>1, IInvFacts DEF WaiterFunctions
  <2> QED
    BY <1>3, <2>1, <2>2 DEF Busy, Waiting
<1>6. \A v \in Users : Busy(wt, lease, v) <=> limits[v] # 0
  BY <1>4, <1>5, IInvFacts DEF LimitFunctions
<1>7. Present(wt, NoWaiter) \cap Present(lease, NoLease) = {}
  BY <1>2, <1>3, IInvFacts DEF Waiting, Active
<1>8. SetLimits(limits) /\ Pump(wt, lease, c) /\ UNCHANGED config
  BY DEF Acquire, new
<1>9. /\ \A s \in Waiting : wt[s] = waiter[s]
      /\ wt[r].ahead = Waiting /\ wt[r].age = 0
  BY <1>2, IInvFacts DEF WaiterFunctions, new
<1> HIDE DEF wt
<1>10. Ordered(wt) /\ Rearranges(wt, lease)
  <2>1. \A s \in Waiting : waiter[s].age \in Nat
    BY SchedulerAssumption, IInvFacts
       DEF Waiting, Present, WaiterFunctions, WaiterRecord
  <2>2. /\ \A p \in Waiting : waiter[p].ahead \subseteq Waiting \ {p}
        /\ \A p, s \in Waiting : p = s \/ p \in waiter[s].ahead \/ s \in waiter[p].ahead
        /\ \A p \in Waiting : \A s \in waiter[p].ahead :
              waiter[s].ahead \subseteq waiter[p].ahead /\ waiter[p].age <= waiter[s].age
    BY IInvFacts DEF Ordered, Waiting
  <2>3. Ordered(wt)
    BY <1>2, <1>3, <1>9, <2>1, <2>2 DEF Ordered
  <2>4. Rearranges(wt, lease)
    BY <1>2, <1>3, <1>7, <1>9, <2>2 DEF Rearranges, Active
  <2> QED BY <2>3, <2>4
<1>11. Handler(wt, lease, limits, c)
  BY <1>3, <1>4, <1>6, <1>7, <1>8, <1>10, IInvFacts DEF Handler
<1> QED
  BY <1>2, <1>3, <1>11

LEMMA AcquireAbortedIsHandler ==
    ASSUME IInv, NEW u \in Users, AcquireAborted(u)
    PROVE  \E limits, c : Handler(waiter, lease, limits, c)
<1> DEFINE noted  == [limitOf EXCEPT ![u] = config[u].concurrency]
           limits == DropIdle(noted, u, waiter, lease)
<1>1. /\ noted \in LimitFunctions
      /\ noted[u] # 0
      /\ \A v \in Users \ {u} : Busy(waiter, lease, v) <=> noted[v] # 0
  BY IInvFacts DEF LimitFunctions, Limits
<1>2. /\ limits \in LimitFunctions
      /\ \A v \in Users : Busy(waiter, lease, v) <=> limits[v] # 0
  BY <1>1, DropIdleFacts
<1>3. SetLimits(limits) /\ Pump(waiter, lease, config[u]) /\ UNCHANGED config
  BY DEF AcquireAborted
<1>4. Handler(waiter, lease, limits, config[u])
  BY <1>2, <1>3, IInvFacts DEF Handler
<1> QED
  BY <1>4

LEMMA FailIsHandler ==
    ASSUME IInv, NEW r \in Waiting, Fail(r)
    PROVE  \E wt, limits, c :
              /\ Handler(wt, lease, limits, c)
              /\ Present(wt, NoWaiter) = Waiting \ {r}
<1> DEFINE u      == waiter[r].user
           rest   == Without(waiter, r)
           limits == DropIdle(limitOf, u, rest, lease)
<1>1. r \in Requests /\ u \in Users /\ waiter[r].config \in Configs
  BY IInvFacts DEF Waiting, Present, WaiterFunctions, WaiterRecord
<1>2. /\ rest \in WaiterFunctions
      /\ Present(rest, NoWaiter) = Waiting \ {r}
      /\ \A s \in Waiting \ {r} : /\ rest[s].user = waiter[s].user
                                  /\ rest[s].class = waiter[s].class
                                  /\ rest[s].ahead = waiter[s].ahead \ {r}
      /\ Ordered(rest)
  BY <1>1, IInvFacts, WithoutFacts, WithoutOrders DEF Waiting
<1> HIDE DEF rest
<1>3. /\ \A v \in Users \ {u} : Busy(rest, lease, v) <=> Busy(waiter, lease, v)
      /\ Busy(rest, lease, u) => Busy(waiter, lease, u)
  BY <1>2 DEF Busy, Waiting
<1>4. /\ limits \in LimitFunctions
      /\ \A v \in Users : Busy(rest, lease, v) <=> limits[v] # 0
  BY <1>1, <1>3, IInvFacts, DropIdleFacts
<1>5. SetLimits(limits) /\ Pump(rest, lease, waiter[r].config) /\ UNCHANGED config
  BY DEF Fail, rest
<1>6. Present(rest, NoWaiter) \cap Present(lease, NoLease) = {}
  BY <1>2, IInvFacts DEF Waiting
<1>7. Rearranges(rest, lease)
  <2>1. \A s \in Waiting : waiter[s].ahead \subseteq Waiting
    BY IInvFacts DEF Ordered, Waiting
  <2> QED BY <1>2, <1>6, <2>1 DEF Rearranges, Active
<1>8. Handler(rest, lease, limits, waiter[r].config)
  BY <1>1, <1>2, <1>4, <1>5, <1>6, <1>7, IInvFacts DEF Handler
<1> QED
  BY <1>2, <1>8

LEMMA ReleaseIsHandler ==
    ASSUME IInv, NEW r \in Requests, Release(r)
    PROVE  \E ls, limits, c :
              /\ Handler(waiter, ls, limits, c)
              /\ r \in Active
              /\ Present(ls, NoLease) = Active \ {r}
<1> DEFINE u      == lease[r].user
           rest   == [lease EXCEPT ![r] = NoLease]
           limits == DropIdle(limitOf, u, waiter, rest)
<1>1. r \in Active /\ u \in Users
  BY IInvFacts DEF Release, Active, Present, LeaseFunctions, LeaseRecord
<1>2. /\ rest \in LeaseFunctions
      /\ Present(rest, NoLease) = Active \ {r}
      /\ \A s \in Active \ {r} : rest[s] = lease[s]
  BY <1>1, IInvFacts DEF Active, Present, LeaseFunctions
<1> HIDE DEF rest
<1>3. /\ \A v \in Users \ {u} : Busy(waiter, rest, v) <=> Busy(waiter, lease, v)
      /\ Busy(waiter, rest, u) => Busy(waiter, lease, u)
  BY <1>2 DEF Busy, Active
<1>4. /\ limits \in LimitFunctions
      /\ \A v \in Users : Busy(waiter, rest, v) <=> limits[v] # 0
  BY <1>1, <1>3, IInvFacts, DropIdleFacts
<1>5. SetLimits(limits) /\ Pump(waiter, rest, config[u]) /\ UNCHANGED config
  BY DEF Release, rest
<1>6. Present(waiter, NoWaiter) \cap Present(rest, NoLease) = {}
  BY <1>2, IInvFacts DEF Active
<1>7. Rearranges(waiter, rest)
  BY <1>2, IInvFacts DEF Rearranges
<1>8. Handler(waiter, rest, limits, config[u])
  BY <1>1, <1>2, <1>4, <1>5, <1>6, <1>7, IInvFacts DEF Handler
<1> QED
  BY <1>1, <1>2, <1>8

-----------------------------------------------------------------------------
(* Steps *)

\* No limit is exceeded by whoever is admitted in this step.
Admissible ==
    \A r \in Active' \ Active :
        \A u \in Users : HasWork(u)' => Cardinality(Active') <= limitOf'[u]

\* A step that leaves the waiting and active sets and the limits alone.
QuietStep ==
    /\ Waiting' = Waiting
    /\ Active' = Active
    /\ concurrency' = concurrency

\* After a handler, what was admitted respects every participant's limit.
LEMMA HandlerAdmits ==
    ASSUME IInv, NEW wt, NEW ls, NEW limits, NEW c, Handler(wt, ls, limits, c),
           Present(ls, NoLease) \subseteq Active
    PROVE  Admissible
<1>1. /\ IInv'
      /\ \/ Active' \subseteq Present(ls, NoLease)
         \/ Cardinality(Active') <= concurrency'
  BY HandlerFacts
<1> SUFFICES ASSUME NEW r \in Active' \ Active, NEW u \in Users, HasWork(u)'
             PROVE  Cardinality(Active') <= limitOf'[u]
  BY DEF Admissible
<1>2. Cardinality(Active') <= concurrency'
  BY <1>1
<1>3. concurrency' <= limitOf'[u] /\ limitOf'[u] # 0
  BY <1>1 DEF IInv, LimitIsSmallest
<1>4. Cardinality(Active') \in Nat
  BY RequestSets DEF Active, Present
<1>5. concurrency' \in Int /\ limitOf'[u] \in Int
  BY <1>1 DEF IInv, TypeOK, Limits
<1> QED
  BY <1>2, <1>3, <1>4, <1>5

\* Nobody admitted in this step was due after a waiter who stays behind.
NotOvertaken ==
    \A g \in Active' \ Active, s \in Waiting \cap Waiting' :
       LET base == BasePriority[waiter[s].class]
           got  == BasePriority[lease'[g].class]
       IN  /\ (g \notin Waiting \/ s \in waiter[g].ahead) => got < base
           /\ base < MinAgedPriority => got <= base

\* Whoever is told to stop in this step has to make room.
PreemptsJustly ==
    (Waiting' # Waiting \/ Active' # Active) =>
       \A r \in NewlyAborted :
          /\ NewlyAborted = {r}
          /\ lease[r].class \in {"background", "bulk"}
          /\ Cardinality(Active') >= concurrency'
          /\ \E w \in Waiting' :
                BasePriority[waiter'[w].class] < BasePriority[lease[r].class]

\* A handler admits in the order of the classes and of arrival, whoever's
\* settings it pumps under.
LEMMA HandlerServes ==
    ASSUME IInv, NEW wt, NEW ls, NEW limits, NEW c, Handler(wt, ls, limits, c)
    PROVE  NotOvertaken
<1> DEFINE W == Present(wt, NoWaiter)
<1>1. /\ wt \in WaiterFunctions /\ ls \in LeaseFunctions /\ c \in Configs
      /\ Ordered(wt) /\ Rearranges(wt, ls) /\ Pump(wt, ls, c)
  BY DEF Handler
<1>2. PICK G, V : Pumps(wt, ls, c, G, V)
  BY <1>1, PumpPumps
<1>3. /\ Waiting' = W \ G /\ Active' = Present(ls, NoLease) \cup G
      /\ \A r \in Active' : lease'[r].class = (IF r \in G THEN wt[r] ELSE ls[r]).class
  <2>1. Pumped(wt, ls, G, V)
    BY <1>1, <1>2, PumpRecords
  <2> QED BY <2>1 DEF Pumped
<1>4. G \subseteq W /\ \A g \in G, s \in W \ G : Before(wt, c, g, s)
  BY <1>2 DEF Pumps, IsBatch
<1> SUFFICES ASSUME NEW g \in Active' \ Active, NEW s \in Waiting \cap Waiting'
             PROVE  /\ g \notin Waiting \/ s \in waiter[g].ahead =>
                          BasePriority[lease'[g].class] < BasePriority[waiter[s].class]
                    /\ BasePriority[waiter[s].class] < MinAgedPriority =>
                          BasePriority[lease'[g].class] <= BasePriority[waiter[s].class]
  BY DEF NotOvertaken
<1> DEFINE got  == BasePriority[wt[g].class]
           base == BasePriority[wt[s].class]
           pg == EffectivePriority(wt[g], c)
           ps == EffectivePriority(wt[s], c)
<1>5. /\ g \in G /\ g \in W /\ s \in W \ G /\ g # s
      /\ lease'[g].class = wt[g].class /\ wt[s].class = waiter[s].class
  BY <1>1, <1>3, <1>4 DEF Rearranges
<1>6. wt[g] \in WaiterRecord /\ wt[s] \in WaiterRecord
  BY <1>1, <1>5 DEF Present, WaiterFunctions
<1>7. /\ got \in 0..4 /\ base \in 0..4 /\ MinAgedPriority = 2
  BY <1>6, BaseFacts, SchedulerAssumption DEF WaiterRecord
<1>8. /\ pg \in 0..4 /\ pg <= got
      /\ got < 2 \/ pg < 2 => pg = got
      /\ wt[g].age = 0 => pg = got
  BY <1>1, <1>6, PriorityFacts
<1>9. /\ ps \in 0..4 /\ ps <= base
      /\ base < 2 \/ ps < 2 => ps = base
  BY <1>1, <1>6, PriorityFacts
<1>10. pg < ps \/ (pg = ps /\ g \in wt[s].ahead)
  BY <1>4, <1>5 DEF Before
<1>11. /\ s \in wt[g].ahead => g \notin wt[s].ahead /\ wt[g].age <= wt[s].age
  BY <1>1, <1>5 DEF Ordered
<1>12. ASSUME g \notin Waiting PROVE got < base
  <2>1. wt[g].age = 0
    BY <1>1, <1>5, <1>12 DEF Rearranges
  <2>2. g \notin wt[s].ahead
    <3>1. waiter[s].ahead \subseteq Waiting
      BY IInvFacts DEF Ordered, Waiting
    <3>2. wt[s].ahead \subseteq waiter[s].ahead
      BY <1>1, <1>5 DEF Rearranges
    <3> QED BY <1>12, <3>1, <3>2
  <2> HIDE DEF got, base, pg, ps
  <2> QED BY <1>7, <1>8, <1>9, <1>10, <2>1, <2>2
<1>13. ASSUME g \in Waiting, s \in waiter[g].ahead PROVE got < base
  <2>1. s \in wt[g].ahead
    BY <1>1, <1>5, <1>13 DEF Rearranges
  <2>2. pg < ps
    BY <1>10, <1>11, <2>1
  <2>3. base <= got => ps <= pg
    BY <1>1, <1>6, <1>11, <2>1, AgingKeepsOrder
  <2> HIDE DEF got, base, pg, ps
  <2> QED BY <1>7, <1>8, <1>9, <2>2, <2>3
<1>14. base < 2 => got <= base
  <2> HIDE DEF got, base, pg, ps
  <2> QED BY <1>7, <1>8, <1>9, <1>10
<1> QED BY <1>5, <1>7, <1>12, <1>13, <1>14

\* A handler tells at most one holder to stop, for a more urgent waiter that
\* stays behind.
LEMMA HandlerPreempts ==
    ASSUME IInv, NEW wt, NEW ls, NEW limits, NEW c, Handler(wt, ls, limits, c)
    PROVE  PreemptsJustly
<1> DEFINE W == Present(wt, NoWaiter)
<1>1. /\ wt \in WaiterFunctions /\ ls \in LeaseFunctions
      /\ Rearranges(wt, ls) /\ Pump(wt, ls, c)
  BY DEF Handler
<1>2. PICK G, V : Pumps(wt, ls, c, G, V)
  BY <1>1, PumpPumps
<1> DEFINE granted == Grants(wt, ls, G)
<1>3. /\ granted \in LeaseFunctions
      /\ Present(granted, NoLease) = Active'
      /\ Active' = Present(ls, NoLease) \cup G
      /\ Waiting' = W \ G
      /\ \A r \in Waiting' : waiter'[r] = [wt[r] EXCEPT !.ahead = @ \ G]
      /\ \A r \in Active' \ V : lease'[r] = granted[r]
  <2>1. Pumped(wt, ls, G, V)
    BY <1>1, <1>2, PumpRecords
  <2> QED BY <2>1 DEF Pumped
<1>4. V \in Victims(wt, granted, c, W \ G) /\ G \subseteq W
  BY <1>2 DEF Pumps
<1>5. \A r \in Active \cap Active' : granted[r] = lease[r] /\ r \in Requests
  BY <1>1, <1>3, <1>4 DEF Rearranges, Grants, Active, Present
<1> HIDE DEF granted
<1>6. NewlyAborted \subseteq V
  BY <1>3, <1>5 DEF NewlyAborted
<1> SUFFICES ASSUME NEW r \in NewlyAborted
             PROVE  /\ NewlyAborted = {r}
                    /\ lease[r].class \in {"background", "bulk"}
                    /\ Cardinality(Active') >= concurrency'
                    /\ \E w \in Waiting' :
                          BasePriority[waiter'[w].class] < BasePriority[lease[r].class]
  BY DEF PreemptsJustly
<1>7. W \ G \in SUBSET W /\ V # {}
  BY <1>6
<1>8. PICK t \in Active' :
         /\ V = {t} /\ granted[t].class \in {"background", "bulk"}
         /\ ~(Cardinality(Active') < concurrency')
         /\ \E w \in W \ G : BasePriority[wt[w].class] < BasePriority[granted[t].class]
  <2>1. OneYields(wt, granted, W \ G, V)
    BY <1>1, <1>3, <1>4, <1>7, VictimFacts
  <2> QED BY <1>3, <2>1 DEF OneYields
<1>9. r = t /\ NewlyAborted = {r} /\ granted[t] = lease[r]
  BY <1>5, <1>6, <1>8 DEF NewlyAborted
<1>10. PICK w \in W \ G : BasePriority[wt[w].class] < BasePriority[granted[t].class]
  BY <1>8
<1>11. waiter'[w].class = wt[w].class
  <2>1. wt[w] \in WaiterRecord
    BY <1>1 DEF Present, WaiterFunctions
  <2> QED BY <1>3, <2>1 DEF WaiterRecord
<1>12. Cardinality(Active') >= concurrency'
  <2>1. IInv'
    BY HandlerFacts
  <2>2. Cardinality(Active') \in Nat /\ concurrency' \in Int
    BY <2>1, RequestSets DEF IInv, TypeOK, Limits, Active, Present
  <2> QED BY <1>8, <2>2
<1> QED BY <1>3, <1>8, <1>9, <1>10, <1>11, <1>12

\* What every step of the scheduler keeps to.
Orderly == Admissible /\ NotOvertaken /\ PreemptsJustly

\* The invariant holds initially.
LEMMA InitIInv == Init => IInv
<1> SUFFICES ASSUME Init
             PROVE  IInv
  OBVIOUS
<1>1. Waiting = {} /\ Active = {} /\ Idle = Requests
  BY DEF Init, Waiting, Active, Present, Idle
<1>2. TypeOK
  BY <1>1 DEF Init, TypeOK, Limits
<1>3. WorkConserving
  BY <1>1 DEF WorkConserving
<1>4. LimitIsSmallest
  BY <1>1 DEF Init, LimitIsSmallest, HasWork
<1>5. Ordered(waiter) /\ UrgentWaiterPreempts
  BY <1>1 DEF Ordered, Waiting, UrgentWaiterPreempts
<1> QED
  BY <1>2, <1>3, <1>4, <1>5 DEF IInv

\* Actions that do not pump keep the invariant: they change no user, neither
\* set and no limit.
LEMMA CallerAbortsActiveKeeps ==
    ASSUME IInv, NEW r \in Requests, CallerAbortsActive(r)
    PROVE  IInv' /\ QuietStep
<1> USE DEF CallerAbortsActive
<1>1. lease[r] \in LeaseRecord
  BY DEF IInv, TypeOK, Active, Present
<1>2. /\ lease' \in LeaseFunctions
      /\ Active' = Active
      /\ \A s \in Active : lease'[s].user = lease[s].user
  BY <1>1, AbortedLease, IInvFacts DEF LeaseFunctions, Active, Present
<1>3. Waiting' = Waiting
  BY DEF Waiting, Present
<1>4. \A u \in Users : HasWork(u)' <=> HasWork(u)
  BY <1>2, <1>3 DEF HasWork
<1>5. Idle' = Idle
  BY <1>2, <1>3 DEF Idle
<1>6. UrgentWaiterPreempts'
  <2>1. r \in Active' /\ lease'[r].aborted
    BY <1>1, <1>2 DEF IInv, TypeOK, LeaseRecord
  <2> QED BY <2>1 DEF UrgentWaiterPreempts
<1>7. Ordered(waiter)'
  BY DEF IInv
<1> QED
  BY <1>2, <1>3, <1>4, <1>5, <1>6, <1>7
     DEF IInv, TypeOK, WorkConserving, LimitIsSmallest, LeaseFunctions, QuietStep

LEMMA SetConfigKeeps ==
    ASSUME IInv, NEW u \in Users, NEW c \in Configs, SetConfig(u, c)
    PROVE  IInv' /\ QuietStep
<1>1. Waiting' = Waiting /\ Active' = Active /\ Idle' = Idle
  BY DEF SetConfig, Waiting, Active, Idle, Present
<1>2. \A v \in Users : HasWork(v)' <=> HasWork(v)
  BY <1>1 DEF SetConfig, HasWork
<1>3. Ordered(waiter)' /\ UrgentWaiterPreempts'
  BY <1>1 DEF SetConfig, IInv, UrgentWaiterPreempts
<1> QED
  BY <1>1, <1>2, <1>3 DEF SetConfig, IInv, TypeOK, WorkConserving, LimitIsSmallest, QuietStep

LEMMA TickKeeps ==
    ASSUME IInv, Tick
    PROVE  IInv' /\ QuietStep
<1> DEFINE aged(w) == [w EXCEPT !.age = Smaller(AgeCap, @ + 1)]
<1>1. \A w \in WaiterRecord : aged(w) \in WaiterRecord
                              /\ aged(w) # NoWaiter /\ aged(w).user = w.user
                              /\ aged(w).class = w.class
                              /\ aged(w).ahead = w.ahead
                              /\ aged(w).age = Smaller(AgeCap, w.age + 1)
  <2> SUFFICES ASSUME NEW w \in WaiterRecord
               PROVE  /\ aged(w) \in WaiterRecord /\ aged(w).user = w.user
                      /\ aged(w).class = w.class /\ aged(w).ahead = w.ahead
                      /\ aged(w).age = Smaller(AgeCap, w.age + 1)
    BY SchedulerAssumption
  <2>1. w.age \in 0..AgeCap
    BY DEF WaiterRecord
  <2>2. Smaller(AgeCap, w.age + 1) \in 0..AgeCap
    BY <2>1, SchedulerAssumption DEF Smaller
  <2> QED
    BY <2>2 DEF WaiterRecord
<1>2. waiter' = [r \in Requests |-> IF r \in Waiting THEN aged(waiter[r]) ELSE NoWaiter]
  BY DEF Tick
<1>3. \A r \in Waiting : waiter[r] \in WaiterRecord
  BY DEF IInv, TypeOK, Waiting, Present
<1> HIDE DEF aged
<1>4. /\ waiter' \in WaiterFunctions
      /\ Waiting' = Waiting
      /\ \A r \in Waiting : /\ waiter'[r].user = waiter[r].user
                            /\ waiter'[r].class = waiter[r].class
                            /\ waiter'[r].ahead = waiter[r].ahead
                            /\ waiter'[r].age = Smaller(AgeCap, waiter[r].age + 1)
  <2>1. \A r \in Waiting : /\ waiter'[r] = aged(waiter[r])
                           /\ waiter'[r] \in WaiterRecord /\ waiter'[r] # NoWaiter
    BY <1>1, <1>2, <1>3 DEF Waiting, Present
  <2>2. \A r \in Requests \ Waiting : waiter'[r] = NoWaiter
    BY <1>2
  <2>3. waiter' \in WaiterFunctions /\ Waiting' = Waiting
    BY <1>2, <2>1, <2>2 DEF WaiterFunctions, Waiting, Present
  <2>4. \A r \in Waiting : /\ aged(waiter[r]).user = waiter[r].user
                           /\ aged(waiter[r]).class = waiter[r].class
                           /\ aged(waiter[r]).ahead = waiter[r].ahead
                           /\ aged(waiter[r]).age = Smaller(AgeCap, waiter[r].age + 1)
    BY <1>1, <1>3
  <2> QED BY <2>1, <2>3, <2>4
<1>5. Active' = Active /\ Idle' = Idle
  BY <1>4 DEF Tick, Active, Present, Idle
<1>6. \A u \in Users : HasWork(u)' <=> HasWork(u)
  <2>1. /\ Waiting' = Waiting /\ Active' = Active /\ lease' = lease
        /\ \A r \in Waiting : waiter'[r].user = waiter[r].user
    BY <1>4, <1>5 DEF Tick
  <2> QED BY <2>1 DEF HasWork
<1>7. Ordered(waiter)'
  <2>1. \A r \in Waiting : waiter[r].age \in Nat
    BY <1>3, SchedulerAssumption DEF WaiterRecord
  <2>2. /\ \A p \in Waiting : waiter[p].ahead \subseteq Waiting \ {p}
        /\ \A p, s \in Waiting : p = s \/ p \in waiter[s].ahead \/ s \in waiter[p].ahead
        /\ \A p \in Waiting : \A s \in waiter[p].ahead :
              waiter[s].ahead \subseteq waiter[p].ahead /\ waiter[p].age <= waiter[s].age
    BY DEF IInv, Ordered, Waiting
  <2>3. \A m, n \in Nat : m <= n => Smaller(AgeCap, m + 1) <= Smaller(AgeCap, n + 1)
    BY SchedulerAssumption DEF Smaller
  <2>4. \A p \in Waiting : \A s \in waiter[p].ahead : waiter'[p].age <= waiter'[s].age
    BY <1>4, <2>1, <2>2, <2>3
  <2>5. Present(waiter', NoWaiter) = Waiting
    BY <1>4 DEF Waiting, Present
  <2> QED BY <1>4, <2>2, <2>4, <2>5 DEF Ordered
<1>8. UrgentWaiterPreempts'
  BY <1>4, <1>5 DEF Tick, IInv, UrgentWaiterPreempts
<1> QED
  BY <1>4, <1>5, <1>6, <1>7, <1>8
     DEF Tick, IInv, TypeOK, WorkConserving, LimitIsSmallest, WaiterFunctions, QuietStep

\* A quiet step admits nobody and is a stuttering step of the pool.
LEMMA QuietFacts ==
    ASSUME QuietStep
    PROVE  UNCHANGED Pool!vars /\ Orderly
  BY DEF QuietStep, Pool!vars, Orderly, Admissible, NotOvertaken, PreemptsJustly

\* Every step keeps the invariant, is a step of the abstract pool, admits within
\* the limits and in order, and preempts justly: one case per action.
LEMMA StepFacts ==
    ASSUME IInv, [Next]_vars
    PROVE  IInv' /\ [Pool!Next]_(Pool!vars) /\ Orderly
<1> DEFINE Good == IInv' /\ [Pool!Next]_(Pool!vars) /\ Orderly
<1>0. IInv' => concurrency' \in Limits
  BY DEF IInv, TypeOK
<1>1. ASSUME NEW r \in Requests, NEW u \in Users, NEW class \in OfferedClasses,
             NEW o \in MaxWaitOverride, Acquire(r, u, class, o)
      PROVE  Good
  <2>1. PICK wt, limits, c :
           /\ Handler(wt, lease, limits, c)
           /\ r \notin Waiting \cup Active
           /\ Present(wt, NoWaiter) = Waiting \cup {r}
    BY <1>1, AcquireIsHandler
  <2>2. IInv' /\ Pool!Fill(Waiting \cup {r}, Active)
    BY <2>1, HandlerFacts DEF Active
  <2>3. Pool!Next
    BY <1>0, <2>1, <2>2 DEF Pool!Next, Pool!Arrive
  <2>4. Orderly
    BY <2>1, HandlerAdmits, HandlerServes, HandlerPreempts DEF Active, Orderly
  <2> QED
    BY <2>2, <2>3, <2>4
<1>2. ASSUME NEW u \in Users, AcquireAborted(u)
      PROVE  Good
  <2>1. PICK limits, c : Handler(waiter, lease, limits, c)
    BY <1>2, AcquireAbortedIsHandler
  <2>2. IInv' /\ Pool!Fill(Waiting, Active)
    BY <2>1, HandlerFacts DEF Waiting, Active
  <2>3. Pool!Next
    BY <1>0, <2>2 DEF Pool!Next, Pool!Refill
  <2>4. Orderly
    BY <2>1, HandlerAdmits, HandlerServes, HandlerPreempts DEF Active, Orderly
  <2> QED
    BY <2>2, <2>3, <2>4
<1>3. ASSUME NEW r \in Waiting, Fail(r)
      PROVE  Good
  <2>1. PICK wt, limits, c :
           /\ Handler(wt, lease, limits, c)
           /\ Present(wt, NoWaiter) = Waiting \ {r}
    BY <1>3, FailIsHandler
  <2>2. IInv' /\ Pool!Fill(Waiting \ {r}, Active)
    BY <2>1, HandlerFacts DEF Active
  <2>3. r \in Requests
    BY DEF Waiting, Present
  <2>4. Pool!Next
    BY <1>0, <2>2, <2>3 DEF Pool!Next, Pool!Withdraw
  <2>5. Orderly
    BY <2>1, HandlerAdmits, HandlerServes, HandlerPreempts DEF Active, Orderly
  <2> QED
    BY <2>2, <2>4, <2>5
<1>4. ASSUME NEW r \in Requests, CallerAbortsWaiting(r)
      PROVE  Good
  BY <1>3, <1>4 DEF CallerAbortsWaiting
<1>5. ASSUME NEW r \in Requests, Timeout(r)
      PROVE  Good
  BY <1>3, <1>5 DEF Timeout
<1>6. ASSUME NEW r \in Requests, CallerAbortsActive(r)
      PROVE  Good
  BY <1>6, CallerAbortsActiveKeeps, QuietFacts
<1>7. ASSUME NEW r \in Requests, Release(r)
      PROVE  Good
  <2>1. PICK ls, limits, c :
           /\ Handler(waiter, ls, limits, c)
           /\ r \in Active
           /\ Present(ls, NoLease) = Active \ {r}
    BY <1>7, ReleaseIsHandler
  <2>2. IInv' /\ Pool!Fill(Waiting, Active \ {r})
    BY <2>1, HandlerFacts DEF Waiting
  <2>3. Pool!Next
    BY <1>0, <2>1, <2>2 DEF Pool!Next, Pool!Finish
  <2>4. Orderly
    BY <2>1, HandlerAdmits, HandlerServes, HandlerPreempts DEF Orderly
  <2> QED
    BY <2>2, <2>3, <2>4
<1>8. ASSUME NEW u \in Users, NEW c \in Configs, SetConfig(u, c)
      PROVE  Good
  BY <1>8, SetConfigKeeps, QuietFacts
<1>9. CASE Tick
  BY <1>9, TickKeeps, QuietFacts
<1>10. CASE UNCHANGED vars
  <2>1. QuietStep
    BY <1>10 DEF vars, QuietStep, Waiting, Active, Present
  <2>2. IInv'
    BY <1>10, <2>1 DEF vars, QuietStep, IInv, TypeOK, WorkConserving,
                       LimitIsSmallest, HasWork, Idle, UrgentWaiterPreempts
  <2> QED
    BY <2>1, <2>2, QuietFacts
<1> QED
  BY <1>1, <1>2, <1>4, <1>5, <1>6, <1>7, <1>8, <1>9, <1>10 DEF Next

-----------------------------------------------------------------------------
(* Theorems *)

\* The invariant is inductive.
THEOREM Invariance == Spec => []IInv
<1>1. IInv /\ [Next]_vars => IInv'
  BY StepFacts
<1> QED
  BY InitIInv, <1>1, PTL DEF Spec

\* Every variable keeps its type, and no request both waits and runs.
THEOREM TypeCorrect == Spec => []TypeOK
<1>1. IInv => TypeOK
  BY DEF IInv
<1> QED
  BY Invariance, <1>1, PTL

\* After every handler whoever waits faces a full resource: no wake-up is lost,
\* however grants, aborts, timeouts and changes of the limit interleave.
THEOREM NoLostWakeup == Spec => []WorkConserving
<1>1. IInv => WorkConserving
  BY DEF IInv
<1> QED
  BY Invariance, <1>1, PTL

\* The shared limit is the smallest limit of exactly the accounts with work.
THEOREM SharedLimit == Spec => []LimitIsSmallest
<1>1. IInv => LimitIsSmallest
  BY DEF IInv
<1> QED
  BY Invariance, <1>1, PTL

\* With preemption on for every account, an interactive or user request does not
\* wait while background work just keeps running.
THEOREM UrgentIsHeard == Spec => []UrgentWaiterPreempts
<1>1. IInv => UrgentWaiterPreempts
  BY DEF IInv
<1> QED
  BY Invariance, <1>1, PTL

\* Nobody is admitted beyond the limit of any account that takes part.
THEOREM Admission == Spec => AdmissionWithinEveryLimit
<1>1. IInv /\ [Next]_vars =>
         [\A r \in Active' \ Active :
             \A u \in Users : HasWork(u)' => Cardinality(Active') <= limitOf'[u]]_vars
  BY StepFacts DEF Orderly, Admissible
<1> QED
  BY Invariance, <1>1, PTL DEF Spec, AdmissionWithinEveryLimit

\* Whatever settings a pump runs under, nobody is passed over by a later request
\* of his own or a less urgent class, and an interactive or user request not
\* even by an earlier, aged one.
THEOREM OrderOfService == Spec => NoOvertaking
<1>1. IInv /\ [Next]_vars =>
         [\A g \in Active' \ Active, s \in Waiting \cap Waiting' :
             LET base == BasePriority[waiter[s].class]
                 got  == BasePriority[lease'[g].class]
             IN  /\ (g \notin Waiting \/ s \in waiter[g].ahead) => got < base
                 /\ base < MinAgedPriority => got <= base]_vars
  BY StepFacts DEF Orderly, NotOvertaken
<1> QED
  BY Invariance, <1>1, PTL DEF Spec, NoOvertaking

\* A handler that changes the queue or the slots tells at most one holder to
\* stop, of class background or bulk, with the resource full and somebody more
\* urgent left waiting.
THEOREM JustPreemption == Spec => PreemptionJustified
<1>1. IInv /\ [Next]_vars =>
         [(Waiting' # Waiting \/ Active' # Active) =>
             \A r \in NewlyAborted :
                /\ NewlyAborted = {r}
                /\ lease[r].class \in {"background", "bulk"}
                /\ Cardinality(Active') >= concurrency'
                /\ \E w \in Waiting' :
                      BasePriority[waiter'[w].class] < BasePriority[lease[r].class]]_vars
  BY StepFacts DEF Orderly, PreemptsJustly
<1> QED
  BY Invariance, <1>1, PTL DEF Spec, PreemptionJustified

\* The scheduler implements the abstract admission pool.
THEOREM ImplementsPool == Spec => PoolSpec
<1>1. Init => Pool!Init
  BY DEF Init, Pool!Init, Waiting, Active, Present, Limits
<1>2. IInv /\ [Next]_vars => [Pool!Next]_(Pool!vars)
  BY StepFacts
<1> QED
  BY Invariance, <1>1, <1>2, PTL DEF Spec, PoolSpec, Pool!Spec

=============================================================================
