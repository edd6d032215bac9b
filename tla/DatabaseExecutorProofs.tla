------------------------ MODULE DatabaseExecutorProofs ------------------------
(***************************************************************************)
(* What the executor promises its callers and the database holds for every *)
(* set of requests, every mix of their kinds and every bound of the queue. *)
(*                                                                         *)
(* The invariant has four parts, each about the request lists and the      *)
(* children handed to pump as much as about the variables: the handlers    *)
(* prepare them and pump, so that one lemma about Pump serves all.         *)
(***************************************************************************)
EXTENDS DatabaseExecutor, SequenceLemmas

Proc == [cur : Child, old : Child, ready : BOOLEAN, stopping : BOOLEAN,
         wake : BOOLEAN]
Statuses == {"new", "open"} \cup Outcomes

\* A request is open exactly while it is in one pair of hands: it waits, once,
\* or it is the active one.
Hands(st, q, a) ==
    /\ st \in [Requests -> Statuses]
    /\ q \in Seq(Requests) /\ IsInjective(q)
    /\ a \in Requests \cup {NoRequest} /\ a \notin ToSet(q)
    /\ Len(q) + (IF a = NoRequest THEN 0 ELSE 1) <= MaxPending
    /\ \A r \in Requests : st[r] = "open" <=> r \in ToSet(q) \cup {a}

\* There is no current child while a retired one is waited for, and no retired
\* one else; the current child has the request that was sent and no other.
Children(a, s, p) ==
    /\ p \in Proc /\ s \in BOOLEAN
    /\ p.stopping => p.cur = NoChild
    /\ ~p.stopping => p.old = NoChild
    /\ p.cur.state = "none" => p.cur = NoChild
    /\ p.ready => p.cur.state \in {"up", "exited"}
    /\ a # NoRequest => p.ready
    /\ s => a # NoRequest
    /\ p.cur.op = IF s THEN a ELSE NoRequest

\* What r's caller knows of its effect.
CallerKnows(k, ap, st, a, s, r) ==
    /\ ap[r] \in {0, 1}
    /\ st[r] \in {"new", "not-started", "rolled-back"} => ap[r] = 0
    /\ st[r] = "open" /\ ~(s /\ a = r) => ap[r] = 0
    /\ st[r] = "ok" /\ k[r] \notin Reads => ap[r] = 1

\* What is known of the effect of r while a child has it.
CurrentKnows(k, ap, p, r) ==
    p.cur.op = r =>
       /\ Alive(p.cur) /\ p.cur.answer = "none" => ap[r] = 0
       /\ p.cur.answer = "result" /\ k[r] \notin Reads => ap[r] = 1
       /\ p.cur.answer \in {"busy", "rolled-back"} => ap[r] = 0

RetiredKnows(ap, st, p, r) ==
    p.old.op = r =>
       /\ st[r] = "unknown"
       /\ Alive(p.old) /\ p.old.answer = "none" => ap[r] = 0

Truth(k, ap, st, a, s, p) ==
    \A r \in Requests :
       /\ CallerKnows(k, ap, st, a, s, r)
       /\ CurrentKnows(k, ap, p, r)
       /\ RetiredKnows(ap, st, p, r)

\* The barriers a request has to wait for stay ahead of it.
Order(k, b, st, q, a, p) ==
    /\ b \in [Requests -> SUBSET Requests]
    /\ \A r \in Requests : \A w \in b[r] :
          k[w] \notin Reads /\ st[w] # "new" /\ w # r
    /\ \A j \in DOMAIN q : \A w \in b[q[j]] :
          st[w] = "open" => w = a \/ \E i \in DOMAIN q : i < j /\ q[i] = w
    /\ \A r \in Requests : r = a \/ r = p.old.op =>
          \A w \in b[r] : st[w] # "open"

Typed ==
    /\ kind \in [Requests -> Kinds]
    /\ streak \in Nat
    /\ closed \in BOOLEAN
    /\ applied \in [Requests -> Nat]

ClosedIsEmpty == closed => queue = <<>> /\ active = NoRequest

ExecutorInv ==
    /\ Typed
    /\ Hands(status, queue, active)
    /\ Children(active, sent, proc)
    /\ Truth(kind, applied, status, active, sent, proc)
    /\ Order(kind, before, status, queue, active, proc)
    /\ ClosedIsEmpty
    /\ StalledOnlyAfterFailedStart

-----------------------------------------------------------------------------
(* The pieces the handlers are made of                                     *)

\* Whom outcome is told, and that nobody else's status changes.
LEMMA ToldOutcome ==
    ASSUME NEW st \in [Requests -> Statuses], NEW C, NEW outcome \in Statuses
    PROVE  /\ Told(st, C, outcome) \in [Requests -> Statuses]
           /\ \A r \in Requests :
                 Told(st, C, outcome)[r] = IF r \in C THEN outcome ELSE st[r]
  BY DEF Told

\* The fields of a host that retired its child.
LEMMA RetiredFields ==
    ASSUME NEW p \in Proc, NEW w \in BOOLEAN
    PROVE  /\ Retired(p, w) \in Proc
           /\ Retired(p, w).cur = NoChild
           /\ Retired(p, w).old = p.cur
           /\ Retired(p, w).stopping = TRUE
           /\ Retired(p, w).ready = FALSE
  BY DEF Retired, Proc, NoChild, Child

\* Retiring the child leaves one child, which has the request that was sent.
LEMMA RetiredChildren ==
    ASSUME NEW a, NEW s, NEW p, NEW w \in BOOLEAN, Children(a, s, p)
    PROVE  Children(NoRequest, FALSE, Retired(p, w))
<1>1. p \in Proc
  BY DEF Children
<1>2. NoChild.op = NoRequest
  BY DEF NoChild
<1> QED BY <1>1, <1>2, RetiredFields DEF Children

\* Requests whose status does not become open or new are nobody's hindrance.
LEMMA OrderStable ==
    ASSUME NEW b, NEW st, NEW st2, NEW q, NEW a, NEW p,
           Order(kind, b, st, q, a, p),
           q \in Seq(Requests),
           \A w \in Requests : st2[w] \in {"open", "new"} => st2[w] = st[w]
    PROVE  Order(kind, b, st2, q, a, p)
<1>1. \A r \in Requests : b[r] \subseteq Requests
  BY DEF Order
<1>2. \A j \in DOMAIN q : q[j] \in Requests
  BY ElementOfSeq, LenProperties
<1> QED BY <1>1, <1>2 DEF Order

\* The next request of a queue, and that only reads are ahead of it.
LEMMA NextIndexPromotes ==
    ASSUME Typed, NEW q \in Seq(Requests), q # <<>>
    PROVE  /\ NextIndex(q) \in DOMAIN q
           /\ \A j \in DOMAIN q : j < NextIndex(q) => kind[q[j]] \in Reads
<1>1. DOMAIN q = 1..Len(q) /\ Len(q) \in Nat \ {0}
  BY LenProperties, EmptySeq
<1>2. CASE streak < MaxStreak /\ Promotable(q) # {}
  <2>1. Promotable(q) \in SUBSET Nat
    BY <1>1 DEF Promotable
  <2>2. NextIndex(q) \in Promotable(q)
    BY <1>2, <2>1, MinOfNaturals DEF NextIndex
  <2>3. /\ NextIndex(q) \in DOMAIN q
        /\ \A j \in 1..(NextIndex(q) - 1) : kind[q[j]] \in Reads
    BY <2>2 DEF Promotable
  <2>4. \A j \in DOMAIN q : j < NextIndex(q) => j \in 1..(NextIndex(q) - 1)
    BY <1>1, <2>3
  <2> QED BY <2>3, <2>4
<1>3. CASE ~(streak < MaxStreak /\ Promotable(q) # {})
  <2>1. NextIndex(q) = 1
    BY <1>3 DEF NextIndex
  <2> QED BY <1>1, <2>1
<1> QED BY <1>2, <1>3

\* A request that has been answered need not stay the active one, and the
\* active one may be given up with its child.
LEMMA OrderMoves ==
    ASSUME NEW b, NEW st, NEW q, NEW a, NEW p, NEW a2, NEW p2,
           Order(kind, b, st, q, a, p),
           q \in Seq(Requests),
           \/ a2 = a
           \/ a2 = NoRequest /\ (a \in Requests => st[a] # "open"),
           p2.old.op \in {a, p.old.op, NoRequest}
    PROVE  Order(kind, b, st, q, a2, p2)
<1>1. \A r \in Requests : b[r] \subseteq Requests /\ r # NoRequest
  BY DatabaseExecutorAssumption DEF Order
<1>2. \A j \in DOMAIN q : q[j] \in Requests
  BY ElementOfSeq, LenProperties
<1>3. \A j \in DOMAIN q : \A w \in b[q[j]] :
         st[w] = "open" => w = a2 \/ \E i \in DOMAIN q : i < j /\ q[i] = w
  BY <1>1, <1>2 DEF Order
<1>4. \A r \in Requests : r = a2 \/ r = p2.old.op =>
         \A w \in b[r] : st[w] # "open"
  BY <1>1 DEF Order
<1> QED BY <1>3, <1>4 DEF Order

\* No request waits any more.
LEMMA OrderEmpties ==
    ASSUME NEW b, NEW st, NEW q, NEW a, NEW p, Order(kind, b, st, q, a, p)
    PROVE  Order(kind, b, st, <<>>, a, p)
  BY DEF Order

\* The request at i becomes the active one.
LEMMA TakenOut ==
    ASSUME NEW st, NEW q, Hands(st, q, NoRequest), NEW i \in DOMAIN q
    PROVE  Hands(st, RemoveAt(q, i), q[i])
<1>1. /\ q \in Seq(Requests) /\ IsInjective(q)
      /\ q[i] \in Requests /\ q[i] # NoRequest /\ q[i] \in ToSet(q)
  BY ElementOfSeq, LenProperties, DatabaseExecutorAssumption DEF Hands, ToSet
<1>2. /\ RemoveAt(q, i) \in Seq(Requests)
      /\ Len(RemoveAt(q, i)) = Len(q) - 1
      /\ IsInjective(RemoveAt(q, i))
      /\ ToSet(RemoveAt(q, i)) = ToSet(q) \ {q[i]}
  BY <1>1, RemoveAtElements, RemoveAtInjective
<1>3. Len(RemoveAt(q, i)) + 1 <= MaxPending
  BY <1>1, <1>2, LenProperties DEF Hands
<1>4. \A r \in Requests : st[r] = "open" <=> r \in ToSet(RemoveAt(q, i)) \cup {q[i]}
  BY <1>1, <1>2, DatabaseExecutorAssumption DEF Hands
<1> QED BY <1>1, <1>2, <1>3, <1>4 DEF Hands

\* Whoever is taken out, the others' barriers stay ahead of them.
LEMMA OrderTakenOut ==
    ASSUME NEW b, NEW st, NEW q, NEW a, NEW p, NEW i \in DOMAIN q,
           q \in Seq(Requests), Order(kind, b, st, q, a, p),
           NEW k \in DOMAIN RemoveAt(q, i), NEW w \in b[RemoveAt(q, i)[k]],
           st[w] = "open", w # q[i]
    PROVE  w = a \/ \E m \in DOMAIN RemoveAt(q, i) : m < k /\ RemoveAt(q, i)[m] = w
<1>1. PICK j \in DOMAIN q :
         /\ RemoveAt(q, i)[k] = q[j]
         /\ \A n \in DOMAIN q : n < j /\ n # i =>
               \E m \in DOMAIN RemoveAt(q, i) : m < k /\ RemoveAt(q, i)[m] = q[n]
  BY RemoveAtOrder
<1>2. w = a \/ \E n \in DOMAIN q : n < j /\ q[n] = w
  BY <1>1 DEF Order
<1> QED BY <1>1, <1>2

\* With only reads ahead of it, none of the barriers it came after is open when
\* a request becomes the active one.
LEMMA OrderActivated ==
    ASSUME NEW b, NEW st, NEW q, NEW p, NEW i \in DOMAIN q,
           Hands(st, q, NoRequest),
           Order(kind, b, st, q, NoRequest, p),
           \A j \in DOMAIN q : j < i => kind[q[j]] \in Reads
    PROVE  Order(kind, b, st, RemoveAt(q, i), q[i], p)
<1>1. /\ q \in Seq(Requests) /\ q[i] \in Requests
      /\ \A r \in Requests : b[r] \subseteq Requests /\ r # NoRequest
  BY ElementOfSeq, LenProperties, DatabaseExecutorAssumption DEF Hands, Order
<1>2. \A w \in b[q[i]] : st[w] # "open"
  BY <1>1 DEF Order
<1>3. \A k \in DOMAIN RemoveAt(q, i) : RemoveAt(q, i)[k] \in Requests
  BY <1>1, RemoveAtElements, ElementOfSeq, LenProperties
<1>4. \A k \in DOMAIN RemoveAt(q, i) : \A w \in b[RemoveAt(q, i)[k]] :
         st[w] = "open" => w = q[i] \/
            \E m \in DOMAIN RemoveAt(q, i) : m < k /\ RemoveAt(q, i)[m] = w
  BY <1>1, <1>3, OrderTakenOut
<1>5. \A r \in Requests : r = q[i] \/ r = p.old.op => \A w \in b[r] : st[w] # "open"
  BY <1>2 DEF Order
<1> QED BY <1>4, <1>5 DEF Order

\* The active request is answered.
LEMMA Answered ==
    ASSUME NEW st, NEW q, NEW a \in Requests, Hands(st, q, a),
           NEW outcome \in Outcomes
    PROVE  Hands(Told(st, {a}, outcome), q, NoRequest)
<1>1. outcome \in Statuses /\ outcome # "open"
  BY DEF Statuses, Outcomes
<1>2. NoRequest \notin ToSet(q)
  BY ElementOfSeq, LenProperties, DatabaseExecutorAssumption DEF Hands, ToSet
<1>3. \A r \in Requests : r # NoRequest
  BY DatabaseExecutorAssumption
<1>4. Len(q) \in Nat /\ Len(q) + 0 <= MaxPending
  BY LenProperties, DatabaseExecutorAssumption DEF Hands
<1> QED BY <1>1, <1>2, <1>3, <1>4, ToldOutcome DEF Hands

\* Nothing that waits is answered with an outcome it did not have.
LEMMA WaitersUntouched ==
    ASSUME NEW st, NEW q, NEW a, NEW s, NEW p,
           Hands(st, q, a), Children(a, s, p),
           Truth(kind, applied, st, a, s, p)
    PROVE  \A r \in ToSet(q) : /\ r \in Requests /\ r # a
                               /\ st[r] = "open" /\ applied[r] = 0
<1> SUFFICES ASSUME NEW r \in ToSet(q)
             PROVE  /\ r \in Requests /\ r # a
                    /\ st[r] = "open" /\ applied[r] = 0
  OBVIOUS
<1>1. r \in Requests
  BY ElementOfSeq, LenProperties DEF Hands, ToSet
<1>2. r # a /\ st[r] = "open"
  BY <1>1 DEF Hands
<1>3. applied[r] = 0
  BY <1>1, <1>2 DEF Truth, CallerKnows
<1> QED BY <1>1, <1>2, <1>3

-----------------------------------------------------------------------------
(* pump keeps what its callers prepared                                    *)

\* What pump is called with: nothing is active, the current child is idle.
Prepared(b, told, q, p) ==
    /\ Hands(told, q, NoRequest)
    /\ Children(NoRequest, FALSE, p)
    /\ Truth(kind, applied, told, NoRequest, FALSE, p)
    /\ Order(kind, b, told, q, NoRequest, p)
    /\ closed => q = <<>>

\* What it leaves; a queue without a child has somebody to wait for.
Pumped(b) ==
    /\ streak' \in Nat
    /\ Hands(status', queue', active')
    /\ Children(active', sent', proc')
    /\ Truth(kind, applied, status', active', sent', proc')
    /\ Order(kind, b, status', queue', active', proc')
    /\ closed => queue' = <<>> /\ active' = NoRequest
    /\ (queue' # <<>> /\ active' = NoRequest /\ ~closed) =>
          proc'.cur # NoChild \/ proc'.stopping

LEMMA RestsKeeps ==
    ASSUME Typed, NEW b, NEW told, NEW q, NEW p, Prepared(b, told, q, p),
           Rests(told, q, p)
    PROVE  Pumped(b)
<1>1. /\ status' = told /\ queue' = q /\ active' = NoRequest /\ sent' = FALSE
      /\ proc' = p /\ streak' \in Nat
      /\ closed \/ p.stopping \/ q = <<>> \/ (p.cur # NoChild /\ ~p.ready)
  BY DEF Rests, Idle, Typed
<1> QED BY <1>1 DEF Prepared, Pumped

LEMMA SpawnsKeeps ==
    ASSUME Typed, NEW b, NEW told, NEW q, NEW p, Prepared(b, told, q, p),
           ~closed, ~p.stopping, Spawns(told, q, p)
    PROVE  Pumped(b)
<1>1. /\ active' = NoRequest /\ sent' = FALSE /\ streak' = streak
      /\ p.cur = NoChild /\ p \in Proc
  BY DEF Spawns, Idle, Prepared, Children
<1>2. CASE status' = told /\ queue' = q /\ proc' = [p EXCEPT !.cur = NewChild]
  <2>1. /\ proc' \in Proc /\ proc'.cur = NewChild /\ proc'.old = p.old
        /\ proc'.stopping = p.stopping /\ proc'.ready = p.ready
    BY <1>1, <1>2 DEF Proc, NewChild, NoChild, Child
  <2>2. NewChild.op = NoRequest /\ NewChild.state = "booting" /\ NewChild # NoChild
    BY DEF NewChild, NoChild
  <2>3. Children(NoRequest, FALSE, proc')
    BY <1>1, <2>1, <2>2 DEF Prepared, Children, NoChild
  <2>4. Truth(kind, applied, told, NoRequest, FALSE, proc')
    BY <2>1, <2>2, DatabaseExecutorAssumption
    DEF Prepared, Truth, CurrentKnows, RetiredKnows
  <2>5. Order(kind, b, told, q, NoRequest, proc')
    BY <2>1, OrderMoves DEF Prepared, Hands
  <2> QED BY <1>1, <1>2, <2>1, <2>2, <2>3, <2>4, <2>5 DEF Prepared, Pumped, Typed
<1>3. CASE /\ status' = Told(told, ToSet(q), "not-started")
           /\ queue' = <<>> /\ proc' = p
  <2>1. /\ told \in [Requests -> Statuses] /\ "not-started" \in Statuses
        /\ \A r \in Requests : r # NoRequest
    BY DatabaseExecutorAssumption DEF Prepared, Hands, Statuses, Outcomes
  <2>2. /\ status' \in [Requests -> Statuses]
        /\ \A r \in Requests : status'[r] =
              IF r \in ToSet(q) THEN "not-started" ELSE told[r]
    BY <1>3, <2>1, ToldOutcome
  <2>3. Hands(status', <<>>, NoRequest)
    <3>1. /\ <<>> \in Seq(Requests) /\ Len(<<>>) = 0
          /\ IsInjective(<<>>) /\ ToSet(<<>>) = {}
      BY DEF IsInjective, ToSet
    <3>2. \A r \in Requests : status'[r] # "open"
      BY <2>1, <2>2 DEF Prepared, Hands
    <3> QED BY <2>1, <2>2, <3>1, <3>2, DatabaseExecutorAssumption DEF Hands
  <2>4. Truth(kind, applied, status', NoRequest, FALSE, p)
    <3>1. \A x \in ToSet(q) : told[x] = "open" /\ applied[x] = 0
      BY WaitersUntouched DEF Prepared
    <3> SUFFICES ASSUME NEW r \in Requests
                 PROVE  /\ CallerKnows(kind, applied, status', NoRequest, FALSE, r)
                        /\ CurrentKnows(kind, applied, p, r)
                        /\ RetiredKnows(applied, status', p, r)
      BY DEF Truth
    <3>2. CASE r \in ToSet(q)
      BY <2>2, <3>1, <3>2
      DEF Prepared, Truth, CallerKnows, CurrentKnows, RetiredKnows
    <3>3. CASE r \notin ToSet(q)
      BY <2>2, <3>3 DEF Prepared, Truth, CallerKnows, CurrentKnows, RetiredKnows
    <3> QED BY <3>2, <3>3
  <2>5. Order(kind, b, status', <<>>, NoRequest, p)
    <3>1. Order(kind, b, status', q, NoRequest, p)
      BY <2>2, OrderStable DEF Prepared, Hands
    <3> QED BY <3>1, OrderEmpties
  <2> QED BY <1>1, <1>3, <2>3, <2>4, <2>5 DEF Prepared, Pumped, Typed
<1> QED BY <1>2, <1>3 DEF Spawns, Idle

LEMMA DispatchesKeeps ==
    ASSUME Typed, NEW b, NEW told, NEW q, NEW p, Prepared(b, told, q, p),
           ~closed, ~p.stopping, q # <<>>, Dispatches(told, q, p)
    PROVE  Pumped(b)
<1> DEFINE i == NextIndex(q)
           r == q[i]
           rest == RemoveAt(q, i)
<1>1. /\ p \in Proc /\ p.ready /\ p.cur.state \in {"up", "exited"}
      /\ p.cur # NoChild /\ p.cur.op = NoRequest
      /\ p.old = NoChild /\ NoChild.op = NoRequest
  BY DEF Dispatches, Prepared, Children, NoChild
<1>2. /\ i \in DOMAIN q /\ \A j \in DOMAIN q : j < i => kind[q[j]] \in Reads
      /\ q \in Seq(Requests)
  BY NextIndexPromotes DEF Prepared, Hands
<1>3. r \in ToSet(q) /\ r \in Requests /\ r # NoRequest
  BY <1>2, ElementOfSeq, LenProperties, DatabaseExecutorAssumption DEF ToSet
<1>4. streak' \in Nat
  BY DEF Dispatches, Typed
<1>5. /\ Hands(told, rest, r)
      /\ Order(kind, b, told, rest, r, p)
  BY <1>2, TakenOut, OrderActivated DEF Prepared
<1>6. told[r] = "open" /\ applied[r] = 0
  <2>1. \A x \in ToSet(q) : told[x] = "open" /\ applied[x] = 0
    BY WaitersUntouched DEF Prepared
  <2> QED BY <1>3, <2>1
<1>7. \/ /\ status' = told /\ queue' = rest
         /\ active' = r /\ sent' = TRUE
         /\ proc' = [p EXCEPT !.cur.op = r, !.cur.answer = "none"]
      \/ /\ status' = Told(told, {r}, "unknown") /\ queue' = rest
         /\ active' = NoRequest /\ sent' = FALSE /\ proc' = Retired(p, TRUE)
  BY DEF Dispatches, Idle
<1> HIDE DEF i, r, rest
<1>8. CASE /\ status' = told /\ queue' = rest /\ active' = r /\ sent' = TRUE
           /\ proc' = [p EXCEPT !.cur.op = r, !.cur.answer = "none"]
  <2>1. /\ proc' \in Proc /\ proc'.cur.op = r /\ proc'.cur.answer = "none"
        /\ proc'.cur.state = p.cur.state /\ proc'.old = p.old
        /\ proc'.stopping = p.stopping /\ proc'.ready = p.ready
    BY <1>1, <1>3, <1>8 DEF Proc, Child
  <2>2. Children(r, TRUE, proc')
    BY <1>1, <1>3, <2>1 DEF Prepared, Children
  <2>3. Truth(kind, applied, told, r, TRUE, proc')
    <3> SUFFICES ASSUME NEW x \in Requests
                 PROVE  /\ CallerKnows(kind, applied, told, r, TRUE, x)
                        /\ CurrentKnows(kind, applied, proc', x)
                        /\ RetiredKnows(applied, told, proc', x)
      BY DEF Truth
    <3>1. CallerKnows(kind, applied, told, r, TRUE, x)
      BY DEF Prepared, Truth, CallerKnows
    <3>2. CurrentKnows(kind, applied, proc', x)
      BY <1>6, <2>1 DEF CurrentKnows
    <3>3. RetiredKnows(applied, told, proc', x)
      BY <1>1, <2>1, DatabaseExecutorAssumption DEF RetiredKnows
    <3> QED BY <3>1, <3>2, <3>3
  <2>4. Order(kind, b, told, rest, r, proc')
    BY <1>5, <2>1, OrderMoves DEF Hands
  <2> QED BY <1>3, <1>4, <1>5, <1>8, <2>2, <2>3, <2>4 DEF Pumped
<1>9. CASE /\ status' = Told(told, {r}, "unknown") /\ queue' = rest
           /\ active' = NoRequest /\ sent' = FALSE /\ proc' = Retired(p, TRUE)
  <2>1. /\ told \in [Requests -> Statuses]
        /\ "unknown" \in Statuses /\ "unknown" \in Outcomes
    BY <1>5 DEF Hands, Statuses, Outcomes
  <2>2. \A x \in Requests : status'[x] = IF x = r THEN "unknown" ELSE told[x]
    BY <1>9, <2>1, ToldOutcome
  <2>3. Hands(status', rest, NoRequest)
    BY <1>3, <1>5, <1>9, <2>1, Answered
  <2>4. proc'.old = p.cur /\ proc'.cur = NoChild /\ proc'.stopping
    BY <1>1, <1>9, RetiredFields
  <2>5. Children(NoRequest, FALSE, proc')
    BY <1>9, RetiredChildren DEF Prepared
  <2>6. Truth(kind, applied, status', NoRequest, FALSE, proc')
    <3> SUFFICES ASSUME NEW x \in Requests
                 PROVE  /\ CallerKnows(kind, applied, status', NoRequest, FALSE, x)
                        /\ CurrentKnows(kind, applied, proc', x)
                        /\ RetiredKnows(applied, status', proc', x)
      BY DEF Truth
    <3>1. CallerKnows(kind, applied, status', NoRequest, FALSE, x)
      BY <2>2 DEF Prepared, Truth, CallerKnows
    <3>2. CurrentKnows(kind, applied, proc', x) /\ RetiredKnows(applied, status', proc', x)
      BY <1>1, <2>4, DatabaseExecutorAssumption DEF CurrentKnows, RetiredKnows
    <3> QED BY <3>1, <3>2
  <2>7. Order(kind, b, status', rest, NoRequest, proc')
    <3>1. rest \in Seq(Requests) /\ status'[r] # "open"
      BY <1>3, <1>5, <2>2 DEF Hands
    <3>2. Order(kind, b, status', rest, r, p)
      BY <1>5, <2>2, <3>1, OrderStable
    <3> QED BY <1>1, <2>4, <3>1, <3>2, OrderMoves
  <2> QED BY <1>4, <1>9, <2>3, <2>4, <2>5, <2>6, <2>7 DEF Pumped
<1> QED BY <1>7, <1>8, <1>9

LEMMA PumpKeeps ==
    ASSUME Typed, NEW b, NEW told, NEW q, NEW p, Prepared(b, told, q, p),
           Pump(told, q, p)
    PROVE  Pumped(b)
  BY RestsKeeps, SpawnsKeeps, DispatchesKeeps DEF Pump

-----------------------------------------------------------------------------
(* Every handler keeps the invariant                                       *)

LEMMA PumpedInvariant ==
    ASSUME Typed, Pumped(before'), UNCHANGED <<kind, closed, applied>>
    PROVE  ExecutorInv'
<1>1. Typed' /\ ClosedIsEmpty' /\ StalledOnlyAfterFailedStart'
  BY DEF Typed, Pumped, ClosedIsEmpty, StalledOnlyAfterFailedStart
<1>2. /\ Hands(status', queue', active')
      /\ Children(active', sent', proc')
      /\ Truth(kind', applied', status', active', sent', proc')
      /\ Order(kind', before', status', queue', active', proc')
  BY DEF Pumped
<1> QED BY <1>1, <1>2 DEF ExecutorInv

\* A handler that pumps on what it prepared.
LEMMA PumpingInvariant ==
    ASSUME Typed, NEW told, NEW q, NEW p, Prepared(before', told, q, p),
           Pump(told, q, p), UNCHANGED <<kind, closed, applied>>
    PROVE  ExecutorInv'
  BY PumpKeeps, PumpedInvariant

\* With nothing active, the executor is prepared for the pump.
LEMMA IdleIsPrepared ==
    ASSUME ExecutorInv, active = NoRequest
    PROVE  Prepared(before, status, queue, proc) /\ sent = FALSE
<1>1. sent = FALSE
  BY DEF ExecutorInv, Children
<1> QED BY <1>1 DEF ExecutorInv, Prepared, ClosedIsEmpty

\* A request that comes in waits behind everything it has to wait for.
LEMMA ExecuteKeeps ==
    ASSUME ExecutorInv, NEW r \in Requests, Execute(r)
    PROVE  ExecutorInv'
<1> DEFINE told == Told(status, {r}, "open")
           q == Append(queue, r)
<1>1. /\ status[r] = "new" /\ ~closed /\ Pending < MaxPending
      /\ before' = [before EXCEPT ![r] =
                      {w \in Requests : Barrier(w) /\ status[w] = "open"}]
      /\ UNCHANGED <<kind, closed, applied>>
      /\ IF active = NoRequest THEN Pump(told, q, proc)
         ELSE status' = told /\ queue' = q /\ UNCHANGED <<active, sent, streak, proc>>
  BY DEF Execute
<1>2. /\ Typed /\ Hands(status, queue, active) /\ Children(active, sent, proc)
      /\ Truth(kind, applied, status, active, sent, proc)
      /\ Order(kind, before, status, queue, active, proc)
  BY DEF ExecutorInv
<1>3. /\ queue \in Seq(Requests) /\ IsInjective(queue) /\ Len(queue) \in Nat
      /\ status \in [Requests -> Statuses] /\ "open" \in Statuses
      /\ r \notin ToSet(queue) /\ r # active /\ r # NoRequest
      /\ DOMAIN queue = 1..Len(queue)
      /\ \A k \in 1..Len(queue) : queue[k] \in Requests
  BY <1>1, <1>2, LenProperties, ElementOfSeq, DatabaseExecutorAssumption
  DEF Hands, Statuses
<1>4. /\ q \in Seq(Requests) /\ IsInjective(q) /\ ToSet(q) = ToSet(queue) \cup {r}
      /\ Len(q) = Len(queue) + 1 /\ DOMAIN q = 1..(Len(queue) + 1)
      /\ \A k \in 1..Len(queue) : q[k] = queue[k]
      /\ q[Len(queue) + 1] = r
  BY <1>3, AppendNew
<1>5. /\ told \in [Requests -> Statuses]
      /\ \A x \in Requests : told[x] = IF x = r THEN "open" ELSE status[x]
  BY <1>3, ToldOutcome
<1> HIDE DEF told, q
<1>6. Hands(told, q, active)
  <2>1. Len(q) + (IF active = NoRequest THEN 0 ELSE 1) <= MaxPending
    BY <1>1, <1>3, <1>4, DatabaseExecutorAssumption DEF Pending
  <2>2. \A x \in Requests : told[x] = "open" <=> x \in ToSet(q) \cup {active}
    BY <1>2, <1>4, <1>5 DEF Hands
  <2>3. active \in Requests \cup {NoRequest} /\ active \notin ToSet(q)
    BY <1>2, <1>3, <1>4 DEF Hands
  <2> QED BY <1>4, <1>5, <2>1, <2>2, <2>3 DEF Hands
<1>7. Truth(kind, applied, told, active, sent, proc)
  <2> SUFFICES ASSUME NEW x \in Requests
               PROVE  /\ CallerKnows(kind, applied, told, active, sent, x)
                      /\ CurrentKnows(kind, applied, proc, x)
                      /\ RetiredKnows(applied, told, proc, x)
    BY DEF Truth
  <2>1. /\ CallerKnows(kind, applied, status, active, sent, x)
        /\ CurrentKnows(kind, applied, proc, x)
        /\ RetiredKnows(applied, status, proc, x)
    BY <1>2 DEF Truth
  <2> QED BY <1>1, <1>5, <2>1 DEF CallerKnows, RetiredKnows
<1>8. Order(kind, before', told, q, active, proc)
  <2>1. /\ before \in [Requests -> SUBSET Requests]
        /\ before' \in [Requests -> SUBSET Requests]
        /\ \A x \in Requests : before'[x] =
              IF x = r THEN {w \in Requests : Barrier(w) /\ status[w] = "open"}
              ELSE before[x]
    BY <1>1, <1>2 DEF Order
  <2>2. \A x \in Requests : \A w \in before'[x] :
           kind[w] \notin Reads /\ told[w] # "new" /\ w # x
    BY <1>1, <1>2, <1>5, <2>1 DEF Order, Barrier
  <2>3. \A x \in Requests : \A w \in before[x] : w # r
    BY <1>1, <1>2 DEF Order
  <2>4. ASSUME NEW j \in DOMAIN q, NEW w \in before'[q[j]], told[w] = "open"
        PROVE  w = active \/ \E i \in DOMAIN q : i < j /\ q[i] = w
    <3>1. CASE j \in 1..Len(queue)
      <4>1. /\ q[j] = queue[j] /\ q[j] \in Requests /\ q[j] # r
            /\ w \in before[queue[j]] /\ w # r /\ w \in Requests
        BY <1>3, <1>4, <2>1, <2>3, <2>4, <3>1 DEF ToSet
      <4>2. status[w] = "open"
        BY <1>5, <2>4, <4>1
      <4>3. w = active \/ \E i \in DOMAIN queue : i < j /\ queue[i] = w
        BY <1>2, <1>3, <3>1, <4>1, <4>2 DEF Order
      <4> QED BY <1>3, <1>4, <4>3
    <3>2. CASE j = Len(queue) + 1
      <4>1. w \in Requests /\ status[w] = "open"
        BY <1>4, <2>1, <2>4, <3>2
      <4>2. w \in ToSet(queue) \cup {active}
        BY <1>2, <4>1 DEF Hands
      <4> QED BY <1>3, <1>4, <3>2, <4>2 DEF ToSet
    <3> QED BY <1>3, <1>4, <3>1, <3>2
  <2>5. ASSUME NEW x \in Requests, x = active \/ x = proc.old.op,
               NEW w \in before'[x]
        PROVE  told[w] # "open"
    <3>1. x # r
      BY <1>1, <1>2, <1>3, <2>5 DEF Truth, RetiredKnows
    <3>2. w \in before[x] /\ w \in Requests /\ w # r
      BY <2>1, <2>3, <3>1, <2>5
    <3>3. status[w] # "open"
      BY <1>2, <2>5, <3>2 DEF Order
    <3> QED BY <1>5, <3>2, <3>3
  <2> QED BY <2>1, <2>2, <2>4, <2>5 DEF Order
<1>9. CASE active = NoRequest
  <2>1. sent = FALSE
    BY <1>9, IdleIsPrepared
  <2>2. Prepared(before', told, q, proc)
    BY <1>1, <1>2, <1>6, <1>7, <1>8, <1>9, <2>1 DEF Prepared
  <2> QED BY <1>1, <1>2, <1>9, <2>2, PumpingInvariant
<1>10. CASE active # NoRequest
  <2>1. Pumped(before')
    BY <1>1, <1>2, <1>6, <1>7, <1>8, <1>10 DEF Pumped, Typed
  <2> QED BY <1>1, <1>2, <2>1, PumpedInvariant
<1> QED BY <1>9, <1>10

LEMMA RefuseKeeps ==
    ASSUME ExecutorInv, NEW r \in Requests, Refuse(r)
    PROVE  ExecutorInv'
<1>1. /\ status[r] = "new" /\ status' = Told(status, {r}, "not-started")
      /\ UNCHANGED <<kind, queue, active, sent, streak, closed, proc, applied,
                     before>>
  BY DEF Refuse
<1>2. /\ Typed /\ Hands(status, queue, active) /\ Children(active, sent, proc)
      /\ Truth(kind, applied, status, active, sent, proc)
      /\ Order(kind, before, status, queue, active, proc)
  BY DEF ExecutorInv
<1>3. status \in [Requests -> Statuses] /\ "not-started" \in Statuses
  BY <1>2 DEF Hands, Statuses, Outcomes
<1>4. /\ status' \in [Requests -> Statuses]
      /\ \A x \in Requests : status'[x] = IF x = r THEN "not-started" ELSE status[x]
  BY <1>1, <1>3, ToldOutcome
<1>5. Hands(status', queue, active)
  BY <1>1, <1>2, <1>4 DEF Hands
<1>6. Truth(kind, applied, status', active, sent, proc)
  <2> SUFFICES ASSUME NEW x \in Requests
               PROVE  /\ CallerKnows(kind, applied, status', active, sent, x)
                      /\ CurrentKnows(kind, applied, proc, x)
                      /\ RetiredKnows(applied, status', proc, x)
    BY DEF Truth
  <2>1. /\ CallerKnows(kind, applied, status, active, sent, x)
        /\ CurrentKnows(kind, applied, proc, x)
        /\ RetiredKnows(applied, status, proc, x)
    BY <1>2 DEF Truth
  <2> QED BY <1>1, <1>4, <2>1 DEF CallerKnows, RetiredKnows
<1>7. Order(kind, before, status', queue, active, proc)
  BY <1>2, <1>4, OrderStable DEF Hands
<1>8. Typed' /\ ClosedIsEmpty' /\ StalledOnlyAfterFailedStart'
  BY <1>1 DEF ExecutorInv, Typed, ClosedIsEmpty, StalledOnlyAfterFailedStart
<1>9. /\ Hands(status', queue', active') /\ Children(active', sent', proc')
      /\ Truth(kind', applied', status', active', sent', proc')
      /\ Order(kind', before', status', queue', active', proc')
  BY <1>1, <1>2, <1>5, <1>6, <1>7
<1> QED BY <1>8, <1>9 DEF ExecutorInv

\* The operation in the child's hands is given up with it, and its caller is
\* told that nobody knows.
LEMMA ExpireActiveKeeps ==
    ASSUME ExecutorInv, NEW r \in Requests, ExpireActive(r),
           UNCHANGED <<kind, closed, applied, before>>
    PROVE  ExecutorInv'
<1>1. /\ active = r /\ sent /\ status' = Told(status, {r}, "unknown")
      /\ queue' = queue /\ active' = NoRequest /\ sent' = FALSE
      /\ proc' = Retired(proc, TRUE) /\ streak' = streak
  BY DEF ExpireActive, Idle
<1>2. /\ Typed /\ Hands(status, queue, active) /\ Children(active, sent, proc)
      /\ Truth(kind, applied, status, active, sent, proc)
      /\ Order(kind, before, status, queue, active, proc)
  BY DEF ExecutorInv
<1>3. /\ status \in [Requests -> Statuses]
      /\ "unknown" \in Statuses /\ "unknown" \in Outcomes
  BY <1>2 DEF Hands, Statuses, Outcomes
<1>4. \A x \in Requests : status'[x] = IF x = r THEN "unknown" ELSE status[x]
  BY <1>1, <1>3, ToldOutcome
<1>5. Hands(status', queue, NoRequest)
  BY <1>1, <1>2, <1>3, Answered
<1>6. /\ Children(NoRequest, FALSE, proc')
      /\ proc'.old = proc.cur /\ proc'.cur = NoChild /\ proc'.stopping
      /\ proc.cur.op = r
  <2>1. Children(NoRequest, FALSE, proc')
    BY <1>1, <1>2, RetiredChildren
  <2>2. proc \in Proc /\ proc.cur.op = r
    BY <1>1, <1>2 DEF Children
  <2> QED BY <1>1, <2>1, <2>2, RetiredFields
<1>7. Truth(kind, applied, status', NoRequest, FALSE, proc')
  <2> SUFFICES ASSUME NEW x \in Requests
               PROVE  /\ CallerKnows(kind, applied, status', NoRequest, FALSE, x)
                      /\ CurrentKnows(kind, applied, proc', x)
                      /\ RetiredKnows(applied, status', proc', x)
    BY DEF Truth
  <2>1. /\ CallerKnows(kind, applied, status, active, sent, x)
        /\ CurrentKnows(kind, applied, proc, x)
    BY <1>2 DEF Truth
  <2>2. CallerKnows(kind, applied, status', NoRequest, FALSE, x)
    BY <1>1, <1>4, <2>1 DEF CallerKnows
  <2>3. CurrentKnows(kind, applied, proc', x)
    BY <1>6, DatabaseExecutorAssumption DEF CurrentKnows, NoChild
  <2>4. RetiredKnows(applied, status', proc', x)
    BY <1>4, <1>6, <2>1 DEF CurrentKnows, RetiredKnows
  <2> QED BY <2>2, <2>3, <2>4
<1>8. Order(kind, before, status', queue, NoRequest, proc')
  <2>1. queue \in Seq(Requests) /\ status'[r] # "open"
    BY <1>2, <1>4 DEF Hands
  <2>2. Order(kind, before, status', queue, active, proc)
    BY <1>2, <1>4, <2>1, OrderStable
  <2> QED BY <1>1, <1>6, <2>1, <2>2, OrderMoves
<1>9. ~closed
  BY <1>1, DatabaseExecutorAssumption DEF ExecutorInv, ClosedIsEmpty
<1>10. Pumped(before')
  BY <1>1, <1>2, <1>5, <1>6, <1>7, <1>8, <1>9 DEF Pumped, Typed
<1> QED BY <1>2, <1>10, PumpedInvariant

\* A transaction that waits to be retried was rolled back, and is reported so.
LEMMA ExpireRetryingKeeps ==
    ASSUME ExecutorInv, NEW r \in Requests, ExpireRetrying(r),
           UNCHANGED <<kind, closed, applied, before>>
    PROVE  ExecutorInv'
<1> DEFINE told == Told(status, {r}, "rolled-back")
<1>1. active = r /\ ~sent /\ Pump(told, queue, proc)
  BY DEF ExpireRetrying
<1>2. /\ Typed /\ Hands(status, queue, active) /\ Children(active, sent, proc)
      /\ Truth(kind, applied, status, active, sent, proc)
      /\ Order(kind, before, status, queue, active, proc)
  BY DEF ExecutorInv
<1>3. /\ status \in [Requests -> Statuses] /\ sent = FALSE
      /\ "rolled-back" \in Statuses /\ "rolled-back" \in Outcomes
  BY <1>1, <1>2 DEF Hands, Children, Statuses, Outcomes
<1>4. \A x \in Requests : told[x] = IF x = r THEN "rolled-back" ELSE status[x]
  BY <1>3, ToldOutcome
<1>5. Hands(told, queue, NoRequest)
  BY <1>1, <1>2, <1>3, Answered
<1> HIDE DEF told
<1>6. Children(NoRequest, FALSE, proc)
  BY <1>2, <1>3 DEF Children
<1>7. Truth(kind, applied, told, NoRequest, FALSE, proc)
  <2> SUFFICES ASSUME NEW x \in Requests
               PROVE  /\ CallerKnows(kind, applied, told, NoRequest, FALSE, x)
                      /\ CurrentKnows(kind, applied, proc, x)
                      /\ RetiredKnows(applied, told, proc, x)
    BY DEF Truth
  <2>1. /\ CallerKnows(kind, applied, status, active, sent, x)
        /\ CurrentKnows(kind, applied, proc, x)
        /\ RetiredKnows(applied, status, proc, x)
    BY <1>2 DEF Truth
  <2>2. status[r] = "open"
    BY <1>1, <1>2 DEF Hands
  <2> QED BY <1>3, <1>4, <2>1, <2>2 DEF CallerKnows, RetiredKnows
<1>8. Order(kind, before, told, queue, NoRequest, proc)
  <2>1. queue \in Seq(Requests) /\ told[r] # "open"
    BY <1>2, <1>4 DEF Hands
  <2>2. Order(kind, before, told, queue, active, proc)
    BY <1>2, <1>4, <2>1, OrderStable
  <2> QED BY <1>1, <2>1, <2>2, OrderMoves
<1>9. Prepared(before', told, queue, proc)
  BY <1>5, <1>6, <1>7, <1>8 DEF Prepared, ExecutorInv, ClosedIsEmpty
<1> QED BY <1>1, <1>2, <1>9, PumpingInvariant

\* A request whose deadline passes while it waits leaves the others where they
\* are; the last to wait for a child that is not ready takes the child along.
LEMMA ExpireQueuedKeeps ==
    ASSUME ExecutorInv, NEW r \in Requests, ExpireQueued(r),
           UNCHANGED <<kind, closed, applied, before>>
    PROVE  ExecutorInv'
<1>1. PICK i \in DOMAIN queue :
         /\ queue[i] = r /\ status' = Told(status, {r}, "not-started")
         /\ queue' = RemoveAt(queue, i)
         /\ proc' = IF proc.cur # NoChild /\ ~proc.ready /\ queue' = <<>>
                    THEN Retired(proc, FALSE) ELSE proc
         /\ UNCHANGED <<active, sent, streak>>
  BY DEF ExpireQueued
<1>2. /\ Typed /\ Hands(status, queue, active) /\ Children(active, sent, proc)
      /\ Truth(kind, applied, status, active, sent, proc)
      /\ Order(kind, before, status, queue, active, proc)
  BY DEF ExecutorInv
<1>3. /\ queue \in Seq(Requests) /\ IsInjective(queue) /\ Len(queue) \in Nat
      /\ status \in [Requests -> Statuses] /\ "not-started" \in Statuses
      /\ r \in ToSet(queue) /\ r # active
  BY <1>1, <1>2, LenProperties DEF Hands, Statuses, Outcomes, ToSet
<1>4. /\ status' \in [Requests -> Statuses]
      /\ \A x \in Requests : status'[x] = IF x = r THEN "not-started" ELSE status[x]
  BY <1>1, <1>3, ToldOutcome
<1>5. /\ queue' \in Seq(Requests) /\ IsInjective(queue')
      /\ Len(queue') = Len(queue) - 1 /\ ToSet(queue') = ToSet(queue) \ {r}
  BY <1>1, <1>3, RemoveAtElements, RemoveAtInjective
<1>6. Hands(status', queue', active)
  <2>1. Len(queue') + (IF active = NoRequest THEN 0 ELSE 1) <= MaxPending
    BY <1>2, <1>3, <1>5, DatabaseExecutorAssumption DEF Hands
  <2> QED BY <1>2, <1>3, <1>4, <1>5, <2>1 DEF Hands
<1>7. proc' = proc \/ (active = NoRequest /\ sent = FALSE /\ proc' = Retired(proc, FALSE))
  BY <1>1, <1>2 DEF Children
<1>8. /\ Children(active, sent, proc')
      /\ proc' = proc \/ (/\ proc'.old = proc.cur /\ proc'.cur = NoChild
                          /\ proc'.stopping /\ proc.cur.op = NoRequest)
  <2>1. CASE proc' = proc
    BY <1>2, <2>1
  <2>2. CASE active = NoRequest /\ sent = FALSE /\ proc' = Retired(proc, FALSE)
    <3>1. Children(active, sent, proc')
      BY <1>2, <2>2, RetiredChildren
    <3>2. proc \in Proc /\ proc.cur.op = NoRequest
      BY <1>2, <2>2 DEF Children
    <3> QED BY <2>2, <3>1, <3>2, RetiredFields
  <2> QED BY <1>7, <2>1, <2>2
<1>9. Truth(kind, applied, status', active, sent, proc')
  <2> SUFFICES ASSUME NEW x \in Requests
               PROVE  /\ CallerKnows(kind, applied, status', active, sent, x)
                      /\ CurrentKnows(kind, applied, proc', x)
                      /\ RetiredKnows(applied, status', proc', x)
    BY DEF Truth
  <2>1. /\ CallerKnows(kind, applied, status, active, sent, x)
        /\ CurrentKnows(kind, applied, proc, x)
        /\ RetiredKnows(applied, status, proc, x)
    BY <1>2 DEF Truth
  <2>2. status[r] = "open"
    BY <1>2, <1>3, ElementOfSeq, LenProperties DEF Hands, ToSet
  <2>3. CallerKnows(kind, applied, status', active, sent, x)
    BY <1>3, <1>4, <2>1, <2>2 DEF CallerKnows
  <2>4. CASE proc' = proc
    BY <1>4, <2>1, <2>2, <2>3, <2>4 DEF RetiredKnows
  <2>5. CASE /\ proc'.old = proc.cur /\ proc'.cur = NoChild
             /\ proc.cur.op = NoRequest
    BY <2>3, <2>5, DatabaseExecutorAssumption DEF CurrentKnows, RetiredKnows, NoChild
  <2> QED BY <1>8, <2>4, <2>5
<1>10. Order(kind, before, status', queue', active, proc')
  <2>1. Order(kind, before, status', queue, active, proc')
    <3>1. Order(kind, before, status', queue, active, proc)
      BY <1>2, <1>3, <1>4, OrderStable
    <3> QED BY <1>3, <1>8, <3>1, OrderMoves
  <2>2. \A k \in DOMAIN queue' : queue'[k] \in Requests
    BY <1>5, ElementOfSeq, LenProperties
  <2>3. \A x \in Requests : \A w \in before[x] : w \in Requests
    BY <1>2 DEF Order
  <2>4. ASSUME NEW k \in DOMAIN queue', NEW w \in before[queue'[k]],
               status'[w] = "open"
        PROVE  w = active \/ \E m \in DOMAIN queue' : m < k /\ queue'[m] = w
    <3>1. w # queue[i]
      BY <1>1, <1>4, <2>2, <2>3, <2>4
    <3>2. /\ k \in DOMAIN RemoveAt(queue, i)
          /\ w \in before[RemoveAt(queue, i)[k]]
      BY <1>1, <2>4
    <3>3. w = active \/ \E m \in DOMAIN RemoveAt(queue, i) :
                           m < k /\ RemoveAt(queue, i)[m] = w
      BY <1>3, <2>1, <2>4, <3>1, <3>2, OrderTakenOut
    <3> QED BY <1>1, <3>3
  <2> QED BY <2>1, <2>4 DEF Order
<1>11. Typed' /\ ClosedIsEmpty'
  <2>1. ~closed
    BY <1>1 DEF ExecutorInv, ClosedIsEmpty
  <2> QED BY <1>1, <1>2, <2>1 DEF Typed, ClosedIsEmpty
<1>12. StalledOnlyAfterFailedStart'
  <2>1. queue # <<>>
    BY <1>1
  <2> QED BY <1>1, <1>8, <2>1 DEF ExecutorInv, StalledOnlyAfterFailedStart
<1>13. /\ Hands(status', queue', active') /\ Children(active', sent', proc')
       /\ Truth(kind', applied', status', active', sent', proc')
       /\ Order(kind', before', status', queue', active', proc')
  BY <1>1, <1>6, <1>8, <1>9, <1>10
<1> QED BY <1>11, <1>12, <1>13 DEF ExecutorInv

\* Whatever becomes of the child, those who waited for it learn that nothing of
\* theirs was done, and the active one that nobody knows.
LEMMA AllFailKeeps ==
    ASSUME ExecutorInv, AllFail, closed' \in BOOLEAN,
           Children(NoRequest, FALSE, proc'),
           proc'.old = proc.old \/ proc'.old = proc.cur
    PROVE  ExecutorInv'
<1>1. /\ status' = [r \in Requests |->
              CASE r \in ToSet(queue) -> "not-started"
                [] r = active -> IF sent THEN "unknown" ELSE "rolled-back"
                [] OTHER -> status[r]]
      /\ queue' = <<>> /\ active' = NoRequest /\ sent' = FALSE
      /\ UNCHANGED <<kind, streak, applied, before>>
  BY DEF AllFail, Idle
<1>2. /\ Typed /\ Hands(status, queue, active) /\ Children(active, sent, proc)
      /\ Truth(kind, applied, status, active, sent, proc)
      /\ Order(kind, before, status, queue, active, proc)
  BY DEF ExecutorInv
<1>3. /\ queue \in Seq(Requests) /\ sent \in BOOLEAN
      /\ status \in [Requests -> Statuses] /\ active \notin ToSet(queue)
      /\ \A r \in Requests : status[r] = "open" <=> r \in ToSet(queue) \cup {active}
  BY <1>2 DEF Hands, Children
<1>4. \A r \in Requests : status'[r] = IF r \in ToSet(queue) THEN "not-started"
                                       ELSE IF r = active
                                       THEN IF sent THEN "unknown" ELSE "rolled-back"
                                       ELSE status[r]
  <2> SUFFICES ASSUME NEW r \in Requests
               PROVE  status'[r] = IF r \in ToSet(queue) THEN "not-started"
                                   ELSE IF r = active
                                   THEN IF sent THEN "unknown" ELSE "rolled-back"
                                   ELSE status[r]
    OBVIOUS
  <2>1. status'[r] = CASE r \in ToSet(queue) -> "not-started"
                       [] r = active -> IF sent THEN "unknown" ELSE "rolled-back"
                       [] OTHER -> status[r]
    BY <1>1
  <2>2. CASE r \in ToSet(queue)
    BY <1>3, <2>1, <2>2
  <2>3. CASE r \notin ToSet(queue) /\ r = active
    BY <2>1, <2>3
  <2>4. CASE r \notin ToSet(queue) /\ r # active
    BY <2>1, <2>4
  <2> QED BY <2>2, <2>3, <2>4
<1>5. /\ status' \in [Requests -> Statuses]
      /\ \A r \in Requests : status'[r] # "open"
  BY <1>1, <1>3, <1>4 DEF Statuses, Outcomes
<1>6. Hands(status', <<>>, NoRequest)
  <2>1. /\ <<>> \in Seq(Requests) /\ Len(<<>>) = 0
        /\ IsInjective(<<>>) /\ ToSet(<<>>) = {}
    BY DEF IsInjective, ToSet
  <2> QED BY <1>5, <2>1, DatabaseExecutorAssumption DEF Hands
<1>7. Truth(kind, applied, status', NoRequest, FALSE, proc')
  <2> SUFFICES ASSUME NEW r \in Requests
               PROVE  /\ CallerKnows(kind, applied, status', NoRequest, FALSE, r)
                      /\ CurrentKnows(kind, applied, proc', r)
                      /\ RetiredKnows(applied, status', proc', r)
    BY DEF Truth
  <2>1. /\ CallerKnows(kind, applied, status, active, sent, r)
        /\ CurrentKnows(kind, applied, proc, r)
        /\ RetiredKnows(applied, status, proc, r)
    BY <1>2 DEF Truth
  <2>2. CallerKnows(kind, applied, status', NoRequest, FALSE, r)
    BY <1>3, <1>4, <1>5, <2>1 DEF CallerKnows
  <2>3. CurrentKnows(kind, applied, proc', r)
    BY DatabaseExecutorAssumption DEF CurrentKnows, Children
  <2>4. CASE proc'.old = proc.old
    BY <1>3, <1>4, <2>1, <2>2, <2>3, <2>4 DEF RetiredKnows
  <2>5. CASE proc'.old = proc.cur
    <3>1. proc.cur.op = r => sent /\ active = r
      BY <1>2, DatabaseExecutorAssumption DEF Children
    <3> QED BY <1>3, <1>4, <2>1, <2>2, <2>3, <2>5, <3>1
            DEF CurrentKnows, RetiredKnows
  <2> QED BY <2>4, <2>5
<1>8. Order(kind, before, status', <<>>, NoRequest, proc')
  <2>1. Order(kind, before, status', queue, active, proc)
    BY <1>2, <1>3, <1>4, <1>5, OrderStable
  <2>2. proc'.old.op \in {active, proc.old.op, NoRequest}
    BY <1>2 DEF Children
  <2>3. Order(kind, before, status', queue, NoRequest, proc')
    BY <1>3, <1>5, <2>1, <2>2, OrderMoves
  <2> QED BY <2>3, OrderEmpties
<1>9. Typed' /\ ClosedIsEmpty' /\ StalledOnlyAfterFailedStart'
  BY <1>1, <1>2 DEF Typed, ClosedIsEmpty, StalledOnlyAfterFailedStart
<1>10. /\ Hands(status', queue', active') /\ Children(active', sent', proc')
       /\ Truth(kind', applied', status', active', sent', proc')
       /\ Order(kind', before', status', queue', active', proc')
  BY <1>1, <1>6, <1>7, <1>8
<1> QED BY <1>9, <1>10 DEF ExecutorInv

\* The current child is retired with everything that waited.
LEMMA RetiringKeeps ==
    ASSUME ExecutorInv, AllFail, closed' \in BOOLEAN,
           NEW w \in BOOLEAN, proc' = Retired(proc, w)
    PROVE  ExecutorInv'
<1>1. Children(active, sent, proc) /\ proc \in Proc
  BY DEF ExecutorInv, Children
<1>2. Children(NoRequest, FALSE, proc') /\ proc'.old = proc.cur
  BY <1>1, RetiredChildren, RetiredFields
<1> QED BY <1>2, AllFailKeeps

LEMMA ExitSeenKeeps ==
    ASSUME ExecutorInv, ExitSeen
    PROVE  ExecutorInv'
<1>1. /\ proc.cur.state = "exited" /\ AllFail /\ closed' \in BOOLEAN
      /\ proc' = [proc EXCEPT !.cur = NoChild, !.ready = FALSE]
  BY DEF ExitSeen, ExecutorInv, Typed
<1>2. Children(active, sent, proc) /\ proc \in Proc
  BY DEF ExecutorInv, Children
<1>3. /\ proc' \in Proc /\ proc'.cur = NoChild /\ proc'.ready = FALSE
      /\ proc'.old = proc.old /\ proc'.stopping = proc.stopping
      /\ NoChild.op = NoRequest
  BY <1>1, <1>2 DEF Proc, NoChild, Child
<1>4. Children(NoRequest, FALSE, proc')
  BY <1>2, <1>3 DEF Children
<1> QED BY <1>1, <1>3, <1>4, AllFailKeeps

LEMMA CloseKeeps ==
    ASSUME ExecutorInv, Close
    PROVE  ExecutorInv'
<1>1. /\ AllFail /\ closed' \in BOOLEAN
      /\ proc' = IF proc.cur = NoChild THEN proc ELSE Retired(proc, FALSE)
  BY DEF Close
<1>2. CASE proc.cur = NoChild
  <2>1. Children(active, sent, proc) /\ proc' = proc
    BY <1>1, <1>2 DEF ExecutorInv
  <2>2. Children(NoRequest, FALSE, proc')
    BY <1>2, <2>1 DEF Children, NoChild
  <2> QED BY <1>1, <2>1, <2>2, AllFailKeeps
<1>3. CASE proc.cur # NoChild
  BY <1>1, <1>3, RetiringKeeps
<1> QED BY <1>2, <1>3

LEMMA ChildReadyKeeps ==
    ASSUME ExecutorInv, ChildReady
    PROVE  ExecutorInv'
<1> DEFINE p == [proc EXCEPT !.cur.state = "up", !.ready = TRUE]
<1>1. /\ proc.cur.state = "booting" /\ Pump(status, queue, p)
      /\ UNCHANGED <<kind, closed, applied, before>>
  BY DEF ChildReady
<1>2. /\ Typed /\ Children(active, sent, proc) /\ proc \in Proc
      /\ active = NoRequest
  BY <1>1 DEF ExecutorInv, Children
<1>3. Prepared(before, status, queue, proc)
  BY <1>2, IdleIsPrepared
<1>4. /\ p \in Proc /\ p.cur.state = "up" /\ p.cur.op = proc.cur.op
      /\ p.cur.answer = proc.cur.answer
      /\ p.ready /\ p.old = proc.old /\ p.stopping = proc.stopping
  BY <1>2 DEF Proc, Child
<1> HIDE DEF p
<1>5. NoChild.state = "none"
  BY DEF NoChild
<1>6. Children(NoRequest, FALSE, p)
  BY <1>1, <1>3, <1>4, <1>5 DEF Prepared, Children
<1>7. Truth(kind, applied, status, NoRequest, FALSE, p)
  <2>1. proc.cur.op = NoRequest
    BY <1>3 DEF Prepared, Children
  <2> QED BY <1>3, <1>4, <2>1, DatabaseExecutorAssumption
          DEF Prepared, Truth, CurrentKnows, RetiredKnows
<1>8. Order(kind, before, status, queue, NoRequest, p)
  BY <1>3, <1>4, OrderMoves DEF Prepared, Hands
<1>9. Prepared(before', status, queue, p)
  BY <1>1, <1>3, <1>6, <1>7, <1>8 DEF Prepared
<1> QED BY <1>1, <1>2, <1>9, PumpingInvariant

\* The caller is told what the child answered; a transaction that met a lock
\* was rolled back and may be sent again.
LEMMA ReceiveKeeps ==
    ASSUME ExecutorInv, Receive
    PROVE  ExecutorInv'
<1> DEFINE r == proc.cur.op
           p == [proc EXCEPT !.cur.op = NoRequest, !.cur.answer = "none"]
           told == Told(status, {r}, Outcome(proc.cur.answer))
<1>1. /\ active = r /\ sent
      /\ \/ Pump(told, queue, p)
         \/ /\ proc.cur.answer = "busy" /\ sent' = FALSE /\ proc' = p
            /\ UNCHANGED <<status, queue, active, streak>>
      /\ proc.cur.answer # "none"
      /\ UNCHANGED <<kind, closed, applied, before>>
  BY DEF Receive
<1>2. /\ Typed /\ Hands(status, queue, active) /\ Children(active, sent, proc)
      /\ Truth(kind, applied, status, active, sent, proc)
      /\ Order(kind, before, status, queue, active, proc)
  BY DEF ExecutorInv
<1>3. /\ proc \in Proc /\ r \in Requests /\ r # NoRequest
      /\ proc.ready /\ ~proc.stopping /\ proc.cur.state \in {"up", "exited"}
  BY <1>1, <1>2, DatabaseExecutorAssumption DEF Hands, Children, NoChild
<1>4. /\ p \in Proc /\ p.cur.op = NoRequest /\ p.cur.answer = "none"
      /\ p.cur.state = proc.cur.state /\ p.old = proc.old
      /\ p.ready = proc.ready /\ p.stopping = proc.stopping
  BY <1>3 DEF Proc, Child
<1>5. Outcome(proc.cur.answer) \in Outcomes
  BY DEF Outcome, Outcomes
<1>6. \A x \in Requests : told[x] = IF x = r THEN Outcome(proc.cur.answer)
                                   ELSE status[x]
  <2>1. status \in [Requests -> Statuses] /\ Outcome(proc.cur.answer) \in Statuses
    BY <1>2, <1>5 DEF Hands, Statuses
  <2>2. \A x \in Requests : told[x] = IF x \in {r} THEN Outcome(proc.cur.answer)
                                     ELSE status[x]
    BY <2>1, ToldOutcome
  <2> QED BY <2>2
<1>7. Hands(told, queue, NoRequest)
  BY <1>1, <1>2, <1>3, <1>5, Answered
<1> HIDE DEF p, told, r
<1>8. Children(NoRequest, FALSE, p) /\ Children(active, FALSE, p)
  BY <1>2, <1>3, <1>4 DEF Children
<1>9. ASSUME NEW x \in Requests
      PROVE  /\ CallerKnows(kind, applied, status, active, sent, x)
             /\ CurrentKnows(kind, applied, proc, x)
             /\ RetiredKnows(applied, status, proc, x)
             /\ CurrentKnows(kind, applied, p, x)
  BY <1>2, <1>4, DatabaseExecutorAssumption DEF Truth, CurrentKnows
<1>10. status[r] = "open" /\ r = proc.cur.op
  BY <1>1, <1>2, <1>3 DEF Hands, r
<1>11. CASE Pump(told, queue, p)
  <2>1. Outcome(proc.cur.answer) # "open"
    BY DEF Outcome
  <2>2. Truth(kind, applied, told, NoRequest, FALSE, p)
    <3> SUFFICES ASSUME NEW x \in Requests
                 PROVE  /\ CallerKnows(kind, applied, told, NoRequest, FALSE, x)
                        /\ CurrentKnows(kind, applied, p, x)
                        /\ RetiredKnows(applied, told, p, x)
      BY DEF Truth
    <3>1. CallerKnows(kind, applied, told, NoRequest, FALSE, x)
      <4>1. CASE x = r
        BY <1>6, <1>9, <1>10, <4>1 DEF CallerKnows, CurrentKnows, Outcome
      <4>2. CASE x # r
        BY <1>1, <1>6, <1>9, <4>2 DEF CallerKnows
      <4> QED BY <4>1, <4>2
    <3>2. RetiredKnows(applied, told, p, x)
      BY <1>4, <1>6, <1>9, <1>10 DEF RetiredKnows
    <3> QED BY <1>9, <3>1, <3>2
  <2>3. Order(kind, before, told, queue, NoRequest, p)
    <3>1. queue \in Seq(Requests) /\ told[r] # "open"
      BY <1>2, <1>3, <1>6, <2>1 DEF Hands
    <3>2. \A w \in Requests : told[w] \in {"open", "new"} => told[w] = status[w]
      BY <1>6, <2>1 DEF Outcome
    <3>3. Order(kind, before, told, queue, active, proc)
      BY <1>2, <3>1, <3>2, OrderStable
    <3> QED BY <1>1, <1>4, <3>1, <3>3, OrderMoves
  <2>4. Prepared(before', told, queue, p)
    BY <1>1, <1>7, <1>8, <2>2, <2>3 DEF Prepared, ExecutorInv, ClosedIsEmpty
  <2> QED BY <1>1, <1>2, <1>11, <2>4, PumpingInvariant
<1>12. CASE /\ proc.cur.answer = "busy" /\ sent' = FALSE /\ proc' = p
            /\ UNCHANGED <<status, queue, active, streak>>
  <2>1. Truth(kind, applied, status, active, FALSE, p)
    <3> SUFFICES ASSUME NEW x \in Requests
                 PROVE  /\ CallerKnows(kind, applied, status, active, FALSE, x)
                        /\ CurrentKnows(kind, applied, p, x)
                        /\ RetiredKnows(applied, status, p, x)
      BY DEF Truth
    <3>1. CallerKnows(kind, applied, status, active, FALSE, x)
      BY <1>1, <1>9, <1>10, <1>12 DEF CallerKnows, CurrentKnows
    <3>2. RetiredKnows(applied, status, p, x)
      BY <1>4, <1>9 DEF RetiredKnows
    <3> QED BY <1>9, <3>1, <3>2
  <2>2. Order(kind, before, status, queue, active, p)
    BY <1>2, <1>4, OrderMoves DEF Hands
  <2>3. active # NoRequest /\ ~closed
    BY <1>1, <1>3 DEF ExecutorInv, ClosedIsEmpty
  <2>4. Pumped(before')
    BY <1>1, <1>2, <1>8, <1>12, <2>1, <2>2, <2>3 DEF Pumped, Typed
  <2> QED BY <1>1, <1>2, <2>4, PumpedInvariant
<1> QED BY <1>1, <1>11, <1>12

\* The retried transaction goes back to the front, where nothing it had to wait
\* for is behind it.
LEMMA RetryFiresKeeps ==
    ASSUME ExecutorInv, RetryFires
    PROVE  ExecutorInv'
<1> DEFINE q == <<active>> \o queue
<1>1. /\ active # NoRequest /\ sent = FALSE /\ Pump(status, q, proc)
      /\ UNCHANGED <<kind, closed, applied, before>>
  BY DEF RetryFires, ExecutorInv, Children
<1>2. /\ Typed /\ Hands(status, queue, active) /\ Children(active, sent, proc)
      /\ Truth(kind, applied, status, active, sent, proc)
      /\ Order(kind, before, status, queue, active, proc)
  BY DEF ExecutorInv
<1>3. /\ queue \in Seq(Requests) /\ IsInjective(queue) /\ Len(queue) \in Nat
      /\ DOMAIN queue = 1..Len(queue)
      /\ active \in Requests /\ active \notin ToSet(queue)
      /\ \A k \in DOMAIN queue : queue[k] \in Requests
  BY <1>1, <1>2, LenProperties, ElementOfSeq DEF Hands
<1>4. /\ q \in Seq(Requests) /\ IsInjective(q)
      /\ ToSet(q) = ToSet(queue) \cup {active}
      /\ Len(q) = Len(queue) + 1 /\ DOMAIN q = 1..(Len(queue) + 1)
      /\ q[1] = active /\ \A k \in 1..Len(queue) : q[k + 1] = queue[k]
  BY <1>3, PrependNew
<1> HIDE DEF q
<1>5. Hands(status, q, NoRequest)
  <2>1. NoRequest \notin ToSet(q) /\ \A r \in Requests : r # NoRequest
    BY <1>1, <1>3, <1>4, DatabaseExecutorAssumption DEF ToSet
  <2>2. Len(q) + 0 <= MaxPending
    BY <1>1, <1>2, <1>3, <1>4, DatabaseExecutorAssumption DEF Hands
  <2> QED BY <1>2, <1>4, <2>1, <2>2 DEF Hands
<1>6. Children(NoRequest, FALSE, proc)
  BY <1>1, <1>2 DEF Children
<1>7. Truth(kind, applied, status, NoRequest, FALSE, proc)
  BY <1>1, <1>2 DEF Truth, CallerKnows
<1>8. Order(kind, before, status, q, NoRequest, proc)
  <2>1. ASSUME NEW j \in DOMAIN q, NEW w \in before[q[j]], status[w] = "open"
        PROVE  \E i \in DOMAIN q : i < j /\ q[i] = w
    <3>1. j # 1
      BY <1>2, <1>3, <1>4, <2>1 DEF Order
    <3>2. PICK k \in DOMAIN queue : j = k + 1
      <4>1. j - 1 \in DOMAIN queue /\ j = (j - 1) + 1
        BY <1>3, <1>4, <3>1
      <4> QED BY <4>1
    <3>3. w = active \/ \E i \in DOMAIN queue : i < k /\ queue[i] = w
      BY <1>2, <1>3, <1>4, <2>1, <3>2 DEF Order
    <3>4. CASE w = active
      BY <1>3, <1>4, <3>2, <3>4
    <3>5. CASE \E i \in DOMAIN queue : i < k /\ queue[i] = w
      <4>1. PICK i \in DOMAIN queue : i < k /\ queue[i] = w
        BY <3>5
      <4>2. i + 1 \in DOMAIN q /\ i + 1 < j /\ q[i + 1] = w
        BY <1>3, <1>4, <3>2, <4>1
      <4> QED BY <4>2
    <3> QED BY <3>3, <3>4, <3>5
  <2>2. \A r \in Requests : r = NoRequest \/ r = proc.old.op =>
           \A w \in before[r] : status[w] # "open"
    BY <1>2, DatabaseExecutorAssumption DEF Order
  <2> QED BY <1>2, <2>1, <2>2 DEF Order
<1>9. ~closed
  BY <1>1 DEF ExecutorInv, ClosedIsEmpty
<1>10. Prepared(before', status, q, proc)
  BY <1>1, <1>5, <1>6, <1>7, <1>8, <1>9 DEF Prepared
<1> QED BY <1>1, <1>2, <1>10, PumpingInvariant

\* The retired child has exited: the database is free for another.
LEMMA OldExitsKeeps ==
    ASSUME ExecutorInv, OldExits
    PROVE  ExecutorInv'
<1> DEFINE p == [proc EXCEPT !.old = NoChild, !.stopping = FALSE]
<1>1. /\ proc.old.state = "exited"
      /\ \/ Pump(status, queue, p)
         \/ /\ ~proc.wake /\ proc' = p
            /\ UNCHANGED <<status, queue, active, sent, streak>>
      /\ UNCHANGED <<kind, closed, applied, before>>
  BY DEF OldExits
<1>2. /\ Typed /\ Children(active, sent, proc) /\ proc \in Proc
      /\ proc.stopping /\ proc.cur = NoChild
      /\ active = NoRequest
  BY <1>1 DEF ExecutorInv, Children, NoChild
<1>3. Prepared(before, status, queue, proc) /\ sent = FALSE
  BY <1>2, IdleIsPrepared
<1>4. /\ p \in Proc /\ p.cur = proc.cur /\ p.old = NoChild /\ p.stopping = FALSE
      /\ p.ready = proc.ready /\ p.wake = proc.wake /\ NoChild.op = NoRequest
  BY <1>2 DEF Proc, Child, NoChild
<1> HIDE DEF p
<1>5. Children(NoRequest, FALSE, p)
  BY <1>3, <1>4 DEF Prepared, Children
<1>6. Truth(kind, applied, status, NoRequest, FALSE, p)
  BY <1>3, <1>4, DatabaseExecutorAssumption
  DEF Prepared, Truth, CurrentKnows, RetiredKnows
<1>7. Order(kind, before, status, queue, NoRequest, p)
  BY <1>3, <1>4, OrderMoves DEF Prepared, Hands
<1>8. Prepared(before', status, queue, p)
  BY <1>1, <1>3, <1>5, <1>6, <1>7 DEF Prepared
<1>9. CASE Pump(status, queue, p)
  BY <1>1, <1>2, <1>8, <1>9, PumpingInvariant
<1>10. CASE /\ ~proc.wake /\ proc' = p
            /\ UNCHANGED <<status, queue, active, sent, streak>>
  <2>1. StalledOnlyAfterFailedStart'
    BY <1>4, <1>10 DEF StalledOnlyAfterFailedStart
  <2>2. Typed' /\ ClosedIsEmpty'
    BY <1>1, <1>2, <1>10 DEF ExecutorInv, Typed, ClosedIsEmpty
  <2>3. /\ Hands(status', queue', active') /\ Children(active', sent', proc')
        /\ Truth(kind', applied', status', active', sent', proc')
        /\ Order(kind', before', status', queue', active', proc')
    BY <1>1, <1>2, <1>3, <1>8, <1>10 DEF Prepared
  <2> QED BY <2>1, <2>2, <2>3 DEF ExecutorInv
<1> QED BY <1>1, <1>9, <1>10

LEMMA ReopenKeeps ==
    ASSUME ExecutorInv, Reopen
    PROVE  ExecutorInv'
<1>1. /\ closed /\ closed' = FALSE /\ streak' = 0
      /\ proc' = [proc EXCEPT !.wake = TRUE]
      /\ UNCHANGED <<kind, status, queue, active, sent, applied, before>>
  BY DEF Reopen
<1>2. /\ Typed /\ Hands(status, queue, active) /\ Children(active, sent, proc)
      /\ Truth(kind, applied, status, active, sent, proc)
      /\ Order(kind, before, status, queue, active, proc)
      /\ queue = <<>> /\ active = NoRequest
  BY <1>1 DEF ExecutorInv, ClosedIsEmpty
<1>3. proc \in Proc
  BY <1>2 DEF Children
<1>4. /\ proc' \in Proc /\ proc'.cur = proc.cur /\ proc'.old = proc.old
      /\ proc'.ready = proc.ready /\ proc'.stopping = proc.stopping
  BY <1>1, <1>3 DEF Proc
<1>5. Children(active, sent, proc')
  BY <1>2, <1>4 DEF Children
<1>6. Truth(kind, applied, status, active, sent, proc')
  BY <1>2, <1>4 DEF Truth, CurrentKnows, RetiredKnows
<1>7. Order(kind, before, status, queue, active, proc')
  BY <1>2, <1>4, OrderMoves DEF Hands
<1>8. Typed' /\ ClosedIsEmpty' /\ StalledOnlyAfterFailedStart'
  BY <1>1, <1>2 DEF Typed, ClosedIsEmpty, StalledOnlyAfterFailedStart
<1>9. /\ Hands(status', queue', active') /\ Children(active', sent', proc')
      /\ Truth(kind', applied', status', active', sent', proc')
      /\ Order(kind', before', status', queue', active', proc')
  BY <1>1, <1>2, <1>5, <1>6, <1>7
<1> QED BY <1>8, <1>9 DEF ExecutorInv

-----------------------------------------------------------------------------
(* The child's steps                                                       *)

\* A step of the current child.
LEMMA CurrentKeeps ==
    ASSUME ExecutorInv, proc.cur.state \in {"booting", "up"},
           proc' \in Proc,
           proc'.cur.state = proc.cur.state \/ proc'.cur.state = "exited",
           proc'.cur.op = proc.cur.op,
           proc'.old = proc.old, proc'.ready = proc.ready,
           proc'.stopping = proc.stopping,
           applied' \in [Requests -> Nat],
           \A r \in Requests : r # proc.cur.op => applied'[r] = applied[r],
           \A r \in Requests : r = proc.cur.op =>
              applied'[r] \in {0, 1} /\ CurrentKnows(kind, applied', proc', r),
           UNCHANGED <<kind, status, queue, active, sent, streak, closed, before>>
    PROVE  ExecutorInv'
<1>1. /\ Typed /\ Hands(status, queue, active) /\ Children(active, sent, proc)
      /\ Truth(kind, applied, status, active, sent, proc)
      /\ Order(kind, before, status, queue, active, proc)
  BY DEF ExecutorInv
<1>2. /\ proc'.cur # NoChild /\ proc.cur # NoChild /\ ~proc.stopping
  BY <1>1 DEF Children, NoChild
<1>3. Children(active, sent, proc')
  BY <1>1, <1>2 DEF Children
<1>4. Truth(kind, applied', status, active, sent, proc')
  <2> SUFFICES ASSUME NEW r \in Requests
               PROVE  /\ CallerKnows(kind, applied', status, active, sent, r)
                      /\ CurrentKnows(kind, applied', proc', r)
                      /\ RetiredKnows(applied', status, proc', r)
    BY DEF Truth
  <2>1. /\ CallerKnows(kind, applied, status, active, sent, r)
        /\ RetiredKnows(applied, status, proc, r)
    BY <1>1 DEF Truth
  <2>2. proc.old.op # r
    BY <1>1, <1>2, DatabaseExecutorAssumption DEF Children, NoChild
  <2>3. CASE r = proc.cur.op
    <3>1. sent /\ active = r /\ status[r] = "open"
      BY <1>1, <2>3, DatabaseExecutorAssumption DEF Children, Hands
    <3> QED BY <2>1, <2>2, <2>3, <3>1 DEF CallerKnows, RetiredKnows
  <2>4. CASE r # proc.cur.op
    BY <2>1, <2>2, <2>4 DEF CallerKnows, CurrentKnows, RetiredKnows
  <2> QED BY <2>3, <2>4
<1>5. Order(kind, before, status, queue, active, proc')
  BY <1>1, OrderMoves DEF Hands
<1>6. Typed' /\ ClosedIsEmpty' /\ StalledOnlyAfterFailedStart'
  BY <1>1, <1>2 DEF ExecutorInv, Typed, ClosedIsEmpty, StalledOnlyAfterFailedStart
<1>7. /\ Hands(status', queue', active') /\ Children(active', sent', proc')
      /\ Truth(kind', applied', status', active', sent', proc')
      /\ Order(kind', before', status', queue', active', proc')
  BY <1>1, <1>3, <1>4, <1>5
<1> QED BY <1>6, <1>7 DEF ExecutorInv

\* A step of the retired child: its operation may still take effect, once.
LEMMA RetiredKeeps ==
    ASSUME ExecutorInv, proc.old.state \in {"booting", "up"},
           proc' \in Proc, proc'.old.op = proc.old.op,
           proc'.cur = proc.cur, proc'.ready = proc.ready,
           proc'.stopping = proc.stopping, proc'.wake = proc.wake,
           applied' \in [Requests -> Nat],
           \A r \in Requests : r # proc.old.op => applied'[r] = applied[r],
           \A r \in Requests : r = proc.old.op =>
              applied'[r] \in {0, 1} /\ RetiredKnows(applied', status, proc', r),
           UNCHANGED <<kind, status, queue, active, sent, streak, closed, before>>
    PROVE  ExecutorInv'
<1>1. /\ Typed /\ Hands(status, queue, active) /\ Children(active, sent, proc)
      /\ Truth(kind, applied, status, active, sent, proc)
      /\ Order(kind, before, status, queue, active, proc)
  BY DEF ExecutorInv
<1>2. proc.stopping /\ proc.cur = NoChild
  BY <1>1 DEF Children, NoChild
<1>3. Children(active, sent, proc')
  BY <1>1, <1>2 DEF Children
<1>4. Truth(kind, applied', status, active, sent, proc')
  <2> SUFFICES ASSUME NEW r \in Requests
               PROVE  /\ CallerKnows(kind, applied', status, active, sent, r)
                      /\ CurrentKnows(kind, applied', proc', r)
                      /\ RetiredKnows(applied', status, proc', r)
    BY DEF Truth
  <2>1. /\ CallerKnows(kind, applied, status, active, sent, r)
        /\ RetiredKnows(applied, status, proc, r)
    BY <1>1 DEF Truth
  <2>2. proc'.cur.op # r
    BY <1>2, DatabaseExecutorAssumption DEF NoChild
  <2>3. CASE r = proc.old.op
    BY <2>1, <2>2, <2>3 DEF CallerKnows, CurrentKnows, RetiredKnows
  <2>4. CASE r # proc.old.op
    BY <2>1, <2>2, <2>4 DEF CallerKnows, CurrentKnows, RetiredKnows
  <2> QED BY <2>3, <2>4
<1>5. Order(kind, before, status, queue, active, proc')
  BY <1>1, OrderMoves DEF Hands
<1>6. Typed' /\ ClosedIsEmpty' /\ StalledOnlyAfterFailedStart'
  BY <1>1 DEF ExecutorInv, Typed, ClosedIsEmpty, StalledOnlyAfterFailedStart
<1>7. /\ Hands(status', queue', active') /\ Children(active', sent', proc')
      /\ Truth(kind', applied', status', active', sent', proc')
      /\ Order(kind', before', status', queue', active', proc')
  BY <1>1, <1>3, <1>4, <1>5
<1> QED BY <1>6, <1>7 DEF ExecutorInv

\* What an execution does is what it answers.
LEMMA EffectsAnswered ==
    ASSUME Typed, NEW r \in Requests, NEW effect \in Effects(r)
    PROVE  /\ effect[1] \in {"result", "busy", "rolled-back", "failed"}
           /\ effect[2] \in {0, 1}
           /\ effect[1] = "result" /\ kind[r] \notin Reads => effect[2] = 1
           /\ effect[1] \in {"busy", "rolled-back"} => effect[2] = 0
<1>1. kind[r] \in {"write", "other", "read", "interactive"}
  BY DEF Typed, Kinds
<1>2. CASE kind[r] = "write"
  BY <1>2 DEF Effects
<1>3. CASE kind[r] = "other"
  BY <1>3 DEF Effects
<1>4. CASE kind[r] \in {"read", "interactive"}
  BY <1>4 DEF Effects, Reads
<1> QED BY <1>1, <1>2, <1>3, <1>4

LEMMA ChildExecutesKeeps ==
    ASSUME ExecutorInv, NEW which \in {"cur", "old"}, ChildExecutes(which)
    PROVE  ExecutorInv'
<1>1. /\ Typed /\ Children(active, sent, proc) /\ proc \in Proc
      /\ Truth(kind, applied, status, active, sent, proc)
  BY DEF ExecutorInv, Children
<1>2. UNCHANGED <<kind, status, queue, active, sent, streak, closed, before>>
  BY DEF ChildExecutes
<1>3. CASE which = "cur"
  <2>1. /\ proc.cur.state = "up" /\ proc.cur.answer = "none"
        /\ proc.cur.op \in Requests
    BY <1>1, <1>3 DEF ChildExecutes, Unexecuted, Proc, Child
  <2>2. PICK effect \in Effects(proc.cur.op) :
           /\ proc' = [proc EXCEPT !.cur.answer = effect[1]]
           /\ applied' = [applied EXCEPT ![proc.cur.op] = @ + effect[2]]
    BY <1>3 DEF ChildExecutes
  <2>3. /\ effect[1] \in {"result", "busy", "rolled-back", "failed"}
        /\ effect[2] \in {0, 1}
        /\ effect[1] = "result" /\ kind[proc.cur.op] \notin Reads => effect[2] = 1
        /\ effect[1] \in {"busy", "rolled-back"} => effect[2] = 0
    BY <1>1, <2>1, EffectsAnswered
  <2>4. /\ proc' \in Proc /\ proc'.cur.state = proc.cur.state
        /\ proc'.cur.op = proc.cur.op /\ proc'.cur.answer = effect[1]
        /\ proc'.old = proc.old /\ proc'.ready = proc.ready
        /\ proc'.stopping = proc.stopping
    BY <1>1, <2>2, <2>3 DEF Proc, Child
  <2>5. applied[proc.cur.op] = 0
    BY <1>1, <2>1 DEF Truth, CurrentKnows, Alive
  <2>6. /\ applied' \in [Requests -> Nat]
        /\ applied'[proc.cur.op] = effect[2]
        /\ \A r \in Requests : r # proc.cur.op => applied'[r] = applied[r]
    BY <1>1, <2>1, <2>2, <2>3, <2>5 DEF Typed
  <2>7. CurrentKnows(kind, applied', proc', proc.cur.op)
    BY <2>3, <2>4, <2>6 DEF CurrentKnows
  <2> QED BY <1>2, <2>1, <2>3, <2>4, <2>6, <2>7, CurrentKeeps
<1>4. CASE which = "old"
  <2>1. /\ proc.old.state = "up" /\ proc.old.answer = "none"
        /\ proc.old.op \in Requests
    BY <1>1, <1>4 DEF ChildExecutes, Unexecuted, Proc, Child
  <2>2. PICK effect \in Effects(proc.old.op) :
           /\ proc' = [proc EXCEPT !.old.answer = effect[1]]
           /\ applied' = [applied EXCEPT ![proc.old.op] = @ + effect[2]]
    BY <1>4 DEF ChildExecutes
  <2>3. /\ effect[1] \in {"result", "busy", "rolled-back", "failed"}
        /\ effect[2] \in {0, 1}
    BY <1>1, <2>1, EffectsAnswered
  <2>4. /\ proc' \in Proc /\ proc'.cur = proc.cur
        /\ proc'.old.op = proc.old.op /\ proc'.old.answer = effect[1]
        /\ proc'.ready = proc.ready /\ proc'.stopping = proc.stopping
        /\ proc'.wake = proc.wake
    BY <1>1, <2>2, <2>3 DEF Proc, Child
  <2>5. applied[proc.old.op] = 0 /\ status[proc.old.op] = "unknown"
    BY <1>1, <2>1 DEF Truth, RetiredKnows, Alive
  <2>6. /\ applied' \in [Requests -> Nat]
        /\ applied'[proc.old.op] = effect[2]
        /\ \A r \in Requests : r # proc.old.op => applied'[r] = applied[r]
    BY <1>1, <2>1, <2>2, <2>3, <2>5 DEF Typed
  <2>7. RetiredKnows(applied', status, proc', proc.old.op)
    BY <2>3, <2>4, <2>5 DEF RetiredKnows
  <2> QED BY <1>2, <2>1, <2>3, <2>4, <2>6, <2>7, RetiredKeeps
<1> QED BY <1>3, <1>4

\* A commit may have reached the disk when the child dies, but only of what the
\* child had not answered yet.
LEMMA ChildDiesKeeps ==
    ASSUME ExecutorInv, NEW which \in {"cur", "old"}, ChildDies(which)
    PROVE  ExecutorInv'
<1>1. /\ Typed /\ Children(active, sent, proc) /\ proc \in Proc
      /\ Truth(kind, applied, status, active, sent, proc)
  BY DEF ExecutorInv, Children
<1>2. UNCHANGED <<kind, status, queue, active, sent, streak, closed, before>>
  BY DEF ChildDies
<1>3. \/ applied' = applied
      \/ /\ Unexecuted(proc[which]) /\ proc[which].op \in Requests
         /\ applied' = [applied EXCEPT ![proc[which].op] = @ + 1]
  BY DEF ChildDies
<1>4. CASE which = "cur"
  <2>1. /\ proc.cur.state \in {"booting", "up"}
        /\ proc' = [proc EXCEPT !.cur.state = "exited"]
    BY <1>4 DEF ChildDies, Alive
  <2>2. /\ proc' \in Proc /\ proc'.cur.state = "exited"
        /\ proc'.cur.op = proc.cur.op /\ proc'.cur.answer = proc.cur.answer
        /\ proc'.old = proc.old /\ proc'.ready = proc.ready
        /\ proc'.stopping = proc.stopping
    BY <1>1, <2>1 DEF Proc, Child
  <2>3. CASE applied' = applied
    <3>1. \A r \in Requests : r = proc.cur.op =>
             applied'[r] \in {0, 1} /\ CurrentKnows(kind, applied', proc', r)
      BY <1>1, <2>2, <2>3 DEF Truth, CallerKnows, CurrentKnows, Alive
    <3> QED BY <1>1, <1>2, <2>1, <2>2, <2>3, <3>1, CurrentKeeps DEF Typed
  <2>4. CASE applied' # applied
    <3>1. /\ proc.cur.op \in Requests /\ proc.cur.answer = "none"
          /\ applied' = [applied EXCEPT ![proc.cur.op] = @ + 1]
      BY <1>3, <1>4, <2>4 DEF Unexecuted
    <3>2. applied[proc.cur.op] = 0
      BY <1>1, <2>1, <3>1 DEF Truth, CurrentKnows, Alive
    <3>3. /\ applied' \in [Requests -> Nat]
          /\ applied'[proc.cur.op] = 1
          /\ \A r \in Requests : r # proc.cur.op => applied'[r] = applied[r]
      BY <1>1, <3>1, <3>2 DEF Typed
    <3>4. CurrentKnows(kind, applied', proc', proc.cur.op)
      BY <2>2, <3>1 DEF CurrentKnows, Alive
    <3> QED BY <1>2, <2>1, <2>2, <3>3, <3>4, CurrentKeeps
  <2> QED BY <2>3, <2>4
<1>5. CASE which = "old"
  <2>1. /\ proc.old.state \in {"booting", "up"}
        /\ proc' = [proc EXCEPT !.old.state = "exited"]
    BY <1>5 DEF ChildDies, Alive
  <2>2. /\ proc' \in Proc /\ proc'.old.state = "exited"
        /\ proc'.old.op = proc.old.op /\ proc'.cur = proc.cur
        /\ proc'.ready = proc.ready /\ proc'.stopping = proc.stopping
        /\ proc'.wake = proc.wake
    BY <1>1, <2>1 DEF Proc, Child
  <2>3. \A r \in Requests : r = proc.old.op =>
           status[r] = "unknown" /\ RetiredKnows(applied', status, proc', r)
    BY <1>1, <2>2 DEF Truth, RetiredKnows, Alive
  <2>4. CASE applied' = applied
    <3>1. \A r \in Requests : applied'[r] \in {0, 1}
      BY <1>1, <2>4 DEF Truth, CallerKnows
    <3> QED BY <1>1, <1>2, <2>1, <2>2, <2>3, <2>4, <3>1, RetiredKeeps DEF Typed
  <2>5. CASE applied' # applied
    <3>1. /\ proc.old.op \in Requests /\ proc.old.answer = "none"
          /\ applied' = [applied EXCEPT ![proc.old.op] = @ + 1]
      BY <1>3, <1>5, <2>5 DEF Unexecuted
    <3>2. applied[proc.old.op] = 0
      BY <1>1, <2>1, <3>1 DEF Truth, RetiredKnows, Alive
    <3>3. /\ applied' \in [Requests -> Nat]
          /\ applied'[proc.old.op] = 1
          /\ \A r \in Requests : r # proc.old.op => applied'[r] = applied[r]
      BY <1>1, <3>1, <3>2 DEF Typed
    <3> QED BY <1>2, <2>1, <2>2, <2>3, <3>3, RetiredKeeps
  <2> QED BY <2>4, <2>5
<1> QED BY <1>4, <1>5

-----------------------------------------------------------------------------
(* The theorems                                                            *)

LEMMA InitInvariant == Init => ExecutorInv
<1> SUFFICES ASSUME Init PROVE ExecutorInv
  OBVIOUS
<1>1. /\ kind \in [Requests -> Kinds] /\ status = [r \in Requests |-> "new"]
      /\ queue = <<>> /\ active = NoRequest /\ sent = FALSE /\ streak = 0
      /\ closed = FALSE /\ applied = [r \in Requests |-> 0]
      /\ before = [r \in Requests |-> {}]
      /\ proc = [cur |-> NoChild, old |-> NoChild, ready |-> FALSE,
                 stopping |-> FALSE, wake |-> TRUE]
  BY DatabaseExecutorAssumption DEF Init
<1>2. Typed /\ ClosedIsEmpty /\ StalledOnlyAfterFailedStart
  BY <1>1 DEF Typed, ClosedIsEmpty, StalledOnlyAfterFailedStart
<1>3. Hands(status, queue, active)
  <2>1. /\ queue \in Seq(Requests) /\ Len(queue) = 0
        /\ IsInjective(queue) /\ ToSet(queue) = {}
    BY <1>1 DEF IsInjective, ToSet
  <2> QED BY <1>1, <2>1, DatabaseExecutorAssumption DEF Hands, Statuses
<1>4. Children(active, sent, proc)
  BY <1>1 DEF Children, Proc, Child, NoChild
<1>5. Truth(kind, applied, status, active, sent, proc)
  BY <1>1, DatabaseExecutorAssumption
  DEF Truth, CallerKnows, CurrentKnows, RetiredKnows, NoChild
<1>6. Order(kind, before, status, queue, active, proc)
  BY <1>1 DEF Order
<1> QED BY <1>2, <1>3, <1>4, <1>5, <1>6 DEF ExecutorInv

LEMMA StepInvariant == ExecutorInv /\ [Next]_vars => ExecutorInv'
<1> SUFFICES ASSUME ExecutorInv, [Next]_vars PROVE ExecutorInv'
  OBVIOUS
<1>1. ASSUME NEW r \in Requests, Expire(r) PROVE ExecutorInv'
  BY <1>1, ExpireActiveKeeps, ExpireRetryingKeeps, ExpireQueuedKeeps DEF Expire
<1>2. CASE TransportFails
  BY <1>2, RetiringKeeps DEF TransportFails, ExecutorInv, Typed
<1>3. CASE StartupFails
  BY <1>3, RetiringKeeps DEF StartupFails, ExecutorInv, Typed
<1>4. CASE UNCHANGED vars
  BY <1>4
  DEF vars, ExecutorInv, Typed, Hands, Children, Truth, CallerKnows, CurrentKnows,
      RetiredKnows, Order, ClosedIsEmpty, StalledOnlyAfterFailedStart
<1> QED BY <1>1, <1>2, <1>3, <1>4, ExecuteKeeps, RefuseKeeps, ExitSeenKeeps,
           ChildReadyKeeps, ReceiveKeeps, RetryFiresKeeps, OldExitsKeeps,
           CloseKeeps, ReopenKeeps, ChildExecutesKeeps, ChildDiesKeeps DEF Next

LEMMA Invariance == Spec => []ExecutorInv
  BY InitInvariant, StepInvariant, PTL DEF Spec

\* Every variable of the executor has its type, and no request waits twice.
THEOREM TypeCorrect == Spec => []TypeOK
<1>1. ExecutorInv => TypeOK
  BY DEF ExecutorInv, Typed, Hands, Children, Order, TypeOK, Statuses, Proc
<1> QED BY <1>1, Invariance, PTL

\* Whatever dies, hangs or is retired, callers are told the truth about their
\* operations and no operation takes effect twice.
THEOREM ToldTheTruth == Spec => []OutcomeTruthful
<1>1. ExecutorInv => OutcomeTruthful
  BY DEF ExecutorInv, Truth, CallerKnows, OutcomeTruthful, Barrier
<1> QED BY <1>1, Invariance, PTL

\* A new child never runs beside one that was given up.
THEOREM SingleWriter == Spec => []OneWriter
<1>1. ExecutorInv => OneWriter
  BY DEF ExecutorInv, Children, OneWriter, Alive, NoChild
<1> QED BY <1>1, Invariance, PTL

\* An unanswered request is within reach of its deadline, and the queue keeps
\* its bound through retries.
THEOREM OpenWithinReach == Spec => []OpenIsPending
<1>1. ASSUME ExecutorInv PROVE OpenIsPending
  <2>1. /\ Hands(status, queue, active)
        /\ Len(queue) \in Nat
    BY <1>1, LenProperties DEF ExecutorInv, Hands
  <2>2. Len(queue) + Cardinality({active} \ {NoRequest}) <= MaxPending
    <3>1. CASE active = NoRequest
      <4>1. {active} \ {NoRequest} = {} /\ Cardinality({}) = 0
        BY <3>1, FS_EmptySet
      <4> QED BY <2>1, <3>1, <4>1 DEF Hands
    <3>2. CASE active # NoRequest
      <4>1. {active} \ {NoRequest} = {active} /\ Cardinality({active}) = 1
        BY <3>2, FS_Singleton
      <4> QED BY <2>1, <3>2, <4>1 DEF Hands
    <3> QED BY <3>1, <3>2
  <2> QED BY <2>1, <2>2 DEF Hands, OpenIsPending
<1> QED BY <1>1, Invariance, PTL

\* A queue without a child to come is one whose child failed to start.
THEOREM NeverStalled == Spec => []StalledOnlyAfterFailedStart
<1>1. ExecutorInv => StalledOnlyAfterFailedStart
  BY DEF ExecutorInv
<1> QED BY <1>1, Invariance, PTL

\* An operation is executed when all writes and maintenance that were asked for
\* before it are over, in this child and in the one that was given up.
THEOREM ExecutedInOrder == Spec => EarlierWritesDone
<1>1. ASSUME ExecutorInv, [Next]_vars, NEW r \in Requests,
             NEW which \in {"cur", "old"},
             proc[which].op = r, proc[which].answer = "none",
             proc'[which].op = r, proc'[which].answer # "none",
             NEW w \in before[r]
      PROVE  status[w] # "open" /\ ~(proc.old.op = w /\ Unexecuted(proc.old))
  <2>1. /\ Hands(status, queue, active) /\ Children(active, sent, proc)
        /\ Order(kind, before, status, queue, active, proc)
        /\ r # NoRequest /\ w # NoRequest /\ NoChild.op = NoRequest
    BY <1>1, DatabaseExecutorAssumption DEF ExecutorInv, Order, NoChild
  <2>2. CASE which = "cur"
    <3>1. r = active /\ ~proc.stopping
      BY <1>1, <2>1, <2>2 DEF Children
    <3> QED BY <1>1, <2>1, <3>1 DEF Order, Children
  <2>3. CASE which = "old"
    BY <1>1, <2>1, <2>3 DEF Order
  <2> QED BY <2>2, <2>3
<1>2. ExecutorInv /\ [Next]_vars =>
         [\A r \in Requests, which \in {"cur", "old"} :
             (proc[which].op = r /\ proc[which].answer = "none"
                 /\ proc'[which].op = r /\ proc'[which].answer # "none") =>
             \A w \in before[r] : status[w] # "open"
                /\ ~(proc.old.op = w /\ Unexecuted(proc.old))]_vars
  BY <1>1
<1> QED BY <1>2, Invariance, PTL DEF Spec, EarlierWritesDone
=============================================================================
