--------------------------- MODULE DatabaseExecutor ---------------------------
(***************************************************************************)
(* The executor that sends database operations to a child process, one at  *)
(* a time: a bounded queue with deadlines, a child that is started on      *)
(* demand and may die, hang or lose its transport, retries after a         *)
(* confirmed rollback, and a report of what became of an operation that    *)
(* was cut off.                                                            *)
(*                                                                         *)
(* Every handler of the host is synchronous and is one action, with the    *)
(* pump that ends it.  The child handles messages in order, one operation  *)
(* to its end each.  A retired child is told to shut down and is killed    *)
(* after half a second: it may still finish the operation it has.          *)
(***************************************************************************)
EXTENDS Naturals, SequencesExt

CONSTANTS Requests,
          NoRequest,
          Offers,      \* the kinds the requests may have
          MaxPending,
          MaxStreak    \* interactive reads in a row (4 in the code)

Kinds == {"write", "other", "read", "interactive"}

ASSUME DatabaseExecutorAssumption ==
    /\ NoRequest \notin Requests
    /\ Offers \subseteq [Requests -> Kinds]
    /\ MaxPending \in Nat \ {0}
    /\ MaxStreak \in Nat

VARIABLES
    kind,     \* of each request
    status,   \* what its caller was told, "open" until then
    queue,
    active,
    sent,     \* active.dispatched
    streak,   \* interactiveReadStreak
    closed,
    proc,     \* this.process and its readiness, and a retired child
    applied,  \* how often an operation took effect in the database
    before    \* history: the barriers that were open when a request came

vars == <<kind, status, queue, active, sent, streak, closed, proc, applied,
          before>>

\* A write is one transaction; "other" is a checkpoint, maintenance, a snapshot
\* or a read that is no plain SELECT.
Reads == {"read", "interactive"}
Barrier(r) == kind[r] \notin Reads

Outcomes == {"ok", "not-started", "rolled-back", "unknown"}

\* A child with the operation it was sent and its answer, both on their way or
\* in its hands.
Child == [state : {"none", "booting", "up", "exited"},
          op : Requests \cup {NoRequest},
          answer : {"none", "result", "busy", "rolled-back", "failed"}]
NoChild == [state |-> "none", op |-> NoRequest, answer |-> "none"]
NewChild == [NoChild EXCEPT !.state = "booting"]
Alive(child) == child.state \in {"booting", "up"}

Told(told, C, outcome) ==
    [r \in Requests |-> IF r \in C THEN outcome ELSE told[r]]

\* Mutant: the next child is spawned without waiting for this one.
RetiredAtOnce(p, thenPump) ==
    [cur |-> NoChild, old |-> p.cur, ready |-> FALSE, stopping |-> FALSE,
     wake |-> thenPump]

\* retire: stopping lasts until the child has exited; wake tells whether the
\* caller pumps then.
Retired(p, thenPump) ==
    [cur |-> NoChild, old |-> p.cur, ready |-> FALSE, stopping |-> TRUE,
     wake |-> thenPump]

-----------------------------------------------------------------------------
(* The pump                                                                *)

\* Mutant: an interactive read overtakes whatever is ahead of it.
PromotableAcross(q) == {i \in DOMAIN q : kind[q[i]] = "interactive"}

\* Interactive reads with nothing but reads ahead of them.
Promotable(q) ==
    {i \in DOMAIN q : /\ kind[q[i]] = "interactive"
                      /\ \A j \in 1..(i - 1) : kind[q[j]] \in Reads}

NextIndex(q) ==
    IF streak < MaxStreak /\ Promotable(q) # {} THEN Min(Promotable(q)) ELSE 1

Idle(q) ==
    /\ queue' = q
    /\ active' = NoRequest
    /\ sent' = FALSE

Rests(told, q, p) ==
    /\ closed \/ p.stopping \/ q = <<>> \/ (p.cur # NoChild /\ ~p.ready)
    /\ status' = told
    /\ Idle(q)
    /\ streak' = IF q = <<>> /\ ~closed /\ ~p.stopping THEN 0 ELSE streak
    /\ proc' = p

\* A child is started; if that throws, all that waited fails.
Spawns(told, q, p) ==
    /\ p.cur = NoChild
    /\ \/ /\ status' = told
          /\ Idle(q)
          /\ proc' = [p EXCEPT !.cur = NewChild]
       \/ /\ status' = Told(told, ToSet(q), "not-started")
          /\ Idle(<<>>)
          /\ proc' = p
    /\ UNCHANGED streak

\* Mutant: the request is read from the queue but not taken out.
DispatchesKept(told, q, p) ==
    LET r == q[NextIndex(q)]
    IN  /\ p.ready
        /\ status' = told
        /\ queue' = q
        /\ active' = r
        /\ sent' = TRUE
        /\ proc' = [p EXCEPT !.cur.op = r, !.cur.answer = "none"]
        /\ UNCHANGED streak

\* The next request is sent; if that throws, its outcome is unknown.
Dispatches(told, q, p) ==
    LET i == NextIndex(q)
        r == q[i]
    IN  /\ p.ready
        /\ streak' = IF kind[r] = "interactive" THEN streak + 1 ELSE 0
        /\ \/ /\ status' = told
              /\ queue' = RemoveAt(q, i)
              /\ active' = r
              /\ sent' = TRUE
              /\ proc' = [p EXCEPT !.cur.op = r, !.cur.answer = "none"]
           \/ /\ status' = Told(told, {r}, "unknown")
              /\ Idle(RemoveAt(q, i))
              /\ proc' = Retired(p, TRUE)

\* pump, without an active request.
Pump(told, q, p) ==
    \/ Rests(told, q, p)
    \/ /\ ~closed /\ ~p.stopping /\ q # <<>>
       /\ Spawns(told, q, p) \/ Dispatches(told, q, p)

-----------------------------------------------------------------------------
Init ==
    /\ kind \in Offers
    /\ status = [r \in Requests |-> "new"]
    /\ queue = <<>>
    /\ active = NoRequest
    /\ sent = FALSE
    /\ streak = 0
    /\ closed = FALSE
    /\ proc = [cur |-> NoChild, old |-> NoChild, ready |-> FALSE,
               stopping |-> FALSE, wake |-> TRUE]
    /\ applied = [r \in Requests |-> 0]
    /\ before = [r \in Requests |-> {}]

Pending == Len(queue) + (IF active = NoRequest THEN 0 ELSE 1)

Execute(r) ==
    /\ status[r] = "new"
    /\ ~closed
    /\ Pending < MaxPending
    /\ before' = [before EXCEPT ![r] =
                    {w \in Requests : Barrier(w) /\ status[w] = "open"}]
    /\ LET told == Told(status, {r}, "open")
           q == Append(queue, r)
       IN  IF active = NoRequest
           THEN Pump(told, q, proc)
           ELSE /\ status' = told
                /\ queue' = q
                /\ UNCHANGED <<active, sent, streak, proc>>
    /\ UNCHANGED <<kind, closed, applied>>

Refuse(r) ==
    /\ status[r] = "new"
    /\ closed \/ Pending >= MaxPending
    /\ status' = Told(status, {r}, "not-started")
    /\ UNCHANGED <<kind, queue, active, sent, streak, closed, proc, applied,
                   before>>

\* Mutant: a write that was cut off is put back.
ExpireActiveRetrying(r) ==
    /\ active = r /\ sent
    /\ status' = status
    /\ Idle(<<r>> \o queue)
    /\ proc' = Retired(proc, TRUE)
    /\ UNCHANGED streak

\* An operation in the child's hands is given up with the child.
ExpireActive(r) ==
    /\ active = r /\ sent
    /\ status' = Told(status, {r}, "unknown")
    /\ Idle(queue)
    /\ proc' = Retired(proc, TRUE)
    /\ UNCHANGED streak

ExpireRetrying(r) ==
    /\ active = r /\ ~sent
    /\ Pump(Told(status, {r}, "rolled-back"), queue, proc)

\* The last one that waited for a child to become ready takes the child along.
ExpireQueued(r) ==
    \E i \in DOMAIN queue :
       /\ queue[i] = r
       /\ status' = Told(status, {r}, "not-started")
       /\ queue' = RemoveAt(queue, i)
       /\ proc' = IF proc.cur # NoChild /\ ~proc.ready /\ queue' = <<>>
                  THEN Retired(proc, FALSE) ELSE proc
       /\ UNCHANGED <<active, sent, streak>>

\* The deadline of r passes, or its caller aborts it.
Expire(r) ==
    /\ ExpireActive(r) \/ ExpireRetrying(r) \/ ExpireQueued(r)
    /\ UNCHANGED <<kind, closed, applied, before>>

\* Mutant: only what waits in the queue is failed.
AllFailQueued ==
    /\ status' = Told(status, ToSet(queue), "not-started")
    /\ Idle(<<>>)
    /\ UNCHANGED <<kind, streak, applied, before>>

\* Everything that waits fails, and what is active is lost with the child.
AllFail ==
    /\ status' = [r \in Requests |->
          CASE r \in ToSet(queue) -> "not-started"
            [] r = active -> IF sent THEN "unknown" ELSE "rolled-back"
            [] OTHER -> status[r]]
    /\ Idle(<<>>)
    /\ UNCHANGED <<kind, streak, applied, before>>

\* childExited
ExitSeen ==
    /\ proc.cur.state = "exited"
    /\ AllFail
    /\ proc' = [proc EXCEPT !.cur = NoChild, !.ready = FALSE]
    /\ UNCHANGED closed

TransportFails ==
    /\ proc.cur # NoChild
    /\ AllFail
    /\ proc' = Retired(proc, TRUE)
    /\ UNCHANGED closed

\* The child cannot open the database, or is not ready in time; a child that
\* cannot has exited, but its message may come first.
StartupFails ==
    /\ proc.cur # NoChild /\ ~proc.ready
    /\ AllFail
    /\ proc' = Retired(proc, FALSE)
    /\ UNCHANGED closed

ChildReady ==
    /\ proc.cur.state = "booting"
    /\ Pump(status, queue, [proc EXCEPT !.cur.state = "up", !.ready = TRUE])
    /\ UNCHANGED <<kind, closed, applied, before>>

Outcome(answer) ==
    CASE answer = "result" -> "ok"
      [] answer \in {"busy", "rolled-back"} -> "rolled-back"
      [] OTHER -> "unknown"

\* An answer to the active request; a lock is retried unless the deadline is
\* over.
Receive ==
    /\ proc.cur.answer # "none"
    /\ LET r == proc.cur.op
           p == [proc EXCEPT !.cur.op = NoRequest, !.cur.answer = "none"]
       IN  /\ active = r /\ sent
           /\ \/ Pump(Told(status, {r}, Outcome(proc.cur.answer)), queue, p)
              \/ /\ proc.cur.answer = "busy"
                 /\ sent' = FALSE
                 /\ proc' = p
                 /\ UNCHANGED <<status, queue, active, streak>>
    /\ UNCHANGED <<kind, closed, applied, before>>

RetryFires ==
    /\ active # NoRequest /\ ~sent
    /\ Pump(status, <<active>> \o queue, proc)
    /\ UNCHANGED <<kind, closed, applied, before>>

\* Mutant: nobody pumps when the child is gone.
OldExitsQuietly ==
    /\ proc.old.state = "exited"
    /\ proc' = [proc EXCEPT !.old = NoChild, !.stopping = FALSE]
    /\ UNCHANGED <<kind, status, queue, active, sent, streak, closed, applied,
                   before>>

\* The retired child has exited; unless it failed to start, the host pumps.
OldExits ==
    /\ proc.old.state = "exited"
    /\ LET p == [proc EXCEPT !.old = NoChild, !.stopping = FALSE]
       IN  \/ proc.wake /\ Pump(status, queue, p)
           \/ /\ ~proc.wake
              /\ proc' = p
              /\ UNCHANGED <<status, queue, active, sent, streak>>
    /\ UNCHANGED <<kind, closed, applied, before>>

Close ==
    /\ ~closed
    /\ AllFail
    /\ closed' = TRUE
    /\ proc' = IF proc.cur = NoChild THEN proc ELSE Retired(proc, FALSE)

\* A new executor, on the condition that the previous one's child has exited.
Reopen ==
    /\ closed
    /\ closed' = FALSE
    /\ streak' = 0
    /\ proc' = [proc EXCEPT !.wake = TRUE]
    /\ UNCHANGED <<kind, status, queue, active, sent, applied, before>>

-----------------------------------------------------------------------------
(* The child; here it is the current or the retired one                    *)

\* What executing r leads to, and how often r takes effect in it.  A busy or
\* failed transaction is rolled back; of anything else a part may remain.
Effects(r) ==
    CASE kind[r] = "write" -> {<<"result", 1>>, <<"busy", 0>>, <<"rolled-back", 0>>}
      [] kind[r] = "other" -> {<<"result", 1>>, <<"failed", 0>>, <<"failed", 1>>}
      [] OTHER -> {<<"result", 0>>, <<"failed", 0>>}

Unexecuted(child) == child.op # NoRequest /\ child.answer = "none"

ChildExecutes(which) ==
    /\ proc[which].state = "up"
    /\ Unexecuted(proc[which])
    /\ \E effect \in Effects(proc[which].op) :
          /\ proc' = [proc EXCEPT ![which].answer = effect[1]]
          /\ applied' = [applied EXCEPT ![proc[which].op] = @ + effect[2]]
    /\ UNCHANGED <<kind, status, queue, active, sent, streak, closed, before>>

\* It exits or is killed, perhaps in the middle of an operation, whose commit
\* may have reached the disk.
ChildDies(which) ==
    /\ Alive(proc[which])
    /\ proc' = [proc EXCEPT ![which].state = "exited"]
    /\ applied' \in {applied} \cup
          {[applied EXCEPT ![r] = @ + 1] :
              r \in {proc[which].op} \cap
                    {r \in Requests : Unexecuted(proc[which]) /\ Barrier(r)}}
    /\ UNCHANGED <<kind, status, queue, active, sent, streak, closed, before>>

Next ==
    \/ \E r \in Requests : Execute(r) \/ Refuse(r) \/ Expire(r)
    \/ ExitSeen \/ TransportFails \/ StartupFails \/ ChildReady
    \/ Receive \/ RetryFires \/ OldExits \/ Close \/ Reopen
    \/ \E which \in {"cur", "old"} : ChildExecutes(which) \/ ChildDies(which)

Spec == Init /\ [][Next]_vars

-----------------------------------------------------------------------------
\* Every variable has its type.
TypeOK ==
    /\ kind \in [Requests -> Kinds]
    /\ status \in [Requests -> {"new", "open"} \cup Outcomes]
    /\ queue \in Seq(Requests) /\ IsInjective(queue)
    /\ active \in Requests \cup {NoRequest}
    /\ sent \in BOOLEAN
    /\ streak \in Nat
    /\ closed \in BOOLEAN
    /\ proc \in [cur : Child, old : Child, ready : BOOLEAN, stopping : BOOLEAN,
                 wake : BOOLEAN]
    /\ applied \in [Requests -> Nat]
    /\ before \in [Requests -> SUBSET Requests]

\* What callers are told is true, and stays true whatever a retired child does
\* afterwards: an operation reported not started or rolled back has not taken
\* effect, one reported done has, and none takes effect twice.
OutcomeTruthful ==
    \A r \in Requests :
        /\ status[r] \in {"new", "not-started", "rolled-back"} => applied[r] = 0
        /\ status[r] = "ok" /\ Barrier(r) => applied[r] = 1
        /\ applied[r] <= 1

\* The database has one writer: no child runs beside one that was retired.
OneWriter == ~(Alive(proc.cur) /\ Alive(proc.old))

\* Every request that has not been answered is where its deadline and its
\* abort signal find it, and nothing answered is sent again; the retried one
\* does not push the queue over its bound.
OpenIsPending ==
    /\ Len(queue) + Cardinality({active} \ {NoRequest}) <= MaxPending
    /\ \A r \in Requests :
          status[r] = "open" <=> r \in ToSet(queue) \cup {active}

\* When an operation is executed, no write or maintenance that was asked for
\* earlier is still to come: promotion, retries and a child that was given up
\* never turn the order round.
EarlierWritesDone ==
    [][\A r \in Requests, which \in {"cur", "old"} :
          (proc[which].op = r /\ proc[which].answer = "none"
              /\ proc'[which].op = r /\ proc'[which].answer # "none") =>
          \A w \in before[r] :
             status[w] # "open" /\ ~(proc.old.op = w /\ Unexecuted(proc.old))]_vars

\* Requests wait without a child and without anybody to start one only after a
\* child that failed to start was retired without a pump.
StalledOnlyAfterFailedStart ==
    (queue # <<>> /\ active = NoRequest /\ proc.cur = NoChild
        /\ ~proc.stopping /\ ~closed) => ~proc.wake
=============================================================================
