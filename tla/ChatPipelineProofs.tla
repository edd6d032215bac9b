-------------------------- MODULE ChatPipelineProofs --------------------------
(***************************************************************************)
(* What a chat's lane and its rebuild drain keep for every number of       *)
(* tasks, chunks and message positions.  The lane's part of the invariant  *)
(* is stated of a state that is about to be: the pump loop settles or      *)
(* queues a task and starts the next one in one turn.                      *)
(***************************************************************************)
EXTENDS ChatPipeline, SequenceLemmas

Stages == {"idle", "preflight", "run"}

\* A waiting task is open, waits once and is not the active one.
Waiting(tk, q, a) ==
    /\ tk \in [AllTasks -> QueueTask]
    /\ q \in Seq(AllTasks) /\ IsInjective(q)
    /\ a \notin ToSet(q)
    /\ \A t \in ToSet(q) : tk[t].status = "open"

\* FreshIngestsOnly, of a queue q.
Fresh(tk, q) ==
    \A i, j \in DOMAIN q :
        (i < j /\ tk[q[i]].kind = "cortex_ingest") =>
            /\ ~Exclusive(tk[q[j]].kind)
            /\ tk[q[i]].key # tk[q[j]].key

Superseded(tk) ==
    \A t \in Tasks : tk[t].superseded => tk[t].status \in {"open", "superseded"}

\* There is an active task exactly while the pump loop runs, it is open, and it
\* alone has left the queue for its preflight or its run.
Active(tk, q, a, running, st) ==
    /\ a \in Ids /\ running \in BOOLEAN
    /\ running <=> a # NoTask
    /\ ~running => q = <<>>
    /\ a # NoTask => tk[a].status = "open"
    /\ st \in [AllTasks -> Stages]
    /\ \A t \in AllTasks : st[t] # "idle" <=> t = a

Lane(tk, q, a, running, st) ==
    /\ Waiting(tk, q, a) /\ Fresh(tk, q) /\ Superseded(tk)
    /\ Active(tk, q, a, running, st)

\* The drain awaits the Rebuild task whenever that is open.
Rebuilds ==
    /\ \A S \in {pending, taking, dirty, dropped} : S \subseteq Positions
    /\ drain \in {"none", "starting", "awaiting", "returned", "threw"}
    /\ dirty \subseteq pending
    /\ drain # "awaiting" => task[Rebuild].status # "open"

PipelineInv == Lane(task, queue, activeTask, processing, stage) /\ Rebuilds

-----------------------------------------------------------------------------
(* The turns of the pump loop                                              *)

\* What the start of a task leaves of the scopes.
ScopesKept ==
    /\ \A S \in {pending', taking', dirty'} : S \subseteq Positions
    /\ dirty' \subseteq pending'

LEMMA ScopesUntouched ==
    ASSUME Rebuilds, UNCHANGED <<pending, taking, dirty>>
    PROVE  ScopesKept
  BY DEF Rebuilds, ScopesKept

LEMMA TakingKeepsScopes ==
    ASSUME Rebuilds, NEW t, TakePending(t)
    PROVE  ScopesKept
<1>1. CASE t = Rebuild
  BY <1>1 DEF TakePending, Rebuilds, ScopesKept
<1>2. CASE t # Rebuild
  BY <1>2, ScopesUntouched DEF TakePending
<1> QED BY <1>1, <1>2

\* With the last task settled, the loop starts the head of the queue or ends.
LEMMA StartNextKeeps ==
    ASSUME Rebuilds, NEW q, NEW stages,
           Waiting(task', q, NoTask), Fresh(task', q), Superseded(task'),
           stages = [t \in AllTasks |-> "idle"],
           StartNext(q, stages)
    PROVE  Lane(task', queue', activeTask', processing', stage') /\ ScopesKept
<1>1. NoTask \notin AllTasks
  BY ChatPipelineAssumption DEF AllTasks
<1>2. CASE q = <<>>
  <2>1. /\ queue' = <<>> /\ activeTask' = NoTask /\ processing' = FALSE
        /\ stage' = stages /\ UNCHANGED <<pending, taking, dirty>>
    BY <1>2 DEF StartNext, LoopEnds
  <2>2. Active(task', queue', activeTask', processing', stage')
    BY <1>1, <2>1 DEF Active, Ids, AllTasks, Stages
  <2> QED BY <1>2, <2>1, <2>2, ScopesUntouched DEF Lane
<1>3. CASE q # <<>>
  <2> DEFINE t == Head(q)
  <2>1. /\ queue' = Tail(q) /\ activeTask' = t /\ processing' = TRUE
        /\ stage' = [stages EXCEPT ![t] = FirstStage(task'[t].kind)]
        /\ TakePending(t)
    BY <1>3 DEF StartNext, Begin
  <2>2. /\ q \in Seq(AllTasks) /\ IsInjective(q) /\ Len(q) \in Nat \ {0}
        /\ DOMAIN q = 1..Len(q) /\ t = q[1] /\ 1 \in DOMAIN q
        /\ \A i \in DOMAIN q : q[i] \in AllTasks
    BY <1>3, LenProperties, EmptySeq, ElementOfSeq DEF Waiting
  <2>3. /\ Tail(q) \in Seq(AllTasks) /\ DOMAIN Tail(q) = 1..(Len(q) - 1)
        /\ \A i \in 1..(Len(q) - 1) : Tail(q)[i] = q[i + 1] /\ i + 1 \in DOMAIN q
    BY <1>3, <2>2, HeadTailProperties, LenProperties
  <2> HIDE DEF t
  <2>4. t \in AllTasks /\ t # NoTask /\ task'[t].status = "open"
    BY <1>1, <2>2 DEF Waiting, ToSet
  <2>5. Waiting(task', queue', activeTask')
    <3>1. IsInjective(Tail(q))
      <4>1. ASSUME NEW a \in DOMAIN Tail(q), NEW b \in DOMAIN Tail(q),
                   Tail(q)[a] = Tail(q)[b]
            PROVE  a = b
        <5>1. a + 1 = b + 1
          BY <2>2, <2>3, <4>1 DEF IsInjective
        <5> QED BY <2>2, <2>3, <5>1
      <4> QED BY <4>1 DEF IsInjective
    <3>2. t \notin ToSet(Tail(q))
      <4>1. ASSUME NEW a \in DOMAIN Tail(q), Tail(q)[a] = t
            PROVE  FALSE
        <5>1. a + 1 = 1
          BY <2>2, <2>3, <4>1 DEF IsInjective
        <5> QED BY <2>2, <2>3, <5>1
      <4> QED BY <4>1 DEF ToSet
    <3>3. ToSet(Tail(q)) \subseteq ToSet(q)
      BY <2>3 DEF ToSet
    <3> QED BY <2>1, <2>3, <3>1, <3>2, <3>3 DEF Waiting
  <2>6. Fresh(task', queue')
    <3>1. ASSUME NEW i \in DOMAIN Tail(q), NEW j \in DOMAIN Tail(q), i < j
          PROVE  /\ i + 1 \in DOMAIN q /\ j + 1 \in DOMAIN q /\ i + 1 < j + 1
                 /\ Tail(q)[i] = q[i + 1] /\ Tail(q)[j] = q[j + 1]
      BY <2>2, <2>3, <3>1
    <3> QED BY <2>1, <3>1 DEF Fresh
  <2>7. Active(task', queue', activeTask', processing', stage')
    <3>1. FirstStage(task'[t].kind) \in {"preflight", "run"}
      BY DEF FirstStage
    <3>2. /\ stage' \in [AllTasks -> Stages]
          /\ \A u \in AllTasks : stage'[u] # "idle" <=> u = t
      BY <2>1, <2>4, <3>1 DEF Stages
    <3> QED BY <2>1, <2>4, <3>2 DEF Active, Ids, AllTasks
  <2> QED BY <2>1, <2>5, <2>6, <2>7, TakingKeepsScopes DEF Lane
<1> QED BY <1>2, <1>3

\* The loop settles the task it holds and goes on.
LEMMA SettleAndGoOnKeeps ==
    ASSUME PipelineInv, NEW t \in AllTasks, stage[t] # "idle",
           NEW outcome \in Outcomes,
           task[t].superseded => outcome = "superseded",
           SettleAndGoOn(t, outcome), UNCHANGED <<drain, dropped>>
    PROVE  PipelineInv'
<1> DEFINE stages == [stage EXCEPT ![t] = "idle"]
<1>1. /\ task' = [task EXCEPT ![t].status = outcome] /\ StartNext(queue, stages)
      /\ Waiting(task, queue, activeTask) /\ Fresh(task, queue)
      /\ Superseded(task) /\ Rebuilds
      /\ Active(task, queue, activeTask, processing, stage)
  BY DEF SettleAndGoOn, Settle, PipelineInv, Lane
<1>2. t = activeTask /\ t # NoTask
  BY <1>1, ChatPipelineAssumption DEF Active, AllTasks
<1>3. /\ task \in [AllTasks -> QueueTask] /\ outcome # "open"
      /\ outcome \in {"new", "open"} \cup Outcomes
      /\ queue \in Seq(AllTasks)
      /\ \A i \in DOMAIN queue : queue[i] \in AllTasks /\ queue[i] # t
  BY <1>1, <1>2, LenProperties, ElementOfSeq DEF Waiting, Outcomes, ToSet
<1>4. /\ task' \in [AllTasks -> QueueTask]
      /\ task'[t].status = outcome /\ task'[t].superseded = task[t].superseded
      /\ \A u \in AllTasks : u # t => task'[u] = task[u]
  BY <1>1, <1>3 DEF QueueTask
<1>5. stages = [u \in AllTasks |-> "idle"]
  <2>1. /\ stages \in [AllTasks -> Stages]
        /\ \A u \in AllTasks : stages[u] = "idle"
    BY <1>1, <1>2 DEF Active, Stages
  <2> QED BY <2>1
<1>6. Waiting(task', queue, NoTask)
  <2>1. \A u \in ToSet(queue) : u \in AllTasks /\ u # t
    BY <1>3 DEF ToSet
  <2> QED BY <1>1, <1>4, <2>1, ChatPipelineAssumption DEF Waiting, AllTasks
<1>7. Fresh(task', queue)
  BY <1>1, <1>3, <1>4 DEF Fresh
<1>8. Superseded(task')
  BY <1>1, <1>4 DEF Superseded, AllTasks
<1> HIDE DEF stages
<1>9. /\ Lane(task', queue', activeTask', processing', stage')
      /\ ScopesKept
  BY <1>1, <1>5, <1>6, <1>7, <1>8, StartNextKeeps
<1>10. task'[Rebuild].status = "open" => task[Rebuild].status = "open"
  BY <1>3, <1>4 DEF AllTasks
<1> QED BY <1>1, <1>9, <1>10 DEF PipelineInv, Rebuilds, ScopesKept

\* What happens to the tasks when t is enqueued: the ingests it replaces are
\* settled, the one it aborts is marked.
LEMMA EnqueuedTasks ==
    ASSUME PipelineInv, NEW t \in AllTasks, task[t].status # "open",
           NEW kind \in Kinds, NEW key \in Chunks \cup {NoTask},
           Enqueue(t, kind, key)
    PROVE  /\ task' \in [AllTasks -> QueueTask]
           /\ task'[t] = NewTask(kind, key)
           /\ t \notin ToSet(queue) /\ t # activeTask
           /\ \A u \in AllTasks \ {t} :
                 /\ task'[u].kind = task[u].kind /\ task'[u].key = task[u].key
                 /\ u \in Replaced(kind, key) => task'[u].status = "superseded"
                 /\ u \notin Replaced(kind, key) =>
                       task'[u].status = task[u].status
                 /\ task'[u].superseded => task[u].superseded \/ u = activeTask
<1>1. /\ Waiting(task, queue, activeTask)
      /\ Active(task, queue, activeTask, processing, stage)
      /\ task \in [AllTasks -> QueueTask]
  BY DEF PipelineInv, Lane, Waiting
<1>2. t \notin ToSet(queue) /\ t # activeTask
  BY <1>1, ChatPipelineAssumption DEF Waiting, Active, AllTasks
<1>3. task' = [u \in AllTasks |->
                 CASE u = t -> NewTask(kind, key)
                   [] u \in Replaced(kind, key) ->
                         [task[u] EXCEPT !.status = "superseded"]
                   [] u \in Preempted(kind) -> [task[u] EXCEPT !.superseded = TRUE]
                   [] OTHER -> task[u]]
  BY DEF Enqueue
<1>4. NewTask(kind, key) \in QueueTask
  BY DEF NewTask, QueueTask
<1>5. task'[t] = NewTask(kind, key)
  BY <1>2, <1>3 DEF Replaced, Preempted
<1>6. ASSUME NEW u \in AllTasks \ {t}
      PROVE  /\ task'[u] \in QueueTask
             /\ task'[u].kind = task[u].kind /\ task'[u].key = task[u].key
             /\ u \in Replaced(kind, key) => task'[u].status = "superseded"
             /\ u \notin Replaced(kind, key) => task'[u].status = task[u].status
             /\ task'[u].superseded => task[u].superseded \/ u = activeTask
  <2>1. task[u] \in QueueTask
    BY <1>1
  <2>2. CASE u \in Replaced(kind, key)
    <3>1. u \notin Preempted(kind)
      BY <1>1, <2>2 DEF Replaced, Preempted, Waiting
    <3>2. task'[u] = [task[u] EXCEPT !.status = "superseded"]
      BY <1>3, <2>2, <3>1
    <3> QED BY <2>1, <2>2, <3>2 DEF QueueTask, Outcomes
  <2>3. CASE u \notin Replaced(kind, key) /\ u \in Preempted(kind)
    <3>1. task'[u] = [task[u] EXCEPT !.superseded = TRUE] /\ u = activeTask
      BY <1>3, <2>3 DEF Preempted
    <3> QED BY <2>1, <2>3, <3>1 DEF QueueTask
  <2>4. CASE u \notin Replaced(kind, key) /\ u \notin Preempted(kind)
    <3>1. task'[u] = task[u]
      BY <1>3, <2>4
    <3> QED BY <2>1, <2>4, <3>1
  <2> QED BY <2>2, <2>3, <2>4
<1>7. task' \in [AllTasks -> QueueTask]
  <2>1. \A u \in AllTasks : task'[u] \in QueueTask
    BY <1>4, <1>5, <1>6
  <2> QED BY <1>3, <2>1
<1> QED BY <1>2, <1>5, <1>6, <1>7

\* The new task waits behind what it did not replace, or is started at once.
LEMMA EnqueueKeeps ==
    ASSUME PipelineInv, NEW t \in AllTasks, task[t].status # "open",
           NEW kind \in Kinds, NEW key \in Chunks \cup {NoTask},
           Enqueue(t, kind, key)
    PROVE  /\ Lane(task', queue', activeTask', processing', stage')
           /\ ScopesKept
           /\ \A u \in AllTasks \ {t} :
                 task'[u].status = "open" => task[u].status = "open"
<1> DEFINE gone == Replaced(kind, key)
           rest == Without(queue, gone)
           q == Append(rest, t)
<1>1. /\ Waiting(task, queue, activeTask) /\ Fresh(task, queue)
      /\ Superseded(task) /\ Rebuilds
      /\ Active(task, queue, activeTask, processing, stage)
  BY DEF PipelineInv, Lane
<1>2. /\ task' \in [AllTasks -> QueueTask] /\ task'[t] = NewTask(kind, key)
      /\ t \notin ToSet(queue) /\ t # activeTask
  BY EnqueuedTasks
<1>3. \A u \in AllTasks \ {t} :
         /\ task'[u].kind = task[u].kind /\ task'[u].key = task[u].key
         /\ u \in gone => task'[u].status = "superseded"
         /\ u \notin gone => task'[u].status = task[u].status
         /\ task'[u].superseded => task[u].superseded \/ u = activeTask
  BY EnqueuedTasks
<1>4. /\ rest \in Seq(AllTasks) /\ IsInjective(rest)
      /\ ToSet(rest) = ToSet(queue) \ gone
      /\ \A m, n \in DOMAIN rest : m < n =>
            \E i, j \in DOMAIN queue :
               i < j /\ rest[m] = queue[i] /\ rest[n] = queue[j]
  BY <1>1, WithoutElements DEF Waiting
<1>5. \A u \in gone : u \in ToSet(queue)
  BY DEF Replaced
<1>6. \A u \in ToSet(rest) : task[u].kind = "cortex_ingest" =>
         ~Exclusive(kind) /\ task[u].key # key
  BY <1>4 DEF Replaced
<1>7. PumpLane(q)
  BY DEF Enqueue
<1> HIDE DEF gone, rest
<1>8. Len(rest) \in Nat /\ DOMAIN rest = 1..Len(rest)
  BY <1>4, LenProperties
<1>9. \A u \in ToSet(rest) : u \in AllTasks \ {t} /\ u # activeTask /\ u \notin gone
  <2>1. \A u \in ToSet(queue) : u \in AllTasks
    BY <1>1, LenProperties, ElementOfSeq DEF Waiting, ToSet
  <2> QED BY <1>1, <1>2, <1>4, <2>1 DEF Waiting
<1>10. /\ q \in Seq(AllTasks) /\ IsInjective(q) /\ ToSet(q) = ToSet(rest) \cup {t}
       /\ DOMAIN q = 1..(Len(rest) + 1)
       /\ \A k \in 1..Len(rest) : q[k] = rest[k]
       /\ q[Len(rest) + 1] = t
  BY <1>4, <1>9, AppendNew
<1> HIDE DEF q
<1>11. \A u \in ToSet(q) : task'[u].status = "open"
  <2>1. task'[t].status = "open"
    BY <1>2 DEF NewTask
  <2>2. \A u \in ToSet(rest) : task'[u].status = "open"
    BY <1>1, <1>3, <1>4, <1>9 DEF Waiting
  <2> QED BY <1>10, <2>1, <2>2
<1>12. Fresh(task', q)
  <2> SUFFICES ASSUME NEW m \in DOMAIN q, NEW n \in DOMAIN q, m < n,
                      task'[q[m]].kind = "cortex_ingest"
               PROVE  /\ ~Exclusive(task'[q[n]].kind)
                      /\ task'[q[m]].key # task'[q[n]].key
    BY DEF Fresh
  <2>1. m \in 1..Len(rest)
    BY <1>8, <1>10
  <2>2. q[m] = rest[m] /\ rest[m] \in ToSet(rest) /\ rest[m] \in AllTasks \ {t}
    BY <1>8, <1>9, <1>10, <2>1 DEF ToSet
  <2>3. /\ task[rest[m]].kind = "cortex_ingest"
        /\ task'[rest[m]].key = task[rest[m]].key
    BY <1>3, <2>2
  <2>4. CASE n \in 1..Len(rest)
    <3>1. q[n] = rest[n] /\ rest[n] \in AllTasks \ {t}
      BY <1>8, <1>9, <1>10, <2>4 DEF ToSet
    <3>2. PICK i, j \in DOMAIN queue :
             i < j /\ rest[m] = queue[i] /\ rest[n] = queue[j]
      BY <1>4, <1>8, <2>1, <2>4
    <3>3. /\ ~Exclusive(task[rest[n]].kind)
          /\ task[rest[m]].key # task[rest[n]].key
      BY <1>1, <2>3, <3>2 DEF Fresh
    <3>4. /\ task'[rest[n]].kind = task[rest[n]].kind
          /\ task'[rest[n]].key = task[rest[n]].key
      BY <1>3, <3>1
    <3> QED BY <2>2, <2>3, <3>1, <3>3, <3>4
  <2>5. CASE n = Len(rest) + 1
    <3>1. task'[q[n]].kind = kind /\ task'[q[n]].key = key
      BY <1>2, <1>10, <2>5 DEF NewTask
    <3> QED BY <1>6, <2>2, <2>3, <3>1
  <2> QED BY <1>8, <1>10, <2>4, <2>5
<1>13. Superseded(task')
  <2> SUFFICES ASSUME NEW u \in Tasks, task'[u].superseded
               PROVE  task'[u].status \in {"open", "superseded"}
    BY DEF Superseded
  <2>1. u # t /\ u \in AllTasks \ {t}
    BY <1>2 DEF NewTask, AllTasks
  <2>2. CASE u \in gone
    BY <1>3, <2>1, <2>2
  <2>3. CASE u \notin gone /\ task[u].superseded
    BY <1>1, <1>3, <2>1, <2>3 DEF Superseded
  <2>4. CASE u \notin gone /\ u = activeTask
    <3>1. task[u].status = "open"
      BY <1>1, <2>1, <2>4, ChatPipelineAssumption DEF Active, AllTasks
    <3> QED BY <1>3, <2>1, <2>4, <3>1
  <2> QED BY <1>3, <2>1, <2>2, <2>3, <2>4
<1>14. \A u \in AllTasks \ {t} : task'[u].status = "open" => task[u].status = "open"
  BY <1>3
<1>15. CASE processing
  <2>1. /\ queue' = q
        /\ UNCHANGED <<activeTask, processing, stage, pending, taking, dirty>>
    BY <1>7, <1>15 DEF PumpLane
  <2>2. activeTask # NoTask /\ activeTask \in AllTasks \ {t}
    BY <1>1, <1>2, <1>15 DEF Active, Ids, AllTasks
  <2>3. activeTask \notin gone
    BY <1>1, <1>5 DEF Waiting
  <2>4. task'[activeTask].status = "open"
    BY <1>1, <1>3, <2>2, <2>3 DEF Active
  <2>5. Active(task', queue', activeTask', processing', stage')
    BY <1>1, <1>15, <2>1, <2>4 DEF Active
  <2>6. Waiting(task', queue', activeTask')
    BY <1>2, <1>9, <1>10, <1>11, <2>1 DEF Waiting
  <2> QED BY <1>1, <1>12, <1>13, <1>14, <2>1, <2>5, <2>6, ScopesUntouched DEF Lane
<1>16. CASE ~processing
  <2>1. StartNext(q, stage) /\ activeTask = NoTask /\ NoTask \notin AllTasks
    BY <1>1, <1>7, <1>16, ChatPipelineAssumption DEF PumpLane, Active, AllTasks
  <2>2. stage = [u \in AllTasks |-> "idle"]
    <3>1. stage \in [AllTasks -> Stages] /\ \A u \in AllTasks : stage[u] = "idle"
      BY <1>1, <2>1 DEF Active
    <3> QED BY <3>1
  <2>3. Waiting(task', q, NoTask)
    BY <1>2, <1>9, <1>10, <1>11, <2>1 DEF Waiting
  <2> QED BY <1>1, <1>12, <1>13, <1>14, <2>1, <2>2, <2>3, StartNextKeeps
<1> QED BY <1>15, <1>16 DEF Active

-----------------------------------------------------------------------------
(* Every action keeps the invariant                                        *)

\* A task of the Cortex is enqueued.
LEMMA CortexEnqueueKeeps ==
    ASSUME PipelineInv, NEW t \in Tasks, task[t].status = "new",
           NEW kind \in Kinds, NEW key \in Chunks \cup {NoTask},
           Enqueue(t, kind, key), UNCHANGED <<drain, dropped>>
    PROVE  PipelineInv'
<1>1. t \in AllTasks /\ task[t].status # "open" /\ Rebuild \in AllTasks \ {t}
  BY ChatPipelineAssumption DEF AllTasks
<1>2. /\ Lane(task', queue', activeTask', processing', stage') /\ ScopesKept
      /\ task'[Rebuild].status = "open" => task[Rebuild].status = "open"
  BY <1>1, EnqueueKeeps
<1> QED BY <1>2 DEF PipelineInv, Rebuilds, ScopesKept

LEMMA DrainTurnKeeps ==
    ASSUME PipelineInv, DrainTurn
    PROVE  PipelineInv'
<1>1. /\ task[Rebuild].status # "open" /\ dropped' = dropped
      /\ Rebuild \in AllTasks
  BY DEF DrainTurn, PipelineInv, Rebuilds, Outcomes, AllTasks
<1>2. CASE /\ drain' = "awaiting"
           /\ Enqueue(Rebuild, "chunk_rebuild", NoTask)
  <2>1. /\ Lane(task', queue', activeTask', processing', stage') /\ ScopesKept
    BY <1>1, <1>2, EnqueueKeeps DEF Kinds
  <2> QED BY <1>1, <1>2, <2>1 DEF PipelineInv, Rebuilds, ScopesKept
<1>3. CASE /\ drain' \in {"threw", "returned"}
           /\ UNCHANGED <<lane, pending, taking, dirty>>
  <2>1. Rebuilds'
    BY <1>1, <1>3 DEF lane, PipelineInv, Rebuilds
  <2>2. Lane(task', queue', activeTask', processing', stage')
    BY <1>3 DEF lane, PipelineInv
  <2> QED BY <2>1, <2>2 DEF PipelineInv
<1> QED BY <1>2, <1>3 DEF DrainTurn

\* A preflight that ends well lets the run begin.
LEMMA PreflightRunsKeeps ==
    ASSUME PipelineInv, NEW t \in Tasks, PreflightRuns(t)
    PROVE  PipelineInv'
<1>1. t \in AllTasks /\ stage[t] # "idle" /\ UNCHANGED <<drain, dropped>>
  BY DEF PreflightRuns, AllTasks
<1>2. CASE task[t].superseded /\ SettleAndGoOn(t, "superseded")
  BY <1>1, <1>2, SettleAndGoOnKeeps DEF Outcomes
<1>3. CASE /\ stage' = [stage EXCEPT ![t] = "run"]
           /\ UNCHANGED <<task, queue, activeTask, processing, pending, taking,
                          dirty>>
  <2>1. Active(task, queue, activeTask, processing, stage)
    BY DEF PipelineInv, Lane
  <2>2. /\ stage' \in [AllTasks -> Stages]
        /\ \A u \in AllTasks : stage'[u] # "idle" <=> stage[u] # "idle"
    BY <1>1, <1>3, <2>1 DEF Active, Stages
  <2>3. Active(task, queue, activeTask, processing, stage')
    BY <2>1, <2>2 DEF Active
  <2>4. Lane(task', queue', activeTask', processing', stage')
    BY <1>3, <2>3 DEF PipelineInv, Lane
  <2> QED BY <1>1, <1>3, <2>4 DEF PipelineInv, Rebuilds
<1> QED BY <1>2, <1>3 DEF PreflightRuns

LEMMA StepInvariant == PipelineInv /\ [Next]_vars => PipelineInv'
<1> SUFFICES ASSUME PipelineInv, [Next]_vars PROVE PipelineInv'
  OBVIOUS
<1>1. ASSUME NEW t \in Tasks, NEW c \in Chunks, EnqueueIngest(t, c)
      PROVE  PipelineInv'
  BY <1>1, CortexEnqueueKeeps DEF EnqueueIngest, Kinds
<1>2. ASSUME NEW t \in Tasks, NEW kind \in {"cortex_rebuild", "cortex_warmup"},
             EnqueueCortex(t, kind)
      PROVE  PipelineInv'
  BY <1>2, CortexEnqueueKeeps DEF EnqueueCortex, Kinds
<1>3. ASSUME NEW t \in Tasks, PreflightSkips(t) PROVE PipelineInv'
  BY <1>3, SettleAndGoOnKeeps DEF PreflightSkips, Outcomes, AllTasks
<1>4. ASSUME NEW t \in AllTasks, RunReturns(t) PROVE PipelineInv'
  BY <1>4, SettleAndGoOnKeeps DEF RunReturns, Outcomes
<1>5. ASSUME NEW t \in AllTasks, RunThrows(t) PROVE PipelineInv'
  BY <1>5, SettleAndGoOnKeeps DEF RunThrows, Outcomes
<1>6. ASSUME NEW i \in Positions, NEW scope \in Scopes, RequestRebuild(i, scope)
      PROVE  PipelineInv'
  <2>1. scope \subseteq Positions
    BY DEF Scopes
  <2>2. Rebuilds'
    BY <1>6, <2>1 DEF RequestRebuild, Merged, lane, PipelineInv, Rebuilds
  <2>3. Lane(task', queue', activeTask', processing', stage')
    BY <1>6 DEF RequestRebuild, lane, PipelineInv
  <2> QED BY <2>2, <2>3 DEF PipelineInv
<1>7. CASE DrainEnds
  <2>1. Rebuilds'
    BY <1>7 DEF DrainEnds, lane, PipelineInv, Rebuilds
  <2>2. Lane(task', queue', activeTask', processing', stage')
    BY <1>7 DEF DrainEnds, lane, PipelineInv
  <2> QED BY <2>1, <2>2 DEF PipelineInv
<1>8. CASE UNCHANGED vars
  BY <1>8 DEF vars, PipelineInv, Lane, Waiting, Fresh, Superseded, Active, Rebuilds
<1> QED BY <1>1, <1>2, <1>3, <1>4, <1>5, <1>6, <1>7, <1>8, PreflightRunsKeeps,
           DrainTurnKeeps DEF Next

LEMMA InitInvariant == Init => PipelineInv
<1> SUFFICES ASSUME Init PROVE PipelineInv
  OBVIOUS
<1>1. /\ queue = <<>> /\ activeTask = NoTask /\ processing = FALSE
      /\ stage = [t \in AllTasks |-> "idle"]
      /\ NoTask \notin AllTasks /\ Rebuild \in AllTasks
      /\ pending = {} /\ taking = {} /\ dirty = {} /\ dropped = {}
      /\ drain = "none"
  BY ChatPipelineAssumption DEF Init, AllTasks
<1>2. /\ task \in [AllTasks -> QueueTask]
      /\ \A t \in AllTasks : task[t].status = "new" /\ task[t].superseded = FALSE
  BY DEF Init, NewTask, QueueTask, Kinds
<1>3. /\ queue \in Seq(AllTasks) /\ IsInjective(queue) /\ ToSet(queue) = {}
      /\ DOMAIN queue = {}
  BY <1>1 DEF IsInjective, ToSet
<1>4. Waiting(task, queue, activeTask) /\ Fresh(task, queue)
  BY <1>2, <1>3 DEF Waiting, Fresh
<1>5. Superseded(task)
  BY <1>2 DEF Superseded, AllTasks
<1>6. Active(task, queue, activeTask, processing, stage)
  BY <1>1 DEF Active, Ids, Stages
<1>7. Rebuilds
  BY <1>1, <1>2 DEF Rebuilds
<1> QED BY <1>4, <1>5, <1>6, <1>7 DEF PipelineInv, Lane

LEMMA Invariance == Spec => []PipelineInv
  BY InitInvariant, StepInvariant, PTL DEF Spec

-----------------------------------------------------------------------------
(* The theorems                                                            *)

\* Every variable of the lane and the drain has its type; no task is queued
\* twice.
THEOREM TypeCorrect == Spec => []TypeOK
<1>1. PipelineInv => TypeOK
  BY DEF PipelineInv, Lane, Waiting, Active, Rebuilds, TypeOK, Stages
<1> QED BY <1>1, Invariance, PTL

\* However enqueueing and the pump loop's awaits interleave, the lane has one
\* task in its preflight or run, the one activeTask names.
THEOREM OneTaskRuns == Spec => []OneAtATime
<1>1. PipelineInv => OneAtATime
  BY DEF PipelineInv, Lane, Active, OneAtATime
<1> QED BY <1>1, Invariance, PTL

\* An ingest never waits ahead of an exclusive task or of a newer ingest of its
\* chunk.
THEOREM IngestsStayFresh == Spec => []FreshIngestsOnly
<1>1. PipelineInv => FreshIngestsOnly
  BY DEF PipelineInv, Lane, Fresh, FreshIngestsOnly
<1> QED BY <1>1, Invariance, PTL

\* A task that was aborted for a chunk rebuild is never reported as anything
\* but superseded.
THEOREM AbortsAreReported == Spec => []AbortedIsSuperseded
<1>1. PipelineInv => AbortedIsSuperseded
  BY DEF PipelineInv, Lane, Superseded, AbortedIsSuperseded
<1> QED BY <1>1, Invariance, PTL

\* No merge of scopes loses an edit that waits for a rebuild.
THEOREM EditsStayCovered == Spec => []EditsCovered
<1>1. PipelineInv => EditsCovered
  BY DEF PipelineInv, Rebuilds, EditsCovered
<1> QED BY <1>1, Invariance, PTL
=============================================================================
