----------------------------- MODULE ChatPipeline -----------------------------
(***************************************************************************)
(* The lane of one chat: background work on the chat's memory (ingesting a *)
(* chunk into the Cortex, rebuilding or warming the Cortex, rebuilding the *)
(* chunks) is queued here and run one task at a time, and newer work       *)
(* supersedes older work.  On top of the lane sits the coalescing of chunk *)
(* rebuilds: one drain per chat, into which every edit of a message merges *)
(* the scope it wants rebuilt.                                             *)
(*                                                                         *)
(* Code between two awaits is one action; settling a task and starting the *)
(* next one happen in the same turn.  A scope is the set of the message    *)
(* positions it covers: "from index i" is {p : p >= i}, "full" is all of   *)
(* them, so merging two scopes is their union.                             *)
(***************************************************************************)
EXTENDS Naturals, SequencesExt, QueueOps

CONSTANTS Tasks,        \* ingests, Cortex rebuilds and warm-ups
          Rebuild,      \* the chunk rebuild the drain awaits, used over again
          NoTask,
          Chunks,       \* dedupe keys of the ingests
          Positions,    \* positions of messages in the chat
          RunsMayFail   \* whether a task's run may throw

ASSUME ChatPipelineAssumption ==
    /\ Rebuild \notin Tasks
    /\ NoTask \notin Tasks \cup {Rebuild}
    /\ Positions \subseteq Nat
    /\ RunsMayFail \in BOOLEAN

VARIABLES
    task,       \* what is known of each task (QueueTask)
    queue,      \* lane.queue
    activeTask, \* lane.activeTask
    processing, \* lane.processing
    stage,      \* where the pump loop that holds a task has got to
    pending,    \* state.pending of the rebuild drain, {} for null
    drain,      \* how far the drain of this chat has got
    taking,     \* positions the running chunk rebuild has consumed
    dirty,      \* history: edited positions no rebuild has consumed yet
    dropped     \* history: edited positions whose drain ended without them

vars == <<task, queue, activeTask, processing, stage, pending, drain,
          taking, dirty, dropped>>
lane == <<task, queue, activeTask, processing, stage>>
rebuilds == <<pending, drain, taking, dirty, dropped>>

AllTasks == Tasks \cup {Rebuild}
Ids == Tasks \cup {Rebuild, NoTask}
Kinds == {"chunk_rebuild", "cortex_ingest", "cortex_rebuild", "cortex_warmup"}
Outcomes == {"completed", "skipped", "superseded", "rejected"}

QueueTask ==
    [kind: Kinds, key: Chunks \cup {NoTask}, superseded: BOOLEAN,
     status: {"new", "open"} \cup Outcomes]

NewTask(kind, key) ==
    [kind |-> kind, key |-> key, superseded |-> FALSE, status |-> "open"]

Exclusive(kind) == kind # "cortex_ingest"

\* Everything but a chunk rebuild comes with a preflight.
FirstStage(kind) == IF kind = "chunk_rebuild" THEN "run" ELSE "preflight"

-----------------------------------------------------------------------------
(* Settling and starting tasks                                             *)

Settle(t, outcome) == [task EXCEPT ![t].status = outcome]

\* Mutant: a loop that ends leaves processing set.
LoopEndsProcessing(stages) ==
    /\ queue' = <<>>
    /\ activeTask' = NoTask
    /\ stage' = stages
    /\ UNCHANGED <<processing, pending, taking, dirty>>

\* The pump loop runs out of tasks.
LoopEnds(stages) ==
    /\ queue' = <<>>
    /\ activeTask' = NoTask
    /\ processing' = FALSE
    /\ stage' = stages
    /\ UNCHANGED <<pending, taking, dirty>>

\* The run of a chunk rebuild starts in the turn that makes it active, and
\* takes what is pending.
TakePending(t) ==
    IF t = Rebuild
    THEN /\ taking' = dirty \cap pending
         /\ dirty' = dirty \ pending
         /\ pending' = {}
    ELSE UNCHANGED <<pending, taking, dirty>>

\* Mutant: the task stays in the queue.
BeginWithoutShift(q, stages) ==
    /\ queue' = q
    /\ activeTask' = Head(q)
    /\ processing' = TRUE
    /\ stage' = [stages EXCEPT ![Head(q)] = FirstStage(task'[Head(q)].kind)]
    /\ TakePending(Head(q))

Begin(q, stages) ==
    /\ queue' = Tail(q)
    /\ activeTask' = Head(q)
    /\ processing' = TRUE
    /\ stage' = [stages EXCEPT ![Head(q)] = FirstStage(task'[Head(q)].kind)]
    /\ TakePending(Head(q))

StartNext(q, stages) ==
    \/ q = <<>> /\ LoopEnds(stages)
    \/ q # <<>> /\ Begin(q, stages)

\* Mutant: no check for a pump loop that runs already.
PumpLaneUnguarded(q) == StartNext(q, stage)

\* pumpLane, called after each push: one pump loop per lane.
PumpLane(q) ==
    \/ /\ processing
       /\ queue' = q
       /\ UNCHANGED <<activeTask, processing, stage, pending, taking, dirty>>
    \/ /\ ~processing
       /\ StartNext(q, stage)

\* Mutant: an exclusive task leaves queued ingests alone.
ReplacedByIngestsOnly(kind, key) ==
    {t \in ToSet(queue) :
        /\ task[t].kind = "cortex_ingest"
        /\ kind = "cortex_ingest" /\ task[t].key = key}

\* Queued ingests that a new task of this kind and key replaces: an ingest
\* those of the same chunk, an exclusive task all of them.
Replaced(kind, key) ==
    {t \in ToSet(queue) :
        /\ task[t].kind = "cortex_ingest"
        /\ Exclusive(kind) \/ task[t].key = key}

\* The active task a new task of this kind aborts.
Preempted(kind) ==
    {t \in {activeTask} \ {NoTask, Rebuild} : kind = "chunk_rebuild"}

\* enqueueChatPipelineTask, with everything it does before it returns.
Enqueue(t, kind, key) ==
    LET gone == Replaced(kind, key)
    IN  /\ task' = [u \in AllTasks |->
                      CASE u = t -> NewTask(kind, key)
                        [] u \in gone -> [task[u] EXCEPT !.status = "superseded"]
                        [] u \in Preempted(kind) ->
                              [task[u] EXCEPT !.superseded = TRUE]
                        [] OTHER -> task[u]]
        /\ PumpLane(Append(Without(queue, gone), t))

\* The pump loop that holds t settles it and goes on.
SettleAndGoOn(t, outcome) ==
    /\ task' = Settle(t, outcome)
    /\ StartNext(queue, [stage EXCEPT ![t] = "idle"])

-----------------------------------------------------------------------------
Init ==
    /\ task = [t \in AllTasks |-> [NewTask("chunk_rebuild", NoTask)
                                      EXCEPT !.status = "new"]]
    /\ queue = <<>>
    /\ activeTask = NoTask
    /\ processing = FALSE
    /\ stage = [t \in AllTasks |-> "idle"]
    /\ pending = {}
    /\ drain = "none"
    /\ taking = {}
    /\ dirty = {}
    /\ dropped = {}

EnqueueIngest(t, c) ==
    /\ task[t].status = "new"
    /\ Enqueue(t, "cortex_ingest", c)
    /\ UNCHANGED <<drain, dropped>>

EnqueueCortex(t, kind) ==
    /\ task[t].status = "new"
    /\ Enqueue(t, kind, NoTask)
    /\ UNCHANGED <<drain, dropped>>

\* The preflight's verdict is looked at one turn after it was reached.
PreflightSkips(t) ==
    /\ stage[t] = "preflight"
    /\ SettleAndGoOn(t, IF task[t].superseded THEN "superseded" ELSE "skipped")
    /\ UNCHANGED <<drain, dropped>>

PreflightRuns(t) ==
    /\ stage[t] = "preflight"
    /\ \/ /\ task[t].superseded
          /\ SettleAndGoOn(t, "superseded")
       \/ /\ ~task[t].superseded
          /\ stage' = [stage EXCEPT ![t] = "run"]
          /\ UNCHANGED <<task, queue, activeTask, processing, pending, taking,
                         dirty>>
    /\ UNCHANGED <<drain, dropped>>

\* Mutant: supersededReason is not looked at after a run.
RunReturnsUnchecked(t) ==
    /\ stage[t] = "run"
    /\ SettleAndGoOn(t, "completed")
    /\ UNCHANGED <<drain, dropped>>

\* The run of t is over.
RunReturns(t) ==
    /\ stage[t] = "run"
    /\ SettleAndGoOn(t, IF task[t].superseded THEN "superseded"
                                              ELSE "completed")
    /\ UNCHANGED <<drain, dropped>>

\* The preflight or the run of t throws: an aborted run normally does, any
\* other only if RunsMayFail.
RunThrows(t) ==
    /\ stage[t] # "idle"
    /\ RunsMayFail \/ task[t].superseded
    /\ SettleAndGoOn(t, IF task[t].superseded THEN "superseded"
                                              ELSE "rejected")
    /\ UNCHANGED <<drain, dropped>>

-----------------------------------------------------------------------------
(* Chunk rebuilds: drain is "none" while _rebuildStates has no entry,      *)
(* "starting" until the drain's first turn, "awaiting" while it awaits the *)
(* Rebuild task, "returned" or "threw" between its last turn and the turn  *)
(* of the finally that deletes the entry.                                  *)

\* Mutant: the latest scope wins.
MergedLatest(scope) == scope
Merged(scope) == pending \cup scope

Scopes == {{p \in Positions : p >= i} : i \in Positions}

\* queueChatChunkRebuild, called for an edit at position i with a scope that
\* covers it.
RequestRebuild(i, scope) ==
    /\ i \in scope
    /\ dirty' = dirty \cup {i}
    /\ pending' = Merged(scope)
    /\ drain' = IF drain = "none" THEN "starting" ELSE drain
    /\ UNCHANGED <<lane, taking, dropped>>

\* drainChatChunkRebuilds: its first turn, and each turn after an await.
DrainTurn ==
    /\ \/ drain = "starting"
       \/ drain = "awaiting" /\ task[Rebuild].status \in Outcomes
    /\ \/ /\ drain = "awaiting" /\ task[Rebuild].status = "rejected"
          /\ drain' = "threw"
          /\ UNCHANGED <<lane, pending, taking, dirty>>
       \/ /\ ~(drain = "awaiting" /\ task[Rebuild].status = "rejected")
          /\ pending # {}
          /\ drain' = "awaiting"
          /\ Enqueue(Rebuild, "chunk_rebuild", NoTask)
       \/ /\ ~(drain = "awaiting" /\ task[Rebuild].status = "rejected")
          /\ pending = {}
          /\ drain' = "returned"
          /\ UNCHANGED <<lane, pending, taking, dirty>>
    /\ UNCHANGED dropped

\* The finally: the entry goes, and with it a scope merged into it too late.
DrainEnds ==
    /\ drain \in {"returned", "threw"}
    /\ drain' = "none"
    /\ pending' = {}
    /\ dirty' = {}
    /\ dropped' = dropped \cup dirty
    /\ UNCHANGED <<lane, taking>>

Next ==
    \/ \E t \in Tasks :
          \/ \E c \in Chunks : EnqueueIngest(t, c)
          \/ \E kind \in {"cortex_rebuild", "cortex_warmup"} :
                EnqueueCortex(t, kind)
          \/ PreflightSkips(t) \/ PreflightRuns(t)
    \/ \E t \in AllTasks : RunReturns(t) \/ RunThrows(t)
    \/ \E i \in Positions, scope \in Scopes : RequestRebuild(i, scope)
    \/ DrainTurn \/ DrainEnds

Spec == Init /\ [][Next]_vars

\* Preflights and runs end, and microtasks are run.
Fairness ==
    /\ \A t \in Tasks : WF_vars(PreflightSkips(t) \/ PreflightRuns(t))
    /\ \A t \in AllTasks : WF_vars(RunReturns(t) \/ RunThrows(t))
    /\ WF_vars(DrainTurn)
    /\ WF_vars(DrainEnds)

FairSpec == Spec /\ Fairness

-----------------------------------------------------------------------------
\* Every variable has its type; no task is queued twice.
TypeOK ==
    /\ task \in [AllTasks -> QueueTask]
    /\ queue \in Seq(AllTasks)
    /\ IsInjective(queue)
    /\ activeTask \in Ids
    /\ processing \in BOOLEAN
    /\ stage \in [AllTasks -> {"idle", "preflight", "run"}]
    /\ \A S \in {pending, taking, dirty, dropped} : S \subseteq Positions
    /\ drain \in {"none", "starting", "awaiting", "returned", "threw"}

\* The lane runs one task at a time, and its activeTask is that task: no
\* Cortex work overlaps a rebuild of the chunks it reads, whoever enqueues
\* while a preflight or a run is awaited.
OneAtATime ==
    \A t \in AllTasks : stage[t] # "idle" => activeTask = t

\* At most one ingest of a chunk waits, and none waits ahead of an exclusive
\* task: it was enqueued later, so its data may be as new as the rebuild.
FreshIngestsOnly ==
    \A i, j \in DOMAIN queue :
        (i < j /\ task[queue[i]].kind = "cortex_ingest") =>
            /\ ~Exclusive(task[queue[j]].kind)
            /\ task[queue[i]].key # task[queue[j]].key

\* A Cortex task aborted for a chunk rebuild is reported superseded, even if
\* its run had already ended well or its preflight had already said skip.
AbortedIsSuperseded ==
    \A t \in Tasks :
        task[t].superseded => task[t].status \in {"open", "superseded"}

\* Every edit that no rebuild has consumed is inside the pending scope, no
\* matter how scopes were merged.
EditsCovered == dirty \subseteq pending

\* Every task that was enqueued is settled eventually.
EventuallySettled ==
    \A t \in AllTasks : task[t].status = "open" ~> task[t].status # "open"

\* "subsequent callers wait for it and then a single follow-up rebuild runs to
\* capture any changes that landed during the first": when no run fails, no
\* edit is ever left out.
NoEditDropped == dropped = {}
=============================================================================
