# Lumiverse in TLA+

TLA+ specifications of the parts of the Lumiverse backend whose correctness
depends on the order in which things happen: who gets the local inference
hardware, what becomes of an edit whose reply was asked for when the process
dies, which generation owns a chat, how background work on a chat's memory is
serialised, what a caller may believe of a database operation that was cut off,
and whether the vectors of a lore book follow its text. TLC checks the
specifications on small instances; TLAPS proves every safety property they
check, the action properties among them, for every value of the constants.

Paths below are relative to the repository; `services/` is `src/services/`.

## 1. The system

Lumiverse is one Bun process (`src/main.ts`): an HTTP and WebSocket server over
a SQLite database, with subprocesses and workers for heavy database work,
embeddings and extensions. JavaScript runs to the next `await`, so a step of
the models is the code between two awaits (or a whole synchronous handler).

| Component | State | Operations | Talks to | What makes it correct |
|---|---|---|---|---|
| Inference scheduler (`services/inference-scheduler/`) | per resource: waiters, active leases, limit per account | acquire, grant, abort, time out, release, preempt | every caller of a local model, through leases and abort signals; settings | no idle slot beside a waiter; the limits of all who take part hold; order and preemption follow the classes; chat is served |
| Edit-and-Send outbox (`services/edit-and-send-dispatcher.service.ts`, `services/chats.service.ts`) | `generation_outbox` rows (durable) | commit, claim, dispatch, fail, cancel, reconcile, recover | `startGeneration`, generation pool, maintenance tick, start-up | one start per edit, across crashes; verdicts final; every edit settled; saved replies not reported failed |
| Generation service and pool (`services/generate.service.ts`, `services/generation-pool.service.ts`) | running tasks, pool entries, per-chat registry | start, stream, save, complete, stop, sweep | scheduler, outbox, websocket bus | what runs can be stopped; a late clean-up spares the successor; every generation ends |
| Chat pipeline (`services/chat-pipeline-coordinator.service.ts`) | a lane per chat: queue, active task | enqueue, supersede, abort, preflight, run, settle | Memory Cortex, chunk rebuilds | one task at a time; every task settled once; stale ingests dropped |
| Chunk rebuilds (`services/chats.service.ts`) | one drain per chat, merged scope | request, drain | chat pipeline | no edit left out of a rebuild |
| Memory Cortex (`services/memory-cortex/`) | chunks, salience, entities; tracked rebuilds | ingest, rebuild, warm up | chat pipeline, sidecar models | freshness stamps match what was ingested |
| Vectorization queue (`services/vectorization-queue.service.ts`) | one priority queue of jobs, one loop, one timer | add, merge, settle, batch, retry, pause | embeddings, scheduler | no job without a timer; edits stay forced; the queue drains |
| Lore-book vectors (`services/embeddings.service.ts`, `services/world-books.service.ts`) | rows with an index status, vectors in another store, a commit lock per entry | edit, organize, switch off, delete, reindex, guarded commit | vectorization queue, reindex route | no entry found by text it no longer has; vectors follow the entry; every entry indexed in the end |
| Database execution (`src/db/execution.ts`, `src/db/execution-subprocess.ts`) | a bounded queue, one active request, a child process | execute, dispatch, promote, expire, retry, retire, respawn, close | every async service | the outcome told is true; nothing applied twice; one writer |
| WebSocket layer (`src/ws/`) | sockets, receive queues, tickets | receive, pause, publish | all services | back-pressure bounded, control messages not starved |
| Maintenance scheduler (`src/db/maintenance-scheduler.ts`) | a re-entrancy flag | tick | outbox, database | one tick at a time, outbox reconciled on each |
| Spindle (`src/spindle/`), Illarin (`src/illarin/`), multiplayer, LumiHub | workers, leases, links | many | extensions, remote services | see "Not modelled" |

The hard behaviours are the ones `PROJECT.json` lists under `hazards`: handlers
of different accounts moving a shared limit, state read before an await and
used after it (a claim and the start it awaits, a preflight's decision, the
drain's last look at its pending scope, text that is embedded for seconds), a
process that dies between any two steps, timeouts racing late answers, clean-ups
that come after their successor, verdicts reached from timestamps, locks taken
one after another, and queues that must not be left without anybody to pump
them.

## 2. Modules

| Module | Models | Configurations |
|---|---|---|
| `AdmissionPool` | what an admission pool promises, abstractly | checked as `PoolSpec` in `SchedulerShared.cfg` |
| `InferenceScheduler` | one resource of the scheduler; implements `AdmissionPool` | `Scheduler*.cfg` (`MCInferenceScheduler`) |
| `GenerationOutbox` | the outbox with its three dispatchers, the process and the pool's view of generations | `Outbox*.cfg` |
| `ChatGenerations` | the generations of one chat: take-over, rounds, ends, registry and pool | `Generations*.cfg` (`MCChatGenerations` for symmetry) |
| `ChatPipeline` | one lane of the coordinator and the chunk-rebuild drain on top of it | `Pipeline*.cfg` (`MCChatPipeline`) |
| `DatabaseExecutor` | the executor, its child process and a retired child | `Database.cfg` (`MCDatabaseExecutor`) |
| `VectorizationQueue` | the queue with its loop and timer | `Vectorization.cfg` (`MCVectorizationQueue`) |
| `WorldBookVectors` | lore-book entries, their vectors, the commit locks and all who write | `WorldBook*.cfg` |
| `QueueOps` | filtering and sorting arrays in place, as three of the components do | |
| `*Proofs` | theorems about the module of that name | |
| `SequenceLemmas` | lemmas about queues that the proofs share | |

`QueueOps` states what an array becomes by where each element comes to stand
(`Placed`), because nothing can be proved about the recursive definitions behind
the library's filters and folds. `MCChatPipeline` and `MCVectorizationQueue`
hold assumptions, evaluated by TLC, that on all small arrays these operators are
the filter, the stable sort and the fold.

Each mutant operator (marked `Mutant:`) is a plausible bug; `PROJECT.json` says
which property it must break, so no property is vacuous.

### AdmissionPool and InferenceScheduler

`AdmissionPool` has three variables: who waits, who runs, and a limit that may
move at any step. Every step ends with the pool filled as far as the limit
allows. It says neither who is chosen nor why the limit moved.

`InferenceScheduler` is `scheduler.ts` for one resource. All handlers there are
synchronous, so each is one action including its final `pumpResource`:

| Action | Code |
|---|---|
| `Acquire`, `AcquireAborted` | `acquireInferenceLease` + `enqueue` |
| `CallerAbortsWaiting`, `Timeout` | `onAbort` and the timer, through `fail` |
| `CallerAbortsActive` | the caller's signal forwarded to the lease |
| `Release` | `lease.release` |
| `SetConfig` | settings saved, or the 5 s settings cache expiring |
| `Tick` | time; ages are counted in ticks |

`waiter`, `lease` and `limitOf` are `resource.waiting`, `resource.active` and
`concurrencyByUser`. The array order of the queue is kept as the set of waiters
ahead of each one. The admission loop of `pumpResource` is `IsBatch`: the batch
it takes is determined by the order; `Victims` is `maybePreempt`. A caller of
the queue has an account, a class and perhaps its own `maxWaitMs`. The settings
that order a pump are those of the account that triggers it, as in the code.

Two things the model makes visible and the code means: a holder keeps its slot
after it was told to stop, so each later pump may tell one more holder; and a
limit may fall below the number of holders when a stricter account joins.

### GenerationOutbox

`row` is the table (`status`, `attempt_count`, the lease as none/live/expired,
`dispatched_at` as a Boolean, `terminal_reason`, `mode`, whether the request
got a branch of its own, whether the stored context is valid). `recent` and
`advanced` are the two pieces of evidence `hasPersistedEditAndSendOutput`
reads, `output` is the truth it tries to establish. `server`, `call` and `gen`
are memory and are lost in `Crash`. `starts` and `crashes` are history.

| Action | Code |
|---|---|
| `Commit` | `editAndSend` |
| `DispatchRequest` | the POST handler or a replay: `dispatchEditAndSendRequest` |
| `SweepClaims`, `SweepEnds` | `dispatchPendingEditAndSendOutbox` |
| `StartSucceeds`, `StartFails` | what follows `await invokeStartGeneration` |
| `SaveOutput`, `EndGeneration` | the end of `runGeneration`, `completePool` and its like |
| `PoolSweep` | the pool's stale sweep, which does not stop the task |
| `OtherMessage`, `TargetEdited` | other activity in the chat |
| `Cancel` | `cancelEditAndSendOutbox` |
| `LeaseExpires`, `WindowPasses` | clocks |
| `Tick` | `reconcileEditAndSendOutbox` in the maintenance tick |
| `Crash`, `Restart` | the process dies; `recoverEditAndSendOutbox` |

Left out: the oldest-first order and the batch of 16 of the sweep,
`next_attempt_at` (never in the future), the check for a duplicate generation
id, and the deletion of messages. `startGeneration` is external to the module:
it returns or throws, once.

### ChatPipeline

`queue`, `activeTask` and `processing` are the lane's fields. `stage` is where
the pump loop that holds a task has got to, kept per task, so that a second
loop would show. Settling a task and taking the next one happen in one turn and
are one action. The drain of chunk rebuilds is the state machine of
`queueChatChunkRebuild` and `drainChatChunkRebuilds`; its window between the
last look at `state.pending` and the `finally` is a state of its own
(`returned`, `threw`). A scope is the set of positions it covers.

### ChatGenerations

The three moments of `startGeneration` (the lock check, the wait for the old
teardown, the set-up with its checkpoint) and the detached continuation with
`runGeneration` are phases of a call; every end goes through `Finish`, which is
the code's `finally`. `registered` and `owner` are the two maps of
`active-generation-registry.ts`, `pool` and `chatIndex` those of
`generation-pool.service.ts`.

| Action | Code |
|---|---|
| `Start`, `TeardownEnds` | `startGeneration` 1543-1648: abort the owner, wait at most 2 s, register |
| `SetupGoesOn`, `SetupFails`, `EntryCreated` | 1686-2031 and the catch at 3050 |
| `AssemblyEnds`, `AssemblyFails` | 2951-3046 |
| `Admitted`, `NotAdmitted`, `Token`, `StreamEnds`, `ToolsReturn` | a round of `runGeneration` |
| `SaveEnds`, `SaveThrows`, `Reports`, `StreamCloses` | saving, catch and finally, 4112-4580 |
| `Stop`, `SweepInactive` | `POST /stop`, the registry's sweep |
| `PoolSweep`, `PoolExpires`, `AcknowledgeChat` | the pool's sweep, retention, the user opening the chat |

A call has an id of its own: a client may choose one, and a second use of it is
left out. Dry runs, quiet generations and other chats share nothing with these
variables.

### DatabaseExecutor

All handlers of `execution.ts` are synchronous and end in `pump`, which is
written as one relation from a state of the queue and the process to the next
(`Rests`, `Spawns`, `Dispatches`). `proc.cur` is `this.process`; `proc.old` is
the child that `retire` has told to go, which may still finish what it has in
hand until it is killed. `ChildExecutes` and `ChildDies` are the child; what an
operation may leave behind is `Effects`. `kind` distinguishes a transaction
(retried after a rollback), other writing work, plain reads and interactive
reads, since the code does. A deadline takes a request out of the queue by its
place (`ExpireQueued`).

### VectorizationQueue and WorldBookVectors

`VectorizationQueue` is the mechanism: `queue` is the array, `awaits` what the
loop of `processQueue` is awaiting, `timer` whether `processingTimer` is set for
100 ms or for the settle delay. A batch is dealt with as a whole, with any of
its jobs failing, being preempted or the whole of it throwing.

`WorldBookVectors` is what the lore-book jobs do. `entry` is the row, `stamp`
stands for the tracking fingerprint, `vectors` for the text the store holds
vectors of, `locks` for the chain of promises of each commit lock, `op` for
every operation under way: the worker's batch, a reindex by the route, a drop
after switching off, a deletion. The guarded commit (check, delete, upsert,
mark, discard what moved meanwhile) is five actions, `CommitChecks` to
`CommitScrubs`, because edits may come between any two. The queue of this
module is a set of jobs; order and batching are the other module's subject.

## 3. What is checked

| Run | Result | Question |
|---|---|---|
| `scheduler_shared` | holds | two accounts with unlike settings: smallest limit binds, no overtaking, justified preemption, refinement of the pool (so no lost wake-up) |
| `scheduler_live` | holds | urgent waiters make background work yield; interactive requests leave the queue; aging serves the rest behind retrieval |
| `outbox` | holds | one start, final verdicts, saved replies kept, every edit settled, across a crash |
| `pipeline` | holds | one task at a time, fresh ingests, merged scopes, every task settled |
| `generations_safety` | holds | what runs is registered, the owner is alive, successors keep the chat, the sweep takes only the inactive |
| `generations_live` | holds | every generation ends, although a provider's stream may hang |
| `database` | holds | the outcome told is true, one writer, nothing open is forgotten, earlier writes first |
| `vectorization` | holds | edits stay forced, no second loop, the queue drains |
| `worldbook` | holds | no entry found by old text, vectors follow the entry, one writer per entry, every entry indexed |
| `worldbook_organized` | violated | "organization edits never ... invalidate vectors, in any index state" |
| `outbox_stale_sweep` | violated | the pool's stale sweep is "self-healing" |
| `pipeline_window` | violated | no edit is left out of the follow-up rebuild |

The violated runs are disagreements between the code and a sentence in its own
comments; `PROJECT.json` quotes each under `findings`:

* *Organization edits.* A folder or tag edit moves the fingerprint of an entry
  (`updated_at` is part of it) and queues nothing. If the entry is being
  reindexed by force, the commit discards its vectors and the entry stays
  `indexed`, so neither the queue nor the sweep looks at it again.
* *Stale sweep.* A task may wait for its admission without pool activity for
  more than 60 minutes; the sweep makes its entry terminal, the next tick fails
  the row, and the reply saved afterwards does not repair it.
* *Chunk rebuilds.* An edit that reaches the drain between its last look at
  `pending` and the `finally` that removes it is dropped until the next edit.

Observations that have no run of their own:

* Aging promotes no waiter above `retrieval`, so an unbroken stream of
  interactive requests starves background work;
  `user-docs/docs/settings/inference-scheduling.md:47-48` says otherwise.
  `AgedLeavesQueue` is therefore stated for streams without interactive and
  user requests.
* A background waiter may abort a bulk lease, where
  `internal-docs/inference-scheduling.md:23` names interactive, user and
  retrieval waiters.
* A recent assistant message is looked for in swipe mode too
  (`services/edit-and-send-dispatcher.service.ts:654`, against the comment at
  643-645), so a swipe can be completed without a reply. Saving a swipe does
  not raise the revision of an assistant message (`userContentRevisionSql`,
  `services/chats.service.ts:3279`), so a saved one may be judged unverified.
* Two starts that wait for the teardown of the same generation both register
  and neither is aborted (`services/generate.service.ts:1606-1648`, against the
  comment at 1599-1600). `OneLiveUncontended` is stated for the other cases. A
  stop during such a wait reaches the old generation only.
* After `retire()` without a pump (a start-up that timed out, a queue that
  expired during it), requests that came meanwhile wait for the next caller:
  `StalledOnlyAfterFailedStart` says that nothing else stalls the executor.
* The vectorization loop that leaves by a throw sets no timer; the next `add` or
  the 60 s sweep does (`stranded`). A merge resets `queuedAt`, so the 15 s cap
  never ends a burst on one entry.
* A deletion that is refused after its vectors were deleted, and a crash between
  the delete and the upsert of a forced reindex, leave an indexed entry without
  vectors (`lost`).
* A chunk rebuild that throws drops the scope that was merged while it ran.

### Bounds

* Scheduler: three requests with two accounts in the safety run, or with one
  account that changes its limit in the liveness run. Requests are reused, so
  runs are unbounded in length. Three suffice to have a holder and two waiters
  whose order matters, or two holders and a waiter. Limits are 1 and 2, since a
  moving limit needs two values. `AgeCap` is twice the aging step: two steps
  bring bulk to retrieval, where aging stops, and older ages compare alike.
* Outbox: two rows, because the sweep waits for one start while other callers
  claim, and because messages of one row are evidence for another in the same
  chat; a third row adds no new relation. One crash, at any step: of a claim,
  of a running generation or of the recovery's sweep.
* Pipeline: two tasks and the rebuild (one active, two queued, so that
  replacement and order both matter) with two chunk keys and two positions (an
  earlier and a later edit). Tasks other than the rebuild are enqueued once.
* Generations: three calls in the safety run, since a take-over is itself taken
  over and the clean-up of the first comes while the third sets up; two calls
  with two tool rounds in the liveness run.
* Database: four requests in a queue of three, so that it fills; each mix has a
  barrier and an interactive read. One promotion in a row stands for four.
* Vectorization: two users, a chunk of each and two entries of one, four `add`s,
  one batch that throws or is preempted, batch sizes 1 and 2, two priorities.
* Lore books: two entries, of which users edit one, once; worker, route, drop
  and deletion at the same time, one failure or crash. Two entries are what a
  lock order needs; a second edit repeats the first at a later fingerprint.

Symmetry is used in safety runs only, over requests, accounts (every account
may have every setting), calls and database requests. The model values of runs
that check liveness are not symmetric.

### Fairness

* Scheduler: `WF(Release)`, since both wrappers release in a `finally`, and
  `WF(Tick)`. No caller need abort, no timer need fire, no settings change.
* Outbox: the server makes progress (`ServerStep`: it restarts after a crash,
  the interval timer ticks, the sweep goes on), a start returns or throws, a
  generation ends or is written off by the pool's sweep, leases expire. Nobody
  has to POST again, and no crash is assumed.
* Pipeline: preflights and runs end, and microtasks run.
* Generations: awaits return, since they have timeouts or are served by the
  scheduler, ten minutes pass and the sweep runs. A provider's stream need not
  end unless its signal is aborted: only `aborted[c] /\ StreamEnds(c)` is fair.
* Vectorization: time passes, timers fire, what the loop awaits ends.
* Lore books: every operation that has begun goes on (`Proceeds`), the worker
  takes batches and the sweep runs. Nobody need edit, reindex or delete.
* `DatabaseExecutor` states no fairness: a deadline is the only promise the code
  makes about time, and `OpenIsPending` says that every open request is where
  its deadline finds it.

## 4. What is proved

The proofs hold for any sets of requests, accounts, settings, rows, calls, tasks
and entries and any bound on crashes, failures and edits, under the assumptions
stated in the modules (finite sets of requests and priorities; settings as
normalised; absent records that are not records). Every invariant and every
action property of the runs that hold is stated by a theorem; `PROJECT.json`
lists them with what each establishes.

`InferenceSchedulerProofs`. The inductive invariant is `TypeOK`,
`WorkConserving`, `LimitIsSmallest`, `Ordered(waiter)` and
`UrgentWaiterPreempts`: that the limit is the smallest of the accounts that have
work keeps it a limit at all, and that the queue was pumped after the last
handler is what lets a step that does not pump (a setting saved, a tick, a
holder's abort) leave it alone. `Ordered` says that the `ahead` sets are an order
in which whoever came earlier is at least as old. Without it there might be no
best waiter at all, and aging could lift a late comer over an earlier one of his
class. `Handler` is the common shape of every handler that pumps: it rearranges
queue and leases, books the limits of exactly the accounts with work, and pumps;
`HandlerFacts` shows once what holds after it, from `PumpFacts`, `PumpRecords`
and `BatchFills` (the admission loop fills up to the limit). From it:
`TypeCorrect`, `NoLostWakeup`, `SharedLimit`, `Admission`, `UrgentIsHeard`, and
`ImplementsPool`, the refinement of `AdmissionPool`, where `SetConfig`, `Tick`
and an abort of a holder are stuttering steps. `OrderOfService` needs that aging
is monotone in the age and stops at retrieval (`AgingKeepsOrder`,
`PriorityFacts`); `JustPreemption` that `Victims` takes one running holder of
background class, and only with the resource full (`VictimFacts`).

`GenerationOutboxProofs`. The attempt count is the durable trace of everything
ever started: `RowInv` says that starts never exceed attempts, that a call in
flight has a row still undispatched that is claimed, cancelled or timed out,
that a generation the pool shows running has a row that is running, cancelled
or timed out, that terminal rows hold no lease, and that the saved reply of a
running normal row is in its window. From it: `TypeCorrect`, `StartedOnce`,
`FailedBehind`, and the action properties `OutputKept` and `Finality`.

`ChatGenerationsProofs`. `RegistryTracksLive` alone is not inductive: a start
that returns from the wait for a teardown drops the replaced call from the
registry. `TeardownsStopped` adds that this call has begun and was told to stop,
so nothing that runs is lost (`Stoppable`). `OneLiveUncontended` needs that an
uncontended teardown is alone in its chat (`LoneTeardown`): then no second start
can come up beside it (`SingleGeneration`). Steps are of five kinds
(`StepKinds`); the ends of calls, which all go through `Finish`, are one of
them, and `OwnerIsReplacedOrEnds` is read off the kinds. `QueueTimeIsForgiven`
has an invariant of its own, `QueueMarks`: idle time spent in the queue is held
against a call only while it is marked as waiting there.

`ChatPipelineProofs`. The invariant `Lane` is about the lane handed to a step as
much as about the variables, since enqueueing, settling and pumping happen in
one turn: queued tasks are open and different (`Waiting`), no ingest waits ahead
of what makes it stale (`Fresh`), aborted tasks are open or superseded, and there
is an active task exactly while the loop runs, which alone has left the queue
(`Active`). `Rebuilds` adds that a drain awaits its task only while that is open.

`DatabaseExecutorProofs`. `ExecutorInv` says who has each request and who knows
what: an open request is in one pair of hands (`Hands`); there is no current
child while a retired one is waited for (`Children`); what caller, current and
retired child know of an operation's effect is true (`Truth`), where "unknown"
is the only thing told of what a retired child still holds; the barriers a
request must wait for stay ahead of it in the queue (`Order`), also when it is
put back for a retry. All parts are about the lists and processes handed to
`Pump`, so that one lemma, `PumpKeeps`, serves all handlers.

`VectorizationQueueProofs`. `QueueInv` adds to `TypeOK` and `EditsStayForced`
that the loop which awaits the settings has a head to take. The work is in the
operators: the stable sort puts each job at one place (`SortedElements`, from a
rank that is injective), picking keeps sources apart (`PickedLined`), and adding
one job after the other keeps both (`RequeuedFacts`, by a least counterexample,
as the provers have no induction over data). `MaxOfNaturals` and `PairFacts`
give the numbers.

`WorldBookVectorsProofs`. That no entry is found by old text rests on the order
in which an operation reads, checks and writes under its locks. `Sound` says of
each operation: it holds the locks of what it deals with past its check
(`Disciplined`); what it has read is a row of some earlier time (`Remembers`);
the entries its check found unchanged have, if indexed since, the same text,
its vectors are there until it marks the rows, and what a deletion has erased
stays erased until the row goes (`Guarded`). `DropsFirst` is the subtle part: an
entry with a drop to come is not marked indexed again, because whoever is ahead
of the drop in the lock's queue has read the row before the entry was switched
off. `OneWriter` follows from `Disciplined`; `VectorsFollow` from `Accounted`,
which says which operation answers for an entry that lacks vectors or has too
many.

Two of the theorems are no property of a run of their own: that no waiter is
left beside a free slot (`NoLostWakeup`) is part of what `AdmissionPool`
promises, and that admissions respect every participant's limit (`Admission`)
follows from it and `LimitIsSmallest`.

Only model-checked: liveness, since fairness and `ENABLED` are outside the
prover's reach (`InteractiveLeavesQueue`, `AgedLeavesQueue`,
`EventuallySettled` of the outbox and of the pipeline, `EveryCallEnds`,
`EventuallyEmpty`, `EventuallyIndexed`), the three counterexamples, and that the
operators of `QueueOps` are the filter and the sort of the language. No module
declares a recursive operator.

## 5. Plan

1. An abstract outbox (a row goes from committed to at most one start and one
   verdict), with the refinement of `GenerationOutbox` proved: the properties
   proved say the same piecemeal.
2. An abstract serial executor (a request is told nothing before its effect is
   settled), refined by `DatabaseExecutor`, from `Truth` and `Order`.
3. An abstract lane (one task at a time, each settled once), refined by
   `ChatPipeline`.
4. Several resources with nested leases, for hold-and-wait when
   `unifiedLocalPool` is off, and the WebSocket receive queue, are the next
   components to model.

## 6. Not modelled

Text processing (prompt assembly, macros, regex scripts), which is sequential;
storage, migrations, imports and media, which are I/O; provider protocols and
remote links (multiplayer, LumiHub), whose other side is not in the repository;
the frontend and desktop shells, most of the repository's lines, which render
what the backend reports. Of the modelled components: `executeWhenIdle` and the
checkpoint timer of the executor; dry runs, quiet generations and the stop of
all of a user's generations; the embedding-settings fingerprint, the version
migration and cross-book moves of lore-book entries. Memory Cortex is present
only as the tasks it enqueues. `PROJECT.json` lists every component with its
reason.
