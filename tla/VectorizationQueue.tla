-------------------------- MODULE VectorizationQueue --------------------------
(***************************************************************************)
(* The queue of the embedding work: chunks of chats and entries of lore    *)
(* books, of all users, in one array by priority, one processing loop and  *)
(* one timer.  Lore-book jobs wait until typing has settled, and for the   *)
(* maintenance of the vector store; batches are of one user and one type.  *)
(*                                                                         *)
(* Time passes in ticks of the settling delay: a job is settled when it is *)
(* a tick old, and MaxWait ticks are the longest a burst may hold it up.   *)
(* What becomes of an entry's vectors is the subject of WorldBookVectors.  *)
(* Code between two awaits is one action.                                  *)
(***************************************************************************)
EXTENDS SequencesExt, FiniteSetsExt, QueueOps

CONSTANTS Chunks, Books, \* what jobs are for: chunks, lore-book entries
          Owner,         \* the user each of them belongs to
          Priorities,    \* priorities jobs are added with
          BatchSizes,    \* batch sizes users may configure
          MaxWait,       \* ticks after which a burst is not waited for
          MaxAdds,       \* bound on the jobs added from outside
          MaxTroubles    \* bound on batches that are preempted or throw

Sources == Chunks \cup Books

ASSUME QueueAssumption ==
    /\ Chunks \cap Books = {}
    /\ DOMAIN Owner = Sources
    /\ IsFiniteSet(Priorities) /\ Priorities # {} /\ Priorities \subseteq Nat
    /\ BatchSizes # {} /\ BatchSizes \subseteq Nat \ {0}
    /\ {MaxWait, MaxAdds, MaxTroubles} \subseteq Nat /\ MaxWait > 1

VARIABLES
    queue,      \* jobs, most urgent first
    processing, \* the loop runs
    awaits,     \* what the loop awaits
    batch,      \* the jobs taken and not yet dealt with
    timer,      \* processingTimer: "none", "short" (100 ms) or "long"
    adds,       \* jobs added from outside so far
    troubles,   \* batches that were preempted or threw so far
    stranded,   \* history: a throw ended the loop and no timer was set since
    edited      \* history: entries edited since a batch last took them

vars == <<queue, processing, awaits, batch, timer, adds, troubles, stranded,
          edited>>

TopPriority == Max(Priorities)
Job == [source: Sources, priority: 0 .. TopPriority, forced: BOOLEAN,
        age: 0 .. MaxWait]

IsBook(job) == job.source \in Books
SourcesOf(jobs) == {jobs[i].source : i \in DOMAIN jobs}

-----------------------------------------------------------------------------
(* Settling                                                                *)

BookAges(jobs) == {jobs[i].age : i \in {j \in DOMAIN jobs : IsBook(jobs[j])}}

\* worldBookJobsHaveSettled: none is younger than a tick, or the oldest has
\* waited long enough.
Settled(jobs) == 0 \notin BookAges(jobs) \/ MaxWait \in BookAges(jobs)

\* nextProcessDelayMs: the longest time a lore-book job still needs.
Delay(jobs) == IF 0 \in BookAges(jobs) THEN "long" ELSE "short"

ScheduleProcessing(jobs) ==
    /\ timer' = Delay(jobs)
    /\ stranded' = FALSE

-----------------------------------------------------------------------------
(* Adding                                                                  *)

\* The stable sort by priority: a job comes behind the more urgent ones and
\* behind the equally urgent ones that were ahead of it.
Sorted(jobs) ==
    Placed(jobs, [i \in DOMAIN jobs |->
        Cardinality({j \in DOMAIN jobs :
            \/ jobs[j].priority > jobs[i].priority
            \/ jobs[j].priority = jobs[i].priority /\ j <= i})])

\* Mutant: the flag is the one of the first job.
MergedFirst(old, job) ==
    [old EXCEPT !.priority = Max({@, job.priority}), !.age = job.age]

\* mergeVectorizationJobs; the merged job counts as queued just now.
Merged(old, job) ==
    [old EXCEPT !.priority = Max({@, job.priority}),
                !.forced = @ \/ job.forced,
                !.age = job.age]

\* add: a merged job keeps its place, a new one has the array sorted.
Added(jobs, job) ==
    IF job.source \in SourcesOf(jobs)
    THEN [i \in DOMAIN jobs |-> IF jobs[i].source = job.source
                                THEN Merged(jobs[i], job) ELSE jobs[i]]
    ELSE Sorted(Append(jobs, job))

\* queueChunkVectorization, queueWorldBookEntryVectorization; edits of entries
\* and reindexes are forced, sweeps are not.
Add(source, priority, forced) ==
    LET job == [source |-> source, priority |-> priority,
                forced |-> forced, age |-> 0]
    IN  /\ adds < MaxAdds
        /\ forced => source \in Books
        /\ adds' = adds + 1
        /\ queue' = Added(queue, job)
        /\ ScheduleProcessing(queue')
        /\ edited' = IF forced THEN edited \cup {source} ELSE edited
        /\ UNCHANGED <<processing, awaits, batch, troubles>>

-----------------------------------------------------------------------------
(* The processing loop                                                     *)

\* Typing has not settled: the loop returns and comes back later.
ReturnUnsettled ==
    /\ processing' = FALSE
    /\ awaits' = "nothing"
    /\ ScheduleProcessing(queue)

\* The turn at the top of the while loop, where the timer is t.
LoopTop(t) ==
    \/ /\ queue = <<>>
       /\ processing' = FALSE
       /\ awaits' = "nothing"
       /\ timer' = t
       /\ UNCHANGED stranded
    \/ /\ queue # <<>> /\ IsBook(Head(queue)) /\ ~Settled(queue)
       /\ ReturnUnsettled
    \/ /\ queue # <<>> /\ (IsBook(Head(queue)) => Settled(queue))
       /\ processing' = TRUE
       /\ awaits' = IF IsBook(Head(queue)) THEN "maintenance" ELSE "settings"
       /\ timer' = t
       /\ UNCHANGED stranded

TimerIsDue == timer = "short" \/ (timer = "long" /\ 0 \notin BookAges(queue))

\* Mutant: a loop that runs already is not noticed.
TimerFiresUnguarded ==
    /\ TimerIsDue
    /\ LoopTop("none")
    /\ UNCHANGED <<queue, batch, adds, troubles, edited>>

\* The timer fires; it was set for the youngest of the jobs.
TimerFires ==
    /\ TimerIsDue
    /\ \/ /\ processing
          /\ timer' = "none"
          /\ UNCHANGED <<processing, awaits, stranded>>
       \/ /\ ~processing
          /\ LoopTop("none")
    /\ UNCHANGED <<queue, batch, adds, troubles, edited>>

\* No maintenance runs (any more): the head is looked at again.
MaintenanceIsOver ==
    /\ awaits = "maintenance"
    /\ \/ /\ queue # <<>> /\ IsBook(Head(queue)) /\ Settled(queue)
          /\ awaits' = "settings"
          /\ UNCHANGED <<processing, timer, stranded>>
       \/ /\ ~(queue # <<>> /\ IsBook(Head(queue)) /\ Settled(queue))
          /\ LoopTop(timer)
    /\ UNCHANGED <<queue, batch, adds, troubles, edited>>

SameKind(job, first) ==
    /\ IsBook(job) <=> IsBook(first)
    /\ Owner[job.source] = Owner[first.source]

\* takeBatch, for the job that is the head by now; the batch size is that of
\* the user whose job was the head when the settings were asked for.
TakeBatch(size) ==
    LET mine  == {i \in DOMAIN queue : SameKind(queue[i], Head(queue))}
        taken == {i \in mine :
                    Cardinality({j \in mine : j < i}) < size}
    IN  /\ awaits = "settings"
        /\ batch' = Picked(queue, taken)
        /\ queue' = Picked(queue, DOMAIN queue \ taken)
        /\ awaits' = "work"
        /\ edited' = edited \ SourcesOf(batch')
        /\ UNCHANGED <<processing, timer, adds, troubles, stranded>>

\* What becomes of the queue when the jobs of retries are added, in order.
Requeued(jobs, retries) ==
    LET after[n \in 0 .. Len(retries)] ==
            IF n = 0 THEN jobs ELSE Added(after[n - 1], retries[n])
    IN  after[Len(retries)]

Requeue(retries) ==
    /\ queue' = Requeued(queue, retries)
    /\ batch' = <<>>
    /\ awaits' = "pause"
    /\ IF retries = <<>> THEN UNCHANGED <<timer, stranded>>
                         ELSE ScheduleProcessing(queue')

ChunkWork == awaits = "work" /\ ~IsBook(Head(batch))
BookWork == awaits = "work" /\ IsBook(Head(batch))

\* Mutant: a failed chunk keeps its priority.
RetriesUndecayed(failed) ==
    Picked(batch, {i \in DOMAIN batch : batch[i].source \in failed})

\* Failed chunks come back a priority lower, those of priority 0 do not.
Retries(failed) ==
    LET again == Picked(batch, {i \in DOMAIN batch :
                                  /\ batch[i].source \in failed
                                  /\ batch[i].priority > 0})
    IN  [i \in DOMAIN again |-> [again[i] EXCEPT !.priority = @ - 1]]

\* The batch of chunks ends: some of them, or all if it threw, have failed.
ChunksDone(failed) ==
    /\ ChunkWork
    /\ failed \subseteq SourcesOf(batch)
    /\ Requeue(Retries(failed))
    /\ UNCHANGED <<processing, adds, troubles, edited>>

\* The lease was preempted: all come back as they were.
ChunksPreempted ==
    /\ ChunkWork
    /\ troubles < MaxTroubles
    /\ troubles' = troubles + 1
    /\ Requeue(batch)
    /\ UNCHANGED <<processing, adds, edited>>

\* The entries are indexed, marked with an error, or not due.
BooksDone ==
    /\ BookWork
    /\ Requeue(<<>>)
    /\ UNCHANGED <<processing, adds, troubles, edited>>

\* Reading the entries, or marking the error, throws through the loop.
BooksThrow ==
    /\ BookWork
    /\ troubles < MaxTroubles
    /\ troubles' = troubles + 1
    /\ batch' = <<>>
    /\ processing' = FALSE
    /\ awaits' = "nothing"
    /\ stranded' = (timer = "none")
    /\ UNCHANGED <<queue, timer, adds, edited>>

PauseEnds ==
    /\ awaits = "pause"
    /\ LoopTop(timer)
    /\ UNCHANGED <<queue, batch, adds, troubles, edited>>

Tick ==
    /\ \E i \in DOMAIN queue : IsBook(queue[i]) /\ queue[i].age < MaxWait
    /\ queue' = [i \in DOMAIN queue |->
                   IF IsBook(queue[i])
                   THEN [queue[i] EXCEPT !.age = Min({MaxWait, @ + 1})]
                   ELSE queue[i]]
    /\ UNCHANGED <<processing, awaits, batch, timer, adds, troubles, stranded,
                   edited>>

-----------------------------------------------------------------------------
Init ==
    /\ queue = <<>>
    /\ processing = FALSE
    /\ awaits = "nothing"
    /\ batch = <<>>
    /\ timer = "none"
    /\ adds = 0
    /\ troubles = 0
    /\ stranded = FALSE
    /\ edited = {}

ChunksEnd ==
    \/ \E failed \in SUBSET Chunks : ChunksDone(failed)
    \/ ChunksPreempted

BooksEnd == BooksDone \/ BooksThrow

LoopGoesOn ==
    \/ MaintenanceIsOver
    \/ \E size \in BatchSizes : TakeBatch(size)
    \/ ChunksEnd \/ BooksEnd
    \/ PauseEnds

Next ==
    \/ \E source \in Sources, priority \in Priorities, forced \in BOOLEAN :
          Add(source, priority, forced)
    \/ TimerFires
    \/ LoopGoesOn
    \/ Tick

Spec == Init /\ [][Next]_vars

\* Time goes on, timers fire, and what the loop awaits ends.
Fairness == WF_vars(Tick) /\ WF_vars(TimerFires) /\ WF_vars(LoopGoesOn)

FairSpec == Spec /\ Fairness

-----------------------------------------------------------------------------
\* Every variable has its type; a source is queued once, and there is a batch
\* exactly while it is worked on: no second loop takes over.
TypeOK ==
    /\ queue \in Seq(Job)
    /\ \A i, j \in DOMAIN queue : queue[i].source = queue[j].source => i = j
    /\ batch \in Seq(Job)
    /\ awaits \in {"nothing", "maintenance", "settings", "work", "pause"}
    /\ timer \in {"none", "short", "long"}
    /\ processing <=> awaits # "nothing"
    /\ batch # <<>> <=> awaits = "work"
    /\ adds \in 0 .. MaxAdds /\ troubles \in 0 .. MaxTroubles
    /\ stranded \in BOOLEAN /\ edited \subseteq Books

\* An edit is never taken for a sweep: whatever it was merged with, and however
\* often the entry is swept or batched meanwhile, the job of an entry edited
\* since its last batch still forces a reindex.
EditsStayForced ==
    \A book \in edited :
        \E i \in DOMAIN queue : queue[i].source = book /\ queue[i].forced

\* Once no jobs are added, the queue empties, whatever fails: retries run out,
\* bursts settle, jobs for lore books behind chunks get their turn.
EventuallyEmpty == <>[](stranded \/ (queue = <<>> /\ batch = <<>>))
=============================================================================
