--------------------------- MODULE WorldBookVectors ---------------------------
(***************************************************************************)
(* How the vectors of lore-book entries follow the entries.  The entries   *)
(* are rows of SQLite; the vectors are rows of another store, written long *)
(* after the text they embed was read.  The queue's worker and the reindex *)
(* route both index entries; turning an entry off drops its vectors in the *)
(* background; deleting an entry deletes its vectors first.  Edits take no *)
(* lock: an indexer compares the fingerprint of what it read with the row  *)
(* before and after it writes, under a lock of each entry, first come      *)
(* first served and taken in the order of the keys.                        *)
(*                                                                         *)
(* A fingerprint is the stamp of the row's last update, any field of it    *)
(* (updated_at is part of it); content is the stamp of the last update     *)
(* that changed what is embedded.  An entry is on if it is vectorized,     *)
(* enabled and not empty.  Code between two awaits is one action.          *)
(***************************************************************************)
EXTENDS Naturals, SequencesExt, FiniteSetsExt, QueueOps

CONSTANTS Entries,    \* numbers, in the order of the lock keys
          Edited,     \* bound: the entries that users update or delete
          Worker,     \* the vectorization queue's one batch at a time
          Routes,     \* reindex requests that run at the same time
          Droppers,   \* background drops that run at the same time
          Deleters,   \* deletions that run at the same time
          MaxStamp,   \* bound on the updates of entries
          MaxTroubles \* bound on failed calls and restarts of the process

ASSUME WorldBookAssumption ==
    /\ Entries \subseteq Nat /\ Edited \subseteq Entries
    /\ MaxStamp \in Nat \ {0} /\ MaxTroubles \in Nat
    /\ Worker \notin Routes
    /\ ({Worker} \cup Routes) \cap (Droppers \cup Deleters) = {}
    /\ Droppers \cap Deleters = {}

VARIABLES
    entry,     \* the row of each entry
    vectors,   \* content the stored vectors of each entry embed, 0: none
    jobs,      \* job of each entry in the vectorization queue
    op,        \* how far each operation has got
    locks,     \* who holds, then who waits for, the lock of each entry
    stamp,     \* stamp of the last update
    troubles,  \* calls failed and restarts so far
    lost       \* history: entries whose vectors are known to have gone wrong

vars == <<entry, vectors, jobs, op, locks, stamp, troubles, lost>>

Indexers == {Worker} \cup Routes
Ops == Indexers \cup Droppers \cup Deleters
Stamps == 0 .. MaxStamp
Rows == [stamp: Stamps, content: Stamps, on: BOOLEAN]
Statuses == {"pending", "indexed", "not_enabled", "error"}
Goals == {"none", "reindex", "clear", "commit", "mark", "drop", "delete"}
Steps == {"check", "erase", "write", "mark", "scrub", "remove"}
Readings == UNION {[S -> Rows] : S \in SUBSET Entries}
Operations == [goal: Goals, step: Steps, need: SUBSET Entries,
               stable: SUBSET Entries, seen: Readings]

\* Stamp 0: there is no such row.
Exists(e) == entry[e].row.stamp # 0
On(e) == Exists(e) /\ entry[e].row.on

\* An operation: what for, where it has got to, the locks it takes, the
\* entries it has found unchanged, and the rows it has read.
Op(goal, step, need, seen) ==
    [goal |-> goal, step |-> step, need |-> need, stable |-> {},
     seen |-> seen]
NoOp == Op("none", "check", {}, <<>>)

Idle(o) == op[o].goal = "none"
Batch(o) == DOMAIN op[o].seen
Unchanged(o, e) == entry[e].row = op[o].seen[e]
Current(o, S) == {e \in S : Unchanged(o, e)}

\* At rest, an indexed entry has the vectors of its content, and one that is
\* off or gone has none.
Bare == {e \in Entries : On(e) /\ entry[e].status = "indexed"
                               /\ vectors[e] # entry[e].row.content}
Haunted == {e \in Entries : ~On(e) /\ vectors[e] # 0}

AtRest(e) == \A o \in Ops : e \notin op[o].need

\* The operation gives up on the entries S: what is wrong with them stays.
GivesUpOn(S) == lost' = (lost \cup S) \cap (Bare' \cup Haunted')

-----------------------------------------------------------------------------
(* Locks                                                                   *)

Held(o, e) == locks[e] # <<>> /\ Head(locks[e]) = o

\* Mutant: a waiter asks again.
MissingUnheld(o) == {e \in op[o].need : ~Held(o, e)}
Missing(o) == {e \in op[o].need : o \notin ToSet(locks[e])}

Holds(o) == ~Idle(o) /\ op[o].goal # "reindex"
            /\ \A e \in op[o].need : Held(o, e)

Freed(o) == [e \in Entries |-> Without(locks[e], {o})]
Asked(queues, o, e) == [queues EXCEPT ![e] = Append(@, o)]

\* Mutant: the keys are not sorted.
GoesOnUnsorted(o, goal, step, need, seen) ==
    /\ op' = [op EXCEPT ![o] = Op(goal, step, need, seen)]
    /\ \E e \in need : locks' = Asked(Freed(o), o, e)

\* o leaves its locks, if any, and goes on to a task under the locks of need,
\* the first of which it asks for in the same turn.
GoesOn(o, goal, step, need, seen) ==
    /\ op' = [op EXCEPT ![o] = Op(goal, step, need, seen)]
    /\ locks' = Asked(Freed(o), o, Min(need))

Ends(o) ==
    /\ op' = [op EXCEPT ![o] = NoOp]
    /\ locks' = Freed(o)

StepsTo(o, step, stable) ==
    /\ op' = [op EXCEPT ![o].step = step, ![o].stable = stable]
    /\ UNCHANGED locks

\* The lock asked for is granted, and the next one is asked for.
LockNext(o) ==
    /\ Missing(o) # {}
    /\ \A e \in op[o].need \ Missing(o) : Held(o, e)
    /\ locks' = Asked(locks, o, Min(Missing(o)))
    /\ UNCHANGED <<entry, vectors, jobs, op, stamp, troubles, lost>>

Trouble == troubles < MaxTroubles /\ troubles' = troubles + 1

\* filterCurrent: none of S passes if the configuration cannot be read.
Filter(o, S, stable) ==
    \/ stable = Current(o, S) /\ UNCHANGED troubles
    \/ stable = {} /\ Trouble

-----------------------------------------------------------------------------
(* Updates of entries, which take no lock                                  *)

Update(e, row, status) ==
    /\ Exists(e) /\ stamp < MaxStamp
    /\ stamp' = stamp + 1
    /\ entry' = [entry EXCEPT ![e] = [row |-> row, status |-> status]]
    /\ UNCHANGED <<vectors, troubles>>
    /\ GivesUpOn({})

\* The merge of the queue: a forced job stays forced.
Queued(e, job) == [jobs EXCEPT ![e] = IF @ = "forced" THEN @ ELSE job]

\* The text changes, or the entry is turned on.
Edit(e) ==
    /\ Update(e, [stamp |-> stamp + 1, content |-> stamp + 1, on |-> TRUE],
              "pending")
    /\ jobs' = Queued(e, "forced")
    /\ UNCHANGED <<op, locks>>

\* The entry is turned off, disabled or emptied.
TurnOff(e, d) ==
    /\ Idle(d)
    /\ Update(e, [stamp |-> stamp + 1, content |-> stamp + 1, on |-> FALSE],
              "not_enabled")
    /\ GoesOn(d, "drop", "erase", {e}, <<>>)
    /\ UNCHANGED jobs

\* A field that is not embedded changes.
Adjust(e) ==
    /\ On(e)
    /\ Update(e, [entry[e].row EXCEPT !.stamp = stamp + 1], entry[e].status)
    /\ jobs' = IF entry[e].status = "indexed" THEN jobs ELSE Queued(e, "plain")
    /\ UNCHANGED <<op, locks>>

\* The folder or the tags change.
Organize(e) ==
    /\ Update(e, [entry[e].row EXCEPT !.stamp = stamp + 1], entry[e].status)
    /\ UNCHANGED <<jobs, op, locks>>

Delete(e, d) ==
    /\ Exists(e) /\ Idle(d)
    /\ GoesOn(d, "delete", "erase", {e}, [f \in {e} |-> entry[e].row])
    /\ UNCHANGED <<entry, vectors, jobs, stamp, troubles, lost>>

-----------------------------------------------------------------------------
(* Indexing                                                                *)

\* An indexer has read the rows of S.
Reads(o, S) ==
    op' = [op EXCEPT ![o] = Op("reindex", "check", {},
                               [e \in S |-> entry[e].row])]

\* The entries of a batch that still want their vectors.
Due(S) ==
    {e \in S : Exists(e) /\ (entry[e].status # "indexed" \/ jobs[e] = "forced")}

\* The worker takes a batch and reads the rows that are due.
TakeBatch(S) ==
    /\ Idle(Worker)
    /\ \A e \in S : jobs[e] # "none"
    /\ jobs' = [e \in Entries |-> IF e \in S THEN "none" ELSE jobs[e]]
    /\ IF Due(S) = {} THEN UNCHANGED op ELSE Reads(Worker, Due(S))
    /\ UNCHANGED <<entry, vectors, locks, stamp, troubles, lost>>

\* The reindex route reads all entries of a book, and forces them.
RouteReindexes(o) ==
    /\ Idle(o)
    /\ \E e \in Entries : Exists(e)
    /\ Reads(o, {e \in Entries : Exists(e)})
    /\ UNCHANGED <<entry, vectors, jobs, locks, stamp, troubles, lost>>

\* The entries read as off come first, one by one.
ClearNext(o, e) ==
    /\ op[o].goal = "reindex"
    /\ e \in Batch(o) /\ ~op[o].seen[e].on
    /\ GoesOn(o, "clear", "erase", {e}, op[o].seen)
    /\ UNCHANGED <<entry, vectors, jobs, stamp, troubles, lost>>

AllOn(o) == \A e \in Batch(o) : op[o].seen[e].on

\* The texts are embedded, and what has changed since is left out.
Embedded(o) ==
    /\ op[o].goal = "reindex" /\ AllOn(o)
    /\ \E stable \in SUBSET Batch(o) :
          /\ Filter(o, Batch(o), stable)
          /\ IF stable = {} THEN Ends(o)
             ELSE GoesOn(o, "commit", "check", stable,
                         [e \in stable |-> op[o].seen[e]])
    /\ UNCHANGED <<entry, vectors, jobs, stamp, lost>>

\* Embedding the texts, or a write of the commit, fails.
IndexFails(o) ==
    /\ \/ op[o].goal = "reindex" /\ AllOn(o)
       \/ /\ op[o].goal = "commit" /\ Holds(o)
          /\ op[o].step \in {"erase", "write", "scrub"}
    /\ Trouble
    /\ GoesOn(o, "mark", "check", Batch(o), op[o].seen)
    /\ UNCHANGED <<entry, vectors, jobs, stamp, lost>>

CommitChecks(o) ==
    /\ op[o].goal = "commit" /\ op[o].step = "check" /\ Holds(o)
    /\ \E stable \in SUBSET op[o].need :
          /\ Filter(o, op[o].need, stable)
          /\ IF stable = {} THEN Ends(o) ELSE StepsTo(o, "erase", stable)
    /\ UNCHANGED <<entry, vectors, jobs, stamp, lost>>

CommitErases(o) ==
    /\ op[o].goal = "commit" /\ op[o].step = "erase" /\ Holds(o)
    /\ vectors' = [e \in Entries |->
                     IF e \in op[o].stable THEN 0 ELSE vectors[e]]
    /\ StepsTo(o, "write", op[o].stable)
    /\ UNCHANGED <<entry, jobs, stamp, troubles, lost>>

CommitWrites(o) ==
    /\ op[o].goal = "commit" /\ op[o].step = "write" /\ Holds(o)
    /\ vectors' = [e \in Entries |->
                     IF e \in op[o].stable THEN op[o].seen[e].content
                                           ELSE vectors[e]]
    /\ StepsTo(o, "mark", op[o].stable)
    /\ UNCHANGED <<entry, jobs, stamp, troubles>>
    /\ GivesUpOn({})

Marked(S, status) ==
    [e \in Entries |-> IF e \in S THEN [entry[e] EXCEPT !.status = status]
                                  ELSE entry[e]]

\* Mutant: the statement that marks does not compare.
CommitMarksBlindly(o) ==
    /\ op[o].goal = "commit" /\ op[o].step = "mark" /\ Holds(o)
    /\ entry' = Marked(op[o].stable, "indexed")
    /\ Ends(o)
    /\ UNCHANGED <<vectors, jobs, stamp, troubles>>
    /\ GivesUpOn({})

\* The entries that are still as they were read are marked indexed.
CommitMarks(o) ==
    /\ op[o].goal = "commit" /\ op[o].step = "mark" /\ Holds(o)
    /\ \E stable \in SUBSET op[o].stable :
          /\ Filter(o, op[o].stable, stable)
          /\ entry' = Marked(stable, "indexed")
          /\ IF stable = op[o].stable THEN Ends(o)
             ELSE StepsTo(o, "scrub", op[o].stable \ stable)
    /\ UNCHANGED <<vectors, jobs, stamp>>
    /\ GivesUpOn({})

\* The vectors of the others are taken out again.
CommitScrubs(o) ==
    /\ op[o].goal = "commit" /\ op[o].step = "scrub" /\ Holds(o)
    /\ vectors' = [e \in Entries |->
                     IF e \in op[o].stable THEN 0 ELSE vectors[e]]
    /\ Ends(o)
    /\ UNCHANGED <<entry, jobs, stamp, troubles>>
    /\ GivesUpOn({e \in op[o].stable :
                    entry[e].row.content = op[o].seen[e].content})

\* markWorldBookEntriesVectorErrorIfCurrent.
ErrorChecks(o) ==
    /\ op[o].goal = "mark" /\ op[o].step = "check" /\ Holds(o)
    /\ \E stable \in SUBSET op[o].need :
          /\ Filter(o, op[o].need, stable)
          /\ IF stable = {} THEN Ends(o) ELSE StepsTo(o, "erase", stable)
    /\ UNCHANGED <<entry, vectors, jobs, stamp>>
    /\ GivesUpOn(op[o].need)

ErrorErases(o) ==
    /\ op[o].goal = "mark" /\ op[o].step = "erase" /\ Holds(o)
    /\ \/ /\ vectors' = [e \in Entries |->
                           IF e \in op[o].stable THEN 0 ELSE vectors[e]]
          /\ UNCHANGED troubles
       \/ Trouble /\ UNCHANGED vectors
    /\ StepsTo(o, "mark", op[o].stable)
    /\ UNCHANGED <<entry, jobs, stamp, lost>>

ErrorMarks(o) ==
    /\ op[o].goal = "mark" /\ op[o].step = "mark" /\ Holds(o)
    /\ \E stable \in SUBSET op[o].stable :
          /\ Filter(o, op[o].stable, stable)
          /\ entry' = Marked(stable, "error")
    /\ Ends(o)
    /\ UNCHANGED <<vectors, jobs, stamp>>
    /\ GivesUpOn(op[o].need)

-----------------------------------------------------------------------------
(* Dropping vectors                                                        *)

Forgotten(e) == [vectors EXCEPT ![e] = 0]

\* The entry read as off loses its vectors, and is then marked whatever it
\* has become.
Clears(o, e) ==
    /\ op[o].goal = "clear" /\ op[o].need = {e} /\ Holds(o)
    /\ vectors' = Forgotten(e)
    /\ entry' = IF Exists(e) THEN Marked({e}, "not_enabled") ELSE entry
    /\ locks' = Freed(o)
    /\ op' = [op EXCEPT ![o] =
                IF Batch(o) = {e} THEN NoOp
                ELSE Op("reindex", "check", {},
                        [f \in Batch(o) \ {e} |-> op[o].seen[f]])]
    /\ UNCHANGED <<jobs, stamp, troubles>>
    /\ GivesUpOn({})

\* The worker then marks the rest of the batch, the route reports the error.
ClearFails(o, e) ==
    /\ op[o].goal = "clear" /\ op[o].need = {e} /\ Holds(o)
    /\ Trouble
    /\ LET rest == {f \in Batch(o) : op[o].seen[f].on}
       IN  IF o = Worker /\ rest # {}
           THEN GoesOn(o, "mark", "check", rest,
                       [f \in rest |-> op[o].seen[f]])
           ELSE Ends(o)
    /\ UNCHANGED <<entry, vectors, jobs, stamp>>
    /\ GivesUpOn({e})

\* Mutant: a drop does not wait for its turn.
DropsAtOnce(o, e) ==
    /\ op[o].goal = "drop" /\ op[o].need = {e}
    /\ vectors' = Forgotten(e)
    /\ Ends(o)
    /\ UNCHANGED <<entry, jobs, stamp, troubles>>
    /\ GivesUpOn({})

Drops(o, e) ==
    /\ op[o].goal = "drop" /\ op[o].need = {e} /\ Holds(o)
    /\ vectors' = Forgotten(e)
    /\ Ends(o)
    /\ UNCHANGED <<entry, jobs, stamp, troubles>>
    /\ GivesUpOn({})

\* A failed drop is logged; a deletion that fails, even after its first step,
\* keeps the source.
DropFails(o, e) ==
    /\ op[o].goal \in {"drop", "delete"}
    /\ op[o].need = {e} /\ Holds(o)
    /\ Trouble
    /\ Ends(o)
    /\ UNCHANGED <<entry, vectors, jobs, stamp>>
    /\ GivesUpOn({e})

\* Mutant: the lock is left before the source is deleted.
DeleteErasesAndLeaves(o, e) ==
    /\ op[o].goal = "delete" /\ op[o].step = "erase" /\ op[o].need = {e}
    /\ Holds(o)
    /\ vectors' = Forgotten(e)
    /\ op' = [op EXCEPT ![o].step = "remove", ![o].need = {}]
    /\ locks' = Freed(o)
    /\ UNCHANGED <<entry, jobs, stamp, troubles>>
    /\ GivesUpOn({})

DeleteErases(o, e) ==
    /\ op[o].goal = "delete" /\ op[o].step = "erase" /\ op[o].need = {e}
    /\ Holds(o)
    /\ vectors' = Forgotten(e)
    /\ StepsTo(o, "remove", {})
    /\ UNCHANGED <<entry, jobs, stamp, troubles>>
    /\ GivesUpOn({})

\* The row goes, unless a deletion that expects a revision finds another.
DeleteRemoves(o, e) ==
    /\ op[o].goal = "delete" /\ op[o].step = "remove" /\ Batch(o) = {e}
    /\ Holds(o)
    /\ UNCHANGED <<vectors, jobs, stamp, troubles>>
    /\ \/ /\ entry' = [entry EXCEPT
                         ![e].row = [stamp |-> 0, content |-> 0, on |-> FALSE]]
          /\ GivesUpOn({})
       \/ /\ ~Unchanged(o, e)
          /\ UNCHANGED entry
          /\ GivesUpOn({e})
    /\ Ends(o)

-----------------------------------------------------------------------------
\* Once a minute: entries that are on and not indexed are queued.
Sweep(e) ==
    /\ On(e) /\ entry[e].status # "indexed"
    /\ jobs' = Queued(e, "plain")
    /\ UNCHANGED <<entry, vectors, op, locks, stamp, troubles, lost>>

\* The process restarts: jobs, operations and locks are gone.
Crash ==
    /\ Trouble
    /\ jobs' = [e \in Entries |-> "none"]
    /\ op' = [o \in Ops |-> NoOp]
    /\ locks' = [e \in Entries |-> <<>>]
    /\ UNCHANGED <<entry, vectors, stamp>>
    /\ GivesUpOn(Entries)

\* Entries have just been created, and those that are on are queued.
Init ==
    /\ stamp = 1
    /\ entry \in [Entries -> {[row |-> [stamp |-> 1, content |-> 1, on |-> TRUE],
                              status |-> "pending"],
                             [row |-> [stamp |-> 1, content |-> 1, on |-> FALSE],
                              status |-> "not_enabled"]}]
    /\ vectors = [e \in Entries |-> 0]
    /\ jobs = [e \in Entries |-> IF On(e) THEN "plain" ELSE "none"]
    /\ op = [o \in Ops |-> NoOp]
    /\ locks = [e \in Entries |-> <<>>]
    /\ troubles = 0
    /\ lost = {}

\* What operation o does once it has begun.
Proceeds(o) ==
    \/ LockNext(o)
    \/ Embedded(o) \/ IndexFails(o)
    \/ CommitChecks(o) \/ CommitErases(o) \/ CommitWrites(o)
    \/ CommitMarks(o) \/ CommitScrubs(o)
    \/ ErrorChecks(o) \/ ErrorErases(o) \/ ErrorMarks(o)
    \/ \E e \in Entries :
          \/ ClearNext(o, e) \/ Clears(o, e) \/ ClearFails(o, e)
          \/ Drops(o, e) \/ DropFails(o, e)
          \/ DeleteErases(o, e) \/ DeleteRemoves(o, e)

WorkerTakes == \E S \in SUBSET Entries \ {{}} : TakeBatch(S)

Next ==
    \/ \E e \in Edited :
          \/ Edit(e) \/ Organize(e) \/ Adjust(e)
          \/ \E d \in Droppers : TurnOff(e, d)
          \/ \E d \in Deleters : Delete(e, d)
    \/ \E e \in Entries : Sweep(e)
    \/ WorkerTakes
    \/ \E o \in Routes : RouteReindexes(o)
    \/ \E o \in Ops : Proceeds(o)
    \/ Crash

Spec == Init /\ [][Next]_vars

\* Calls return, promises are resolved, and the timers of the queue and of
\* the sweep fire.  Nobody need edit, reindex or delete.
Fairness ==
    /\ \A o \in Ops : WF_vars(Proceeds(o))
    /\ WF_vars(WorkerTakes)
    /\ \A e \in Entries : WF_vars(Sweep(e))

FairSpec == Spec /\ Fairness

-----------------------------------------------------------------------------
\* Every variable has its type.
TypeOK ==
    /\ entry \in [Entries -> [row: Rows, status: Statuses]]
    /\ vectors \in [Entries -> Stamps]
    /\ jobs \in [Entries -> {"none", "plain", "forced"}]
    /\ op \in [Ops -> Operations]
    /\ locks \in [Entries -> Seq(Ops)]
    /\ \A e \in Entries : IsInjective(locks[e])
    /\ stamp \in Stamps /\ troubles \in 0 .. MaxTroubles
    /\ lost \subseteq Entries

\* The search, which trusts the status, never finds an entry by a text it no
\* longer has: whatever was edited, dropped, failed or crashed in between, an
\* indexed entry has the vectors of its present text or none.
NeverFoundByOldText ==
    \A e \in Entries :
        On(e) /\ entry[e].status = "indexed" =>
            vectors[e] \in {0, entry[e].row.content}

\* The vectors follow the entry: once nobody works on it, an indexed entry has
\* the vectors of its text, and one that is off or deleted has none, except
\* where a commit took them out again, a failure could not be marked, a drop
\* failed, a deletion was refused, or the process crashed in between.
VectorsFollowEntry ==
    \A e \in Bare \cup Haunted : AtRest(e) => e \in lost

\* Only the holder of an entry's lock touches its vectors.
OneWriterPerEntry ==
    [][\A e \in Entries : vectors'[e] # vectors[e] =>
          \E o \in Ops : Held(o, e) /\ op'[o] # op[o]]_vars

\* Once edits and failures stop, every entry that is on is indexed, for good:
\* stale commits, lost jobs, lock queues and a reindex that marks an entry as
\* not enabled by mistake are all made good by the sweep.
EventuallyIndexed ==
    \A e \in Entries : <>[](On(e) => entry[e].status = "indexed")

\* "Organization edits never enqueue, delete or invalidate vectors, in any
\* index state": without failures, crashes or deletions, an indexed entry
\* that nobody works on has its vectors.
OrganizingKeepsVectors == \A e \in Bare : ~AtRest(e)
=============================================================================
