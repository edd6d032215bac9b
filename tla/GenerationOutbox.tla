--------------------------- MODULE GenerationOutbox ---------------------------
(***************************************************************************)
(* Edit-and-Send: a user rewrites an earlier message and asks for a new    *)
(* reply.  editAndSend commits the rewrite together with one row of the    *)
(* generation outbox; three callers later turn that row into at most one   *)
(* generation: the POST handler that committed it (or a replay of that     *)
(* POST), the sweep of the maintenance tick, and the sweep of the start-up *)
(* recovery.  The row, its messages and the attempt count are in SQLite    *)
(* and survive a crash; the pending startGeneration call, the running      *)
(* generation and the generation pool do not.                              *)
(*                                                                         *)
(* Code between two awaits is one action.  Clocks are abstracted to what   *)
(* the code compares: a lease is live or expired, and an assistant message *)
(* is or is not within the verification window of the row.  The sweep's    *)
(* oldest-first order and its batch of 16 are left out (any claimable row  *)
(* may be next), and so are next_attempt_at, which is never in the future, *)
(* the duplicate generation id, a UUID drawn once per row, and the         *)
(* deletion of messages: a reply that was saved stays.                     *)
(***************************************************************************)
EXTENDS Naturals, FiniteSets

CONSTANTS Rows,         \* rows of the table generation_outbox
          MaxCrashes    \* bound: how often the process may die

ASSUME GenerationOutboxAssumption == MaxCrashes \in Nat

VARIABLES
    row,        \* the outbox rows (durable)
    recent,     \* r's chat has an assistant message in the window (durable)
    advanced,   \* r's target revision is above expected_version (durable)
    output,     \* the reply generated for r is saved (durable)
    server,     \* what the process and its sweep are doing
    call,       \* who awaits startGeneration for r (memory)
    gen,        \* the generation of r and its pool entry (memory)
    starts,     \* history: calls of startGeneration for r
    crashes     \* history: how often the process died

vars == <<row, recent, advanced, output, server, call, gen, starts, crashes>>
durable == <<recent, advanced, output>>
memory == <<server, call, gen>>
history == <<starts, crashes>>

MAX_ATTEMPTS == 1

Statuses == {"absent", "pending", "claimed", "running",
             "completed", "failed", "cancelled"}
Terminal == {"completed", "failed", "cancelled"}
Reasons == {"none", "context_invalid", "dispatch_failed", "max_attempts",
            "output_not_verified", "verified_output", "cancelled"}

GenerationOutboxRow ==
    [status: Statuses, attempts: Nat, lease: {"none", "live", "expired"},
     dispatched: BOOLEAN, reason: Reasons, mode: {"normal", "swipe"},
     branched: BOOLEAN, context: {"valid", "invalid"}]

NoRow == [status |-> "absent", attempts |-> 0, lease |-> "none",
          dispatched |-> FALSE, reason |-> "none", mode |-> "normal",
          branched |-> FALSE, context |-> "valid"]

-----------------------------------------------------------------------------
(* Rows *)

\* The rows whose generation writes into the same chat as r's: a branched
\* request has a chat of its own, the others share the source chat.
SameChat(r) ==
    IF row[r].branched
    THEN {r}
    ELSE {q \in Rows : row[q].status # "absent" /\ ~row[q].branched}

\* claimed, or running without dispatched_at
Undispatched(w) == w.status \in {"claimed", "running"} /\ ~w.dispatched

\* Mutant: an exhausted row is claimed again.
ClaimableAgain(w) ==
    \/ w.status = "pending"
    \/ (Undispatched(w) /\ w.lease = "expired")

Claimable(w) ==
    /\ w.attempts < MAX_ATTEMPTS
    /\ \/ w.status = "pending"
       \/ (Undispatched(w) /\ w.lease = "expired")

Claimed(w) == [w EXCEPT !.status = "claimed", !.lease = "live",
                        !.attempts = @ + 1]

Failed(w, why) == [w EXCEPT !.status = "failed", !.reason = why,
                            !.lease = "none"]

\* Mutant: the update has no guard on the status.
DispatchedUnlessCancelled(w) ==
    IF w.status # "cancelled" /\ ~w.dispatched
    THEN [w EXCEPT !.status = "running", !.dispatched = TRUE,
                   !.lease = "live"]
    ELSE w

Dispatched(w) ==
    IF w.status = "claimed" /\ ~w.dispatched
    THEN [w EXCEPT !.status = "running", !.dispatched = TRUE,
                   !.lease = "live"]
    ELSE w

\* Mutant: every mode is verified by the revision.
HasPersistedOutputByRevision(r, w) == w.dispatched /\ advanced[r]

HasPersistedOutput(r, w) ==
    /\ w.dispatched
    /\ recent[r] \/ (w.mode = "swipe" /\ advanced[r])

Resolved(r, w) ==
    IF HasPersistedOutput(r, w)
    THEN [w EXCEPT !.status = "completed", !.reason = "verified_output",
                   !.lease = "none"]
    ELSE Failed(w, "output_not_verified")

\* The pool entry is not terminal: what isGenerationActive answers.
Active(r) == gen[r] = "active"

\* The generation's task runs; the pool may have written it off ("stale").
Running(r) == gen[r] \in {"active", "stale"}

\* Mutant: the pool's liveness is not asked for.
ReconciledBlind(r, w, active) ==
    CASE w.status = "pending" /\ w.attempts >= MAX_ATTEMPTS ->
            Failed(w, "max_attempts")
      [] w.status = "running" /\ w.dispatched -> Resolved(r, w)
      [] Undispatched(w) /\ w.lease = "expired" ->
            IF w.attempts >= MAX_ATTEMPTS
            THEN Failed(w, "max_attempts")
            ELSE [w EXCEPT !.status = "pending", !.lease = "none"]
      [] OTHER -> w

\* Mutant: expired claims are left alone.
ReconciledDispatchedOnly(r, w, active) ==
    CASE w.status = "pending" /\ w.attempts >= MAX_ATTEMPTS ->
            Failed(w, "max_attempts")
      [] w.status = "running" /\ w.dispatched /\ ~active -> Resolved(r, w)
      [] OTHER -> w

\* What the periodic reconciliation makes of a row; active says whether the
\* pool still runs its generation.
Reconciled(r, w, active) ==
    CASE w.status = "pending" /\ w.attempts >= MAX_ATTEMPTS ->
            Failed(w, "max_attempts")
      [] w.status = "running" /\ w.dispatched /\ ~active -> Resolved(r, w)
      [] Undispatched(w) /\ w.lease = "expired" ->
            IF w.attempts >= MAX_ATTEMPTS
            THEN Failed(w, "max_attempts")
            ELSE [w EXCEPT !.status = "pending", !.lease = "none"]
      [] OTHER -> w

\* Mutant: a released claim starts with no attempt used.
RecoveredAfresh(r, w) ==
    CASE Undispatched(w) /\ w.lease # "live" ->
            [w EXCEPT !.status = "pending", !.lease = "none", !.attempts = 0]
      [] w.status = "running" /\ w.dispatched -> Resolved(r, w)
      [] OTHER -> w

\* What the transaction of the start-up recovery makes of a row: nothing is
\* in flight any more, but a claim whose lease still runs is left alone.
Recovered(r, w) ==
    CASE Undispatched(w) /\ w.lease # "live" ->
            [w EXCEPT !.status = "pending", !.lease = "none"]
      [] w.status = "running" /\ w.dispatched -> Resolved(r, w)
      [] OTHER -> w

-----------------------------------------------------------------------------
(* The process starts with rows of earlier releases still in the table:    *)
(* their cursor carries no context, so they can only be failed.            *)
LegacyRow == [NoRow EXCEPT !.status = "pending", !.context = "invalid"]

Init ==
    /\ \E old \in SUBSET Rows :
          row = [r \in Rows |-> IF r \in old THEN LegacyRow ELSE NoRow]
    /\ recent = [r \in Rows |-> FALSE]
    /\ advanced = [r \in Rows |-> FALSE]
    /\ output = [r \in Rows |-> FALSE]
    /\ server = "down"
    /\ call = [r \in Rows |-> "none"]
    /\ gen = [r \in Rows |-> "none"]
    /\ starts = [r \in Rows |-> 0]
    /\ crashes = 0

Serving == server \in {"idle", "sweeping"}
Alive == server # "down"

\* editAndSend commits.  A branch copies the messages up to the target, all
\* stamped with the time of the copy, so its copied assistant messages are
\* recent; the copies start at revision 1, which no expected_version is
\* below.  In the source chat an old target may have any revision.
Commit(r, mode, branched, near, ahead) ==
    /\ Serving
    /\ row[r].status = "absent"
    /\ (branched /\ mode = "swipe") => near
    /\ ahead => (mode = "swipe" /\ ~branched)
    /\ row' = [row EXCEPT ![r] = [NoRow EXCEPT !.status = "pending",
                                               !.mode = mode,
                                               !.branched = branched]]
    /\ recent' = [recent EXCEPT ![r] = near]
    /\ advanced' = [advanced EXCEPT ![r] = ahead]
    /\ UNCHANGED <<output, memory, history>>

\* claimOutboxRow / claimNextEditAndSendOutbox, and the synchronous part of
\* dispatchClaimedEditAndSendOutbox up to the await of startGeneration.
ClaimAndStart(r, caller) ==
    /\ Claimable(row[r])
    /\ \/ /\ row[r].context = "invalid"
          /\ row' = [row EXCEPT ![r] = Failed(Claimed(@), "context_invalid")]
          /\ UNCHANGED <<call, starts>>
       \/ /\ row[r].context = "valid"
          /\ row' = [row EXCEPT ![r] = Claimed(@)]
          /\ call' = [call EXCEPT ![r] = caller]
          /\ starts' = [starts EXCEPT ![r] = @ + 1]
    /\ UNCHANGED <<durable, server, gen, crashes>>

\* The POST, or a replay of it: the guards before claimOutboxRow exclude only
\* rows that are not claimable either.
DispatchRequest(r) == Serving /\ ClaimAndStart(r, "post")

SweepAwaits == \E r \in Rows : call[r] = "sweep"

SweepClaims(r) ==
    /\ server \in {"booting", "sweeping"}
    /\ ~SweepAwaits
    /\ ClaimAndStart(r, "sweep")

\* claimNext finds nothing: the tick ends, or the server starts to listen.
SweepEnds ==
    /\ server \in {"booting", "sweeping"}
    /\ ~SweepAwaits
    /\ \A r \in Rows : ~Claimable(row[r])
    /\ server' = "idle"
    /\ UNCHANGED <<row, durable, call, gen, history>>

\* startGeneration returns "streaming"; its pool entry was made in the same
\* turn.  The generation now runs whether or not the row could be updated.
StartSucceeds(r) ==
    /\ call[r] # "none"
    /\ call' = [call EXCEPT ![r] = "none"]
    /\ gen' = [gen EXCEPT ![r] = "active"]
    /\ row' = [row EXCEPT ![r] = Dispatched(@)]
    /\ UNCHANGED <<durable, server, history>>

\* startGeneration throws; markDispatchFailure does not look at the row.
StartFails(r) ==
    /\ call[r] # "none"
    /\ call' = [call EXCEPT ![r] = "none"]
    /\ row' = [row EXCEPT ![r] = Failed(@, "dispatch_failed")]
    /\ UNCHANGED <<durable, server, gen, history>>

\* A new assistant message is in the window of every row of the chat.
AssistantMessageIn(r) ==
    recent' = [q \in Rows |-> recent[q] \/ q \in SameChat(r)]

\* The generation saves its reply: a normal one inserts a message, a swipe is
\* written with updateSwipe, which leaves an assistant's revision alone; only
\* when rendering its macros changes the text does updateMessage raise it.
SaveOutput(r) ==
    /\ Running(r)
    /\ ~output[r]
    /\ output' = [output EXCEPT ![r] = TRUE]
    /\ \/ /\ row[r].mode = "normal"
          /\ AssistantMessageIn(r)
          /\ UNCHANGED advanced
       \/ /\ row[r].mode = "swipe"
          /\ \E bumped \in BOOLEAN :
                advanced' = [advanced EXCEPT ![r] = @ \/ bumped]
          /\ UNCHANGED recent
    /\ UNCHANGED <<row, memory, history>>

\* The generation finishes, fails or is stopped; completePool, errorPool and
\* stopPool come after whatever it saves.
EndGeneration(r) ==
    /\ Running(r)
    /\ gen' = [gen EXCEPT ![r] = "ended"]
    /\ UNCHANGED <<row, durable, server, call, history>>

\* The pool writes off an entry without activity for 60 minutes (it may be
\* waiting for its admission all the while); its task is not told.
PoolSweep(r) ==
    /\ Active(r)
    /\ gen' = [gen EXCEPT ![r] = "stale"]
    /\ UNCHANGED <<row, durable, server, call, history>>

Open(r) == row[r].status \notin Terminal \cup {"absent"}

\* Other activity in the chat of a row still to be judged: another assistant
\* message, or an edit of the target.
OtherMessage(r) ==
    /\ Serving
    /\ Open(r)
    /\ ~recent[r]
    /\ AssistantMessageIn(r)
    /\ UNCHANGED <<row, advanced, output, memory, history>>

TargetEdited(r) ==
    /\ Serving
    /\ Open(r)
    /\ row[r].mode = "swipe"
    /\ ~advanced[r]
    /\ advanced' = [advanced EXCEPT ![r] = TRUE]
    /\ UNCHANGED <<row, recent, output, memory, history>>

\* cancelEditAndSendOutbox.  No stop function is ever installed, so a call in
\* flight and a running generation go on.
Cancel(r) ==
    /\ Serving
    /\ row[r].status \notin {"absent", "completed", "cancelled"}
    /\ row' = [row EXCEPT ![r].status = "cancelled", ![r].lease = "none",
                          ![r].reason = "cancelled"]
    /\ UNCHANGED <<durable, memory, history>>

\* Time passes: the lease of a claim runs out (the lease of a dispatched row
\* is never read) ...
LeaseExpires(r) ==
    /\ row[r].lease = "live"
    /\ ~row[r].dispatched
    /\ row' = [row EXCEPT ![r].lease = "expired"]
    /\ UNCHANGED <<durable, memory, history>>

\* ... and a message leaves the window of a row not dispatched yet.
WindowPasses(r) ==
    /\ Open(r)
    /\ recent[r]
    /\ ~row[r].dispatched
    /\ recent' = [recent EXCEPT ![r] = FALSE]
    /\ UNCHANGED <<row, advanced, output, memory, history>>

\* One tick of the maintenance scheduler; schedulerRunning keeps the next
\* one out until this one's sweep has ended.
Tick ==
    /\ server = "idle"
    /\ row' = [r \in Rows |-> Reconciled(r, row[r], Active(r))]
    /\ server' = "sweeping"
    /\ UNCHANGED <<durable, call, gen, history>>

Crash ==
    /\ Alive
    /\ crashes < MaxCrashes
    /\ crashes' = crashes + 1
    /\ server' = "down"
    /\ call' = [r \in Rows |-> "none"]
    /\ gen' = [r \in Rows |-> "none"]
    /\ UNCHANGED <<row, durable, starts>>

\* recoverEditAndSendOutbox: the transaction, the reconciliation, and then
\* the sweep, which runs before the server listens.
Restart ==
    /\ server = "down"
    /\ row' = [r \in Rows |-> Reconciled(r, Recovered(r, row[r]), FALSE)]
    /\ server' = "booting"
    /\ UNCHANGED <<durable, call, gen, history>>

Next ==
    \/ \E r \in Rows :
          \/ \E mode \in {"normal", "swipe"}, branched, near, ahead \in BOOLEAN :
                Commit(r, mode, branched, near, ahead)
          \/ DispatchRequest(r) \/ SweepClaims(r)
          \/ StartSucceeds(r) \/ StartFails(r)
          \/ SaveOutput(r) \/ EndGeneration(r) \/ PoolSweep(r)
          \/ OtherMessage(r) \/ TargetEdited(r)
          \/ Cancel(r) \/ LeaseExpires(r) \/ WindowPasses(r)
    \/ SweepEnds \/ Tick \/ Crash \/ Restart

Spec == Init /\ [][Next]_vars

\* What the process does by itself: at any time at most one of these steps is
\* possible.
ServerStep ==
    Restart \/ Tick \/ SweepEnds \/ \E r \in Rows : SweepClaims(r)

\* The process is restarted after each of its (boundedly many) crashes, the
\* interval timer fires, a sweep goes on, a start returns or throws, the
\* clock moves, and no generation stays in the pool for ever: it ends, or the
\* pool writes it off.  Nobody has to POST again.
Fairness ==
    /\ WF_vars(ServerStep)
    /\ WF_vars(\E r \in Rows : StartSucceeds(r) \/ StartFails(r))
    /\ WF_vars(\E r \in Rows : EndGeneration(r) \/ PoolSweep(r))
    /\ WF_vars(\E r \in Rows : LeaseExpires(r))

FairSpec == Spec /\ Fairness

-----------------------------------------------------------------------------
\* Every variable has its type; no row exceeds the attempts it is allowed.
TypeOK ==
    /\ row \in [Rows -> GenerationOutboxRow]
    /\ \A r \in Rows : row[r].attempts <= MAX_ATTEMPTS
    /\ recent \in [Rows -> BOOLEAN]
    /\ advanced \in [Rows -> BOOLEAN]
    /\ output \in [Rows -> BOOLEAN]
    /\ server \in {"down", "booting", "idle", "sweeping"}
    /\ call \in [Rows -> {"none", "post", "sweep"}]
    /\ gen \in [Rows -> {"none", "active", "stale", "ended"}]
    /\ starts \in [Rows -> Nat]
    /\ crashes \in 0 .. MaxCrashes

\* "Never reclaim it for another generation attempt": whatever POSTs, replays,
\* ticks, crashes and restarts come together, startGeneration is called at
\* most once for a committed edit.
AtMostOneStart == \A r \in Rows : starts[r] <= 1

\* No verdict fails a row whose reply is saved: once the reply of a
\* dispatched normal-mode row is in the chat, neither a tick nor the recovery
\* after a crash at any point turns the row to failed.
NormalOutputKept ==
    [][\A r \in Rows :
          /\ row[r].mode = "normal" /\ row[r].dispatched /\ output[r]
          /\ row[r].status # "failed"
          => row'[r].status # "failed"]_vars

\* A generation the pool shows running behind a row already failed is one
\* whose start outlived its 30 s lease: neither a verification nor a failing
\* start can declare a generation dead that the pool knows to be alive.
LiveBehindFailed ==
    \A r \in Rows :
        Active(r) /\ row[r].status = "failed" => row[r].reason = "max_attempts"

\* No verdict is taken back: a completed row never changes, a failed or
\* cancelled one never becomes claimable, running or completed again.
VerdictsAreFinal ==
    [][\A r \in Rows :
          /\ row[r].status = "completed" => row'[r] = row[r]
          /\ row[r].status \in {"failed", "cancelled"}
                => row'[r].status \in {"failed", "cancelled"}]_vars

\* Every committed edit is eventually completed, failed or cancelled.
EventuallySettled ==
    \A r \in Rows :
        row[r].status \in {"pending", "claimed", "running"}
            ~> row[r].status \in Terminal

\* The comment on the pool's sweep: if the task of a swept entry "is somehow
\* still alive and later completes, completePool() simply overwrites this
\* status - the failsafe is self-healing".  So a reply that was saved should
\* not be reported failed; the outbox row, judged in between, stays failed.
SavedNormalNotFailed ==
    \A r \in Rows :
        row[r].mode = "normal" /\ row[r].dispatched /\ output[r]
            => row[r].status # "failed"
=============================================================================
