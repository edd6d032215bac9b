------------------------ MODULE GenerationOutboxProofs ------------------------
(***************************************************************************)
(* Proofs about GenerationOutbox, for every finite or infinite table of    *)
(* rows and every bound on the crashes: the type invariant, at most one    *)
(* start per committed edit, no verdict fails a row whose normal reply is  *)
(* saved, and verdicts are final.                                          *)
(***************************************************************************)
EXTENDS GenerationOutbox, TLAPS

\* What is known of one row between two steps.  The attempt count is the
\* durable trace of everything that was ever started for the row; a call in
\* flight has an undispatched row that was claimed, cancelled or timed out;
\* a generation the pool shows running has a row that is running, cancelled or
\* timed out; while a dispatched row runs, its saved reply is in the window.
RowInv(r) ==
    /\ server = "down" => gen[r] = "none" /\ call[r] = "none"
    /\ starts[r] <= row[r].attempts
    /\ (gen[r] # "none" \/ call[r] # "none" \/ output[r])
            => row[r].attempts = 1
    /\ call[r] # "none" =>
          /\ ~row[r].dispatched
          /\ gen[r] = "none"
          /\ ~output[r]
          /\ \/ row[r].status \in {"claimed", "cancelled"}
             \/ row[r].status = "failed" /\ row[r].reason = "max_attempts"
    /\ gen[r] = "active" =>
          \/ row[r].status = "running" /\ row[r].dispatched
          \/ row[r].status = "cancelled"
          \/ /\ row[r].status = "failed"
             /\ row[r].reason = "max_attempts"
             /\ ~row[r].dispatched
    /\ row[r].status \in {"absent", "pending"} => ~row[r].dispatched
    /\ row[r].status = "absent" => row[r].attempts = 0
    /\ row[r].status \in Terminal => row[r].lease = "none"
    /\ (row[r].mode = "normal" /\ row[r].dispatched /\ output[r])
            => (row[r].status = "running" => recent[r])

IInv == TypeOK /\ \A r \in Rows : RowInv(r)

-----------------------------------------------------------------------------
(* What the row operators return.                                          *)

LEMMA FailedRow ==
    ASSUME NEW w \in GenerationOutboxRow, NEW why \in Reasons
    PROVE  /\ Failed(w, why) \in GenerationOutboxRow
           /\ Failed(w, why).status = "failed"
           /\ Failed(w, why).reason = why
           /\ Failed(w, why).lease = "none"
           /\ Failed(w, why).attempts = w.attempts
           /\ (Failed(w, why).dispatched <=> w.dispatched)
           /\ Failed(w, why).mode = w.mode
  BY DEF Failed, GenerationOutboxRow, Statuses

LEMMA ClaimedRow ==
    ASSUME NEW w \in GenerationOutboxRow
    PROVE  /\ Claimed(w) \in GenerationOutboxRow
           /\ Claimed(w).status = "claimed"
           /\ Claimed(w).attempts = w.attempts + 1
           /\ (Claimed(w).dispatched <=> w.dispatched)
           /\ Claimed(w).mode = w.mode
  <1>1. w.attempts + 1 \in Nat
    BY DEF GenerationOutboxRow
  <1>2. ASSUME NEW n \in Nat,
               NEW c, c = [w EXCEPT !.status = "claimed", !.lease = "live",
                                    !.attempts = n]
        PROVE  /\ c \in GenerationOutboxRow
               /\ c.status = "claimed"
               /\ c.attempts = n
               /\ (c.dispatched <=> w.dispatched)
               /\ c.mode = w.mode
    BY <1>2 DEF GenerationOutboxRow, Statuses
  <1> QED  BY <1>1, <1>2 DEF Claimed

LEMMA DispatchedRow ==
    ASSUME NEW w \in GenerationOutboxRow
    PROVE  /\ Dispatched(w) \in GenerationOutboxRow
           /\ Dispatched(w).attempts = w.attempts
           /\ Dispatched(w).mode = w.mode
           /\ w.status # "claimed" \/ w.dispatched => Dispatched(w) = w
           /\ w.status = "claimed" /\ ~w.dispatched =>
                 Dispatched(w).status = "running" /\ Dispatched(w).dispatched
  BY DEF Dispatched, GenerationOutboxRow, Statuses

\* Reconciliation and recovery keep the count, the mode and dispatched_at, and
\* change a row only in the cases named here.
LEMMA ResolvedRow ==
    ASSUME NEW r \in Rows, NEW w \in GenerationOutboxRow
    PROVE  /\ Resolved(r, w) \in GenerationOutboxRow
           /\ Resolved(r, w).status \in {"completed", "failed"}
           /\ Resolved(r, w).lease = "none"
           /\ Resolved(r, w).attempts = w.attempts
           /\ (Resolved(r, w).dispatched <=> w.dispatched)
           /\ Resolved(r, w).mode = w.mode
           /\ w.dispatched /\ recent[r] => Resolved(r, w).status = "completed"
  BY DEF Resolved, HasPersistedOutput, Failed, GenerationOutboxRow, Statuses,
         Reasons

LEMMA ReconciledRow ==
    ASSUME NEW r \in Rows, NEW w \in GenerationOutboxRow,
           NEW active \in BOOLEAN
    PROVE  /\ Reconciled(r, w, active) \in GenerationOutboxRow
           /\ Reconciled(r, w, active).attempts = w.attempts
           /\ (Reconciled(r, w, active).dispatched <=> w.dispatched)
           /\ Reconciled(r, w, active).mode = w.mode
           /\ \/ Reconciled(r, w, active) = w
              \/ /\ w.status = "running" /\ w.dispatched /\ ~active
                 /\ Reconciled(r, w, active) = Resolved(r, w)
              \/ /\ w.status \in {"pending", "claimed", "running"}
                 /\ w.status # "pending" => ~w.dispatched
                 /\ w.attempts >= MAX_ATTEMPTS
                 /\ Reconciled(r, w, active) = Failed(w, "max_attempts")
              \/ /\ Undispatched(w) /\ w.attempts < MAX_ATTEMPTS
                 /\ Reconciled(r, w, active).status = "pending"
  <1>1. CASE w.status = "pending" /\ w.attempts >= MAX_ATTEMPTS
    <2>1. Reconciled(r, w, active) = Failed(w, "max_attempts")
      BY <1>1 DEF Reconciled
    <2> QED  BY <1>1, <2>1, FailedRow DEF Reasons
  <1>2. CASE w.status = "running" /\ w.dispatched /\ ~active
    <2>1. Reconciled(r, w, active) = Resolved(r, w)
      BY <1>2 DEF Reconciled, Undispatched
    <2> QED  BY <1>2, <2>1, ResolvedRow
  <1>3. CASE Undispatched(w) /\ w.lease = "expired" /\ w.attempts >= MAX_ATTEMPTS
    <2>1. Reconciled(r, w, active) = Failed(w, "max_attempts")
      BY <1>3 DEF Reconciled, Undispatched
    <2> QED  BY <1>3, <2>1, FailedRow DEF Reasons, Undispatched
  <1>4. CASE Undispatched(w) /\ w.lease = "expired" /\ ~(w.attempts >= MAX_ATTEMPTS)
    <2>1. Reconciled(r, w, active)
             = [w EXCEPT !.status = "pending", !.lease = "none"]
      BY <1>4 DEF Reconciled, Undispatched
    <2>2. w.attempts < MAX_ATTEMPTS
      BY <1>4 DEF MAX_ATTEMPTS, GenerationOutboxRow
    <2> QED  BY <1>4, <2>1, <2>2 DEF GenerationOutboxRow, Statuses
  <1>5. CASE /\ ~(w.status = "pending" /\ w.attempts >= MAX_ATTEMPTS)
             /\ ~(w.status = "running" /\ w.dispatched /\ ~active)
             /\ ~(Undispatched(w) /\ w.lease = "expired")
    BY <1>5 DEF Reconciled
  <1> QED  BY <1>1, <1>2, <1>3, <1>4, <1>5

LEMMA RecoveredRow ==
    ASSUME NEW r \in Rows, NEW w \in GenerationOutboxRow
    PROVE  /\ Recovered(r, w) \in GenerationOutboxRow
           /\ Recovered(r, w).attempts = w.attempts
           /\ (Recovered(r, w).dispatched <=> w.dispatched)
           /\ Recovered(r, w).mode = w.mode
           /\ \/ Recovered(r, w) = w
              \/ /\ w.status = "running" /\ w.dispatched
                 /\ Recovered(r, w) = Resolved(r, w)
              \/ /\ Undispatched(w)
                 /\ Recovered(r, w).status = "pending"
  <1>1. CASE Undispatched(w) /\ w.lease # "live"
    <2>1. Recovered(r, w) = [w EXCEPT !.status = "pending", !.lease = "none"]
      BY <1>1 DEF Recovered, Undispatched
    <2>2. ASSUME NEW c, c = [w EXCEPT !.status = "pending", !.lease = "none"]
          PROVE  /\ c \in GenerationOutboxRow
                 /\ c.status = "pending"
                 /\ c.attempts = w.attempts
                 /\ (c.dispatched <=> w.dispatched)
                 /\ c.mode = w.mode
      BY <2>2 DEF GenerationOutboxRow, Statuses
    <2> QED  BY <1>1, <2>1, <2>2
  <1>2. CASE w.status = "running" /\ w.dispatched
    <2>1. Recovered(r, w) = Resolved(r, w)
      BY <1>2 DEF Recovered, Undispatched
    <2> QED  BY <1>2, <2>1, ResolvedRow
  <1>3. CASE /\ ~(Undispatched(w) /\ w.lease # "live")
             /\ ~(w.status = "running" /\ w.dispatched)
    BY <1>3 DEF Recovered
  <1> QED  BY <1>1, <1>2, <1>3

-----------------------------------------------------------------------------
(* The inductive invariant, one lemma per action that writes a row.        *)

LEMMA RowsTyped ==
    ASSUME TypeOK, NEW r \in Rows
    PROVE  /\ row[r] \in GenerationOutboxRow
           /\ row[r].status \in Statuses
           /\ row[r].attempts \in 0 .. 1
           /\ row[r].dispatched \in BOOLEAN
           /\ row[r].reason \in Reasons
           /\ row[r].mode \in {"normal", "swipe"}
           /\ starts[r] \in Nat
  <1>1. row[r] \in GenerationOutboxRow /\ starts[r] \in Nat
    BY DEF TypeOK
  <1>2. row[r].attempts \in Nat /\ row[r].attempts <= 1
    BY <1>1 DEF TypeOK, GenerationOutboxRow, MAX_ATTEMPTS
  <1>3. row[r].dispatched \in BOOLEAN
    BY <1>1 DEF GenerationOutboxRow
  <1>4. /\ row[r].status \in Statuses
        /\ row[r].reason \in Reasons
        /\ row[r].mode \in {"normal", "swipe"}
    BY <1>1 DEF GenerationOutboxRow
  <1> QED  BY <1>1, <1>2, <1>3, <1>4

LEMMA CommitStep ==
    ASSUME IInv, NEW q \in Rows, NEW mode \in {"normal", "swipe"},
           NEW branched \in BOOLEAN, NEW near \in BOOLEAN,
           NEW ahead \in BOOLEAN, Commit(q, mode, branched, near, ahead)
    PROVE  IInv'
  <1> DEFINE w == [NoRow EXCEPT !.status = "pending", !.mode = mode,
                                !.branched = branched]
  <1>1. /\ w \in GenerationOutboxRow
        /\ w.status = "pending"
        /\ w.attempts = 0
        /\ ~w.dispatched
    <2>1. /\ NoRow \in GenerationOutboxRow
          /\ NoRow.attempts = 0
          /\ NoRow.dispatched = FALSE
      BY DEF NoRow, GenerationOutboxRow, Statuses, Reasons
    <2> QED  BY <2>1 DEF GenerationOutboxRow, Statuses
  <1>2. /\ row' = [row EXCEPT ![q] = w]
        /\ recent' = [recent EXCEPT ![q] = near]
        /\ advanced' = [advanced EXCEPT ![q] = ahead]
        /\ UNCHANGED <<output, server, call, gen, starts, crashes>>
    BY DEF Commit, memory, history
  <1> HIDE DEF w
  <1>3. TypeOK'
    BY <1>1, <1>2 DEF IInv, TypeOK, MAX_ATTEMPTS
  <1>4. ASSUME NEW r \in Rows
        PROVE  RowInv(r)'
    <2>1. CASE r = q
      <3>1. starts[q] = 0 /\ gen[q] = "none" /\ call[q] = "none" /\ ~output[q]
        BY RowsTyped DEF IInv, RowInv, Commit
      <3>2. row'[r] = w
        BY <1>2, <2>1 DEF IInv, TypeOK
      <3> QED
        BY <1>1, <1>2, <2>1, <3>1, <3>2 DEF RowInv, Terminal
    <2>2. CASE r # q
      BY <1>2, <2>2 DEF IInv, TypeOK, RowInv
    <2> QED  BY <2>1, <2>2
  <1> QED  BY <1>3, <1>4 DEF IInv

LEMMA ClaimStep ==
    ASSUME IInv, NEW q \in Rows, NEW caller \in {"post", "sweep"},
           Alive, ClaimAndStart(q, caller)
    PROVE  IInv'
  <1>1. /\ row[q].attempts = 0
        /\ row[q].status \in {"pending", "claimed", "running"}
        /\ ~row[q].dispatched
    BY RowsTyped
    DEF IInv, RowInv, ClaimAndStart, Claimable, Undispatched, MAX_ATTEMPTS
  <1>2. starts[q] = 0 /\ gen[q] = "none" /\ call[q] = "none" /\ ~output[q]
    BY <1>1, RowsTyped DEF IInv, RowInv, TypeOK
  <1> DEFINE c == Claimed(row[q])
             f == Failed(c, "context_invalid")
  <1>3. /\ c \in GenerationOutboxRow
        /\ c.status = "claimed"
        /\ c.attempts = 1
        /\ ~c.dispatched
    BY <1>1, RowsTyped, ClaimedRow DEF IInv
  <1>4. /\ f \in GenerationOutboxRow
        /\ f.status = "failed"
        /\ f.lease = "none"
        /\ f.attempts = 1
        /\ ~f.dispatched
    <2> HIDE DEF c
    <2> QED  BY <1>3, FailedRow DEF Reasons
  <1>5. \/ row' = [row EXCEPT ![q] = f] /\ UNCHANGED <<call, starts>>
        \/ /\ row' = [row EXCEPT ![q] = c]
           /\ call' = [call EXCEPT ![q] = caller]
           /\ starts' = [starts EXCEPT ![q] = @ + 1]
    BY DEF ClaimAndStart
  <1>6. UNCHANGED <<recent, advanced, output, server, gen, crashes>>
    BY DEF ClaimAndStart, durable
  <1> HIDE DEF c, f
  <1>7. TypeOK'
    BY <1>3, <1>4, <1>5, <1>6 DEF IInv, TypeOK, MAX_ATTEMPTS
  <1>8. ASSUME NEW r \in Rows
        PROVE  RowInv(r)'
    <2>1. CASE r = q
      BY <1>2, <1>3, <1>4, <1>5, <1>6, <2>1
      DEF IInv, TypeOK, RowInv, Terminal, Alive
    <2>2. CASE r # q
      BY <1>5, <1>6, <2>2 DEF IInv, TypeOK, RowInv
    <2> QED  BY <2>1, <2>2
  <1> QED  BY <1>7, <1>8 DEF IInv

LEMMA StartSucceedsStep ==
    ASSUME IInv, NEW q \in Rows, StartSucceeds(q)
    PROVE  IInv'
  <1> DEFINE d == Dispatched(row[q])
  <1>1. /\ ~row[q].dispatched /\ ~output[q]
        /\ row[q].attempts = 1 /\ server # "down"
        /\ \/ row[q].status \in {"claimed", "cancelled"}
           \/ row[q].status = "failed" /\ row[q].reason = "max_attempts"
    BY DEF IInv, RowInv, StartSucceeds
  <1>2. /\ d \in GenerationOutboxRow
        /\ d.attempts = 1
        /\ \/ d.status = "running" /\ d.dispatched
           \/ d = row[q] /\ d.status = "cancelled"
           \/ d = row[q] /\ d.status = "failed" /\ d.reason = "max_attempts"
    BY <1>1, RowsTyped, DispatchedRow DEF IInv
  <1>3. /\ row' = [row EXCEPT ![q] = d]
        /\ call' = [call EXCEPT ![q] = "none"]
        /\ gen' = [gen EXCEPT ![q] = "active"]
        /\ UNCHANGED <<recent, advanced, output, server, starts, crashes>>
    BY DEF StartSucceeds, durable, history
  <1> HIDE DEF d
  <1>4. TypeOK'
    BY <1>2, <1>3 DEF IInv, TypeOK, MAX_ATTEMPTS
  <1>5. ASSUME NEW r \in Rows
        PROVE  RowInv(r)'
    <2>1. CASE r = q
      BY <1>1, <1>2, <1>3, <2>1 DEF IInv, TypeOK, RowInv, Terminal
    <2>2. CASE r # q
      BY <1>3, <2>2 DEF IInv, TypeOK, RowInv
    <2> QED  BY <2>1, <2>2
  <1> QED  BY <1>4, <1>5 DEF IInv

LEMMA StartFailsStep ==
    ASSUME IInv, NEW q \in Rows, StartFails(q)
    PROVE  IInv'
  <1> DEFINE f == Failed(row[q], "dispatch_failed")
  <1>1. /\ ~row[q].dispatched /\ ~output[q] /\ gen[q] = "none"
        /\ row[q].attempts = 1
    BY DEF IInv, RowInv, StartFails
  <1>2. /\ f \in GenerationOutboxRow
        /\ f.status = "failed"
        /\ f.lease = "none"
        /\ f.attempts = 1
        /\ ~f.dispatched
    BY <1>1, RowsTyped, FailedRow DEF IInv, Reasons
  <1>3. /\ row' = [row EXCEPT ![q] = f]
        /\ call' = [call EXCEPT ![q] = "none"]
        /\ UNCHANGED <<recent, advanced, output, server, gen, starts, crashes>>
    BY DEF StartFails, durable, history
  <1> HIDE DEF f
  <1>4. TypeOK'
    BY <1>2, <1>3 DEF IInv, TypeOK, MAX_ATTEMPTS
  <1>5. ASSUME NEW r \in Rows
        PROVE  RowInv(r)'
    <2>1. CASE r = q
      BY <1>1, <1>2, <1>3, <2>1 DEF IInv, TypeOK, RowInv, Terminal
    <2>2. CASE r # q
      BY <1>3, <2>2 DEF IInv, TypeOK, RowInv
    <2> QED  BY <2>1, <2>2
  <1> QED  BY <1>4, <1>5 DEF IInv

LEMMA SaveOutputStep ==
    ASSUME IInv, NEW q \in Rows, SaveOutput(q)
    PROVE  IInv'
  <1>1. /\ UNCHANGED <<row, server, call, gen, starts, crashes>>
        /\ output' = [output EXCEPT ![q] = TRUE]
        /\ \/ /\ recent' = [r \in Rows |-> recent[r] \/ r \in SameChat(q)]
              /\ UNCHANGED advanced
           \/ /\ row[q].mode = "swipe"
              /\ \E b \in BOOLEAN :
                    advanced' = [advanced EXCEPT ![q] = @ \/ b]
              /\ UNCHANGED recent
    BY DEF SaveOutput, AssistantMessageIn, memory, history
  <1>2. /\ gen[q] \in {"active", "stale"} /\ call[q] = "none"
        /\ row[q].attempts = 1 /\ row[q].status # "absent"
    BY DEF IInv, RowInv, SaveOutput, Running
  <1>3. q \in SameChat(q)
    BY <1>2 DEF SameChat
  <1>4. TypeOK'
    BY <1>1 DEF IInv, TypeOK
  <1>5. ASSUME NEW r \in Rows
        PROVE  RowInv(r)'
    <2>1. recent[r] => recent'[r]
      BY <1>1 DEF IInv, TypeOK
    <2>2. CASE r = q
      <3>1. row[q].mode = "normal" => recent'[q]
        BY <1>1, <1>3
      <3> QED  BY <1>1, <1>2, <2>2, <3>1 DEF IInv, RowInv
    <2>3. CASE r # q
      BY <1>1, <2>1, <2>3 DEF IInv, TypeOK, RowInv
    <2> QED  BY <2>2, <2>3
  <1> QED  BY <1>4, <1>5 DEF IInv

LEMMA CancelStep ==
    ASSUME IInv, NEW q \in Rows, Cancel(q)
    PROVE  IInv'
  <1> DEFINE c == [row[q] EXCEPT !.status = "cancelled", !.lease = "none",
                                 !.reason = "cancelled"]
  <1>1. /\ c \in GenerationOutboxRow
        /\ c.status = "cancelled"
        /\ c.lease = "none"
        /\ c.attempts = row[q].attempts
        /\ (c.dispatched <=> row[q].dispatched)
        /\ c.mode = row[q].mode
    <2>1. row[q] \in GenerationOutboxRow
      BY RowsTyped DEF IInv
    <2> QED  BY <2>1 DEF GenerationOutboxRow, Statuses, Reasons
  <1>2. /\ row' = [row EXCEPT ![q] = c]
        /\ UNCHANGED <<recent, advanced, output, server, call, gen,
                       starts, crashes>>
    BY DEF Cancel, durable, memory, history, IInv, TypeOK
  <1> HIDE DEF c
  <1>3. TypeOK'
    BY <1>1, <1>2, RowsTyped DEF IInv, TypeOK, MAX_ATTEMPTS
  <1>4. ASSUME NEW r \in Rows
        PROVE  RowInv(r)'
    <2>1. CASE r = q
      BY <1>1, <1>2, <2>1 DEF IInv, TypeOK, RowInv, Terminal
    <2>2. CASE r # q
      BY <1>2, <2>2 DEF IInv, TypeOK, RowInv
    <2> QED  BY <2>1, <2>2
  <1> QED  BY <1>3, <1>4 DEF IInv

LEMMA LeaseExpiresStep ==
    ASSUME IInv, NEW q \in Rows, LeaseExpires(q)
    PROVE  IInv'
  <1> DEFINE c == [row[q] EXCEPT !.lease = "expired"]
  <1>1. /\ c \in GenerationOutboxRow
        /\ c.status = row[q].status
        /\ c.attempts = row[q].attempts
        /\ c.reason = row[q].reason
        /\ (c.dispatched <=> row[q].dispatched)
        /\ c.mode = row[q].mode
    <2>1. row[q] \in GenerationOutboxRow
      BY RowsTyped DEF IInv
    <2> QED  BY <2>1 DEF GenerationOutboxRow
  <1>2. /\ row' = [row EXCEPT ![q] = c]
        /\ UNCHANGED <<recent, advanced, output, server, call, gen,
                       starts, crashes>>
    BY DEF LeaseExpires, durable, memory, history, IInv, TypeOK
  <1>3. row[q].status \notin Terminal
    BY DEF LeaseExpires, IInv, RowInv
  <1> HIDE DEF c
  <1>4. TypeOK'
    BY <1>1, <1>2, RowsTyped DEF IInv, TypeOK, MAX_ATTEMPTS
  <1>5. ASSUME NEW r \in Rows
        PROVE  RowInv(r)'
    <2>1. CASE r = q
      BY <1>1, <1>2, <1>3, <2>1 DEF IInv, TypeOK, RowInv
    <2>2. CASE r # q
      BY <1>2, <2>2 DEF IInv, TypeOK, RowInv
    <2> QED  BY <2>1, <2>2
  <1> QED  BY <1>4, <1>5 DEF IInv

\* A pass over all rows, with or without the pool's knowledge of what runs.
LEMMA TickStep ==
    ASSUME IInv, Tick
    PROVE  IInv'
  <1>1. /\ row' = [r \in Rows |-> Reconciled(r, row[r], Active(r))]
        /\ server' = "sweeping"
        /\ UNCHANGED <<recent, advanced, output, call, gen, starts, crashes>>
    BY DEF Tick, durable, history
  <1>2. ASSUME NEW r \in Rows
        PROVE  /\ row'[r] \in GenerationOutboxRow
               /\ row'[r].attempts <= 1
               /\ RowInv(r)'
    <2> DEFINE w == row[r]
               v == Reconciled(r, w, Active(r))
    <2>1. w \in GenerationOutboxRow /\ w.attempts \in 0 .. 1
      BY RowsTyped DEF IInv
    <2>2. Active(r) \in BOOLEAN
      BY DEF Active
    <2>3. /\ v \in GenerationOutboxRow
          /\ v.attempts = w.attempts
          /\ (v.dispatched <=> w.dispatched)
          /\ v.mode = w.mode
          /\ \/ v = w
             \/ /\ w.status = "running" /\ w.dispatched /\ ~Active(r)
                /\ v.status \in {"completed", "failed"} /\ v.lease = "none"
                /\ recent[r] => v.status = "completed"
             \/ /\ w.status \in {"pending", "claimed", "running"}
                /\ ~w.dispatched
                /\ w.attempts = 1
                /\ v.status = "failed" /\ v.lease = "none"
                /\ v.reason = "max_attempts"
             \/ w.attempts = 0 /\ ~w.dispatched /\ v.status = "pending"
      <3>1. w.status = "pending" => ~w.dispatched
        BY DEF IInv, RowInv
      <3>2. Failed(w, "max_attempts").status = "failed"
            /\ Failed(w, "max_attempts").lease = "none"
            /\ Failed(w, "max_attempts").reason = "max_attempts"
        BY <2>1, FailedRow DEF Reasons
      <3> HIDE DEF w, v
      <3>3. /\ Resolved(r, w).status \in {"completed", "failed"}
            /\ Resolved(r, w).lease = "none"
            /\ w.dispatched /\ recent[r] => Resolved(r, w).status = "completed"
        BY <2>1, ResolvedRow
      <3>4. /\ v \in GenerationOutboxRow
            /\ v.attempts = w.attempts
            /\ (v.dispatched <=> w.dispatched)
            /\ v.mode = w.mode
            /\ \/ v = w
               \/ /\ w.status = "running" /\ w.dispatched /\ ~Active(r)
                  /\ v = Resolved(r, w)
               \/ /\ w.status \in {"pending", "claimed", "running"}
                  /\ w.status # "pending" => ~w.dispatched
                  /\ w.attempts >= MAX_ATTEMPTS
                  /\ v = Failed(w, "max_attempts")
               \/ /\ Undispatched(w) /\ w.attempts < MAX_ATTEMPTS
                  /\ v.status = "pending"
        BY <2>1, <2>2, ReconciledRow DEF v
      <3> QED
        BY <2>1, <3>1, <3>2, <3>3, <3>4 DEF Undispatched, MAX_ATTEMPTS
    <2>4. row'[r] = v
      BY <1>1
    <2>5. RowInv(r)
      BY DEF IInv
    <2> HIDE DEF v
    <2> QED
      BY <1>1, <2>1, <2>3, <2>4, <2>5 DEF RowInv, Active, Terminal
  <1>3. TypeOK'
    BY <1>1, <1>2 DEF IInv, TypeOK, MAX_ATTEMPTS
  <1> QED  BY <1>2, <1>3 DEF IInv

\* The start-up recovery: the transaction, then the reconciliation with
\* nothing in flight.
LEMMA RestartStep ==
    ASSUME IInv, Restart
    PROVE  IInv'
  <1>1. /\ row' = [r \in Rows |-> Reconciled(r, Recovered(r, row[r]), FALSE)]
        /\ server = "down" /\ server' = "booting"
        /\ UNCHANGED <<recent, advanced, output, call, gen, starts, crashes>>
    BY DEF Restart, durable, history
  <1>2. ASSUME NEW r \in Rows
        PROVE  /\ row'[r] \in GenerationOutboxRow
               /\ row'[r].attempts <= 1
               /\ RowInv(r)'
    <2> DEFINE w == row[r]
               u == Recovered(r, w)
               v == Reconciled(r, u, FALSE)
    <2>1. w \in GenerationOutboxRow /\ w.attempts \in 0 .. 1
      BY RowsTyped DEF IInv
    <2>2. RowInv(r)
      BY DEF IInv
    <2>3. w.status \in {"absent", "pending"} => ~w.dispatched
      BY <2>2 DEF RowInv
    <2>4. row'[r] = v
      BY <1>1
    <2> HIDE DEF w
    <2>5. /\ u \in GenerationOutboxRow
          /\ u.attempts = w.attempts
          /\ (u.dispatched <=> w.dispatched)
          /\ u.mode = w.mode
          /\ \/ u = w
             \/ /\ w.status = "running" /\ w.dispatched
                /\ u.status \in {"completed", "failed"} /\ u.lease = "none"
                /\ recent[r] => u.status = "completed"
             \/ ~w.dispatched /\ u.status = "pending"
                /\ w.status \in {"claimed", "running"}
      BY <2>1, RecoveredRow, ResolvedRow DEF Undispatched
    <2> HIDE DEF u
    <2>6. /\ v \in GenerationOutboxRow
          /\ v.attempts = u.attempts
          /\ (v.dispatched <=> u.dispatched)
          /\ v.mode = u.mode
          /\ \/ v = u
             \/ /\ u.status = "running" /\ u.dispatched
                /\ v = Resolved(r, u)
             \/ /\ u.status \in {"pending", "claimed", "running"}
                /\ u.status # "pending" => ~u.dispatched
                /\ u.attempts >= MAX_ATTEMPTS
                /\ v = Failed(u, "max_attempts")
             \/ /\ Undispatched(u) /\ u.attempts < MAX_ATTEMPTS
                /\ v.status = "pending"
      BY <2>5, ReconciledRow
    <2> HIDE DEF v
    <2>7. /\ Failed(u, "max_attempts").status = "failed"
          /\ Failed(u, "max_attempts").lease = "none"
      BY <2>5, FailedRow DEF Reasons
    <2>8. /\ Resolved(r, u).status \in {"completed", "failed"}
          /\ Resolved(r, u).lease = "none"
          /\ u.dispatched /\ recent[r] => Resolved(r, u).status = "completed"
      BY <2>5, ResolvedRow
    <2>9. \/ v = w
          \/ /\ w.status = "running" /\ w.dispatched
             /\ v.status \in {"completed", "failed"} /\ v.lease = "none"
             /\ recent[r] => v.status = "completed"
          \/ /\ ~w.dispatched /\ w.status \in {"pending", "claimed", "running"}
             /\ \/ v.status = "pending"
                \/ v.status = "failed" /\ v.lease = "none"
      BY <2>3, <2>5, <2>6, <2>7, <2>8 DEF Undispatched
    <2>10. /\ v \in GenerationOutboxRow
           /\ v.attempts = w.attempts
           /\ (v.dispatched <=> w.dispatched)
           /\ v.mode = w.mode
      BY <2>5, <2>6
    <2>11. /\ gen[r] = "none" /\ call[r] = "none"
           /\ starts[r] <= w.attempts
           /\ output[r] => w.attempts = 1
           /\ w.status = "absent" => w.attempts = 0
           /\ w.status \in Terminal => w.lease = "none"
           /\ (w.mode = "normal" /\ w.dispatched /\ output[r])
                  => (w.status = "running" => recent[r])
      BY <1>1, <2>2 DEF RowInv, w
    <2>12. RowInv(r)'
      BY <1>1, <2>1, <2>3, <2>4, <2>9, <2>10, <2>11 DEF RowInv, Terminal
    <2> QED
      BY <2>1, <2>4, <2>10, <2>12
  <1>3. TypeOK'
    BY <1>1, <1>2 DEF IInv, TypeOK, MAX_ATTEMPTS
  <1> QED  BY <1>2, <1>3 DEF IInv

-----------------------------------------------------------------------------
(* The inductive invariant.                                                *)

LEMMA InitInv == Init => IInv
  <1> SUFFICES ASSUME Init PROVE IInv
    OBVIOUS
  <1>1. /\ NoRow \in GenerationOutboxRow
        /\ NoRow.status = "absent" /\ NoRow.attempts = 0
        /\ NoRow.dispatched = FALSE
    BY DEF NoRow, GenerationOutboxRow, Statuses, Reasons
  <1>2. /\ LegacyRow \in GenerationOutboxRow
        /\ LegacyRow.status = "pending" /\ LegacyRow.attempts = 0
        /\ LegacyRow.dispatched = FALSE
    BY <1>1 DEF LegacyRow, GenerationOutboxRow, Statuses
  <1>3. \E old \in SUBSET Rows :
           row = [r \in Rows |-> IF r \in old THEN LegacyRow ELSE NoRow]
    BY DEF Init
  <1>4. /\ row \in [Rows -> {LegacyRow, NoRow}]
    BY <1>3
  <1>5. /\ recent = [r \in Rows |-> FALSE]
        /\ advanced = [r \in Rows |-> FALSE]
        /\ output = [r \in Rows |-> FALSE]
        /\ server = "down"
        /\ call = [r \in Rows |-> "none"]
        /\ gen = [r \in Rows |-> "none"]
        /\ starts = [r \in Rows |-> 0]
        /\ crashes = 0
    BY DEF Init
  <1>6. TypeOK
    BY <1>1, <1>2, <1>4, <1>5, GenerationOutboxAssumption
    DEF TypeOK, MAX_ATTEMPTS
  <1>7. ASSUME NEW r \in Rows
        PROVE  RowInv(r)
    BY <1>1, <1>2, <1>4, <1>5 DEF RowInv, Terminal
  <1> QED  BY <1>6, <1>7 DEF IInv

LEMMA NextInv == IInv /\ [Next]_vars => IInv'
  <1> SUFFICES ASSUME IInv, [Next]_vars PROVE IInv'
    OBVIOUS
  <1>1. ASSUME NEW q \in Rows, NEW mode \in {"normal", "swipe"},
               NEW branched \in BOOLEAN, NEW near \in BOOLEAN,
               NEW ahead \in BOOLEAN, Commit(q, mode, branched, near, ahead)
        PROVE  IInv'
    BY <1>1, CommitStep
  <1>2. ASSUME NEW q \in Rows, DispatchRequest(q)
        PROVE  IInv'
    BY <1>2, ClaimStep DEF DispatchRequest, Serving, Alive
  <1>3. ASSUME NEW q \in Rows, SweepClaims(q)
        PROVE  IInv'
    BY <1>3, ClaimStep DEF SweepClaims, Alive
  <1>4. ASSUME NEW q \in Rows, StartSucceeds(q)
        PROVE  IInv'
    BY <1>4, StartSucceedsStep
  <1>5. ASSUME NEW q \in Rows, StartFails(q)
        PROVE  IInv'
    BY <1>5, StartFailsStep
  <1>6. ASSUME NEW q \in Rows, SaveOutput(q)
        PROVE  IInv'
    BY <1>6, SaveOutputStep
  <1>7. ASSUME NEW q \in Rows, EndGeneration(q)
        PROVE  IInv'
    BY <1>7 DEF EndGeneration, IInv, TypeOK, RowInv, Running, durable, history
  <1>8. ASSUME NEW q \in Rows, OtherMessage(q)
        PROVE  IInv'
    <2>1. /\ UNCHANGED <<row, advanced, output, server, call, gen,
                         starts, crashes>>
          /\ recent' = [r \in Rows |-> recent[r] \/ r \in SameChat(q)]
      BY <1>8 DEF OtherMessage, AssistantMessageIn, memory, history
    <2> QED  BY <2>1 DEF IInv, TypeOK, RowInv
  <1>9. ASSUME NEW q \in Rows, TargetEdited(q)
        PROVE  IInv'
    BY <1>9 DEF TargetEdited, IInv, TypeOK, RowInv, memory, history
  <1>10. ASSUME NEW q \in Rows, Cancel(q)
         PROVE  IInv'
    BY <1>10, CancelStep
  <1>11. ASSUME NEW q \in Rows, LeaseExpires(q)
         PROVE  IInv'
    BY <1>11, LeaseExpiresStep
  <1>12. ASSUME NEW q \in Rows, WindowPasses(q)
         PROVE  IInv'
    BY <1>12 DEF WindowPasses, IInv, TypeOK, RowInv, memory, history
  <1>13. CASE SweepEnds
    BY <1>13 DEF SweepEnds, IInv, TypeOK, RowInv, durable, history
  <1>14. CASE Tick
    BY <1>14, TickStep
  <1>15. CASE Crash
    BY <1>15, GenerationOutboxAssumption
    DEF Crash, IInv, TypeOK, RowInv, durable
  <1>16. CASE Restart
    BY <1>16, RestartStep
  <1>17. CASE UNCHANGED vars
    BY <1>17 DEF vars, IInv, TypeOK, RowInv
  <1>18. ASSUME NEW q \in Rows, PoolSweep(q)
         PROVE  IInv'
    BY <1>18 DEF PoolSweep, IInv, TypeOK, RowInv, Active, durable, history
  <1> QED
    BY <1>1, <1>2, <1>3, <1>4, <1>5, <1>6, <1>7, <1>8, <1>9, <1>10, <1>11,
       <1>12, <1>13, <1>14, <1>15, <1>16, <1>17, <1>18
    DEF Next

\* Every reachable state satisfies the inductive invariant.
THEOREM Invariance == Spec => []IInv
  <1> QED  BY InitInv, NextInv, PTL DEF Spec

\* The rows, the messages' evidence and the process state keep their types,
\* and no row is claimed more than once.
THEOREM TypeCorrect == Spec => []TypeOK
  <1>1. IInv => TypeOK
    BY DEF IInv
  <1> QED  BY <1>1, Invariance, PTL

\* startGeneration is called at most once for a committed edit, whatever
\* POSTs, replays, ticks, crashes and restarts come together.
THEOREM StartedOnce == Spec => []AtMostOneStart
  <1>1. IInv => AtMostOneStart
    <2> SUFFICES ASSUME IInv, NEW r \in Rows
                 PROVE  starts[r] <= 1
      BY DEF AtMostOneStart
    <2>1. starts[r] \in Nat /\ row[r].attempts \in 0 .. 1
      BY RowsTyped DEF IInv
    <2>2. starts[r] <= row[r].attempts
      BY DEF IInv, RowInv
    <2> QED  BY <2>1, <2>2
  <1> QED  BY <1>1, Invariance, PTL

\* A generation running behind a failed row is one whose lease ran out first.
THEOREM FailedBehind == Spec => []LiveBehindFailed
  <1>1. IInv => LiveBehindFailed
    BY DEF IInv, RowInv, LiveBehindFailed, Active
  <1> QED  BY <1>1, Invariance, PTL

-----------------------------------------------------------------------------
(* Verdicts are final.                                                     *)

Verdict(r) ==
    /\ row[r].status = "completed" => row'[r] = row[r]
    /\ row[r].status \in {"failed", "cancelled"}
          => row'[r].status \in {"failed", "cancelled"}

\* Only a row that is claimable, awaited or cancellable is written to.
LEMMA VerdictStep ==
    ASSUME IInv, [Next]_vars, NEW r \in Rows
    PROVE  Verdict(r)
  <1>1. row[r] \in GenerationOutboxRow /\ row \in [Rows -> GenerationOutboxRow]
    BY RowsTyped DEF IInv, TypeOK
  <1>2. SUFFICES ASSUME row[r].status \in Terminal
                 PROVE  Verdict(r)
    BY DEF Verdict, Terminal
  <1>3. ASSUME row'[r] = row[r]
        PROVE  Verdict(r)
    BY <1>3 DEF Verdict
  <1>4. ASSUME row'[r].status = "failed", row[r].status # "completed"
        PROVE  Verdict(r)
    BY <1>4 DEF Verdict
  <1>5. ASSUME NEW q \in Rows, NEW caller \in {"post", "sweep"},
               ClaimAndStart(q, caller)
        PROVE  Verdict(r)
    <2>1. q # r
      BY <1>2, <1>5 DEF ClaimAndStart, Claimable, Undispatched, Terminal
    <2>2. row'[r] = row[r]
      BY <1>1, <1>5, <2>1 DEF ClaimAndStart
    <2> QED  BY <2>2, <1>3
  <1>6. ASSUME NEW q \in Rows, NEW mode \in {"normal", "swipe"},
               NEW branched \in BOOLEAN, NEW near \in BOOLEAN,
               NEW ahead \in BOOLEAN, Commit(q, mode, branched, near, ahead)
        PROVE  Verdict(r)
    <2>1. q # r
      BY <1>2, <1>6 DEF Commit, Terminal
    <2>2. row'[r] = row[r]
      BY <1>1, <1>6, <2>1 DEF Commit
    <2> QED  BY <2>2, <1>3
  <1>7. ASSUME NEW q \in Rows, StartSucceeds(q)
        PROVE  Verdict(r)
    <2>1. Dispatched(row[q]) = row[q] \/ q # r
      BY <1>1, <1>2, DispatchedRow DEF Terminal
    <2>2. row'[r] = row[r]
      BY <1>1, <1>7, <2>1 DEF StartSucceeds
    <2> QED  BY <2>2, <1>3
  <1>8. ASSUME NEW q \in Rows, StartFails(q)
        PROVE  Verdict(r)
    <2>1. CASE q = r
      <3>1. row[r].status # "completed"
        BY <1>8, <2>1 DEF IInv, RowInv, StartFails
      <3>2. row'[r] = Failed(row[r], "dispatch_failed")
        BY <1>1, <1>8, <2>1 DEF StartFails
      <3>3. row'[r].status = "failed"
        BY <1>1, <3>2, FailedRow DEF Reasons
      <3> QED  BY <3>1, <3>3, <1>4
    <2>2. CASE q # r
      <3>1. row'[r] = row[r]
        BY <1>1, <1>8, <2>2 DEF StartFails
      <3> QED  BY <3>1, <1>3
    <2> QED  BY <2>1, <2>2
  <1>9. ASSUME NEW q \in Rows, Cancel(q)
        PROVE  Verdict(r)
    <2>1. CASE q = r
      <3>1. /\ row[r].status # "completed"
            /\ row'[r] = [row[r] EXCEPT !.status = "cancelled",
                                        !.lease = "none",
                                        !.reason = "cancelled"]
        BY <1>1, <1>9, <2>1 DEF Cancel
      <3>2. row'[r].status = "cancelled"
        BY <1>1, <3>1 DEF GenerationOutboxRow
      <3> QED  BY <3>1, <3>2 DEF Verdict
    <2>2. CASE q # r
      <3>1. row'[r] = row[r]
        BY <1>1, <1>9, <2>2 DEF Cancel
      <3> QED  BY <3>1, <1>3
    <2> QED  BY <2>1, <2>2
  <1>10. ASSUME NEW q \in Rows, LeaseExpires(q)
         PROVE  Verdict(r)
    <2>1. q # r
      BY <1>2, <1>10 DEF LeaseExpires, IInv, RowInv
    <2>2. row'[r] = row[r]
      BY <1>1, <1>10, <2>1 DEF LeaseExpires
    <2> QED  BY <2>2, <1>3
  <1>11. ASSUME NEW active \in BOOLEAN
         PROVE  Reconciled(r, row[r], active) = row[r]
    BY <1>1, <1>2, ReconciledRow DEF Undispatched, Terminal
  <1>12. CASE Tick
    <2>1. Active(r) \in BOOLEAN
      BY DEF Active
    <2>2. row'[r] = Reconciled(r, row[r], Active(r))
      BY <1>12 DEF Tick
    <2> QED  BY <2>1, <2>2, <1>3, <1>11
  <1>13. CASE Restart
    <2>1. Recovered(r, row[r]) = row[r]
      BY <1>1, <1>2, RecoveredRow DEF Undispatched, Terminal
    <2>2. row'[r] = Reconciled(r, Recovered(r, row[r]), FALSE)
      BY <1>13 DEF Restart
    <2> QED  BY <2>1, <2>2, <1>3, <1>11
  <1>14. CASE UNCHANGED row
    BY <1>14, <1>3
  <1>15. ASSUME NEW q \in Rows,
                \/ SaveOutput(q) \/ EndGeneration(q) \/ PoolSweep(q)
                \/ OtherMessage(q) \/ TargetEdited(q) \/ WindowPasses(q)
         PROVE  UNCHANGED row
    BY <1>15
    DEF SaveOutput, EndGeneration, PoolSweep, OtherMessage, TargetEdited,
        WindowPasses
  <1>16. SweepEnds \/ Crash \/ UNCHANGED vars => UNCHANGED row
    BY DEF SweepEnds, Crash, vars
  <1> QED
    BY <1>5, <1>6, <1>7, <1>8, <1>9, <1>10, <1>12, <1>13, <1>14, <1>15, <1>16
    DEF Next, DispatchRequest, SweepClaims

\* No verdict is taken back: completed rows never change, failed and
\* cancelled ones are never claimed, run or completed again.
THEOREM Finality == Spec => VerdictsAreFinal
  <1>1. IInv /\ [Next]_vars =>
           [\A r \in Rows :
               /\ row[r].status = "completed" => row'[r] = row[r]
               /\ row[r].status \in {"failed", "cancelled"}
                     => row'[r].status \in {"failed", "cancelled"}]_vars
    BY VerdictStep DEF Verdict
  <1> QED  BY <1>1, Invariance, PTL DEF Spec, VerdictsAreFinal

-----------------------------------------------------------------------------
(* Saved replies are not failed.                                           *)

Kept(r) ==
    /\ row[r].mode = "normal" /\ row[r].dispatched /\ output[r]
    /\ row[r].status # "failed"
    => row'[r].status # "failed"

\* Only a reconciliation or a recovery of a running row could fail a
\* dispatched one, and it finds the reply in the window.
LEMMA KeptStep ==
    ASSUME IInv, [Next]_vars, NEW r \in Rows
    PROVE  Kept(r)
  <1>1. row[r] \in GenerationOutboxRow /\ row \in [Rows -> GenerationOutboxRow]
    BY RowsTyped DEF IInv, TypeOK
  <1>2. SUFFICES ASSUME row[r].mode = "normal", row[r].dispatched, output[r],
                        row[r].status # "failed"
                 PROVE  row'[r].status # "failed"
    BY DEF Kept
  <1>3. /\ row[r].attempts = 1
        /\ call[r] = "none"
        /\ row[r].status \notin {"absent", "pending"}
        /\ row[r].status = "running" => recent[r]
    BY <1>2 DEF IInv, RowInv
  <1>4. ASSUME row'[r] = row[r]
        PROVE  row'[r].status # "failed"
    BY <1>2, <1>4
  <1>5. ASSUME NEW q \in Rows, NEW caller \in {"post", "sweep"},
               ClaimAndStart(q, caller)
        PROVE  row'[r] = row[r]
    <2>1. q # r
      BY <1>3, <1>5 DEF ClaimAndStart, Claimable, MAX_ATTEMPTS
    <2> QED  BY <1>1, <1>5, <2>1 DEF ClaimAndStart
  <1>6. ASSUME NEW q \in Rows, NEW mode \in {"normal", "swipe"},
               NEW branched \in BOOLEAN, NEW near \in BOOLEAN,
               NEW ahead \in BOOLEAN, Commit(q, mode, branched, near, ahead)
        PROVE  row'[r] = row[r]
    BY <1>1, <1>3, <1>6 DEF Commit
  <1>7. ASSUME NEW q \in Rows, StartSucceeds(q) \/ StartFails(q)
        PROVE  row'[r] = row[r]
    BY <1>1, <1>3, <1>7 DEF StartSucceeds, StartFails
  <1>8. ASSUME NEW q \in Rows, Cancel(q)
        PROVE  row'[r].status # "failed"
    <2>1. CASE q = r
      <3>1. row'[r] = [row[r] EXCEPT !.status = "cancelled", !.lease = "none",
                                     !.reason = "cancelled"]
        BY <1>1, <1>8, <2>1 DEF Cancel
      <3> QED  BY <1>1, <3>1 DEF GenerationOutboxRow
    <2>2. CASE q # r
      <3>1. row'[r] = row[r]
        BY <1>1, <1>8, <2>2 DEF Cancel
      <3> QED  BY <3>1, <1>4
    <2> QED  BY <2>1, <2>2
  <1>9. ASSUME NEW q \in Rows, LeaseExpires(q)
        PROVE  row'[r] = row[r]
    BY <1>1, <1>2, <1>9 DEF LeaseExpires
  <1>10. /\ Resolved(r, row[r]).status \in {"completed", "failed"}
         /\ row[r].status = "running" => Resolved(r, row[r]).status = "completed"
    BY <1>1, <1>2, <1>3, ResolvedRow
  <1>11. ASSUME NEW active \in BOOLEAN
         PROVE  \/ Reconciled(r, row[r], active) = row[r]
                \/ Reconciled(r, row[r], active).status = "completed"
    BY <1>1, <1>2, <1>3, <1>10, ReconciledRow DEF Undispatched
  <1>12. CASE Tick
    <2>1. row'[r] = Reconciled(r, row[r], Active(r)) /\ Active(r) \in BOOLEAN
      BY <1>12 DEF Tick, Active
    <2> QED  BY <1>2, <1>11, <2>1
  <1>13. CASE Restart
    <2>1. row'[r] = Reconciled(r, Recovered(r, row[r]), FALSE)
      BY <1>13 DEF Restart
    <2> DEFINE u == Recovered(r, row[r])
    <2>2. /\ u \in GenerationOutboxRow
          /\ u = row[r] \/ u.status = "completed"
      BY <1>1, <1>2, <1>3, <1>10, RecoveredRow DEF Undispatched
    <2> HIDE DEF u
    <2>3. CASE u = row[r]
      BY <1>2, <1>11, <2>1, <2>3 DEF u
    <2>4. CASE u.status = "completed"
      <3>1. Reconciled(r, u, FALSE) = u
        BY <2>2, <2>4, ReconciledRow DEF Undispatched
      <3> QED  BY <2>1, <2>4, <3>1 DEF u
    <2> QED  BY <2>2, <2>3, <2>4
  <1>14. ASSUME NEW q \in Rows,
                \/ SaveOutput(q) \/ EndGeneration(q) \/ PoolSweep(q)
                \/ OtherMessage(q) \/ TargetEdited(q) \/ WindowPasses(q)
         PROVE  row'[r] = row[r]
    BY <1>14
    DEF SaveOutput, EndGeneration, PoolSweep, OtherMessage, TargetEdited,
        WindowPasses
  <1>15. SweepEnds \/ Crash \/ UNCHANGED vars => row'[r] = row[r]
    BY DEF SweepEnds, Crash, vars
  <1> QED
    BY <1>4, <1>5, <1>6, <1>7, <1>8, <1>9, <1>12, <1>13, <1>14, <1>15
    DEF Next, DispatchRequest, SweepClaims

\* Once the reply of a dispatched normal-mode row is in the chat, no tick and
\* no recovery turns the row to failed.
THEOREM OutputKept == Spec => NormalOutputKept
  <1>1. IInv /\ [Next]_vars =>
           [\A r \in Rows :
               /\ row[r].mode = "normal" /\ row[r].dispatched /\ output[r]
               /\ row[r].status # "failed"
               => row'[r].status # "failed"]_vars
    BY KeptStep DEF Kept
  <1> QED  BY <1>1, Invariance, PTL DEF Spec, NormalOutputKept
=============================================================================
