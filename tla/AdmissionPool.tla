---------------------------- MODULE AdmissionPool ----------------------------
(***************************************************************************)
(* What an admission pool for one piece of inference hardware promises,    *)
(* with everything the scheduler decides by itself left open: who waits,   *)
(* who is served, and a limit that may move.  After every step the pool is *)
(* filled as far as the limit allows; WHICH waiters are admitted, why the  *)
(* limit moved and who was asked to leave early is not said here.          *)
(*                                                                         *)
(* InferenceScheduler implements this specification.                       *)
(***************************************************************************)
EXTENDS Naturals, FiniteSets

CONSTANTS Requests,     \* identities of the requests
          Limits        \* the values the limit may take

VARIABLES queued,       \* requests waiting for a slot
          running,      \* requests that hold a slot
          limit         \* how many slots may be handed out

vars == <<queued, running, limit>>

Smaller(a, b) == IF a <= b THEN a ELSE b

Room(n, busy) == IF busy < n THEN n - busy ELSE 0

\* From the sets w and r, admit as many as fit under the new limit.
Fill(w, r) ==
    \E G \in SUBSET w :
        /\ Cardinality(G) = Smaller(Cardinality(w),
                                    Room(limit', Cardinality(r)))
        /\ queued' = w \ G
        /\ running' = r \cup G

Init ==
    /\ queued = {}
    /\ running = {}
    /\ limit \in Limits

Arrive(r) ==
    /\ r \notin queued \cup running
    /\ Fill(queued \cup {r}, running)

Withdraw(r) ==
    /\ r \in queued
    /\ Fill(queued \ {r}, running)

Finish(r) ==
    /\ r \in running
    /\ Fill(queued, running \ {r})

Refill == Fill(queued, running)

Next ==
    /\ limit' \in Limits
    /\ \/ \E r \in Requests : Arrive(r) \/ Withdraw(r) \/ Finish(r)
       \/ Refill

Spec == Init /\ [][Next]_vars
=============================================================================
