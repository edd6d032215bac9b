---------------------------- MODULE ChatGenerations ----------------------------
(***************************************************************************)
(* The generations of one chat: startGeneration takes the chat over from   *)
(* the generation that owns it, runGeneration goes through admission,      *)
(* stream and inline tools, and every way out has to release the registry  *)
(* and settle the entry of the pool.  Users, the inactivity sweep and the  *)
(* sweep of the pool interfere at any await.                               *)
(*                                                                         *)
(* A call of startGeneration is a generation id: ids are random, and the   *)
(* outbox starts an id of its own once (GenerationOutbox).  The code       *)
(* between two awaits is one action.  Time is left open: ten or sixty      *)
(* minutes, or the two seconds of a takeover, may pass at any step.        *)
(***************************************************************************)
EXTENDS Naturals, FiniteSets

CONSTANTS Calls,      \* calls of startGeneration for the chat
          NoCall,
          MaxRounds   \* INLINE_TOOL_MAX_ROUNDS

ASSUME ChatGenerationsAssumption ==
    /\ NoCall \notin Calls
    /\ MaxRounds \in Nat \ {0}

VARIABLES
    phase,      \* the await a call is at
    aborted,    \* its controller's signal is aborted
    replaced,   \* the generation whose teardown it awaits
    registered, \* activeGenerations
    owner,      \* activeChatGenerations for the chat
    waiting,    \* entry.waitingForInference
    idle,       \* what a call was at when ten minutes passed without a token
    round,      \* inlineRound
    pool,       \* status of its pool entry; the live ones are "running"
    chatIndex,  \* the pool entry shown for the chat
    contended   \* history: a start came while another awaited a teardown

vars == <<phase, aborted, replaced, registered, owner, waiting, idle, round,
          pool, chatIndex, contended>>
registry == <<registered, owner, waiting, idle>>
poolVars == <<pool, chatIndex>>

Setup == {"setup", "prepared"}
Running == {"assembling", "queued", "streaming", "tools", "saving",
            "stopping", "failing", "closing"}
Ended == {"completed", "stopped", "error"}
Phases == {"new", "teardown"} \cup Setup \cup Running \cup Ended

Started(c) == phase[c] \in Setup \cup Running
Live(c) == Started(c) /\ ~aborted[c]

\* Mutant: the chat is not released.
ReleasedNever(c) == owner

\* Mutant: the id that ends is not compared with the owner.
ReleasedUnchecked(c) == NoCall

\* clearActiveChatGeneration(..., c), clearActiveChatGenerationById(c)
Released(c) == IF owner = c THEN NoCall ELSE owner

\* The call ends: removeActiveGeneration(c), and the chat if c owns it.  Its
\* controller, its entry and its locals are gone.
Leave(c) ==
    /\ registered' = registered \ {c}
    /\ owner' = Released(c)
    /\ aborted' = [aborted EXCEPT ![c] = FALSE]
    /\ waiting' = [waiting EXCEPT ![c] = FALSE]
    /\ idle' = [idle EXCEPT ![c] = "fresh"]
    /\ round' = [round EXCEPT ![c] = 0]

Reported(c, status) ==
    IF pool[c] = "absent" THEN pool ELSE [pool EXCEPT ![c] = status]

\* The call is over: the pool is told, and registry and chat are released in
\* the same turn.
Finish(c, status) ==
    /\ phase' = [phase EXCEPT ![c] = status]
    /\ pool' = Reported(c, status)
    /\ Leave(c)
    /\ UNCHANGED <<replaced, chatIndex, contended>>

GoTo(c, next) ==
    /\ phase' = [phase EXCEPT ![c] = next]
    /\ UNCHANGED <<aborted, replaced, registry, round, poolVars, contended>>

-----------------------------------------------------------------------------
Init ==
    /\ phase = [c \in Calls |-> "new"]
    /\ aborted = [c \in Calls |-> FALSE]
    /\ replaced = [c \in Calls |-> NoCall]
    /\ registered = {}
    /\ owner = NoCall
    /\ waiting = [c \in Calls |-> FALSE]
    /\ idle = [c \in Calls |-> "fresh"]
    /\ round = [c \in Calls |-> 0]
    /\ pool = [c \in Calls |-> "absent"]
    /\ chatIndex = NoCall
    /\ contended = FALSE

\* What startGeneration does once the old generation is torn down, or was
\* given up: it drops the old one, registers itself and owns the chat.
TakeOver(c, old) ==
    /\ registered' = (registered \ {old}) \cup {c}
    /\ owner' = c
    /\ phase' = [phase EXCEPT ![c] = "setup"]

\* The context check or the staging of a swipe throws in the same turn.
TakeOverFails(c, old) ==
    /\ registered' = registered \ {old}
    /\ owner' = NoCall
    /\ phase' = [phase EXCEPT ![c] = "error"]

\* Mutant: the old generation is not told to stop.
AbortOwnerNever(c) == UNCHANGED aborted

AbortOwner(c) == aborted' = [aborted EXCEPT ![owner] = TRUE]

\* A start; a background swipe is refused if the chat has a generation.
Start(c, backgroundSwipe) ==
    /\ phase[c] = "new"
    /\ backgroundSwipe => owner = NoCall
    /\ \/ /\ owner \in registered
          /\ AbortOwner(c)
          /\ phase' = [phase EXCEPT ![c] = "teardown"]
          /\ replaced' = [replaced EXCEPT ![c] = owner]
          /\ UNCHANGED <<registered, owner>>
       \/ /\ owner \notin registered
          /\ TakeOver(c, owner) \/ TakeOverFails(c, owner)
          /\ UNCHANGED <<aborted, replaced>>
    /\ contended' = (contended \/ \E d \in Calls : phase[d] = "teardown")
    /\ UNCHANGED <<waiting, idle, round, poolVars>>

\* existing.completion is resolved, or two seconds have passed.
TeardownEnds(c) ==
    /\ phase[c] = "teardown"
    /\ TakeOver(c, replaced[c]) \/ TakeOverFails(c, replaced[c])
    /\ replaced' = [replaced EXCEPT ![c] = NoCall]
    /\ UNCHANGED <<aborted, waiting, idle, round, poolVars, contended>>

\* abortChatBackground has returned; checkAborted.
SetupGoesOn(c) ==
    /\ phase[c] = "setup"
    /\ \/ ~aborted[c] /\ GoTo(c, "prepared")
       \/ aborted[c] /\ Finish(c, "error")

SetupFails(c) ==
    /\ phase[c] \in Setup
    /\ Finish(c, "error")

\* createPoolEntry, after awaits that nobody checks for an abort.
EntryCreated(c) ==
    /\ phase[c] = "prepared"
    /\ phase' = [phase EXCEPT ![c] = "assembling"]
    /\ pool' = [pool EXCEPT ![c] = "running"]
    /\ chatIndex' = c
    /\ UNCHANGED <<aborted, replaced, registry, round, contended>>

\* A round asks for its lease.
EntersQueue(c) ==
    /\ phase' = [phase EXCEPT ![c] = "queued"]
    /\ waiting' = [waiting EXCEPT ![c] = c \in registered]

\* Council and assembly are over; runGeneration starts and asks for a lease.
\* setPoolStatus revives an entry the sweep has written off.
AssemblyEnds(c) ==
    /\ phase[c] = "assembling"
    /\ \/ /\ ~aborted[c]
          /\ EntersQueue(c)
          /\ round' = [round EXCEPT ![c] = 1]
          /\ pool' = Reported(c, "running")
          /\ UNCHANGED <<aborted, replaced, registered, owner, idle, chatIndex,
                         contended>>
       \/ /\ aborted[c]
          /\ Finish(c, "stopped")

\* An error, or an extension cancels.
AssemblyFails(c) ==
    /\ phase[c] = "assembling"
    /\ \E status \in IF aborted[c] THEN {"stopped"} ELSE {"stopped", "error"} :
          Finish(c, status)

\* Mutant: the flag stays set.
LeavesQueueMarked(c) == UNCHANGED <<waiting, idle>>

\* Mutant: the time spent in the queue counts as inactivity.
LeavesQueueStale(c) ==
    /\ waiting' = [waiting EXCEPT ![c] = FALSE]
    /\ UNCHANGED idle

\* setActiveGenerationWaitingForInference(c, false)
LeavesQueue(c) ==
    /\ waiting' = [waiting EXCEPT ![c] = FALSE]
    /\ idle' = IF waiting[c] THEN [idle EXCEPT ![c] = "fresh"] ELSE idle

Admitted(c) ==
    /\ phase[c] = "queued"
    /\ ~aborted[c]
    /\ LeavesQueue(c)
    /\ phase' = [phase EXCEPT ![c] = "streaming"]
    /\ UNCHANGED <<aborted, replaced, registered, owner, round, poolVars, contended>>

Caught(c) == IF aborted[c] THEN "stopping" ELSE "failing"

\* The lease is refused: the signal is aborted, or the queue timed out.
NotAdmitted(c) ==
    /\ phase[c] = "queued"
    /\ LeavesQueue(c)
    /\ phase' = [phase EXCEPT ![c] = Caught(c)]
    /\ UNCHANGED <<aborted, replaced, registered, owner, round, poolVars, contended>>

\* A token arrives: touchActiveGeneration and appendPool.
Token(c) ==
    /\ phase[c] = "streaming"
    /\ ~aborted[c]
    /\ idle' = [idle EXCEPT ![c] = "fresh"]
    /\ UNCHANGED <<phase, aborted, replaced, registered, owner, waiting, round,
                   poolVars, contended>>

\* The stream ends, throws, or is given up on an abort.
StreamEnds(c) ==
    /\ phase[c] = "streaming"
    /\ \/ aborted[c] /\ GoTo(c, "stopping")
       \/ ~aborted[c] /\ \E next \in {"tools", "saving", "failing"} : GoTo(c, next)

\* Mutant: one round too many.
ToolsReturnOneMore(c) ==
    /\ phase[c] = "tools"
    /\ EntersQueue(c)
    /\ round' = [round EXCEPT ![c] = @ + 1]
    /\ UNCHANGED <<aborted, replaced, registered, owner, idle, poolVars, contended>>

\* The tools of a round have run: another round, or the last one is over.
ToolsReturn(c) ==
    /\ phase[c] = "tools"
    /\ \/ /\ round[c] < MaxRounds
          /\ EntersQueue(c)
          /\ round' = [round EXCEPT ![c] = @ + 1]
          /\ UNCHANGED <<aborted, replaced, registered, owner, idle, poolVars,
                         contended>>
       \/ /\ round[c] = MaxRounds
          /\ GoTo(c, IF aborted[c] THEN "stopping" ELSE "saving")
       \/ GoTo(c, Caught(c))

\* The reply is stored and completePool called; an abort comes too late.
SaveEnds(c) ==
    /\ phase[c] = "saving"
    /\ Finish(c, "completed")

SaveThrows(c) ==
    /\ phase[c] = "saving"
    /\ GoTo(c, Caught(c))

\* The partial reply is stored and the end reported; the stream may still have
\* to be closed.
Reports(c) ==
    \/ /\ phase[c] = "stopping"
       /\ \/ Finish(c, "stopped")
          \/ /\ phase' = [phase EXCEPT ![c] = "closing"]
             /\ pool' = Reported(c, "stopped")
             /\ UNCHANGED <<aborted, replaced, registry, round, chatIndex, contended>>
    \/ phase[c] = "failing" /\ Finish(c, "error")

StreamCloses(c) ==
    /\ phase[c] = "closing"
    /\ phase' = [phase EXCEPT ![c] = "stopped"]
    /\ Leave(c)
    /\ UNCHANGED <<replaced, poolVars, contended>>

-----------------------------------------------------------------------------
(* What interferes                                                         *)

Abort(C) == aborted' = [c \in Calls |-> aborted[c] \/ c \in C]

\* POST /stop with an id: the generation, or else the one the chat has.
Stop(c) ==
    /\ phase[c] # "new"
    /\ Abort(IF c \in registered THEN {c} ELSE {owner} \cap registered)
    /\ UNCHANGED <<phase, replaced, registry, round, poolVars, contended>>

TenMinutesPass(c) ==
    /\ c \in registered
    /\ idle[c] = "fresh"
    /\ idle' = [idle EXCEPT ![c] = IF waiting[c] THEN "queue" ELSE "work"]
    /\ UNCHANGED <<phase, aborted, replaced, registered, owner, waiting, round,
                   poolVars, contended>>

Inactive == {c \in registered : ~waiting[c] /\ idle[c] # "fresh"}

SweepInactive ==
    /\ Inactive # {}
    /\ Abort(Inactive)
    /\ UNCHANGED <<phase, replaced, registry, round, poolVars, contended>>

StaleEntry(c) == pool[c] = "running"

\* Sixty minutes without activity: errorPool.
PoolSweep(c) ==
    /\ StaleEntry(c)
    /\ pool' = [pool EXCEPT ![c] = "error"]
    /\ UNCHANGED <<phase, aborted, replaced, registry, round, chatIndex, contended>>

Removed(C) ==
    /\ pool' = [c \in Calls |-> IF c \in C THEN "absent" ELSE pool[c]]
    /\ chatIndex' = IF chatIndex \in C THEN NoCall ELSE chatIndex
    /\ UNCHANGED <<phase, aborted, replaced, registry, round, contended>>

\* Six hours, or 200 newer terminal entries.
PoolExpires(c) ==
    /\ pool[c] \in Ended
    /\ Removed({c})

\* The user opens the chat.
AcknowledgeChat ==
    /\ chatIndex # NoCall => pool[chatIndex] # "running"
    /\ Removed({c \in Calls : pool[c] \in Ended})

CallStep(c) ==
    \/ TeardownEnds(c) \/ SetupGoesOn(c) \/ SetupFails(c) \/ EntryCreated(c)
    \/ AssemblyEnds(c) \/ AssemblyFails(c)
    \/ Admitted(c) \/ NotAdmitted(c)
    \/ ToolsReturn(c) \/ SaveEnds(c) \/ SaveThrows(c)
    \/ Reports(c) \/ StreamCloses(c)

Next ==
    \/ \E c \in Calls :
          \/ \E backgroundSwipe \in BOOLEAN : Start(c, backgroundSwipe)
          \/ CallStep(c)
          \/ Token(c) \/ StreamEnds(c)
          \/ Stop(c) \/ TenMinutesPass(c) \/ PoolSweep(c) \/ PoolExpires(c)
    \/ SweepInactive
    \/ AcknowledgeChat

Spec == Init /\ [][Next]_vars

\* Awaits return (they have timeouts, and the scheduler serves interactive
\* requests), but a provider's stream may hang: only an abort is sure to end
\* it.  The inactivity sweep keeps running.
Fairness ==
    /\ \A c \in Calls :
          /\ WF_vars(CallStep(c))
          /\ WF_vars(aborted[c] /\ StreamEnds(c))
          /\ WF_vars(TenMinutesPass(c))
    /\ WF_vars(SweepInactive)

FairSpec == Spec /\ Fairness

-----------------------------------------------------------------------------
\* Every variable has its type.
TypeOK ==
    /\ phase \in [Calls -> Phases]
    /\ aborted \in [Calls -> BOOLEAN]
    /\ replaced \in [Calls -> Calls \cup {NoCall}]
    /\ registered \subseteq Calls
    /\ owner \in Calls \cup {NoCall}
    /\ waiting \in [Calls -> BOOLEAN]
    /\ idle \in [Calls -> {"fresh", "queue", "work"}]
    /\ round \in [Calls -> 0..MaxRounds]
    /\ pool \in [Calls -> {"absent", "running"} \cup Ended]
    /\ chatIndex \in Calls \cup {NoCall}
    /\ contended \in BOOLEAN

\* A generation that nobody has stopped can be stopped and swept, and the chat
\* is owned by a generation that is registered and not over: no end, take-over
\* or failed set-up of another one makes it unreachable, and none leaves a lock
\* behind that would refuse every background swipe and stop nothing.
RegistryTracksLive ==
    /\ \A c \in Calls : Live(c) => c \in registered
    /\ owner # NoCall => owner \in registered /\ Started(owner)

\* As long as no start came while another awaited a teardown, the only
\* generation that runs untold to stop is the one Stop would find.
OneLiveUncontended ==
    ~contended => \A c \in Calls : Live(c) => owner = c

\* A generation keeps the chat until it is over itself or a later start takes
\* it: the end of one that was replaced does not free the chat.
SuccessorKeepsChat ==
    [][\A c \in Calls : (owner = c /\ owner' # c) =>
          \/ phase'[c] \in Ended
          \/ \E d \in Calls \ {c} : phase[d] \in {"new", "teardown"}
                                    /\ phase'[d] # phase[d]]_vars

\* The sweep aborts nothing for the time it had to wait for a slot, neither
\* while it waits nor right after it was admitted.
SweptForInactivity ==
    [][\A c \in Inactive : SweepInactive => idle[c] = "work"]_vars

\* Every generation that has started ends, unless tokens keep coming: a hung
\* stream is aborted by the sweep.
EveryCallEnds ==
    \A c \in Calls :
        \/ []<><<Token(c)>>_vars
        \/ phase[c] # "new" ~> phase[c] \in Ended
=============================================================================
