------------------------ MODULE ChatGenerationsProofs ------------------------
(***************************************************************************)
(* Theorems about ChatGenerations, for every number of calls and rounds.   *)
(***************************************************************************)
EXTENDS ChatGenerations, TLAPS

-----------------------------------------------------------------------------
(* Types *)

\* Initially every variable has its type.
LEMMA InitTyped == Init => TypeOK
<1> SUFFICES ASSUME Init
             PROVE  TypeOK
  OBVIOUS
<1>1. round \in [Calls -> 0..MaxRounds]
  BY ChatGenerationsAssumption DEF ChatGenerationsAssumption, Init
<1> QED
  BY <1>1 DEF Init, TypeOK, Phases

\* Every way out leaves the registry and the locals of a call typed.
LEMMA LeaveTyped ==
    ASSUME TypeOK, NEW c \in Calls, Leave(c)
    PROVE  /\ registered' \subseteq Calls
           /\ owner' \in Calls \cup {NoCall}
           /\ aborted' \in [Calls -> BOOLEAN]
           /\ waiting' \in [Calls -> BOOLEAN]
           /\ idle' \in [Calls -> {"fresh", "queue", "work"}]
           /\ round' \in [Calls -> 0..MaxRounds]
  BY ChatGenerationsAssumption DEF ChatGenerationsAssumption, TypeOK, Leave, Released

\* A call that ends leaves every variable typed.
LEMMA FinishTyped ==
    ASSUME TypeOK, NEW c \in Calls, NEW status \in Ended, Finish(c, status)
    PROVE  TypeOK'
<1>1. Leave(c)
  BY DEF Finish
<1>2. phase' \in [Calls -> Phases] /\ pool' \in [Calls -> {"absent", "running"} \cup Ended]
  BY DEF TypeOK, Finish, Reported, Phases
<1> QED
  BY <1>1, <1>2, LeaveTyped DEF TypeOK, Finish

\* A call that goes on to its next await leaves every variable typed.
LEMMA GoToTyped ==
    ASSUME TypeOK, NEW c \in Calls, NEW next \in Phases, GoTo(c, next)
    PROVE  TypeOK'
  BY DEF TypeOK, GoTo, registry, poolVars

\* No step takes a variable out of its type.
LEMMA StepTyped == TypeOK /\ [Next]_vars => TypeOK'
<1> SUFFICES ASSUME TypeOK, [Next]_vars
             PROVE  TypeOK'
  OBVIOUS
<1>1. ASSUME NEW c \in Calls, NEW b \in BOOLEAN, Start(c, b)
      PROVE  TypeOK'
  <2>1. /\ UNCHANGED <<waiting, idle, round, poolVars>>
    BY <1>1 DEF Start
  <2>2. /\ phase' \in [Calls -> Phases]
        /\ registered' \subseteq Calls /\ owner' \in Calls \cup {NoCall}
    BY <1>1 DEF TypeOK, Start, TakeOver, TakeOverFails, Phases, Setup, Ended
  <2>3. /\ aborted' \in [Calls -> BOOLEAN]
        /\ replaced' \in [Calls -> Calls \cup {NoCall}]
    <3>1. CASE UNCHANGED <<aborted, replaced>>
      BY <3>1 DEF TypeOK
    <3>2. CASE /\ owner \in registered
               /\ aborted' = [aborted EXCEPT ![owner] = TRUE]
               /\ replaced' = [replaced EXCEPT ![c] = owner]
      BY <3>2 DEF TypeOK
    <3> QED
      BY <1>1, <3>1, <3>2 DEF Start, AbortOwner
  <2>4. contended' \in BOOLEAN
    BY <1>1, Zenon DEF Start
  <2> QED
    BY <2>1, <2>2, <2>3, <2>4 DEF TypeOK, poolVars
<1>2. ASSUME NEW c \in Calls, TeardownEnds(c)
      PROVE  TypeOK'
  BY <1>2 DEF TypeOK, TeardownEnds, TakeOver, TakeOverFails, poolVars,
              Phases, Setup, Ended
<1>3. ASSUME NEW c \in Calls, SetupGoesOn(c) \/ SetupFails(c) \/ SaveEnds(c)
                              \/ SaveThrows(c)
      PROVE  TypeOK'
  <2>1. "prepared" \in Phases /\ "error" \in Ended /\ "completed" \in Ended
    BY DEF Phases, Setup, Ended
  <2>2. Caught(c) \in Phases
    BY DEF Caught, Phases, Running
  <2> QED
    BY <1>3, <2>1, <2>2, FinishTyped, GoToTyped
       DEF SetupGoesOn, SetupFails, SaveEnds, SaveThrows
<1>4. ASSUME NEW c \in Calls, EntryCreated(c)
      PROVE  TypeOK'
  BY <1>4 DEF TypeOK, EntryCreated, registry, Phases, Running
<1>5. ASSUME NEW c \in Calls, AssemblyEnds(c)
      PROVE  TypeOK'
  <2>1. CASE Finish(c, "stopped")
    BY <2>1, FinishTyped DEF Ended
  <2>2. CASE ~Finish(c, "stopped")
    <3>1. EntersQueue(c) /\ round' = [round EXCEPT ![c] = 1]
          /\ pool' = Reported(c, "running")
          /\ UNCHANGED <<aborted, replaced, registered, owner, idle, chatIndex,
                         contended>>
      BY <1>5, <2>2 DEF AssemblyEnds
    <3>2. round' \in [Calls -> 0..MaxRounds]
      BY <3>1, ChatGenerationsAssumption DEF ChatGenerationsAssumption, TypeOK
    <3> QED
      BY <3>1, <3>2 DEF TypeOK, EntersQueue, Reported, Phases, Running
  <2> QED
    BY <2>1, <2>2
<1>6. ASSUME NEW c \in Calls, AssemblyFails(c)
      PROVE  TypeOK'
  BY <1>6, FinishTyped DEF AssemblyFails, Ended
<1>7. ASSUME NEW c \in Calls, Admitted(c) \/ NotAdmitted(c)
      PROVE  TypeOK'
  BY <1>7 DEF TypeOK, Admitted, NotAdmitted, LeavesQueue, Caught, poolVars,
              Phases, Running
<1>8. ASSUME NEW c \in Calls, ToolsReturn(c)
      PROVE  TypeOK'
  <2>1. CASE \E next \in {"stopping", "saving", "failing"} : GoTo(c, next)
    BY <2>1, GoToTyped DEF Phases, Running
  <2>2. CASE ~\E next \in {"stopping", "saving", "failing"} : GoTo(c, next)
    <3>1. round[c] < MaxRounds /\ round' = [round EXCEPT ![c] = @ + 1]
          /\ EntersQueue(c)
          /\ UNCHANGED <<aborted, replaced, registered, owner, idle, poolVars,
                         contended>>
      BY <1>8, <2>2 DEF ToolsReturn, Caught
    <3>2. round' \in [Calls -> 0..MaxRounds]
      BY <3>1, ChatGenerationsAssumption DEF ChatGenerationsAssumption, TypeOK
    <3> QED
      BY <3>1, <3>2 DEF TypeOK, EntersQueue, poolVars, Phases, Running
  <2> QED
    BY <2>1, <2>2
<1>9. ASSUME NEW c \in Calls, Reports(c)
      PROVE  TypeOK'
  <2>1. CASE Finish(c, "stopped") \/ Finish(c, "error")
    BY <2>1, FinishTyped DEF Ended
  <2>2. CASE ~(Finish(c, "stopped") \/ Finish(c, "error"))
    BY <1>9, <2>2 DEF TypeOK, Reports, Reported, registry, Phases, Running, Ended
  <2> QED
    BY <2>1, <2>2
<1>10. ASSUME NEW c \in Calls, StreamCloses(c)
       PROVE  TypeOK'
  <2>1. Leave(c) /\ phase' = [phase EXCEPT ![c] = "stopped"]
        /\ UNCHANGED <<replaced, poolVars, contended>>
    BY <1>10 DEF StreamCloses
  <2> QED
    BY <2>1, LeaveTyped DEF TypeOK, poolVars, Phases, Ended
<1>11. ASSUME NEW c \in Calls, Token(c) \/ TenMinutesPass(c)
       PROVE  TypeOK'
  BY <1>11 DEF TypeOK, Token, TenMinutesPass, poolVars
<1>12. ASSUME NEW c \in Calls, StreamEnds(c)
       PROVE  TypeOK'
  BY <1>12, GoToTyped DEF StreamEnds, Phases, Running
<1>13. ASSUME NEW c \in Calls, Stop(c)
       PROVE  TypeOK'
  BY <1>13 DEF TypeOK, Stop, Abort, registry, poolVars
<1>14. CASE SweepInactive
  BY <1>14 DEF TypeOK, SweepInactive, Abort, registry, poolVars
<1>15. ASSUME NEW c \in Calls, PoolSweep(c) \/ PoolExpires(c)
       PROVE  TypeOK'
  BY <1>15 DEF TypeOK, PoolSweep, PoolExpires, Removed, registry, Ended
<1>16. CASE AcknowledgeChat
  BY <1>16 DEF TypeOK, AcknowledgeChat, Removed, registry
<1>17. CASE UNCHANGED vars
  BY <1>17 DEF TypeOK, vars
<1> QED
  BY <1>1, <1>2, <1>3, <1>4, <1>5, <1>6, <1>7, <1>8, <1>9, <1>10, <1>11, <1>12,
     <1>13, <1>14, <1>15, <1>16, <1>17 DEF Next, CallStep

\* Every variable of the registry, the pool and the calls keeps its type,
\* whatever takes over, stops, sweeps or fails.
THEOREM TypeCorrect == Spec => []TypeOK
  BY InitTyped, StepTyped, PTL DEF Spec

-----------------------------------------------------------------------------
(* What steps do to ownership.  Apart from the two ways a call gets the    *)
(* chat, a step ends a call, moves one on, or interferes from outside.     *)

Ends(c) ==
    /\ Started(c)
    /\ \E s \in Ended : phase' = [phase EXCEPT ![c] = s]
    /\ Leave(c)
    /\ UNCHANGED <<replaced, contended>>

Moves(c) ==
    /\ Started(c)
    /\ \E s \in Setup \cup Running : phase' = [phase EXCEPT ![c] = s]
    /\ UNCHANGED <<registered, owner, aborted, replaced, contended>>

Interferes ==
    /\ UNCHANGED <<phase, registered, owner, replaced, contended>>
    /\ aborted' \in [Calls -> BOOLEAN]
    /\ \A c \in Calls : aborted[c] => aborted'[c]

\* Every step of a call that holds the chat or has lost it moves or ends it.
LEMMA CallStepKinds ==
    ASSUME TypeOK, NEW c \in Calls, CallStep(c) \/ Token(c) \/ StreamEnds(c),
           ~TeardownEnds(c)
    PROVE  Ends(c) \/ Moves(c)
<1> USE DEF registry, poolVars
<1>1. \A status \in Ended : Finish(c, status) /\ Started(c) => Ends(c)
  BY DEF Finish, Ends
<1>2. \A next \in Setup \cup Running : GoTo(c, next) /\ Started(c) => Moves(c)
  BY DEF GoTo, Moves
<1>3. CASE SetupGoesOn(c) \/ SetupFails(c) \/ SaveEnds(c) \/ SaveThrows(c)
  BY <1>1, <1>2, <1>3
     DEF SetupGoesOn, SetupFails, SaveEnds, SaveThrows, Caught, Started, Setup,
         Running, Ended
<1>4. CASE EntryCreated(c)
  BY <1>4 DEF EntryCreated, Moves, Started, Setup, Running
<1>5. CASE AssemblyEnds(c) \/ AssemblyFails(c)
  <2>1. Started(c)
    BY <1>5 DEF AssemblyEnds, AssemblyFails, Started, Running
  <2>2. CASE \E status \in Ended : Finish(c, status)
    BY <1>1, <2>1, <2>2
  <2>3. CASE ~\E status \in Ended : Finish(c, status)
    BY <1>5, <2>1, <2>3
       DEF AssemblyEnds, AssemblyFails, EntersQueue, Moves, Running, Ended
  <2> QED
    BY <2>2, <2>3
<1>6. CASE Admitted(c) \/ NotAdmitted(c)
  BY <1>6 DEF Admitted, NotAdmitted, Caught, Moves, Started, Running
<1>7. CASE ToolsReturn(c)
  <2>1. Started(c)
    BY <1>7 DEF ToolsReturn, Started, Running
  <2>2. CASE \E next \in Running : GoTo(c, next)
    BY <1>2, <2>1, <2>2
  <2>3. CASE ~\E next \in Running : GoTo(c, next)
    BY <1>7, <2>1, <2>3
       DEF ToolsReturn, EntersQueue, Caught, Moves, Running
  <2> QED
    BY <2>2, <2>3
<1>8. CASE Reports(c)
  <2>1. Started(c)
    BY <1>8 DEF Reports, Started, Running
  <2>2. CASE \E status \in Ended : Finish(c, status)
    BY <1>1, <2>1, <2>2
  <2>3. CASE ~\E status \in Ended : Finish(c, status)
    BY <1>8, <2>1, <2>3 DEF Reports, Moves, Running, Ended
  <2> QED
    BY <2>2, <2>3
<1>9. CASE StreamCloses(c)
  BY <1>9 DEF StreamCloses, Ends, Started, Running, Ended
<1>10. CASE Token(c)
  <2>1. phase' = [phase EXCEPT ![c] = "streaming"]
    BY <1>10 DEF Token, TypeOK
  <2> QED
    BY <1>10, <2>1 DEF Token, Moves, Started, Running
<1>11. CASE StreamEnds(c)
  BY <1>2, <1>11 DEF StreamEnds, Started, Running
<1> QED
  BY <1>3, <1>4, <1>5, <1>6, <1>7, <1>8, <1>9, <1>10, <1>11 DEF CallStep

\* Every step is of one of five kinds.
LEMMA StepKinds ==
    ASSUME TypeOK, [Next]_vars
    PROVE  \/ \E c \in Calls, b \in BOOLEAN : Start(c, b)
           \/ \E c \in Calls : TeardownEnds(c) \/ Ends(c) \/ Moves(c)
           \/ Interferes
<1>1. ASSUME NEW c \in Calls,
             Stop(c) \/ TenMinutesPass(c) \/ PoolSweep(c) \/ PoolExpires(c)
      PROVE  Interferes
  BY <1>1 DEF Stop, TenMinutesPass, PoolSweep, PoolExpires, Removed, Abort,
              registry, poolVars, Interferes, TypeOK
<1>2. CASE SweepInactive \/ AcknowledgeChat \/ UNCHANGED vars
  BY <1>2 DEF SweepInactive, AcknowledgeChat, Removed, Abort, registry,
              poolVars, vars, Interferes, TypeOK
<1> QED
  BY <1>1, <1>2, CallStepKinds DEF Next, CallStep

-----------------------------------------------------------------------------
(* Who can be stopped *)

\* What a call in a teardown waits for has begun and was told to stop: dropping
\* it from the registry loses nothing that runs.
TeardownsStopped ==
    \A c \in Calls : phase[c] = "teardown" =>
        \E d \in Calls : /\ replaced[c] = d
                         /\ phase[d] \notin {"new", "teardown"}
                         /\ ~Live(d)

\* Without contention a teardown is the only thing that goes on in the chat.
LoneTeardown ==
    ~contended =>
        \A c \in Calls : phase[c] = "teardown" =>
            \A d \in Calls : ~Live(d) /\ (phase[d] = "teardown" => d = c)

OwnershipInv ==
    /\ TypeOK
    /\ RegistryTracksLive
    /\ TeardownsStopped
    /\ OneLiveUncontended
    /\ LoneTeardown

\* No call has begun.
LEMMA InitOwnership == Init => OwnershipInv
<1> SUFFICES ASSUME Init
             PROVE  OwnershipInv
  OBVIOUS
<1>1. \A c \in Calls : phase[c] = "new" /\ ~Live(c)
  BY DEF Init, Live, Started, Setup, Running
<1>2. owner = NoCall
  BY DEF Init
<1> QED
  BY <1>1, <1>2, InitTyped
     DEF OwnershipInv, RegistryTracksLive, TeardownsStopped,
         OneLiveUncontended, LoneTeardown

\* The six phases of a start and the others are all different.
LEMMA PhasesDiffer ==
    /\ "new" \notin Setup \cup Running \cup Ended
    /\ "teardown" \notin Setup \cup Running \cup Ended
    /\ (Setup \cup Running) \cap Ended = {}
    /\ "setup" \in Setup /\ "error" \in Ended
  BY DEF Setup, Running, Ended

\* A start that finds nobody registered takes a chat where nothing runs
\* uncontended; one that finds somebody tells the owner to stop.
LEMMA StartKeepsOwnership ==
    ASSUME OwnershipInv, TypeOK', NEW c \in Calls, NEW b \in BOOLEAN, Start(c, b)
    PROVE  OwnershipInv'
<1>1. /\ phase[c] = "new"
      /\ ~Started(c)
      /\ NoCall \notin Calls
  BY PhasesDiffer, ChatGenerationsAssumption
     DEF Start, Started, ChatGenerationsAssumption
<1>2. ~contended' => ~contended /\ \A d \in Calls : phase[d] # "teardown"
  BY DEF Start
<1>3. CASE /\ owner \in registered
           /\ aborted' = [aborted EXCEPT ![owner] = TRUE]
           /\ phase' = [phase EXCEPT ![c] = "teardown"]
           /\ replaced' = [replaced EXCEPT ![c] = owner]
           /\ UNCHANGED <<registered, owner>>
  <2>1. owner \in Calls /\ Started(owner) /\ owner # c
    BY <1>1, <1>3 DEF OwnershipInv, TypeOK, RegistryTracksLive
  <2>2. /\ \A d \in Calls : phase'[d] = IF d = c THEN "teardown" ELSE phase[d]
        /\ \A d \in Calls : replaced'[d] = IF d = c THEN owner ELSE replaced[d]
    BY <1>3, <2>1 DEF OwnershipInv, TypeOK
  <2>3. \A d \in Calls : Started(d)' <=> Started(d)
    BY <1>1, <2>2 DEF Started, Setup, Running
  <2>4. \A d \in Calls : aborted'[d] <=> aborted[d] \/ d = owner
    BY <1>3, <2>1 DEF OwnershipInv, TypeOK
  <2>5. \A d \in Calls : Live(d)' <=> Live(d) /\ d # owner
    BY <2>3, <2>4 DEF Live, Started, Setup, Running
  <2>6. RegistryTracksLive'
    BY <1>3, <2>1, <2>3, <2>5 DEF OwnershipInv, RegistryTracksLive
  <2>7. TeardownsStopped'
    <3> SUFFICES ASSUME NEW d \in Calls, phase'[d] = "teardown"
                 PROVE  \E e \in Calls : /\ replaced'[d] = e
                                         /\ phase'[e] \notin {"new", "teardown"}
                                         /\ ~Live(e)'
      BY DEF TeardownsStopped
    <3>1. CASE d = c
      <4>1. phase[owner] \notin {"new", "teardown"}
        BY <2>1 DEF Started, Setup, Running
      <4> QED
        BY <2>1, <2>2, <2>5, <3>1, <4>1
    <3>2. CASE d # c
      BY <1>1, <2>2, <2>5, <3>2 DEF OwnershipInv, TeardownsStopped
    <3> QED
      BY <3>1, <3>2
  <2>8. OneLiveUncontended'
    BY <1>2, <1>3, <2>5 DEF OwnershipInv, OneLiveUncontended
  <2>9. LoneTeardown'
    BY <1>2, <2>2, <2>5 DEF OwnershipInv, OneLiveUncontended, LoneTeardown
  <2> QED
    BY <2>6, <2>7, <2>8, <2>9 DEF OwnershipInv
<1>4. CASE /\ owner \notin registered
           /\ TakeOver(c, owner) \/ TakeOverFails(c, owner)
           /\ UNCHANGED <<aborted, replaced>>
  <2>1. owner = NoCall
    BY <1>4 DEF OwnershipInv, RegistryTracksLive
  <2>2. \E s \in {"setup", "error"} :
           /\ phase' = [phase EXCEPT ![c] = s]
           /\ registered' = IF s = "setup" THEN registered \cup {c} ELSE registered
           /\ owner' = IF s = "setup" THEN c ELSE NoCall
    BY <1>1, <1>4, <2>1 DEF TakeOver, TakeOverFails, OwnershipInv, TypeOK
  <2>3. PICK s \in {"setup", "error"} :
           /\ phase' = [phase EXCEPT ![c] = s]
           /\ registered' = IF s = "setup" THEN registered \cup {c} ELSE registered
           /\ owner' = IF s = "setup" THEN c ELSE NoCall
    BY <2>2
  <2>4. \A d \in Calls : phase'[d] = IF d = c THEN s ELSE phase[d]
    BY <2>3 DEF OwnershipInv, TypeOK
  <2>5. \A d \in Calls \ {c} : (Started(d)' <=> Started(d)) /\ (Live(d)' <=> Live(d))
    BY <1>4, <2>4 DEF Started, Live
  <2>6. /\ s = "setup" => Started(c)'
        /\ s = "error" => ~Started(c)' /\ ~Live(c)'
    BY <2>4, PhasesDiffer DEF Started, Live
  <2>7. RegistryTracksLive'
    BY <1>1, <2>3, <2>5, <2>6 DEF OwnershipInv, RegistryTracksLive
  <2>8. TeardownsStopped'
    <3> SUFFICES ASSUME NEW d \in Calls, phase'[d] = "teardown"
                 PROVE  \E e \in Calls : /\ replaced'[d] = e
                                         /\ phase'[e] \notin {"new", "teardown"}
                                         /\ ~Live(e)'
      BY DEF TeardownsStopped
    <3>1. d # c /\ phase[d] = "teardown"
      BY <2>4
    <3> QED
      BY <1>1, <1>4, <2>4, <2>5, <3>1 DEF OwnershipInv, TeardownsStopped
  <2>9. ~contended' => \A d \in Calls : ~Live(d)
    BY <1>1, <1>2, <2>1 DEF OwnershipInv, OneLiveUncontended
  <2>10. OneLiveUncontended'
    BY <2>3, <2>5, <2>6, <2>9 DEF OneLiveUncontended
  <2>11. LoneTeardown'
    BY <1>2, <2>4 DEF LoneTeardown
  <2> QED
    BY <2>7, <2>8, <2>10, <2>11 DEF OwnershipInv
<1> QED
  BY <1>3, <1>4 DEF Start, AbortOwner

\* What a teardown drops from the registry was told to stop.
LEMMA TeardownKeepsOwnership ==
    ASSUME OwnershipInv, TypeOK', NEW c \in Calls, TeardownEnds(c)
    PROVE  OwnershipInv'
<1> DEFINE old == replaced[c]
<1>1. /\ phase[c] = "teardown" /\ ~Started(c)
      /\ old \in Calls \ {c} /\ ~Live(old)
      /\ NoCall \notin Calls
  BY PhasesDiffer, ChatGenerationsAssumption
     DEF TeardownEnds, OwnershipInv, TeardownsStopped, Started,
         ChatGenerationsAssumption
<1>2. \E s \in {"setup", "error"} :
           /\ phase' = [phase EXCEPT ![c] = s]
           /\ registered' = (registered \ {old}) \cup (IF s = "setup" THEN {c} ELSE {})
           /\ owner' = IF s = "setup" THEN c ELSE NoCall
  BY DEF TeardownEnds, TakeOver, TakeOverFails
<1>3. PICK s \in {"setup", "error"} :
           /\ phase' = [phase EXCEPT ![c] = s]
           /\ registered' = (registered \ {old}) \cup (IF s = "setup" THEN {c} ELSE {})
           /\ owner' = IF s = "setup" THEN c ELSE NoCall
  BY <1>2
<1>4. /\ \A d \in Calls : phase'[d] = IF d = c THEN s ELSE phase[d]
      /\ \A d \in Calls : replaced'[d] = IF d = c THEN NoCall ELSE replaced[d]
      /\ UNCHANGED aborted
  BY <1>3 DEF TeardownEnds, OwnershipInv, TypeOK
<1>5. \A d \in Calls \ {c} : (Started(d)' <=> Started(d)) /\ (Live(d)' <=> Live(d))
  BY <1>4 DEF Started, Live, Setup, Running
<1>6. /\ s = "setup" => Started(c)'
      /\ s = "error" => ~Started(c)' /\ ~Live(c)'
  BY <1>4, PhasesDiffer DEF Started, Live
<1>7. RegistryTracksLive'
  BY <1>1, <1>3, <1>5, <1>6 DEF OwnershipInv, RegistryTracksLive
<1>8. TeardownsStopped'
  <2> SUFFICES ASSUME NEW d \in Calls, phase'[d] = "teardown"
               PROVE  \E e \in Calls : /\ replaced'[d] = e
                                       /\ phase'[e] \notin {"new", "teardown"}
                                       /\ ~Live(e)'
    BY DEF TeardownsStopped
  <2>1. d # c /\ phase[d] = "teardown" /\ replaced'[d] = replaced[d]
    BY <1>4
  <2> QED
    BY <1>1, <1>4, <1>5, <2>1 DEF OwnershipInv, TeardownsStopped
<1>9. UNCHANGED contended
  BY DEF TeardownEnds
<1>10. ~contended => \A d \in Calls : ~Live(d) /\ (phase[d] = "teardown" => d = c)
  BY <1>1 DEF OwnershipInv, LoneTeardown
<1>11. OneLiveUncontended'
  BY <1>3, <1>5, <1>6, <1>9, <1>10 DEF OneLiveUncontended
<1>12. LoneTeardown'
  BY <1>4, <1>9, <1>10 DEF LoneTeardown
<1> QED
  BY <1>7, <1>8, <1>11, <1>12 DEF OwnershipInv

\* A call that ends takes its own registration and its own lock, no other's.
LEMMA EndKeepsOwnership ==
    ASSUME OwnershipInv, TypeOK', NEW c \in Calls, Ends(c)
    PROVE  OwnershipInv'
<1>1. PICK s \in Ended : phase' = [phase EXCEPT ![c] = s]
  BY DEF Ends
<1>2. /\ registered' = registered \ {c}
      /\ owner' = IF owner = c THEN NoCall ELSE owner
      /\ UNCHANGED <<replaced, contended>>
      /\ NoCall \notin Calls
  BY ChatGenerationsAssumption
     DEF Ends, Leave, Released, ChatGenerationsAssumption
<1>3. \A d \in Calls : phase'[d] = IF d = c THEN s ELSE phase[d]
  BY <1>1 DEF OwnershipInv, TypeOK
<1>4. \A d \in Calls \ {c} : aborted'[d] <=> aborted[d]
  BY DEF Ends, Leave, OwnershipInv, TypeOK
<1>5. \A d \in Calls \ {c} : (Started(d)' <=> Started(d)) /\ (Live(d)' <=> Live(d))
  BY <1>3, <1>4 DEF Started, Live, Setup, Running
<1>6. ~Started(c)' /\ ~Live(c)'
  BY <1>3 DEF Started, Live, Setup, Running, Ended
<1>7. RegistryTracksLive'
  BY <1>2, <1>5, <1>6 DEF OwnershipInv, RegistryTracksLive, TypeOK
<1>8. \A d \in Calls : phase'[d] = "teardown" => phase[d] = "teardown" /\ d # c
  BY <1>3, PhasesDiffer
<1>9. TeardownsStopped'
  <2> SUFFICES ASSUME NEW d \in Calls, phase'[d] = "teardown"
               PROVE  \E e \in Calls : /\ replaced'[d] = e
                                       /\ phase'[e] \notin {"new", "teardown"}
                                       /\ ~Live(e)'
    BY DEF TeardownsStopped
  <2> QED
    <3>1. phase[c] \notin {"new", "teardown"}
      BY DEF Ends, Started, Setup, Running
    <3> QED
      BY <1>2, <1>3, <1>5, <1>6, <1>8, <3>1, PhasesDiffer
         DEF OwnershipInv, TeardownsStopped
<1>10. OneLiveUncontended'
  BY <1>2, <1>5, <1>6 DEF OwnershipInv, OneLiveUncontended
<1>11. LoneTeardown'
  BY <1>2, <1>5, <1>6, <1>8 DEF OwnershipInv, LoneTeardown
<1> QED
  BY <1>7, <1>9, <1>10, <1>11 DEF OwnershipInv

\* A call that moves on stays what it was for the others.
LEMMA MoveKeepsOwnership ==
    ASSUME OwnershipInv, TypeOK', NEW c \in Calls, Moves(c)
    PROVE  OwnershipInv'
<1>1. PICK s \in Setup \cup Running : phase' = [phase EXCEPT ![c] = s]
  BY DEF Moves
<1>2. UNCHANGED <<registered, owner, aborted, replaced, contended>> /\ Started(c)
  BY DEF Moves
<1>3. \A d \in Calls : phase'[d] = IF d = c THEN s ELSE phase[d]
  BY <1>1 DEF OwnershipInv, TypeOK
<1>4. \A d \in Calls : (Started(d)' <=> Started(d)) /\ (Live(d)' <=> Live(d))
  BY <1>2, <1>3 DEF Started, Live, Setup, Running
<1>5. \A d \in Calls : /\ phase'[d] = "teardown" => phase[d] = "teardown"
                       /\ phase'[d] = "new" => phase[d] = "new"
  BY <1>3, PhasesDiffer
<1>6. RegistryTracksLive'
  BY <1>2, <1>4 DEF OwnershipInv, RegistryTracksLive, TypeOK
<1>7. OneLiveUncontended'
  BY <1>2, <1>4 DEF OwnershipInv, OneLiveUncontended
<1>8. LoneTeardown'
  BY <1>2, <1>4, <1>5 DEF OwnershipInv, LoneTeardown
<1>9. TeardownsStopped'
  <2> SUFFICES ASSUME NEW d \in Calls, phase'[d] = "teardown"
               PROVE  \E e \in Calls : /\ replaced'[d] = e
                                       /\ phase'[e] \notin {"new", "teardown"}
                                       /\ ~Live(e)'
    BY DEF TeardownsStopped
  <2> QED
    BY <1>2, <1>4, <1>5 DEF OwnershipInv, TeardownsStopped
<1> QED
  BY <1>6, <1>9, <1>7, <1>8 DEF OwnershipInv

\* Stopping and sweeping only add aborted signals.
LEMMA InterferenceKeepsOwnership ==
    ASSUME OwnershipInv, TypeOK', Interferes
    PROVE  OwnershipInv'
<1>1. UNCHANGED <<phase, registered, owner, replaced, contended>>
  BY DEF Interferes
<1>2. \A d \in Calls : (Started(d)' <=> Started(d)) /\ (Live(d)' => Live(d))
  BY <1>1 DEF Interferes, Started, Live, Setup, Running
<1>3. RegistryTracksLive' /\ OneLiveUncontended' /\ LoneTeardown'
  BY <1>1, <1>2
     DEF OwnershipInv, RegistryTracksLive, OneLiveUncontended, LoneTeardown, TypeOK
<1>4. TeardownsStopped'
  <2> SUFFICES ASSUME NEW d \in Calls, phase'[d] = "teardown"
               PROVE  \E e \in Calls : /\ replaced'[d] = e
                                       /\ phase'[e] \notin {"new", "teardown"}
                                       /\ ~Live(e)'
    BY DEF TeardownsStopped
  <2> QED
    BY <1>1, <1>2 DEF OwnershipInv, TeardownsStopped
<1> QED
  BY <1>3, <1>4 DEF OwnershipInv

\* The invariant is inductive.
LEMMA StepOwnership == OwnershipInv /\ [Next]_vars => OwnershipInv'
<1> SUFFICES ASSUME OwnershipInv, [Next]_vars
             PROVE  OwnershipInv'
  OBVIOUS
<1>1. TypeOK /\ TypeOK'
  BY StepTyped DEF OwnershipInv
<1> QED
  BY <1>1, StepKinds, StartKeepsOwnership, TeardownKeepsOwnership,
     EndKeepsOwnership, MoveKeepsOwnership, InterferenceKeepsOwnership

\* The invariant holds throughout.
LEMMA Ownership == Spec => []OwnershipInv
  BY InitOwnership, StepOwnership, PTL DEF Spec

\* A generation nobody has stopped is registered, and the chat's owner is
\* registered and not over, whoever takes over, ends or fails in between.
THEOREM Stoppable == Spec => []RegistryTracksLive
<1>1. OwnershipInv => RegistryTracksLive
  BY DEF OwnershipInv
<1> QED
  BY <1>1, Ownership, PTL

\* Two generations run untold to stop only after two starts met in a teardown.
THEOREM SingleGeneration == Spec => []OneLiveUncontended
<1>1. OwnershipInv => OneLiveUncontended
  BY DEF OwnershipInv
<1> QED
  BY <1>1, Ownership, PTL

\* Whoever owns the chat loses it by ending or to a start that takes its turn.
LEMMA OwnerKeepsOrEnds ==
    ASSUME OwnershipInv, [Next]_vars, NEW c \in Calls, owner = c, owner' # c
    PROVE  \/ phase'[c] \in Ended
           \/ \E d \in Calls \ {c} : phase[d] \in {"new", "teardown"}
                                     /\ phase'[d] # phase[d]
<1>1. TypeOK /\ Started(c)
  BY ChatGenerationsAssumption
     DEF OwnershipInv, RegistryTracksLive, ChatGenerationsAssumption
<1>2. phase[c] \notin {"new", "teardown"}
  BY <1>1 DEF Started, Setup, Running
<1>3. ASSUME NEW d \in Calls, NEW b \in BOOLEAN, Start(d, b)
      PROVE  phase[d] = "new" /\ phase'[d] # phase[d]
  BY <1>1, <1>3 DEF Start, TakeOver, TakeOverFails, TypeOK
<1>4. ASSUME NEW d \in Calls, TeardownEnds(d)
      PROVE  phase[d] = "teardown" /\ phase'[d] # phase[d]
  BY <1>1, <1>4 DEF TeardownEnds, TakeOver, TakeOverFails, TypeOK
<1>5. ASSUME NEW d \in Calls, Ends(d)
      PROVE  phase'[c] \in Ended
  <2>1. owner' = IF owner = d THEN NoCall ELSE owner
    BY <1>5 DEF Ends, Leave, Released
  <2>2. d = c
    BY <2>1
  <2> QED
    BY <1>1, <1>5, <2>2 DEF Ends, TypeOK
<1>6. ~Interferes /\ \A d \in Calls : ~Moves(d)
  BY DEF Interferes, Moves
<1> QED
  BY <1>1, <1>2, <1>3, <1>4, <1>5, <1>6, StepKinds

\* The end of a generation that was replaced does not free the chat of the one
\* that replaced it.
THEOREM OwnerIsReplacedOrEnds == Spec => SuccessorKeepsChat
<1>1. OwnershipInv /\ [Next]_vars =>
        [\A c \in Calls : (owner = c /\ owner' # c) =>
            \/ phase'[c] \in Ended
            \/ \E d \in Calls \ {c} : phase[d] \in {"new", "teardown"}
                                      /\ phase'[d] # phase[d]]_vars
  BY OwnerKeepsOrEnds
<1> QED
  BY <1>1, Ownership, PTL DEF Spec, SuccessorKeepsChat

-----------------------------------------------------------------------------
(* The time in the queue *)

\* Ten minutes spent in the queue are held against a call only while it is
\* there, and it is there only while it is marked.
QueueMarks ==
    \A c \in Calls : /\ idle[c] = "queue" => waiting[c]
                     /\ waiting[c] => phase[c] = "queued"

\* Nobody waits.
LEMMA InitMarks == Init => QueueMarks
  BY DEF Init, QueueMarks

\* The step of a call that leaves phase, mark and idle time of others alone
\* keeps the marks if it keeps its own.
LEMMA OwnMarks ==
    ASSUME TypeOK, QueueMarks, NEW c \in Calls,
           \A d \in Calls \ {c} : /\ phase'[d] = phase[d]
                                  /\ waiting'[d] = waiting[d]
                                  /\ idle'[d] = idle[d],
           idle'[c] = "queue" => waiting'[c],
           waiting'[c] => phase'[c] = "queued"
    PROVE  QueueMarks'
  BY DEF QueueMarks

\* A call that is over is not marked.
LEMMA LeaveMarks ==
    ASSUME TypeOK, QueueMarks, NEW c \in Calls, Leave(c), NEW s,
           phase' = [phase EXCEPT ![c] = s]
    PROVE  QueueMarks'
<1>1. ~waiting'[c] /\ idle'[c] = "fresh"
  BY DEF Leave, TypeOK
<1>2. \A d \in Calls \ {c} : /\ phase'[d] = phase[d]
                             /\ idle'[d] = idle[d]
  BY DEF Leave, TypeOK
<1>3. \A d \in Calls \ {c} : waiting'[d] = waiting[d]
  BY DEF Leave, TypeOK
<1> QED
  BY <1>1, <1>2, <1>3, OwnMarks

\* A call that was not in the queue is not marked.
LEMMA OutsideMarks ==
    ASSUME TypeOK, QueueMarks, NEW c \in Calls, phase[c] # "queued", NEW s,
           phase' = [phase EXCEPT ![c] = s],
           UNCHANGED <<waiting, idle>>
    PROVE  QueueMarks'
<1>1. \A d \in Calls \ {c} : phase'[d] = phase[d]
  BY DEF TypeOK
<1> QED
  BY <1>1, OwnMarks DEF QueueMarks

\* A call that asks for a lease is marked, if it is registered, from a clean
\* start.
LEMMA EnterMarks ==
    ASSUME TypeOK, QueueMarks, NEW c \in Calls, phase[c] # "queued",
           EntersQueue(c), UNCHANGED idle
    PROVE  QueueMarks'
<1>1. idle[c] # "queue" /\ phase'[c] = "queued"
  BY DEF QueueMarks, EntersQueue, TypeOK
<1>2. \A d \in Calls \ {c} : phase'[d] = phase[d]
  BY DEF EntersQueue, TypeOK
<1>3. \A d \in Calls \ {c} : waiting'[d] = waiting[d]
  BY DEF EntersQueue, TypeOK
<1> QED
  BY <1>1, <1>2, <1>3, OwnMarks

\* A call that leaves the queue starts afresh if time was counted in it.
LEMMA LeavesQueueMarks ==
    ASSUME TypeOK, QueueMarks, NEW c \in Calls, LeavesQueue(c), NEW s,
           phase' = [phase EXCEPT ![c] = s]
    PROVE  QueueMarks'
<1>1. ~waiting'[c]
  BY DEF LeavesQueue, TypeOK
<1>2. idle'[c] # "queue"
  <2>1. CASE waiting[c]
    BY <2>1 DEF LeavesQueue, TypeOK
  <2>2. CASE ~waiting[c]
    BY <2>2 DEF LeavesQueue, QueueMarks
  <2> QED
    BY <2>1, <2>2
<1>3. \A d \in Calls \ {c} : phase'[d] = phase[d] /\ idle'[d] = idle[d]
  BY DEF LeavesQueue, TypeOK
<1>4. \A d \in Calls \ {c} : waiting'[d] = waiting[d]
  BY DEF LeavesQueue, TypeOK
<1> QED
  BY <1>1, <1>2, <1>3, <1>4, OwnMarks

\* No step leaves a call with the time of a queue it is not in.
LEMMA StepMarks == TypeOK /\ QueueMarks /\ [Next]_vars => QueueMarks'
<1> SUFFICES ASSUME TypeOK, QueueMarks, [Next]_vars
             PROVE  QueueMarks'
  OBVIOUS
<1> USE DEF registry, poolVars
<1>1. ASSUME NEW c \in Calls, NEW s, Finish(c, s)
      PROVE  QueueMarks'
  BY <1>1, LeaveMarks DEF Finish
<1>2. ASSUME NEW c \in Calls, NEW s, GoTo(c, s), phase[c] # "queued"
      PROVE  QueueMarks'
  BY <1>2, OutsideMarks DEF GoTo
<1>3. ASSUME NEW c \in Calls, NEW b \in BOOLEAN, Start(c, b)
      PROVE  QueueMarks'
  <2>1. phase[c] # "queued" /\ UNCHANGED <<waiting, idle>>
        /\ \E s : phase' = [phase EXCEPT ![c] = s]
    BY <1>3 DEF Start, TakeOver, TakeOverFails
  <2> QED
    BY <2>1, OutsideMarks
<1>4. ASSUME NEW c \in Calls, TeardownEnds(c)
      PROVE  QueueMarks'
  <2>1. phase[c] # "queued" /\ UNCHANGED <<waiting, idle>>
        /\ \E s : phase' = [phase EXCEPT ![c] = s]
    BY <1>4 DEF TeardownEnds, TakeOver, TakeOverFails
  <2> QED
    BY <2>1, OutsideMarks
<1>5. ASSUME NEW c \in Calls, SetupGoesOn(c) \/ SetupFails(c) \/ SaveEnds(c)
                              \/ SaveThrows(c) \/ StreamEnds(c)
      PROVE  QueueMarks'
  BY <1>1, <1>2, <1>5
     DEF SetupGoesOn, SetupFails, SaveEnds, SaveThrows, StreamEnds, Setup
<1>6. ASSUME NEW c \in Calls, EntryCreated(c)
      PROVE  QueueMarks'
  BY <1>6, OutsideMarks DEF EntryCreated
<1>7. ASSUME NEW c \in Calls, AssemblyEnds(c) \/ AssemblyFails(c)
      PROVE  QueueMarks'
  BY <1>1, <1>7, EnterMarks DEF AssemblyEnds, AssemblyFails
<1>8. ASSUME NEW c \in Calls, Admitted(c) \/ NotAdmitted(c)
      PROVE  QueueMarks'
  BY <1>8, LeavesQueueMarks DEF Admitted, NotAdmitted
<1>9. ASSUME NEW c \in Calls, ToolsReturn(c)
      PROVE  QueueMarks'
  <2>1. CASE \E s : GoTo(c, s)
    BY <1>2, <1>9, <2>1 DEF ToolsReturn
  <2>2. CASE ~\E s : GoTo(c, s)
    BY <1>9, <2>2, EnterMarks DEF ToolsReturn
  <2> QED
    BY <2>1, <2>2
<1>10. ASSUME NEW c \in Calls, Reports(c)
       PROVE  QueueMarks'
  <2>1. CASE \E s : Finish(c, s)
    BY <1>1, <2>1
  <2>2. CASE ~\E s : Finish(c, s)
    BY <1>10, <2>2, OutsideMarks DEF Reports
  <2> QED
    BY <2>1, <2>2
<1>11. ASSUME NEW c \in Calls, StreamCloses(c)
       PROVE  QueueMarks'
  BY <1>11, LeaveMarks DEF StreamCloses
<1>12. ASSUME NEW c \in Calls, Token(c) \/ TenMinutesPass(c)
       PROVE  QueueMarks'
  <2>1. \A d \in Calls : idle'[d] = "queue" => idle[d] = "queue" \/ waiting[d]
    BY <1>12 DEF Token, TenMinutesPass, TypeOK
  <2> QED
    BY <1>12, <2>1 DEF Token, TenMinutesPass, QueueMarks
<1>13. ASSUME NEW c \in Calls, Stop(c) \/ PoolSweep(c) \/ PoolExpires(c)
       PROVE  QueueMarks'
  BY <1>13 DEF Stop, PoolSweep, PoolExpires, Removed, QueueMarks
<1>14. CASE SweepInactive \/ AcknowledgeChat \/ UNCHANGED vars
  BY <1>14 DEF SweepInactive, AcknowledgeChat, Removed, vars, QueueMarks
<1> QED
  BY <1>3, <1>4, <1>5, <1>6, <1>7, <1>8, <1>9, <1>10, <1>11, <1>12, <1>13, <1>14
     DEF Next, CallStep

\* The sweep of inactive generations never takes the time in the queue for
\* inactivity: what it aborts has stood still outside the queue.
THEOREM QueueTimeIsForgiven == Spec => SweptForInactivity
<1>1. TypeOK /\ QueueMarks =>
        [\A c \in Inactive : SweepInactive => idle[c] = "work"]_vars
  BY DEF QueueMarks, Inactive, TypeOK
<1>2. Spec => []QueueMarks
  BY InitMarks, StepMarks, TypeCorrect, PTL DEF Spec
<1> QED
  BY <1>1, <1>2, TypeCorrect, PTL DEF Spec, SweptForInactivity
=============================================================================
