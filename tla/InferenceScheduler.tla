------------------------- MODULE InferenceScheduler -------------------------
(***************************************************************************)
(* One resource of the local-inference admission scheduler                 *)
(* (src/services/inference-scheduler/scheduler.ts): a queue of waiters, a  *)
(* set of active leases, and one concurrency limit per participant.        *)
(*                                                                         *)
(* Every handler of the scheduler is synchronous, so an action is a whole  *)
(* handler, the pump at its end included.  A request is one call of        *)
(* acquireInferenceLease that reaches the queue; disabled users, remote    *)
(* endpoints and nested calls get an unscheduled lease and never touch it. *)
(* Labels, counters, activity stamps and notifications are left out.       *)
(***************************************************************************)
EXTENDS Integers, FiniteSets

CONSTANTS Requests,         \* request identities, reused after they settle
          Users,            \* accounts that share the resource
          Configs,          \* scheduler settings an account may have
          OfferedClasses,   \* request classes the callers use
          AgeCap,           \* ages are counted in ticks up to this bound
          NoWaiter, NoLease \* the absent records

Classes == {"interactive", "user", "retrieval", "background", "bulk"}

BasePriority ==
    [c \in Classes |-> CASE c = "interactive" -> 0
                         [] c = "user"        -> 1
                         [] c = "retrieval"   -> 2
                         [] c = "background"  -> 3
                         [] c = "bulk"        -> 4]

MinAgedPriority        == BasePriority["retrieval"]
PreemptibleMinPriority == BasePriority["background"]

Limits == 1..8

\* A user's settings as normalizeInferenceSchedulerConfig leaves them; times
\* are in ticks, agingTicks = 0 switches aging off, and maxWait says only
\* whether a queue timeout is configured.
ConfigRecord == [enabled    : BOOLEAN,
                 concurrency: Limits,
                 preempt    : BOOLEAN,
                 agingTicks : Nat,
                 maxWait    : BOOLEAN]

\* `ahead' holds the waiters that were in the queue when this one was pushed.
WaiterRecord == [user  : Users,
                 class : OfferedClasses,
                 config: Configs,
                 timed : BOOLEAN,
                 age   : 0..AgeCap,
                 ahead : SUBSET Requests]

LeaseRecord == [user   : Users,
                class  : OfferedClasses,
                aborted: BOOLEAN]

ASSUME SchedulerAssumption ==
    /\ IsFiniteSet(Requests)
    /\ Configs \subseteq ConfigRecord
    /\ OfferedClasses \subseteq Classes
    /\ AgeCap \in Nat
    /\ \A c \in Configs : AgeCap >= 2 * c.agingTicks
    /\ NoWaiter \notin WaiterRecord
    /\ NoLease \notin LeaseRecord

VARIABLES waiter,       \* resource.waiting: the record of each waiting request
          lease,        \* resource.active: the record of each admitted request
          limitOf,      \* resource.concurrencyByUser, 0 for an absent entry
          concurrency,  \* resource.concurrency
          config        \* the settings configFor returns for each user

vars == <<waiter, lease, limitOf, concurrency, config>>

Present(f, absent) == {r \in Requests : f[r] # absent}

Waiting == Present(waiter, NoWaiter)
Active  == Present(lease, NoLease)
Idle    == Requests \ (Waiting \cup Active)

-----------------------------------------------------------------------------
\* Participants and the shared limit

Smaller(a, b) == IF a <= b THEN a ELSE b

\* Mutant: an idle resource has no limit at all.
EffectiveLimitNoFloor(limits) ==
    LET configured == {limits[u] : u \in Users} \ {0}
    IN  IF configured = {} THEN 0
        ELSE CHOOSE n \in configured : \A m \in configured : n <= m

\* updateResourceConcurrency: the smallest configured limit, 1 without any.
EffectiveLimit(limits) ==
    LET configured == {limits[u] : u \in Users} \ {0}
    IN  IF configured = {} THEN 1
        ELSE CHOOSE n \in configured : \A m \in configured : n <= m

\* Mutant: an account that only waits is forgotten.
DropIdleActiveOnly(limits, u, wt, ls) ==
    IF \E r \in Present(ls, NoLease) : ls[r].user = u
    THEN limits
    ELSE [limits EXCEPT ![u] = 0]

\* The limits once the last waiter or lease of user u may have left.
DropIdle(limits, u, wt, ls) ==
    IF \/ \E r \in Present(wt, NoWaiter) : wt[r].user = u
       \/ \E r \in Present(ls, NoLease)  : ls[r].user = u
    THEN limits
    ELSE [limits EXCEPT ![u] = 0]

SetLimits(limits) ==
    /\ limitOf' = limits
    /\ concurrency' = EffectiveLimit(limits)

-----------------------------------------------------------------------------
\* The order in which waiters are served, under the settings c of whoever
\* triggered the pump.

\* Mutant: aging is forgotten.
EffectivePriorityUnaged(w, c) == BasePriority[w.class]

EffectivePriority(w, c) ==
    LET base == BasePriority[w.class]
    IN  IF base <= MinAgedPriority \/ c.agingTicks = 0 THEN base
        ELSE LET aged == base - (w.age \div c.agingTicks)
             IN  IF aged < MinAgedPriority THEN MinAgedPriority ELSE aged

\* Mutant: ties go to the newest waiter.
BeforeNewestFirst(wt, c, r, s) ==
    \/ EffectivePriority(wt[r], c) < EffectivePriority(wt[s], c)
    \/ /\ EffectivePriority(wt[r], c) = EffectivePriority(wt[s], c)
       /\ s \in wt[r].ahead

Before(wt, c, r, s) ==
    \/ EffectivePriority(wt[r], c) < EffectivePriority(wt[s], c)
    \/ /\ EffectivePriority(wt[r], c) = EffectivePriority(wt[s], c)
       /\ r \in wt[s].ahead

\* pickBestWaiter among the waiters in W.
IsBest(wt, c, W, r) == \A s \in W \ {r} : Before(wt, c, r, s)

-----------------------------------------------------------------------------
\* pumpResource: admit while there is room, then perhaps preempt.

Room(n, busy) == IF busy < n THEN n - busy ELSE 0

\* The batch G the admission loop takes from W when A already holds slots.
IsBatch(wt, c, W, A, G) ==
    /\ Cardinality(G) = Smaller(Cardinality(W),
                                Room(concurrency', Cardinality(A)))
    /\ \A g \in G, s \in W \ G : Before(wt, c, g, s)

\* Mutant: a holder of the waiter's own class may be aborted.
PreemptableSameClass(ls, p) ==
    {r \in Present(ls, NoLease) :
        /\ ~ls[r].aborted
        /\ BasePriority[ls[r].class] >= PreemptibleMinPriority
        /\ BasePriority[ls[r].class] >= p}

\* pickPreemptableActive: the holders that a waiter of base priority p may
\* abort.  Ties within a class go to the newest lease; start times are below
\* the resolution of a tick, so any of the class may be hit.
Preemptable(ls, p) ==
    {r \in Present(ls, NoLease) :
        /\ ~ls[r].aborted
        /\ BasePriority[ls[r].class] >= PreemptibleMinPriority
        /\ BasePriority[ls[r].class] > p}

LeastUrgent(ls, S) ==
    {r \in S : \A s \in S : BasePriority[ls[s].class] <= BasePriority[ls[r].class]}

\* Mutant: a resource over its limit is not seen as full.
VictimsAtLimitOnly(wt, ls, c, W) ==
    LET targets == UNION {LeastUrgent(ls, Preemptable(ls, BasePriority[wt[r].class])) :
                            r \in {s \in W : IsBest(wt, c, W, s)}}
    IN  IF \/ ~c.preempt
           \/ Cardinality(Present(ls, NoLease)) # concurrency'
           \/ targets = {}
        THEN {{}}
        ELSE {{t} : t \in targets}

\* maybePreempt: the sets of holders it may abort, at most one holder each.
Victims(wt, ls, c, W) ==
    LET targets == UNION {LeastUrgent(ls, Preemptable(ls, BasePriority[wt[r].class])) :
                            r \in {s \in W : IsBest(wt, c, W, s)}}
    IN  IF \/ ~c.preempt
           \/ Cardinality(Present(ls, NoLease)) < concurrency'
           \/ targets = {}
        THEN {{}}
        ELSE {{t} : t \in targets}

Granted(w) == [user |-> w.user, class |-> w.class, aborted |-> FALSE]

Pump(wt, ls, c) ==
    LET W == Present(wt, NoWaiter)
        A == Present(ls, NoLease)
    IN \E G \in SUBSET W :
        LET granted == [r \in Requests |-> IF r \in G THEN Granted(wt[r]) ELSE ls[r]]
        IN /\ IsBatch(wt, c, W, A, G)
           /\ waiter' = [r \in Requests |->
                           IF r \in W \ G
                           THEN [wt[r] EXCEPT !.ahead = @ \ G]
                           ELSE NoWaiter]
           /\ \E V \in Victims(wt, granted, c, W \ G) :
                lease' = [r \in Requests |->
                            IF r \in V THEN [granted[r] EXCEPT !.aborted = TRUE]
                                       ELSE granted[r]]

-----------------------------------------------------------------------------
\* resolveMaxWait, reduced to whether the queue timer is armed: `override' is
\* the caller's maxWaitMs, where given.
MaxWaitOverride == {"none", "forever", "bounded"}

TimerArmed(c, class, override) ==
    \/ override = "bounded"
    \/ override = "none" /\ class # "interactive" /\ c.maxWait

\* The queue without waiter r.
Without(wt, r) ==
    [s \in Requests |-> IF s = r \/ wt[s] = NoWaiter
                        THEN NoWaiter
                        ELSE [wt[s] EXCEPT !.ahead = @ \ {r}]]

\* acquireInferenceLease followed by enqueue, for a user whose scheduler is on.
Acquire(r, u, class, override) ==
    LET c   == config[u]
        new == [user |-> u, class |-> class, config |-> c, age |-> 0,
                timed |-> TimerArmed(c, class, override), ahead |-> Waiting]
    IN  /\ r \in Idle
        /\ c.enabled
        /\ SetLimits([limitOf EXCEPT ![u] = c.concurrency])
        /\ Pump([waiter EXCEPT ![r] = new], lease, c)
        /\ UNCHANGED config

\* acquireInferenceLease with a signal that is aborted already: the limit is
\* noted, nobody is pushed, and the settled waiter's clean-up still pumps.
AcquireAborted(u) ==
    LET c == config[u]
    IN  /\ c.enabled
        /\ SetLimits(DropIdle([limitOf EXCEPT ![u] = c.concurrency], u, waiter, lease))
        /\ Pump(waiter, lease, c)
        /\ UNCHANGED config

\* Mutant: giving up does not pump.
FailWithoutPump(r) ==
    LET rest == Without(waiter, r)
    IN  /\ SetLimits(DropIdle(limitOf, waiter[r].user, rest, lease))
        /\ waiter' = rest
        /\ UNCHANGED <<lease, config>>

\* `fail': a waiter leaves the queue without a slot, and the queue is pumped
\* under the settings captured when it was enqueued.
Fail(r) ==
    LET rest == Without(waiter, r)
    IN  /\ SetLimits(DropIdle(limitOf, waiter[r].user, rest, lease))
        /\ Pump(rest, lease, waiter[r].config)
        /\ UNCHANGED config

CallerAbortsWaiting(r) == r \in Waiting /\ Fail(r)

Timeout(r) == r \in Waiting /\ waiter[r].timed /\ Fail(r)

\* The caller's signal aborts an admitted request; it keeps its slot until it
\* releases it.
CallerAbortsActive(r) ==
    /\ r \in Active
    /\ ~lease[r].aborted
    /\ lease' = [lease EXCEPT ![r].aborted = TRUE]
    /\ UNCHANGED <<waiter, limitOf, concurrency, config>>

\* Mutant: a release does not pump.
ReleaseWithoutPump(r) ==
    LET u    == lease[r].user
        rest == [lease EXCEPT ![r] = NoLease]
    IN  /\ r \in Active
        /\ SetLimits(DropIdle(limitOf, u, waiter, rest))
        /\ lease' = rest
        /\ UNCHANGED <<waiter, config>>

\* lease.release(): the slot is returned, then the participant's limit is
\* dropped if this was its last work, and only then is the queue pumped, under
\* the settings the releasing user has now.
Release(r) ==
    LET u    == lease[r].user
        rest == [lease EXCEPT ![r] = NoLease]
    IN  /\ r \in Active
        /\ SetLimits(DropIdle(limitOf, u, waiter, rest))
        /\ Pump(waiter, rest, config[u])
        /\ UNCHANGED config

\* Settings are saved, or a stale cache entry expires.
SetConfig(u, c) ==
    /\ c # config[u]
    /\ config' = [config EXCEPT ![u] = c]
    /\ UNCHANGED <<waiter, lease, limitOf, concurrency>>

\* Time passes; nothing pumps when it does.  Date.now is taken as monotone.
Tick ==
    /\ \E r \in Waiting : waiter[r].age < AgeCap
    /\ waiter' = [r \in Requests |->
                    IF r \in Waiting
                    THEN [waiter[r] EXCEPT !.age = Smaller(AgeCap, @ + 1)]
                    ELSE NoWaiter]
    /\ UNCHANGED <<lease, limitOf, concurrency, config>>

-----------------------------------------------------------------------------
Init ==
    /\ waiter = [r \in Requests |-> NoWaiter]
    /\ lease = [r \in Requests |-> NoLease]
    /\ limitOf = [u \in Users |-> 0]
    /\ concurrency = 1
    /\ config \in [Users -> Configs]

Next ==
    \/ \E r \in Requests, u \in Users, class \in OfferedClasses, o \in MaxWaitOverride :
            Acquire(r, u, class, o)
    \/ \E u \in Users : AcquireAborted(u)
    \/ \E r \in Requests : CallerAbortsWaiting(r)
    \/ \E r \in Requests : Timeout(r)
    \/ \E r \in Requests : CallerAbortsActive(r)
    \/ \E r \in Requests : Release(r)
    \/ \E u \in Users, c \in Configs : SetConfig(u, c)
    \/ Tick

Spec == Init /\ [][Next]_vars

\* Holders release in a finally block, and time goes on.  Callers need not
\* abort, no timer need be armed, and nobody need ask again.
Fairness ==
    /\ \A r \in Requests : WF_vars(Release(r))
    /\ WF_vars(Tick)

FairSpec == Spec /\ Fairness

-----------------------------------------------------------------------------
(* Safety *)

\* Every variable has its type; a request waits, runs or is idle.
TypeOK ==
    /\ waiter \in [Requests -> WaiterRecord \cup {NoWaiter}]
    /\ lease \in [Requests -> LeaseRecord \cup {NoLease}]
    /\ Waiting \cap Active = {}
    /\ limitOf \in [Users -> Limits \cup {0}]
    /\ concurrency \in Limits
    /\ config \in [Users -> Configs]

\* No wake-up is lost: after every handler, whoever still waits faces a full
\* resource, although limits move when participants come, go and re-save their
\* settings (release, fail and enqueue each end in pumpResource).
WorkConserving == Waiting # {} => Cardinality(Active) >= concurrency

HasWork(u) == \/ \E r \in Waiting : waiter[r].user = u
              \/ \E r \in Active  : lease[r].user = u

\* Exactly the accounts with waiting or active work bind the shared limit, and
\* it is the smallest of theirs (noteParticipantConcurrency against
\* releaseIdleParticipant on every way out of the queue).
LimitIsSmallest ==
    /\ \A u \in Users : HasWork(u) <=> limitOf[u] # 0
    /\ \A u \in Users : HasWork(u) => concurrency <= limitOf[u]
    /\ Idle # Requests => \E u \in Users : concurrency = limitOf[u]

\* A slot is handed out only while the pool is within the limit of every
\* account that takes part, the ones that only wait included.
AdmissionWithinEveryLimit ==
    [][\A r \in Active' \ Active :
          \A u \in Users : HasWork(u)' => Cardinality(Active') <= limitOf'[u]]_vars

\* Whatever the settings of the account whose handler happens to pump, aging
\* never turns the order round: a waiter is not passed over by a later one of
\* its own or a less urgent class, and an interactive or user waiter not even
\* by an earlier, aged one.
NoOvertaking ==
    [][\A g \in Active' \ Active, s \in Waiting \cap Waiting' :
          LET base == BasePriority[waiter[s].class]
              got  == BasePriority[lease'[g].class]
          IN  /\ (g \notin Waiting \/ s \in waiter[g].ahead) => got < base
              /\ base < MinAgedPriority => got <= base]_vars

\* The active leases whose signal this step aborts.
NewlyAborted == {r \in Active \cap Active' : ~lease[r].aborted /\ lease'[r].aborted}

\* A handler that changes the queue or the slots aborts at most one holder, of
\* class background or bulk, and only with the resource full and somebody more
\* urgent left waiting (maybePreempt; a caller's own abort changes neither).
PreemptionJustified ==
    [][(Waiting' # Waiting \/ Active' # Active) =>
          \A r \in NewlyAborted :
             /\ NewlyAborted = {r}
             /\ lease[r].class \in {"background", "bulk"}
             /\ Cardinality(Active') >= concurrency'
             /\ \E w \in Waiting' :
                   BasePriority[waiter'[w].class] < BasePriority[lease[r].class]]_vars

\* While an interactive or user request waits, background work does not just
\* keep running: some holder has been told to stop, or none can be.  It needs
\* preemption in every account's settings, since any of them may pump.
UrgentWaiterPreempts ==
    (/\ \A c \in Configs : c.preempt
     /\ \E w \in Waiting : waiter[w].class \in {"interactive", "user"})
    => \/ \E r \in Active : lease[r].aborted
       \/ \A r \in Active : lease[r].class \notin {"background", "bulk"}

-----------------------------------------------------------------------------
(* Liveness, under FairSpec *)

\* An interactive request does not wait for ever, whatever the others ask for,
\* abort or re-configure in the meantime.
InteractiveLeavesQueue ==
    \A r \in Requests :
        (r \in Waiting /\ waiter[r].class = "interactive") ~> (r \notin Waiting)

\* With aging on for every account, once interactive and user traffic has
\* ceased a background or bulk request leaves the queue, however much retrieval
\* arrives.
AgedLeavesQueue ==
    <>[](/\ \A r \in Waiting : BasePriority[waiter[r].class] >= MinAgedPriority
         /\ \A r \in Active  : BasePriority[lease[r].class] >= MinAgedPriority)
    => \A r \in Requests : (r \in Waiting) ~> (r \notin Waiting)

-----------------------------------------------------------------------------
(* The scheduler implements the abstract pool. *)

Pool == INSTANCE AdmissionPool
          WITH queued <- Waiting, running <- Active, limit <- concurrency

PoolSpec == Pool!Spec
=============================================================================
