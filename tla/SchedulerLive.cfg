\* Who leaves the queue?  One account that changes its limit, with aging and
\* preemption; no symmetry, since liveness is checked.
SPECIFICATION FairSpec
CONSTANTS
    r1 = r1  r2 = r2  r3 = r3
    alice = alice  bob = bob
    NoWaiter = NoWaiter  NoLease = NoLease
    Requests <- ThreeRequests
    Users <- OneUser
    Configs <- AgedConfigs
    OfferedClasses = {"interactive", "retrieval", "bulk"}
    AgeCap = 2
INVARIANTS UrgentWaiterPreempts
PROPERTIES InteractiveLeavesQueue AgedLeavesQueue
