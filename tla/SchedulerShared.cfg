\* Two accounts with unlike settings share one resource.
SPECIFICATION Spec
CONSTANTS
    r1 = r1  r2 = r2  r3 = r3
    alice = alice  bob = bob
    NoWaiter = NoWaiter  NoLease = NoLease
    Requests <- ThreeRequests
    Users <- BothUsers
    Configs <- SharedConfigs
    OfferedClasses = {"interactive", "background", "bulk"}
    AgeCap = 2
SYMMETRY BothSymmetry3
INVARIANTS TypeOK LimitIsSmallest
PROPERTIES NoOvertaking PreemptionJustified PoolSpec
