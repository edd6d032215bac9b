\* Four requests of mixed kinds in a queue of three.
SPECIFICATION Spec
CONSTANTS
    Requests = {q1, q2, q3, q4}
    NoRequest = NoRequest
    Offers <- MixedOffers
    MaxPending = 3
    MaxStreak = 1
SYMMETRY Symmetry
INVARIANTS TypeOK OutcomeTruthful OneWriter OpenIsPending StalledOnlyAfterFailedStart
PROPERTIES EarlierWritesDone
CHECK_DEADLOCK FALSE
