\* Two users, chunks and lore-book entries, batches of one or two.
SPECIFICATION FairSpec
CONSTANTS
    c1 = c1  c2 = c2  b1 = b1  b2 = b2
    alice = alice  bob = bob
    Chunks = {c1, c2}
    Books = {b1, b2}
    Owner <- TwoOwners
    Priorities = {1, 2}
    BatchSizes = {1, 2}
    MaxWait = 2
    MaxAdds = 4
    MaxTroubles = 1
INVARIANTS TypeOK EditsStayForced
PROPERTIES EventuallyEmpty
CHECK_DEADLOCK FALSE
