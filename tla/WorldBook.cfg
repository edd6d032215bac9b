SPECIFICATION FairSpec
CONSTANTS
    Entries = {1, 2}
    Edited = {1}
    Worker = worker
    Routes = {route}
    Droppers = {dropper}
    Deleters = {deleter}
    MaxStamp = 2
    MaxTroubles = 1
INVARIANTS TypeOK NeverFoundByOldText 
PROPERTIES OneWriterPerEntry EventuallyIndexed
CHECK_DEADLOCK FALSE
