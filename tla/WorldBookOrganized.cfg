SPECIFICATION Spec
CONSTANTS
    Entries = {1}
    Edited = {1}
    Worker = worker
    Routes = {route}
    Droppers = {}
    Deleters = {}
    MaxStamp = 2
    MaxTroubles = 0
INVARIANTS OrganizingKeepsVectors
