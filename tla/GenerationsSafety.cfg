\* A generation and two starts that take its chat over at once.
SPECIFICATION Spec
CONSTANTS
    Calls = {g1, g2, g3}
    NoCall = NoCall
    MaxRounds = 1
SYMMETRY Symmetry
INVARIANTS TypeOK RegistryTracksLive OneLiveUncontended
PROPERTIES SuccessorKeepsChat SweptForInactivity
CHECK_DEADLOCK FALSE
