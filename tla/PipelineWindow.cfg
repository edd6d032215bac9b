SPECIFICATION Spec
CONSTANTS
    Tasks = {t1, t2}
    Rebuild = rebuild
    NoTask = NoTask
    Chunks = {c1}
    Positions = {1, 2}
    RunsMayFail = FALSE
INVARIANTS NoEditDropped
