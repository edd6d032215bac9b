\* Two tasks of any kind and the drain of chunk rebuilds in one lane.
SPECIFICATION FairSpec
CONSTANTS
    Tasks = {t1, t2}
    Rebuild = rebuild
    NoTask = NoTask
    Chunks = {c1, c2}
    Positions = {1, 2}
    RunsMayFail = TRUE
INVARIANTS TypeOK OneAtATime FreshIngestsOnly AbortedIsSuperseded EditsCovered
PROPERTIES EventuallySettled
