\* Two edits of one chat and a process that dies at any point.
SPECIFICATION FairSpec
CONSTANTS
    Rows = {r1, r2}
    MaxCrashes = 1
INVARIANTS TypeOK AtMostOneStart LiveBehindFailed
PROPERTIES NormalOutputKept VerdictsAreFinal EventuallySettled
