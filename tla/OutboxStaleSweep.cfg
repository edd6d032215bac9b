SPECIFICATION Spec
CONSTANTS
    Rows = {r1}
    MaxCrashes = 0
INVARIANTS SavedNormalNotFailed
