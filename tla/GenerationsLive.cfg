\* Providers may hang: who ends the generation?
SPECIFICATION FairSpec
CONSTANTS
    Calls = {g1, g2}
    NoCall = NoCall
    MaxRounds = 2
PROPERTIES EveryCallEnds
CHECK_DEADLOCK FALSE
