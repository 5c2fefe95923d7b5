SPECIFICATION FairSpec
CONSTANTS
    u1 = u1
    u2 = u2
    u3 = u3
    None = None
    Unlocks <- TwoUnlocks
    MaxCrashes = 1
PROPERTIES
    SpawnOkMeansListening
CHECK_DEADLOCK FALSE
