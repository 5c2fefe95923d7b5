SPECIFICATION Spec
CONSTANTS
    u1 = u1
    u2 = u2
    u3 = u3
    None = None
    Unlocks <- ThreeUnlocks
    MaxCrashes = 1
INVARIANTS
    TypeOK
    ServingOwnsFiles
    OneListening
    CleanExitLeavesNothing
    LeftoversDoNotBlock
CHECK_DEADLOCK FALSE
