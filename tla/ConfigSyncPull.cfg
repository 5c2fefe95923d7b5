SPECIFICATION FairSpec
CONSTANTS
    m1 = m1
    m2 = m2
    None = None
    Machines <- TwoMachines
    MaxEdits = 2
    MaxPushes = 3
    Forces = {FALSE}
PROPERTY
    PullKeepsUnpublished
CHECK_DEADLOCK FALSE
