SPECIFICATION Spec
CONSTANTS
    m1 = m1
    m2 = m2
    None = None
    Machines <- TwoMachines
    MaxEdits = 2
    MaxPushes = 3
    Forces = {FALSE}
SYMMETRY MachinesSymmetric
INVARIANT
    CasKeepsUpdates
CHECK_DEADLOCK FALSE
