SPECIFICATION Spec
CONSTANTS
    m1 = m1
    m2 = m2
    None = None
    Machines <- TwoMachines
    MaxEdits = 2
    MaxPushes = 3
    Forces = {TRUE, FALSE}
SYMMETRY MachinesSymmetric
INVARIANTS
    NoLostUpdate
PROPERTIES
    PullAppliesLanded
CHECK_DEADLOCK FALSE
