SPECIFICATION Spec
CONSTANTS
    p1 = p1
    p2 = p2
    None = None
    Absent = Absent
    Torn = Torn
    Procs <- TwoProcs
    MaxEdits = 2
    MaxTime = 1
    MaxStarts = 3
    MaxPulls = 1
    Retentions <- Windows
SYMMETRY ProcsSymmetric
INVARIANTS
    TypeOK
    LockedEditsSurvive
    MigrationLosesNothing
    BackupKept
CHECK_DEADLOCK FALSE
