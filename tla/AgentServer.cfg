SPECIFICATION Spec
CONSTANTS
    c1 = c1
    c2 = c2
    c3 = c3
    L = L
    M = M
    R = R
    Boot = Boot
    Blank = Blank
    None = None
    Conns <- ThreeConns
    Reloaders <- TwoReloaders
    LocalSources <- OneLocal
    RemoteSources <- OneRemote
    VarSources <- RemoteThenLocal
    MaxConns = 2
    MaxSaves = 2
    IdleTimeout = 0
INVARIANTS
    FetchOkGenuine
    FetchSeesReload
    CutOnlyAfterTimeout
    SlotsBounded
SYMMETRY ReloadersSymmetric
CHECK_DEADLOCK FALSE
