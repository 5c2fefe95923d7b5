SPECIFICATION Spec
CONSTANTS
    c1 = c1
    c2 = c2
    c3 = c3
    L = L
    M = M
    R = R
    Boot = Boot
    Blank = Blank
    None = None
    Conns <- TwoConns
    Reloaders <- TwoConns
    LocalSources <- OneLocal
    RemoteSources <- OneRemote
    VarSources <- RemoteThenLocal
    MaxConns = 2
    MaxSaves = 1
    IdleTimeout = 0
INVARIANTS
    AckedReloadServed
CHECK_DEADLOCK FALSE
