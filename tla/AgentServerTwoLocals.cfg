SPECIFICATION Spec
CONSTANTS
    c1 = c1
    c2 = c2
    c3 = c3
    L = L
    M = M
    R = R
    Boot = Boot
    Blank = Blank
    None = None
    Conns <- TwoConns
    Reloaders <- OneReloader
    LocalSources <- TwoLocals
    RemoteSources <- OneRemote
    VarSources <- BothLocals
    MaxConns = 2
    MaxSaves = 1
    IdleTimeout = 0
INVARIANTS
    InFlightFetchPopulated
CHECK_DEADLOCK FALSE
