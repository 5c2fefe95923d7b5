SPECIFICATION FairSpec
CONSTANTS
    c1 = c1
    c2 = c2
    c3 = c3
    L = L
    M = M
    R = R
    Boot = Boot
    Blank = Blank
    None = None
    Conns <- TwoConns
    Reloaders <- TwoConns
    LocalSources <- TwoLocals
    RemoteSources <- OneRemote
    VarSources <- RemoteThenLocal
    MaxConns = 2
    MaxSaves = 0
    IdleTimeout = 1
INVARIANTS
    TypeOK
    PlaintextOwned
    WipedOnDrainedExit
    OneWiper
PROPERTIES
    IdleAgentStops
CHECK_DEADLOCK FALSE
