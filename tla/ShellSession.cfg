SPECIFICATION FairSpec
CHECK_DEADLOCK FALSE
CONSTANTS
    Alternatives <- OneClass
    Cmds = {"c"}
    Files <- OneScript
    Dirs <- TwoDirs
    Home <- Project
    BinDir <- Bin
    Configs <- TwoConfigs
    Broken = Broken
    Delay = 2
    Inherited = {{"stale"}}
    MaxEdits = 1
    MaxLines = 2
    MaxOnLine = 2
    MaxHops <- HopsInFront
    MaxFaults = 1
INVARIANTS
    SessionTypeOK
    WrappersCurrent
    RouteComplete
    HashFresh
    FirstHopWins
    TypedAsks
PROPERTIES
    EarlyKeyDecides
    CountdownEnds
    KeepsPromise
