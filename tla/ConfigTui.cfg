SPECIFICATION Spec
CHECK_DEADLOCK FALSE
CONSTANTS
    Ids <- IdSeq
    Envelopes = {"enc"}
    Started <- StartedConfig
    BagNames = {"a", "b"}
    KeyNames = {"k", "l"}
    SourceNames = {"local", "aws", "s"}
    Arns = {"r"}
    Cmds = {"c"}
    NewValues = {"2", "enc"}
    RemoteKeys = {"x"}
    MaxEdits = 2
    MaxSaves = 2
    MaxVisits = 1
    MaxMappings = 2
    MaxModals = 1
INVARIANTS
    TuiTypeOK
    RoundTrip
    NoSilentLoss
    StableIds
PROPERTIES
    RenameKeepsValues
    ToggleKeepsOthers
