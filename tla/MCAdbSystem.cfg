SPECIFICATION SysSpec
CONSTANTS
    RemoteIds = {1, 2}
    IdSpace = 4
    Dests <- FewDests
    None = None
    InCap = 2
    WireCap = 1
    PipeCap = 1
    MaxChunks = 1
    MaxCnxn = 2
INVARIANTS
    SysTypeOK
    NoCrossTalk
    OpenOrTold
    IdsTellApart
    StaysConnected
PROPERTIES
    ImplementsStreams
