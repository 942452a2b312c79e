SPECIFICATION SysSpec
CONSTANTS
    RemoteIds = {1}
    IdSpace = 3
    Dests <- OnlyCommand
    None = None
    InCap = 1
    WireCap = 2
    PipeCap = 1
    MaxChunks = 0
    MaxCnxn = 1
INVARIANT OutputComplete
