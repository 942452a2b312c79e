SPECIFICATION SysSpec
CONSTANTS
    RemoteIds = {1, 2}
    IdSpace = 4
    Dests <- AllDests
    None = None
    InCap = 1
    WireCap = 1
    PipeCap = 1
    MaxChunks = 1
    MaxCnxn = 1
PROPERTIES
    ImplementsStreams
