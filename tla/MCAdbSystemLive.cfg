SPECIFICATION FairSysSpec
CONSTANTS
    RemoteIds = {1, 2}
    IdSpace = 4
    Dests <- OnlyLogin
    None = None
    InCap = 1
    WireCap = 1
    PipeCap = 1
    MaxChunks = 1
    MaxCnxn = 2
PROPERTIES
    OpenAnswered
    ExitDropped
    CloseHonoured
