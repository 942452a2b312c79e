SPECIFICATION FairSpec
CONSTANTS
    RemoteIds = {1}
    IdSpace = 4
    Dests <- MCDests
    None = None
    InCap = 1
    WireCap = 1
    PipeCap = 1
    MaxChunks = 1
INVARIANTS
    TypeOK
    HandshakeGate
    IdsFresh
    PollSnapshotLive
    FinishedOnlyWhileClosing
CONSTRAINT Bound
PROPERTIES
    HangupEnds
