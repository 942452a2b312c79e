SPECIFICATION FairSpec
CONSTANTS
    MaxPayload = 6
    Modes <- MCModes
    Keys <- MCKeys
    MaxFrames = 2
    InFlight = 1
    StdinCap = 2
INVARIANTS
    InputOK
    AtMessageStart
    InputAsTyped
    NothingInvented
PROPERTIES
    MessageEnds
    InputEnds
CHECK_DEADLOCK FALSE
