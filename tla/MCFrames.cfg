SPECIFICATION Spec
CONSTANTS
    MaxPayload = 6
    Modes <- OnlyLogin
    Keys <- MCKeys
    MaxFrames = 2
    InFlight = 1
    StdinCap = 4
INVARIANT FramesOfTheStream
CHECK_DEADLOCK FALSE
