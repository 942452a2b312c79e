SPECIFICATION FairSpec
CONSTANTS
    Ports = {1, 2}
    MaxProbes = 120
    Scripts = {"run", "stub"}
INVARIANTS
    LauncherOK
    ReadyIsOurs
    NoOrphan
PROPERTIES
    Answers
    EndsTogether
CHECK_DEADLOCK FALSE
