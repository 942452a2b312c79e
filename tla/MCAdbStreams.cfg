SPECIFICATION Spec
CONSTANTS
    RemoteIds = {1, 2}
    IdSpace = 3
    Dests = {}
    None = None
    MaxAnswer = 1
INVARIANTS
    ClseIsLast
    ExitThenClse
    Answerable
CONSTRAINT Bound
CHECK_DEADLOCK FALSE
