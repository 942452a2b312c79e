SPECIFICATION Spec
CONSTANTS
    Conns = {c1, c2}
    Sess = {s1, s2}
    Pids = {p1, p2}
    MaxFd = 8
SYMMETRY Names
INVARIANTS
    ProcsOK
    FdsOwned
    NoneLeaked
    ExitIsOurs
    NoCircle
    NoneForgotten
    NeverWaits
CHECK_DEADLOCK FALSE
