SPECIFICATION Spec
CONSTANTS
    Conns = {c1, c2}
    Sess = {s1, s2}
    Pids = {p1, p2}
    MaxFd = 8
INVARIANT EofOnClose
CHECK_DEADLOCK FALSE
