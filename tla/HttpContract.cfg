SPECIFICATION Spec
CONSTANTS
    r1 = r1
    r2 = r2
    Requests = {r1, r2}
    IdOf <- OwnSeconds
    Threads = {t1, t2}
    Sockets = {s1, s2}
    MaxAttempts = 2
    None = None
SYMMETRY Symmetric
PROPERTY KeepsContract
CHECK_DEADLOCK FALSE
