SPECIFICATION Spec
CONSTANTS
    r1 = r1
    r2 = r2
    Requests = {r1, r2}
    IdOf <- SameSecond
    Threads = {t1}
    Sockets = {s1, s2, s3}
    MaxAttempts = 2
    None = None
SYMMETRY Symmetric
INVARIANTS SocketsKept CanceledIfAsked DiesOnlyInResolve
CHECK_DEADLOCK FALSE
