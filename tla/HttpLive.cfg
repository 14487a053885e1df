SPECIFICATION FairSpec
CONSTANTS
    r1 = r1
    r2 = r2
    Requests = {r1, r2}
    IdOf <- OwnSeconds
    Threads = {t1}
    Sockets = {s1, s2}
    MaxAttempts = 2
    None = None
PROPERTY PostedIsAnswered
CHECK_DEADLOCK FALSE
