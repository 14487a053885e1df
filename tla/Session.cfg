SPECIFICATION FairSpec
CONSTANTS
    Users = {u1, u2}
    Slots = {1, 2}
    OtherModes = {"SignUp"}
    None = None
    Anon = Anon
    Torn = Torn
INVARIANTS
    HeaderTrue
    DiesOnlyIfOverlapped
    LogoutForgets
PROPERTIES
    FirstLoginEnds
CHECK_DEADLOCK FALSE
