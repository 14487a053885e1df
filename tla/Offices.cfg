SPECIFICATION Spec
CONSTANTS
    o1 = o1
    o2 = o2
    p1 = p1
    p2 = p2
    Offered <- MCOffered
    Profiles = {p1, p2}
    Objects = {1, 2, 3, 4}
    Slots = {1, 2}
    None = None
INVARIANTS
    PrintsWhatIsShown
    DiesOnlyIfInitLate
    ConfigTrue
PROPERTIES
    ReplacedOnlyIfOverlapped
CHECK_DEADLOCK FALSE
