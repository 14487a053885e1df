SPECIFICATION Spec
CONSTANTS
    Pending = {1, 2}
    Old = {0}
    MaxRequests = 2
    MaxChanges = 1
INVARIANTS
    CardsTrue
    JobsShownOnce
    CompleteIsShown
PROPERTIES
    DiesOnlyBesidePending
CHECK_DEADLOCK FALSE
