SPECIFICATION Spec
CONSTANTS
    Harts = {h1}
    HalfWord = 4
    Halves = {0, 1, 3}
    DIVIDEND = 3
    US_MAX = 4
    TimeSteps = {1}
    MaxTime = 11
INVARIANTS
    NoLostTimeout
    PendingIsDue
PROPERTIES
    TimeoutArrives
CHECK_DEADLOCK FALSE
