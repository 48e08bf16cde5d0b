SPECIFICATION Spec
CONSTANTS
    Harts = {h1, h2}
    HalfWord = 4
    Halves = {1, 3}
    scaler = 2
    Quantum = 2
    Access = 2
    MaxTime = 6
SYMMETRY Symmetry
INVARIANTS
    Punctual
    PendingIsDue
CHECK_DEADLOCK FALSE
