SPECIFICATION Spec
CONSTANTS
    Programs <- MCPrograms
    SolverTimeout = TRUE
    DiskMayFail = TRUE
INVARIANTS
    CompleteExploration
    TestCasesKept
    ReplayReproduces
PROPERTIES
    Termination
    ImplementsPathCoverage
CHECK_DEADLOCK FALSE
