SPECIFICATION Spec
CONSTANTS
    Depth = 2
    MaxTx = 3
    MaxRx = 3
    Burst = 1
    MaxCnt = 1
    CntBeforeIe = TRUE
INVARIANTS
    SemaphoresMatchFifos
    KnowledgeIsStable
    NoLostInterrupt
PROPERTIES
    TxIsChannel
    RxIsChannel
    StopCompletes
    AcceptedIsSent
CHECK_DEADLOCK FALSE
