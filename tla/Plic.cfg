SPECIFICATION Spec
CONSTANTS
    NumberInterrupts = 4
    MaxPriority = 2
    QuietConfig = TRUE
    LoopingHandler = FALSE
INVARIANTS
    CompleteFindsEip
    NoMissedSignal
    NoSpuriousInterrupt
PROPERTIES
    PendingIsServed
