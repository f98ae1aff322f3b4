SPECIFICATION FairSpec
CONSTANTS
    SeqModulus = 5
    NumScreens = 2
    Data = {d1, d2}
    KernelSpace = 2
    MaxAllocs = 5
    MaxDepth = 4
    MaxGenerations = 2
INVARIANTS
    SeqIdentifies
    CallbackOnce
    NoOrphan
    WatchedWhileUp
PROPERTIES
    ImplementsLedger
    EveryRequestEnds
