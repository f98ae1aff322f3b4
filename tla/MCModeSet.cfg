CONSTANTS
    NumCrtcs = 2
    NumOutputs = 2
    NumModes = 2
    Modes <- MCModes
    MaxFaults = 1
SPECIFICATION Spec
INVARIANTS
    RequestsConsistent
    KernelFollows
    CurrentCrtcKnown
CHECK_DEADLOCK FALSE
