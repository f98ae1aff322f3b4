SPECIFICATION Spec
CONSTANTS
    Pixmaps = {p1, p2, p3}
    NumBuffers = 2
    NumFds = 3
    MaxFaults = 1
SYMMETRY Symmetry
INVARIANTS
    HandlesKept
    Owned
CHECK_DEADLOCK FALSE
