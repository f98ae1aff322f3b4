CONSTANTS
    NumSinkCrtcs = 1
    NumPixmaps = 2
    MaxSeq = 3
    MaxFaults = 2
SPECIFICATION SharedSpec
INVARIANTS
    OneHandler
    Alive
PROPERTIES
    NoTearing
    DrawingsShown
CHECK_DEADLOCK FALSE
