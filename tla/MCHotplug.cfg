SPECIFICATION Spec
CONSTANTS
    Ports = {m1, m2}
    Ids = {i1, i2}
    Crtcs = {c1, c2}
    LesseeIds = {l1, l2}
    MaxFaults = 1
    MaxEvents = 4
    None = None
INVARIANTS
    OutputsRight
    LesseesKnown
PROPERTIES
    LeaseEnds
    ConnectorFound
    LinkRetrained
CHECK_DEADLOCK FALSE
