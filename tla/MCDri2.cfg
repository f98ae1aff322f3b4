SPECIFICATION FairSpec
CONSTANTS
    Clients = {c1, c2}
    NumWindows = 2
    NumBuffers = 4
    NumEvents = 2
    Redirectable = {1}
    QueueFails = FALSE
INVARIANTS
    BufferRefs
    NoDangling
    SwapReported
    FrontIsFramebuffer
PROPERTY EveryFrameEnds
CHECK_DEADLOCK FALSE
