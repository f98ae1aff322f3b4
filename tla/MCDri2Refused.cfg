SPECIFICATION Spec
CONSTANTS
    Clients = {c1}
    NumWindows = 1
    NumBuffers = 2
    NumEvents = 1
    Redirectable = {1}
    QueueFails = TRUE
INVARIANT FreedOnce
CHECK_DEADLOCK FALSE
