SPECIFICATION SwapSpec
CONSTANTS
    MaxMsc = 9
    MaxDivisor = 4
INVARIANTS
    OnTime
    NeverEarly
CHECK_DEADLOCK FALSE
