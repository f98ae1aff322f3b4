SPECIFICATION MscSpec
CONSTANTS
    Quarter = 3
    Highs = 3
    MaxIdle = 2
    MaxLag = 2
    MaxAhead = 1
    Supports64 = TRUE
INVARIANT MscExact
PROPERTY MscAdvances
