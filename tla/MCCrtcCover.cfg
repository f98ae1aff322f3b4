SPECIFICATION Spec
CONSTANTS
    NumCrtcs = 2
    NumOutputs = 2
    Modes <- MCModes
    Drawables <- MCDrawables
    SlaveBoxes <- MCSlaveBoxes
    Short = 16
INVARIANTS
    BestCovers
    RightCrtc
CHECK_DEADLOCK FALSE
