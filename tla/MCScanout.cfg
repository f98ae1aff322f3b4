CONSTANTS
    NumCrtcs = 2
    Rotatable = {2}
    NumWindows = 1
    MaxFlips = 2
    MaxFaults = 1
SPECIFICATION Spec
INVARIANTS
    OneOwner
    LitUnlessBlamed
    UnflipShowsScreen
    FlippingFlags
VIEW View
