SPECIFICATION FairSpec
CONSTANTS
    NumCrtcs = 2
    MaxFlips = 3
    MaxVblanks = 1
    MaxDepth = 4
INVARIANTS
    RefCount
    AnsweredOnce
    DisplayAlive
PROPERTIES
    ToldWhenDone
    EveryFlipAnswered
CHECK_DEADLOCK FALSE
