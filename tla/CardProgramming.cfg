SPECIFICATION Spec
CONSTANTS
    c1 = c1
    c2 = c2
    c3 = c3
    Cards = {c1, c2, c3}
    Kinds <- SomeKinds
    Options <- SomeOptions
    Rows <- SomeRows
    Fresh <- FreshCards
    none = none
    FirstNum = 0
    MaxNum = 6
    MaxFaults = 2
    NeverFails = {}
INVARIANTS
    GoodAsRecorded
    GoodDistinct
    HlrFollows
PROPERTY
    CardsPutAway
CHECK_DEADLOCK FALSE
