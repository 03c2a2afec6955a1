SPECIFICATION LoaderSpec
CONSTANTS
    Pn = {0, 1, 2, 3, 4, 5, 6, 7, 8, 9}
    PageUnits = 8
    CfgSize = 3
    StackSize = 8
    ClPages = 1
    ClBase = 2
    ClTop = 8
    BufSize = 4
    MaxRatio = 30
    MaxLength = 4
    Lengths = {2, 9}
    Shares = {0, 1}
    MaxImage = 4
CHECK_DEADLOCK FALSE
INVARIANTS LoaderInv LoadedIsImage
PROPERTIES LoadEnds
