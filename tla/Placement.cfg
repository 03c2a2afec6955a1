SPECIFICATION Spec
CONSTANTS
    PageSize = 4
    FirstPn = 1
    NearSize = 2
    FarSize = 4
    StackPages = 2
    Shapes <- MCShapes
INVARIANTS PlacementInv
PROPERTIES NearestPlace PlacementEnds
