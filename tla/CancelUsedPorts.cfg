\* A wire runs over the port of an order that has ended.
SPECIFICATION Spec
CONSTANTS
    a = a
    b = b
    c = c
    Nets = {a, b}
    NoNet = NoNet
    Columns <- SixOffsets
    Rows <- ThreeOffsets
    Accesses <- MCAccesses
    LowerLayer = "horizontal"
    MaxCorners = 4
    MaxPaths = 0
    Problems <- Crossings
    PortLayer = "horizontal"
    Turn <- TurnAB
    Jobs = 1
    kNumRetries = 2
    AutoCancel = TRUE
INVARIANTS
    LayersAreDisjoint
