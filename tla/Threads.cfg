\* Two threads at once on a 6 x 3 grid: the first net along a row or over a
\* corner, the second anywhere.
SPECIFICATION FairSpec
CONSTANTS
    a = a
    b = b
    c = c
    Nets = {a, b}
    NoNet = NoNet
    Columns <- SixOffsets
    Rows <- ThreeOffsets
    Accesses <- MCAccesses
    LowerLayer = "horizontal"
    MaxCorners = 3
    MaxPaths = 0
    Problems <- RowAndCorner
    PortLayer = "vertical"
    Turn <- TurnAB
    Jobs = 2
    kNumRetries = 2
    AutoCancel = FALSE
INVARIANTS
    NoShorts
    LayersAreDisjoint
PROPERTY EveryOrderEnds
