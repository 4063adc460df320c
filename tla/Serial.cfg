\* One order after the other on a 6 x 3 grid: the first in one of four places,
\* the second anywhere.
SPECIFICATION Spec
CONSTANTS
    a = a
    b = b
    c = c
    Nets = {a, b}
    NoNet = NoNet
    Columns <- SixOffsets
    Rows <- ThreeOffsets
    Accesses <- MCAccesses
    LowerLayer = "horizontal"
    MaxCorners = 4
    MaxPaths = 0
    Problems <- Crossings
    PortLayer = "vertical"
    Turn <- TurnAB
    Jobs = 1
    kNumRetries = 2
    AutoCancel = FALSE
INVARIANTS
    TypeOK
    NoShorts
    LayersAreDisjoint
    ViasKeepApart
    PinsAreRespected
