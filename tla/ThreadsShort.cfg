\* Three threads: the edge that two others took out of use is installed.
SPECIFICATION Spec
CONSTANTS
    a = a
    b = b
    c = c
    Nets = {a, b, c}
    NoNet = NoNet
    Columns <- SixOffsets
    Rows <- OneOffset
    Accesses <- MCAccesses
    LowerLayer = "horizontal"
    MaxCorners = 2
    MaxPaths = 0
    Problems <- ThreePairs
    PortLayer = "vertical"
    Turn <- TurnABC
    Jobs = 3
    kNumRetries = 2
    AutoCancel = FALSE
INVARIANTS
    NoShorts
