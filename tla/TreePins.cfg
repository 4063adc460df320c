\* A path to its own net runs over the pin of another.
SPECIFICATION Spec
CONSTANTS
    a = a
    b = b
    c = c
    Nets = {a, b}
    NoNet = NoNet
    Columns <- ThreeOffsets
    Rows <- ThreeOffsets
    Accesses <- MCAccesses
    LowerLayer = "horizontal"
    MaxCorners = 5
    MaxPaths = 0
    Problems <- Trees
    PortLayer = "horizontal"
    Turn <- TurnAB
    Jobs = 1
    kNumRetries = 2
    AutoCancel = FALSE
INVARIANTS
    PinsAreRespected
