\* Serial orders of three nodes, the last of two ports, beside orders of two
\* nodes or one, with every step of their searches.
SPECIFICATION FairSearchSpec
CONSTANTS
    a = a
    b = b
    c = c
    Nets = {a, b}
    NoNet = NoNet
    NoVertex = NoVertex
    NoSearch = NoSearch
    Columns <- UnevenOffsets
    Rows <- UnevenOffsets
    Accesses <- MCAccesses
    LowerLayer = "horizontal"
    MaxCorners = 5
    MaxPaths = 0
    Problems <- UnevenTrees
    PortLayer = "horizontal"
    Turn <- TurnAB
    Jobs = 1
    kNumRetries = 2
    AutoCancel = FALSE
INVARIANTS
    OrdersConnectTheirNodes
    BackPointersDescend
PROPERTIES
    EveryOrderEnds
    KeepsPromise
    SearchesAreAtomic
