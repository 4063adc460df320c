\* Four orders, two nets ordered twice; automatic cancellation on the lower layer.
SPECIFICATION Spec
CONSTANTS
    Columns <- MCColumns
    Rows <- MCRows
    HorizontalLayer = 1
    VerticalLayer = 2
    wire_width <- MCWidth
    min_separation <- MCSeparation
    encap_length <- MCEncapLength
    encap_width <- MCEncapWidth
    padding = 0
    BlockedLayers <- MCBlocked
    Shapes <- MCShapes
    Ports <- MCPorts
    NetOf <- MCNet
    BoxOf <- MCBox
    LayerOf <- MCLayer
    EdgesAt <- MCEdges
    VerticesAt <- MCVertices
    Crowds <- MCCrowds
    Orders <- MCOrders
    NetsOf <- MCNetsOf
    GlobalNets <- MCGlobals
    AutoCancel = TRUE
    CancelLayers <- MetLayer
INVARIANTS
    CancelledAreIgnored
    StandingBlock
    OfferedWiresAreClear
    OfferedViasAreClear
PROPERTY ViewsOnlyOpen
