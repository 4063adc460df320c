\* Three shapes and wires on one track of up to four vertices, in both modes.
SPECIFICATION Spec
CONSTANTS
    a = a
    b = b
    Nets = {a, b}
    NoNet = NoNet
    Offsets <- MCOffsets
    Shapes <- MCShapes
    Paddings <- MCPaddings
    Modes <- BothModes
    vertex_via_length = 2
    min_separation = 2
    MaxMetal = 3
SYMMETRY NetSymmetry
INVARIANTS
    TypeOK
    BlockagesAreApart
    BlockagesCoverMetal
    OffersAreClear
    VerticesAreJoined
PROPERTIES
    AccessIsClear
