SPECIFICATION Spec
CONSTANTS
    Widths = {1380, 1840, 2300, 3220, 5060, 5520}
    Heights = {2720, 3300}
    Neighbours = {"dfxtp", "mux2_1", "buf", "xor2", "tap", "decap"}
    Offsets = {0, 460, 1380}
INVARIANTS
    DrawingsKeepTheirCircuits
    CutsLandAndChannelsEnd
    ShapesKeepApart
CHECK_DEADLOCK FALSE
