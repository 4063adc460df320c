\* Three nets, up to four paths on one track of six vertices.
SPECIFICATION GridSpec
CONSTANTS
    a = a
    b = b
    c = c
    Nets = {a, b, c}
    NoNet = NoNet
    Columns <- LongColumns
    Rows <- OneRow
    Accesses <- MCAccesses
    LowerLayer = "horizontal"
    MaxCorners = 2
    MaxPaths = 4
SYMMETRY NetSymmetry
INVARIANTS
    GridTypeOK
    WiresCastShadows
    ShortsAreFlagged
PROPERTY NoSilentHandover
\* A grid whose tracks are taken accepts no more paths.
CHECK_DEADLOCK FALSE
