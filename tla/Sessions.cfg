\* Four calls, handled one after the other or three at a time.
SPECIFICATION Spec
CONSTANTS
    c1 = c1
    c2 = c2
    c3 = c3
    c4 = c4
    Calls = {c1, c2, c3, c4}
    Handlers = {1, 3}
    MaxOrders = 2
SYMMETRY CallSymmetry
INVARIANTS
    SessionsAreOwned
    RoutesAreReported
    GridsInUseExist
    RepliesNameOwnGrid
