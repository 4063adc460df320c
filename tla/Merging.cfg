\* Up to four orders of two or three nodes, in one Solve or in several.
SPECIFICATION Spec
CONSTANTS
    Names <- MCNames
    Nodes <- FourNodes
    NetOf <- NetOfNode
    Requests <- Plain
    MaxOrders = 4
INVARIANTS
    GroupsAreOwned
    OrdersPartitionNodes
    ConnectedOrdersMerge
    NetsAreCollected
PROPERTY ResultsStand
\* No more than MaxOrders are requested.
CHECK_DEADLOCK FALSE
