---- MODULE MCRouteSearches ----
\* RouteSearches on a 3 x 3 grid of uneven pitch, on which the costs of queued
\* vertices are lowered and the queue does not stay in order.
EXTENDS RouteSearches, MCRouteOrders

UnevenOffsets == {0, 10, 50}

\* Of four nodes the first two are joined over a corner at (10, 0), the third
\* lies across from that corner, and the path of the last may end there.
AroundCorner == Single(<<At(10, 50), At(50, 0), At(0, 10), At(0, 0)>>)
UnevenTrees == TreesTo(50) \cup {(a :> AroundCorner) @@ (b :> Single(<<At(50, 50)>>))}
====
