---- MODULE MCRoutingGrid ----
\* Model checking of the grid against every client: any path, at any time.
EXTENDS RoutingGrid, TLC

CONSTANTS a, b, c

LongColumns == {0, 10, 20, 30, 40, 50}
OneRow == {0}
MCAccesses == {{"horizontal"}}

\* Nets are interchangeable: no definition tells one from another.
NetSymmetry == Permutations(Nets)
====
