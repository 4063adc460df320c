---- MODULE MCStagedCache ----
\* Pins of three nets and of a global one over a grid of three columns and
\* three rows.  Columns are as close as a wire allows, so that vias of
\* neighbouring columns are in each other's way; rows leave room for a via.
EXTENDS StagedCache

MCColumns == Axis(0, 10, AlignedOffset(0, 5, 4), 4)    \* at 1, 5 and 9
MCRows == Axis(-3, 10, 1, 5)                           \* at -2, 3 and 8
MCWidth == [l \in 1..2 |-> 2]
MCSeparation == [l \in 0..2 |-> IF l = 0 THEN 3 ELSE 2]
MCEncapLength == [l \in 1..2 |-> 6]
MCEncapWidth == [l \in 1..2 |-> 2]

MCShapes == {"a", "aPort", "b", "bMet", "c", "power"}
MCPorts == {"aPort", "b", "c"}
MCNet == [a |-> "A", aPort |-> "A", b |-> "B", bMet |-> "B", c |-> "C", power |-> "P"]
\* The pin of net A is drawn twice, as a rectangle and as a port.  The shapes
\* lie beside, between and over tracks, and off the border of the grid.
MCBox == [a |-> [x |-> <<0, 1>>, y |-> <<-4, -3>>],
          aPort |-> [x |-> <<0, 1>>, y |-> <<-4, -3>>],
          b |-> [x |-> <<6, 7>>, y |-> <<3, 3>>],
          bMet |-> [x |-> <<6, 7>>, y |-> <<0, 1>>],
          c |-> [x |-> <<4, 4>>, y |-> <<5, 6>>],
          power |-> [x |-> <<3, 6>>, y |-> <<10, 12>>]]
MCLayer == [a |-> 1, aPort |-> 1, b |-> 1, bMet |-> 2, c |-> 0, power |-> 1]
\* Ports are accessible from both layers of the grid.
MCBlocked == [a |-> {1}, aPort |-> {1, 2}, b |-> {1, 2}, bMet |-> {2}, c |-> {1, 2}, power |-> {1}]

\* TLC evaluates these once, but the definition that replaces a constant at
\* every use: that is only their name.
AffectedEdges == [s \in MCShapes |-> EdgesAffected(MCBox[s], MCBlocked[s])]
AffectedVertices == [s \in MCShapes |-> VerticesUnder(MCBox[s], MCBlocked[s])]
AffectedVias == [s \in MCShapes |-> ViasCrowded(MCBox[s], MCLayer[s], MCBlocked[s])]
MCEdges == AffectedEdges
MCVertices == AffectedVertices
MCCrowds == AffectedVias

\* Four orders, two of them on net B, and the last on two nets that it joins,
\* one of which has an order of its own.
MCOrders == 1..4
MCNetsOf == <<{"A"}, {"B"}, {"B"}, {"A", "C"}>>
MCGlobals == {"P"}
NoLayers == {}
MetLayer == {1}

\* The layout is one the theorems of CacheProofs speak of.
ASSUME MCLayoutIsPlain == OrdersAreNamed /\ DrawnAlike /\ ShapesFitWindow /\ LowestViaIsLargest
====
