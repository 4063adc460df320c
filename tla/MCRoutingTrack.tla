---- MODULE MCRoutingTrack ----
\* Instances of RoutingTrack: three grid vertices and one between them, and shapes
\* that overlap, touch the margins and miss them.
EXTENDS RoutingTrack, TLC

CONSTANTS a, b

MCOffsets == {0, 10, 14, 20}
\* At a separation of 4 the first two are merged (gap 3), the second and third
\* only with a padding (gap 4); the last covers most of them.  The third lies
\* beside the track and reaches vertices only.
MCShapes ==
    LET over == {"vertices", "edges"}
    IN  {<<2, 3, over>>, <<6, 7, over>>, <<11, 14, {"vertices"}>>, <<2, 12, over>>}
MCPaddings == {0, 1}
BothModes == BOOLEAN

NetSymmetry == Permutations(Nets)
====
