---- MODULE GridGeometry ----
(***************************************************************************)
(* RoutingGridGeometry: where the tracks of a grid lie, and which of them   *)
(* are around a position.  The code treats columns and rows alike, so one   *)
(* axis is modelled: [start, pitch, last, max] stand for x_start_,          *)
(* x_pitch_, x_max_ and max_column_index_ of the vertical tracks, or for    *)
(* their y counterparts of the horizontal ones.  A span <<low, high>> is    *)
(* what a shape covers on an axis.                                          *)
(*                                                                         *)
(* The code rounds the quotient of two doubles; positions are far below     *)
(* 2^53, so this is integer division.                                       *)
(***************************************************************************)
EXTENDS Integers

\* What an axis is, once ComputeForLayers has refused a pitch of 0.
Axes == [start : Int, pitch : Nat \ {0}, last : Int, max : Int]

\* Division of the program: towards zero.
Truncated(a, b) == IF a >= 0 THEN a \div b ELSE -((-a) \div b)

\* ComputeForLayers: the area is what both layers share.
Axis(low, high, offset, pitch) ==
    [start |-> low + offset, pitch |-> pitch, last |-> high,
     max |-> Truncated(high - (low + offset), pitch)]

\* AlignRoutingLayerInfos: the offset that takes a track through a point.
AlignedOffset(low, point, pitch) == (point - low) % pitch

Coordinate(axis, k) == axis.start + axis.pitch * k

\* ConnectLayers: a track at every pitch, by its index.
Tracks(axis) == {k \in 0..axis.max : Coordinate(axis, k) <= axis.last}

-----------------------------------------------------------------------------
\* MapToBoundingGridIndices, on an infinite grid.
Below(axis, x) == (x - axis.start) \div axis.pitch
Above(axis, x) == -((axis.start - x) \div axis.pitch)

\* std::max(std::min(k, max), 0).
Within(axis, k) == IF k < 0 \/ axis.max < 0 THEN 0 ELSE IF k > axis.max THEN axis.max ELSE k

\* BoundGridIndices: as many more tracks as there are layers beyond the first,
\* up to the border of the grid.
Bounded(axis, low, high, layers) ==
    Within(axis, low - (layers - 1))..Within(axis, high + (layers - 1))

\* A mutant: both ends of a span are rounded down.
RoundedDown(axis, span, layers) ==
    Bounded(axis, Below(axis, span[1]), Below(axis, span[2]), layers)

\* NearestTrackIndices, of points and rectangles.
NearestTrackIndices(axis, span, layers) ==
    Bounded(axis, Below(axis, span[1]), Above(axis, span[2]), layers)

\* NearestTracks: MapIndicesToTracks skips what lies beyond the last track.
NearestTracks(axis, span, layers) == NearestTrackIndices(axis, span, layers) \cap Tracks(axis)

\* EnvelopingVertexIndices of a rectangle.
Enveloping(axis, span, padding, layers) ==
    Bounded(axis, Below(axis, span[1] - padding), Above(axis, span[2] + padding), layers)

\* EnvelopingVertexIndices of a point: one on a grid line has both neighbours.
EnvelopingPoint(axis, x, layers) ==
    IF Below(axis, x) = Above(axis, x)
    THEN Bounded(axis, Within(axis, Below(axis, x) - 1), Within(axis, Above(axis, x) + 1), layers)
    ELSE Bounded(axis, Below(axis, x), Above(axis, x), layers)

\* VertexAt: the tracks on which a point lies, one or none.
TrackThrough(axis, x) ==
    {k \in {Below(axis, x)} : k = Above(axis, x) /\ k \in Tracks(axis)}
====
