---- MODULE StagedShapes ----
(***************************************************************************)
(* RoutingBlockageCache::AddBlockage for rectangles and ports: which edges  *)
(* and vertices of the grid a staged shape affects.  Candidates come from   *)
(* the arithmetic of GridGeometry, and each is then tested by itself.       *)
(* Off-grid edges and vertices are created by searches, after staging.      *)
(***************************************************************************)
EXTENDS GridGeometry

CONSTANTS
    Columns,          \* the axis of the vertical tracks
    Rows,             \* the axis of the horizontal tracks
    HorizontalLayer,
    VerticalLayer,
    wire_width,       \* layer of the grid -> RoutingLayerInfo::wire_width
    min_separation,   \* layer -> its rule in the database
    encap_length,     \* layer of the grid -> RoutingViaInfo::EncapLength
    encap_width,      \* layer of the grid -> RoutingViaInfo::EncapWidth
    padding           \* of AddBlockages; RouteManager leaves it at 0

GridLayers == {HorizontalLayer, VerticalLayer}
Headings == {"horizontal", "vertical"}

Larger(a, b) == IF a > b THEN a ELSE b

ASSUME GridAssumption ==
    /\ Columns \in Axes /\ Rows \in Axes
    /\ HorizontalLayer \in Nat /\ VerticalLayer \in Nat /\ HorizontalLayer # VerticalLayer
    /\ padding \in Nat
    /\ \A l \in GridLayers :
           /\ wire_width[l] \in Nat /\ min_separation[l] \in Nat \ {0}
           /\ encap_width[l] \in Nat /\ encap_length[l] \in Nat

\* Nothing in the code checks what follows; its technology files keep to it.
\* A wire fits between the tracks beside its own, wires have a middle, and the
\* long side of a via is the longer one.
ASSUME TechnologyAssumption ==
    /\ wire_width[HorizontalLayer] \div 2 + min_separation[HorizontalLayer] + padding <= Rows.pitch
    /\ wire_width[VerticalLayer] \div 2 + min_separation[VerticalLayer] + padding <= Columns.pitch
    /\ \A l \in GridLayers : wire_width[l] % 2 = 0 /\ encap_width[l] <= encap_length[l]

-----------------------------------------------------------------------------
\* A rectangle is what it covers on the two axes.
Rectangles == {r \in [x : Int \X Int, y : Int \X Int] : r.x[1] <= r.x[2] /\ r.y[1] <= r.y[2]}

\* Rectangle::Overlaps takes in the borders.
Meets(s, t) == s[1] <= t[2] /\ t[1] <= s[2]
Overlap(r, s) == Meets(r.x, s.x) /\ Meets(r.y, s.y)

GridVertices == Tracks(Columns) \X Tracks(Rows)

\* The edges of a track are between any two of its vertices.
EdgesOn(layer, tracks, crossings) ==
    {[layer |-> layer, track |-> k, from |-> e[1], to |-> e[2]] :
        k \in tracks, e \in {p \in crossings \X crossings : p[1] < p[2]}}

GridEdges ==
    EdgesOn(HorizontalLayer, Tracks(Rows), Tracks(Columns))
        \cup EdgesOn(VerticalLayer, Tracks(Columns), Tracks(Rows))

\* The axes and spans across the tracks of a layer, and along them.
AcrossAxis(layer) == IF layer = HorizontalLayer THEN Rows ELSE Columns
AlongAxis(layer) == IF layer = HorizontalLayer THEN Columns ELSE Rows
AcrossSpan(layer, r) == IF layer = HorizontalLayer THEN r.y ELSE r.x
AlongSpan(layer, r) == IF layer = HorizontalLayer THEN r.x ELSE r.y

-----------------------------------------------------------------------------
Around(c, size, margin) == <<c - (size \div 2 + margin), c + (size \div 2 + margin)>>

\* ViaFootprint: the encapsulation is long in its direction.
Footprint(v, layer, heading, margin) ==
    LET long(h) == IF heading = h THEN encap_length[layer] ELSE encap_width[layer]
    IN  [x |-> Around(Coordinate(Columns, v[1]), long("horizontal"), margin),
         y |-> Around(Coordinate(Rows, v[2]), long("vertical"), margin)]

\* A mutant: half of what is needed.
SeparationMargin == Larger(min_separation[HorizontalLayer], min_separation[VerticalLayer]) \div 2

\* FigureSearchWindowMargin.
search_window_margin ==
    Larger(encap_length[HorizontalLayer], encap_length[VerticalLayer]) \div 2
        + Larger(min_separation[HorizontalLayer], min_separation[VerticalLayer])

\* DeterminePossiblyAffectedVertices.
PossiblyAffected(r, layers) ==
    IF layers \cap GridLayers = {} THEN {}
    ELSE (Enveloping(Columns, r.x, padding + search_window_margin, 1)
            \X Enveloping(Rows, r.y, padding + search_window_margin, 1)) \cap GridVertices

\* ViaWouldIntersect looks at the lowest of the blocked layers alone.
CheckedLayer(layers) == CHOOSE l \in layers \cap GridLayers : \A m \in layers \cap GridLayers : l <= m

KeepOut(layer) == Larger(padding + min_separation[layer] - 1, 0)

\* ApplyBlockageToOneVertex: the users, and the inhibitors in each direction.
VerticesUnder(r, layers) ==
    {v \in PossiblyAffected(r, layers) :
        Overlap(r, [x |-> <<Coordinate(Columns, v[1]), Coordinate(Columns, v[1])>>,
                    y |-> <<Coordinate(Rows, v[2]), Coordinate(Rows, v[2])>>])}

ViasCrowded(r, layer, layers) ==
    {c \in PossiblyAffected(r, layers) \X Headings :
        Overlap(r, Footprint(c[1], CheckedLayer(layers), c[2], KeepOut(layer)))}

-----------------------------------------------------------------------------
\* RoutingTrack::IntersectsEdges.
TrackMeets(layer, k, r) ==
    Meets(AcrossSpan(layer, r),
          Around(Coordinate(AcrossAxis(layer), k), wire_width[layer],
                 min_separation[layer] - 1 + padding))

\* RoutingTrack::EdgesBlockedByBlockage, with min_separation_to_new_blockages_.
EdgeMeets(e, r) ==
    LET margin == encap_length[e.layer] \div 2 + min_separation[e.layer] + padding - 1
    IN  Meets(AlongSpan(e.layer, r),
              <<Coordinate(AlongAxis(e.layer), e.from) - margin,
                Coordinate(AlongAxis(e.layer), e.to) + margin>>)

\* DetermineAffectedOnGridEdges.
EdgesAffected(r, layers) ==
    {e \in GridEdges :
        /\ e.layer \in layers
        /\ e.track \in NearestTracks(AcrossAxis(e.layer), AcrossSpan(e.layer, r), 1)
        /\ TrackMeets(e.layer, e.track, r)
        /\ EdgeMeets(e, r)}

-----------------------------------------------------------------------------
\* What the rules ask for: two shapes are apart when there is the separation
\* between them on one of the axes.
Apart(r, s, separation) ==
    \/ r.x[2] + separation <= s.x[1] \/ s.x[2] + separation <= r.x[1]
    \/ r.y[2] + separation <= s.y[1] \/ s.y[2] + separation <= r.y[1]

\* Rectangle::FromCentralAxis: the metal of a wire.
Wire(e) ==
    LET c == Coordinate(AcrossAxis(e.layer), e.track)
        half == wire_width[e.layer] \div 2
        across == <<c - half, c + (wire_width[e.layer] - half)>>
        along == <<Coordinate(AlongAxis(e.layer), e.from), Coordinate(AlongAxis(e.layer), e.to)>>
    IN  IF e.layer = HorizontalLayer THEN [x |-> along, y |-> across] ELSE [x |-> across, y |-> along]

WireIsClear(e, r) == Apart(Wire(e), r, min_separation[e.layer] + padding)

ViaIsClear(v, heading, on, r, layer) ==
    Apart(Footprint(v, on, heading, 0), r, min_separation[layer] + padding)
====
