---- MODULE StagedCache ----
(***************************************************************************)
(* The blockage cache over a grid: BlockageCache with the edges and         *)
(* vertices that StagedShapes finds for each shape.                         *)
(***************************************************************************)
EXTENDS BlockageCache, StagedShapes

CONSTANT BlockedLayers   \* shape -> the layers it blocks: those from which a
                         \* port is accessible, or the one of a rectangle

ASSUME StagedAssumption ==
    \A s \in Shapes :
        /\ EdgesAt[s] = EdgesAffected(BoxOf[s], BlockedLayers[s])
        /\ VerticesAt[s] = VerticesUnder(BoxOf[s], BlockedLayers[s])
        /\ Crowds[s] = ViasCrowded(BoxOf[s], LayerOf[s], BlockedLayers[s])

-----------------------------------------------------------------------------
\* What the theorems ask of a layout besides; nothing in the code checks it.

\* Shapes are rectangles, and the rule of the layer of each reaches no farther
\* than the window in which vertices are looked for.
ShapesFitWindow ==
    \A s \in Shapes :
        /\ BoxOf[s] \in Rectangles
        /\ min_separation[LayerOf[s]] \in Nat \ {0}
        /\ \A axis \in {Columns, Rows} :
               min_separation[LayerOf[s]] <= axis.pitch
                   + Larger(min_separation[HorizontalLayer], min_separation[VerticalLayer])

\* No via is larger on another blocked layer than on the one that is checked.
LowestViaIsLargest ==
    \A s \in Shapes : \A l \in BlockedLayers[s] \cap GridLayers :
        /\ encap_length[l] <= encap_length[CheckedLayer(BlockedLayers[s])]
        /\ encap_width[l] <= encap_width[CheckedLayer(BlockedLayers[s])]

-----------------------------------------------------------------------------
\* A wire that a search may lay keeps the separation from every shape of other
\* nets that was not cancelled for it: no edge too near is missed when shapes
\* are staged, and none is freed by the bookkeeping of cancellations, except
\* beside a blockage of that net that was cancelled twice.
OfferedWiresAreClear ==
    \A o \in Searching : \A e \in {f \in GridEdges : ~EdgeBlocked(o, f)} :
        \A b \in Foreign(o) :
            /\ e.layer \in BlockedLayers[staged[b]]
            /\ CancelledTwice(o) \cap EdgeBlockages(e, NetOf[staged[b]]) = {}
            => WireIsClear(e, BoxOf[staged[b]])

\* A vertex that a search may use has room for a via, in either direction and
\* on every layer a shape blocks, beside the shapes of other nets that were not
\* cancelled for it, unless a blockage on their layer that is in the way of the
\* via too was cancelled twice: that one may be of any net.
OfferedViasAreClear ==
    \A o \in Searching : \A v \in {w \in GridVertices : ~VertexBlocked(o, w, Directions, AllLayers)} :
        \A b \in Foreign(o), d \in Directions :
            CancelledTwice(o) \cap Inhibitors(v, d, LayerOf[staged[b]]) = {} =>
                \A l \in BlockedLayers[staged[b]] \cap GridLayers :
                    ViaIsClear(v, d, l, BoxOf[staged[b]], LayerOf[staged[b]])
====
