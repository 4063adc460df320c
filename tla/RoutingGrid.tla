---- MODULE RoutingGrid ----
(***************************************************************************)
(* The routing grid shared by every routing thread: the edges and vertices *)
(* of one pair of routing layers, the nets that hold them, and the one     *)
(* operation that gives them away, RoutingGrid::InstallPath, which runs    *)
(* under the unique lock and so is a single step here.                     *)
(*                                                                         *)
(* A path is found under a shared lock and installed later under the       *)
(* unique lock.  This module lets ANY path be presented for installation   *)
(* at any time, which covers every path found in the current state and     *)
(* every stale one; RouteOrders restricts it to what the searches return.  *)
(*                                                                         *)
(* The grid is the non-linear one (an edge between every two vertices of a *)
(* track, the default), and its vertices are the on-grid ones.  A net is   *)
(* an electrical net: RouteManager merges aliases before it routes.        *)
(***************************************************************************)
EXTENDS Integers, Sequences, FiniteSets

CONSTANTS
    Columns,      \* offsets of the vertical tracks
    Rows,         \* offsets of the horizontal tracks
    Nets,
    NoNet,        \* std::nullopt as the net of an edge
    LowerLayer,   \* of the two routing layers, the one ordered first
    MaxCorners,   \* bound: vertices of a path, its ends included
    MaxPaths,     \* bound: paths this module's own Next installs
    Accesses      \* the sets of layers through which a path end is reached

\* Each direction has one layer, named after it.
Layers == {"horizontal", "vertical"}

ASSUME OffsetAssumption == Columns \subseteq Int /\ Rows \subseteq Int
ASSUME NetAssumption == NoNet \notin Nets
ASSUME LayerAssumption ==
    LowerLayer \in Layers /\ Accesses \subseteq (SUBSET Layers) \ {{}}
ASSUME BoundAssumption == MaxCorners \in Nat /\ MaxPaths \in Nat

\* RoutingTrack::BlockageBlocks shrinks a candidate by one unit at each end,
\* so neighbouring tracks are at least two units apart.
ASSUME PitchAssumption ==
    \A S \in {Columns, Rows} : \A a, b \in S : a < b => a + 2 <= b

UpperLayer == IF LowerLayer = "horizontal" THEN "vertical" ELSE "horizontal"
Across(d) == IF d = "horizontal" THEN "vertical" ELSE "horizontal"

-----------------------------------------------------------------------------
\* Geometry.  v.horizontal is v's position along a horizontal track.

Vertices == [horizontal : Columns, vertical : Rows]

Edges ==
    {e \in [dir : {"horizontal"}, at : Rows, lo : Columns, hi : Columns]
           \cup [dir : {"vertical"}, at : Columns, lo : Rows, hi : Rows] :
        e.lo < e.hi}

OnTrack(u, v, d) == u[Across(d)] = v[Across(d)] /\ u[d] # v[d]

EdgeBetween(u, v) ==
    LET d == IF u.vertical = v.vertical THEN "horizontal" ELSE "vertical"
    IN  [dir |-> d, at |-> u[Across(d)],
         lo |-> IF u[d] < v[d] THEN u[d] ELSE v[d],
         hi |-> IF u[d] < v[d] THEN v[d] ELSE u[d]]

\* e's own ends and the vertices its wire passes over.
Spans(e, v) == v[Across(e.dir)] = e.at /\ e.lo <= v[e.dir] /\ v[e.dir] <= e.hi

\* Does the blockage [start, end] of a track block the span [low, high]?
Blocks(start, end, low, high) ==
    \/ low \in start..end
    \/ high \in start..end
    \/ low <= start /\ high >= end

\* The other edges of e's track that share metal with e.
Touches(e, f) ==
    /\ f # e /\ f.dir = e.dir /\ f.at = e.at
    /\ Blocks(e.lo, e.hi, f.lo + 1, f.hi - 1)

NoneBetween(S, a, b) ==
    ~\E c \in S : (a < c /\ c < b) \/ (b < c /\ c < a)

\* v is one of the eight compass neighbours of u.
AreNeighbours(u, v) ==
    /\ u # v
    /\ NoneBetween(Columns, u.horizontal, v.horizontal)
    /\ NoneBetween(Rows, u.vertical, v.vertical)

\* A path that a search of the non-linear grid finds turns at every inner
\* vertex: two edges in a row on one track cost as much as the single edge that
\* spans them, and the search relaxes that one first.
IsRoute(r) ==
    /\ \A i, j \in DOMAIN r : r[i] = r[j] => i = j
    /\ \E d \in Layers : \A i \in 1..Len(r) - 1 :
           OnTrack(r[i], r[i + 1], IF i % 2 = 1 THEN d ELSE Across(d))

\* The outer set constructor makes TLC list the routes once and for all.
Routes ==
    {r : r \in {s \in UNION {[1..k -> Vertices] : k \in 2..MaxCorners} : IsRoute(s)}}

Edge(r, i) == EdgeBetween(r[i], r[i + 1])
EdgeIndices(r) == 1..Len(r) - 1
EdgesOf(r) == {Edge(r, i) : i \in EdgeIndices(r)}
VerticesOf(r) == {r[i] : i \in DOMAIN r}

\* MergeConsecutiveEdgesOnSameTrack, on a path of which only the last two edges
\* may lie on one track: they become the edge that spans both.
EndsStraight(r) == Len(r) > 2 /\ Edge(r, Len(r) - 2).dir = Edge(r, Len(r) - 1).dir
Merged(r) == IF EndsStraight(r) THEN Append(SubSeq(r, 1, Len(r) - 2), r[Len(r)]) ELSE r

\* A path as the searches hand it on is a route, or a route that goes on from
\* its end to a vertex next to it (MaybeExtendToNearbyVia), straight or not.
InLine(u, v) == \E d \in Layers : OnTrack(u, v, d)
Steps(u) == {v \in Vertices : AreNeighbours(u, v) /\ InLine(u, v)}
Extensions(r) ==
    {Append(r, v) : v \in {u \in Steps(r[Len(r)]) : \A e \in EdgesOf(r) : ~Spans(e, u)}}
FoundPaths ==
    {r : r \in {s \in Routes \cup UNION {Extensions(q) : q \in Routes} : Merged(s) \in Routes}}

-----------------------------------------------------------------------------
VARIABLES
    edgeNet,      \* edge -> in_use_by_net_
    edgeBlocked,  \* edge -> blocked_
    edgeLayer,    \* edge -> layer_ (Flatten may change it)
    layers,       \* vertex -> connected_layers_ (Flatten may narrow it)
    using,        \* vertex -> in_use_by_nets_, as <<net, layer>> pairs
    blocking,     \* vertex -> blocked_by_nearby_nets_, on every layer
    paths         \* paths_, the installed paths

gridVars ==
    <<edgeNet, edgeBlocked, edgeLayer, layers, using, blocking, paths>>

GridInit ==
    /\ edgeNet = [e \in Edges |-> NoNet]
    /\ edgeBlocked = [e \in Edges |-> FALSE]
    /\ edgeLayer = [e \in Edges |-> e.dir]
    /\ layers = [v \in Vertices |-> Layers]
    /\ using = [v \in Vertices |-> {}]
    /\ blocking = [v \in Vertices |-> {}]
    /\ paths = {}

UsingNets(v) == {use[1] : use \in using[v]}
InUseBySingleNet(v, n) == UsingNets(v) = {n}

\* Mutants of CheckStillAvailable: half of it, or nothing, is looked at again.
CheckVertices(n, r) == \A v \in VerticesOf(r) : \A m \in Nets \ {n} : ~InUseBySingleNet(v, m)
CheckNothing(n, r) == TRUE

\* RoutingPath::CheckStillAvailable, under the unique lock.
CheckStillAvailable(n, r) ==
    /\ \A v \in VerticesOf(r) : \A m \in Nets \ {n} : ~InUseBySingleNet(v, m)
    /\ \A e \in EdgesOf(r) : edgeNet[e] \in {NoNet, n}

-----------------------------------------------------------------------------
\* RoutingPath::Legalise on an on-grid path, once it is merged: what is left of
\* it is Flatten.

\* The source layer that PickAccessLayerPair takes: a pair of one layer
\* costs no via, and of equal costs the lowest layer comes first.
PickLowest(S) == IF LowerLayer \in S THEN LowerLayer ELSE UpperLayer
PickSource(S, access) == PickLowest(IF S \cap access # {} THEN S \cap access ELSE S)
PickTarget(S, access) == PickLowest(IF S \cap access # {} THEN S \cap access ELSE access)

\* The layer from which edge i is entered, and the one it is left on.
EnteredFrom(r, i, start) ==
    IF i > 1 THEN edgeLayer[Edge(r, i - 1)]
             ELSE PickSource({edgeLayer[Edge(r, j)] : j \in EdgeIndices(r) \cap {1, 2}},
                             start)
LeftOn(r, i, start, end) ==
    IF i < Len(r) - 1 THEN edgeLayer[Edge(r, i + 1)]
                      ELSE PickSource({EnteredFrom(r, i, start), edgeLayer[Edge(r, i)]},
                                      end)

TooCloseForVias(u, v) == AreNeighbours(u, v) /\ layers[u] \cap layers[v] # {}

\* Edge i is moved to the layer of its surroundings, unless the edge before
\* it was (skipped_vias_).
Flattened(r, start, end) ==
    LET flat[i \in 0..Len(r) - 1] ==
            /\ i > 0
            /\ TooCloseForVias(r[i], r[i + 1])
            /\ EnteredFrom(r, i, start) = LeftOn(r, i, start, end)
            /\ ~flat[i - 1]
    IN  {i \in EdgeIndices(r) : flat[i]}

\* The layers on which the installed path uses its edges.
LayersInPath(r, start, end) ==
    LET flat == Flattened(r, start, end)
    IN  [i \in EdgeIndices(r) |->
            IF i \in flat THEN EnteredFrom(r, i, start) ELSE edgeLayer[Edge(r, i)]]

\* The ends at which a flattened path still needs a via to its access layer;
\* CheckAndForceEncapDirections may or may not find room for it.
NeedVia(r, start, end) ==
    {side \in {"start", "end"} :
        IF side = "start" THEN EnteredFrom(r, 1, start) \notin start
                          ELSE LeftOn(r, Len(r) - 1, start, end) \notin end}

\* The vertices whose connected layers Flatten narrows, and to what; "fits"
\* are the ends that need a via and have room for it.
Narrowed(r, start, end, fits) ==
    LET flat == Flattened(r, start, end)
        vias == NeedVia(r, start, end) \ fits
        entered(i) == {EnteredFrom(r, i, start)} \cup
            (IF i > 1 THEN {} ELSE {PickTarget({EnteredFrom(r, i, start)}, start)})
        left(i) == {LeftOn(r, i, start, end)} \cup
            (IF i < Len(r) - 1 THEN {} ELSE {PickTarget({LeftOn(r, i, start, end)}, end)})
        first == {i \in flat : i = 1 => "start" \notin vias}
        second == {i \in first : i = Len(r) - 1 => "end" \notin vias}
    IN  {<<r[i], entered(i)>> : i \in first} \cup {<<r[i + 1], left(i)>> : i \in second}

-----------------------------------------------------------------------------
\* Mutants of MarkEdgesAsUsed: the wires alone are marked, or an edge that two
\* nets reach loses its net and stays in use.
MarkWiresOnly(n, r) ==
    /\ edgeNet' = [f \in Edges |-> IF f \in EdgesOf(r) THEN n ELSE edgeNet[f]]
    /\ UNCHANGED edgeBlocked

MarkAndClear(n, r) ==
    LET open == {f \in Edges \ EdgesOf(r) : \E e \in EdgesOf(r) : Touches(e, f)}
    IN  /\ edgeNet' = [f \in Edges |->
                         IF f \in EdgesOf(r) THEN n
                         ELSE IF f \notin open THEN edgeNet[f]
                         ELSE IF edgeNet[f] \in {NoNet, n} THEN n ELSE NoNet]
        /\ UNCHANGED edgeBlocked

\* RoutingTrack::MarkEdgeAsUsed for every edge of the path: its edges take the
\* net; an edge that shares metal with one of them takes it too, or is blocked
\* for good when it already carries another net.
MarkEdgesAsUsed(n, r) ==
    LET wires == EdgesOf(r)
        open == {f \in Edges \ wires : ~edgeBlocked[f] /\ \E e \in wires : Touches(e, f)}
        taken == {f \in open : edgeNet[f] \notin {NoNet, n}}
    IN  /\ edgeNet' = [f \in Edges |->
                         IF f \in wires THEN n
                         ELSE IF f \in taken THEN NoNet
                         ELSE IF f \in open THEN n ELSE edgeNet[f]]
        /\ edgeBlocked' = [f \in Edges |-> edgeBlocked[f] \/ f \in taken]

\* AddUsingNet and AddBlockingNet: what v then holds.
AddUsingNet(v, n, S) == using[v] \cup ({n} \X S)
AddBlockingNet(v, n) == blocking[v] \cup {n}

\* A mutant: a vertex is used on every layer it connects.
MarkAllLayers(n, r, start, end) ==
    using' = [v \in Vertices |->
        AddUsingNet(v, n, IF \E e \in EdgesOf(r) : Spans(e, v) THEN layers[v] ELSE {})]

\* Each vertex an edge spans is used on that edge's layer, the two ends also
\* on the layer through which they are accessed.
MarkVerticesAsUsed(n, r, start, end) ==
    LET on == LayersInPath(r, start, end)
        entry == PickTarget({on[1]}, start)
        exit == PickTarget({on[Len(r) - 1]}, end)
        layersAt(v) == {on[i] : i \in {j \in EdgeIndices(r) : Spans(Edge(r, j), v)}}
                       \cup {l \in {entry} : v = r[1]}
                       \cup {l \in {exit} : v = r[Len(r)]}
    IN  using' = [v \in Vertices |-> AddUsingNet(v, n, layersAt(v))]

\* Mutants: a net that blocks replaces those that did, or the neighbours across
\* a corner are forgotten.
BlockAfresh(n, r) ==
    blocking' = [v \in {w \in Vertices : \E u \in VerticesOf(r) : AreNeighbours(u, w)} |-> {n}]

BlockAlongTracks(n, r) ==
    blocking' = [v \in Vertices |->
        IF \E u \in VerticesOf(r), d \in Layers : AreNeighbours(u, v) /\ OnTrack(u, v, d)
        THEN AddBlockingNet(v, n) ELSE blocking[v]]

\* RoutingGrid::InstallVertexInPath for an on-grid vertex.
BlockNeighbours(n, r) ==
    blocking' = [v \in Vertices |->
        IF \E u \in VerticesOf(r) : AreNeighbours(u, v)
        THEN AddBlockingNet(v, n) ELSE blocking[v]]

SetLayers(r, start, end, fits) ==
    LET on == LayersInPath(r, start, end)
        moved == {Edge(r, i) : i \in {j \in EdgeIndices(r) : on[j] # edgeLayer[Edge(r, j)]}}
        narrowed == Narrowed(r, start, end, fits)
    IN  /\ edgeLayer' = [e \in Edges |->
               IF e \in moved THEN Across(edgeLayer[e]) ELSE edgeLayer[e]]
        /\ layers' = [v \in Vertices |->
               LET to == {pair \in narrowed : pair[1] = v}
               IN  IF to = {} THEN layers[v]
                   ELSE Layers \cap UNION {pair[2] : pair \in to}]

\* RoutingGrid::InstallPath, once the path is known to be still available and
\* legalised.
Assign(n, r, start, end) ==
    /\ MarkEdgesAsUsed(n, r)
    /\ MarkVerticesAsUsed(n, r, start, end)
    /\ BlockNeighbours(n, r)
    /\ \E fits \in SUBSET NeedVia(r, start, end) : SetLayers(r, start, end, fits)
    /\ paths' = paths \cup {[net |-> n, route |-> r]}

\* The path is looked at as it was found and installed as it was merged.
InstallPath(n, r, start, end) ==
    /\ CheckStillAvailable(n, r)
    /\ \E q \in {Merged(r)} : Assign(n, q, start, end)

GridNext ==
    /\ Cardinality(paths) < MaxPaths
    /\ \E n \in Nets, r \in FoundPaths, start, end \in Accesses : InstallPath(n, r, start, end)

GridSpec == GridInit /\ [][GridNext]_gridVars
-----------------------------------------------------------------------------
\* Properties.

\* Every variable holds what the C++ members can hold.
GridTypeOK ==
    /\ edgeNet \in [Edges -> Nets \cup {NoNet}]
    /\ edgeBlocked \in [Edges -> BOOLEAN]
    /\ edgeLayer \in [Edges -> Layers]
    /\ layers \in [Vertices -> SUBSET Layers]
    /\ using \in [Vertices -> SUBSET (Nets \X Layers)]
    /\ blocking \in [Vertices -> SUBSET Nets]
    /\ paths \subseteq [net : Nets, route : Routes]

SharesMetal(e, f) == e = f \/ Touches(e, f)

\* Whatever shares metal with an installed wire carries its net or is blocked:
\* no search of another net is offered it.  This is what MarkEdgeAsUsed has
\* to keep up for edges other paths hold, in whatever order paths arrive.
WiresCastShadows ==
    \A p \in paths : \A e \in EdgesOf(p.route), f \in Edges :
        SharesMetal(e, f) => edgeBlocked[f] \/ edgeNet[f] = p.net

\* Two installed paths of different nets that share metal do so only on edges
\* that are blocked on both sides, so nothing else is ever routed over them.
ShortsAreFlagged ==
    \A p, q \in paths : p.net # q.net =>
        \A e \in EdgesOf(p.route), f \in EdgesOf(q.route) :
            SharesMetal(e, f) => edgeBlocked[e] /\ edgeBlocked[f]

\* An edge in use never passes from one net to another: a second net that
\* reaches it can only take it out of use (MarkEdgeAsUsed, CheckStillAvailable,
\* which does not look at the very edge that two others are merged into).
NoSilentHandover ==
    [][\A e \in Edges : edgeNet[e] \in Nets /\ ~edgeBlocked[e] /\ edgeNet'[e] # edgeNet[e]
           => edgeBlocked'[e] /\ edgeNet'[e] = NoNet]_gridVars
====
