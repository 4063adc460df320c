---- MODULE RoutingProofs ----
(***************************************************************************)
(* Proofs about the router, for every grid, every set of nets and orders   *)
(* and every number of threads, in four parts that build on each other:    *)
(* what one InstallPath step does to the grid (RoutingGrid), what orders   *)
(* hold to and what serial ones hold to besides (RouteOrders), that orders *)
(* implement the promise to the caller (RoutedNets) and keep out of each   *)
(* other's way, and the steps of ShortestPath (RouteSearches).             *)
(***************************************************************************)
EXTENDS RouteSearches, WellFoundedInduction, TLAPS

(***************************************************************************)
(* Part 1: RoutingGrid, for every number of paths. The lemmas about one    *)
(* InstallPath step are stated for that action alone, so that they hold for*)
(* whatever installs paths.                                                *)
(***************************************************************************)

-----------------------------------------------------------------------------
\* Geometry.

LEMMA EdgeOfVertices ==
    ASSUME NEW u \in Vertices, NEW v \in Vertices,
           NEW d \in Layers, OnTrack(u, v, d)
    PROVE  EdgeBetween(u, v) \in Edges
<1>1. /\ u.horizontal \in Columns /\ u.vertical \in Rows
      /\ v.horizontal \in Columns /\ v.vertical \in Rows
  BY DEF Vertices
<1>2. CASE d = "horizontal"
  <2>1. u.vertical = v.vertical /\ u.horizontal # v.horizontal
    BY <1>2 DEF OnTrack, Across
  <2>2. EdgeBetween(u, v) =
            [dir |-> "horizontal", at |-> u.vertical,
             lo |-> IF u.horizontal < v.horizontal THEN u.horizontal ELSE v.horizontal,
             hi |-> IF u.horizontal < v.horizontal THEN v.horizontal ELSE u.horizontal]
    BY <2>1 DEF EdgeBetween, Across
  <2>3. CASE u.horizontal < v.horizontal
    <3>1. EdgeBetween(u, v) = [dir |-> "horizontal", at |-> u.vertical,
                               lo |-> u.horizontal, hi |-> v.horizontal]
      BY <2>2, <2>3
    <3> QED
      BY <1>1, <2>3, <3>1 DEF Edges
  <2>4. CASE ~(u.horizontal < v.horizontal)
    <3>1. EdgeBetween(u, v) = [dir |-> "horizontal", at |-> u.vertical,
                               lo |-> v.horizontal, hi |-> u.horizontal]
      BY <2>2, <2>4
    <3>2. u.horizontal \in Int /\ v.horizontal \in Int
      BY <1>1, OffsetAssumption
    <3>3. v.horizontal < u.horizontal
      BY <2>1, <2>4, <3>2
    <3> QED
      BY <1>1, <3>1, <3>3 DEF Edges
  <2> QED
    BY <2>3, <2>4
<1>3. CASE d = "vertical"
  <2>1. u.horizontal = v.horizontal /\ u.vertical # v.vertical
    BY <1>3 DEF OnTrack, Across
  <2>2. EdgeBetween(u, v) =
            [dir |-> "vertical", at |-> u.horizontal,
             lo |-> IF u.vertical < v.vertical THEN u.vertical ELSE v.vertical,
             hi |-> IF u.vertical < v.vertical THEN v.vertical ELSE u.vertical]
    BY <2>1 DEF EdgeBetween, Across
  <2>3. CASE u.vertical < v.vertical
    <3>1. EdgeBetween(u, v) = [dir |-> "vertical", at |-> u.horizontal,
                               lo |-> u.vertical, hi |-> v.vertical]
      BY <2>2, <2>3
    <3> QED
      BY <1>1, <2>3, <3>1 DEF Edges
  <2>4. CASE ~(u.vertical < v.vertical)
    <3>1. EdgeBetween(u, v) = [dir |-> "vertical", at |-> u.horizontal,
                               lo |-> v.vertical, hi |-> u.vertical]
      BY <2>2, <2>4
    <3>2. u.vertical \in Int /\ v.vertical \in Int
      BY <1>1, OffsetAssumption
    <3>3. v.vertical < u.vertical
      BY <2>1, <2>4, <3>2
    <3> QED
      BY <1>1, <3>1, <3>3 DEF Edges
  <2> QED
    BY <2>3, <2>4
<1> QED
  BY <1>2, <1>3 DEF Layers

LEMMA EdgeOfRoute ==
    ASSUME NEW r \in Routes, NEW i \in EdgeIndices(r)
    PROVE  Edge(r, i) \in Edges
<1>1. PICK k \in 2..MaxCorners : r \in [1..k -> Vertices]
  BY DEF Routes
<1>2. Len(r) = k /\ i \in 1..k - 1
  BY <1>1, BoundAssumption DEF EdgeIndices
<1>3. r[i] \in Vertices /\ r[i + 1] \in Vertices
  BY <1>1, <1>2, BoundAssumption
<1>4. PICK d \in Layers : OnTrack(r[i], r[i + 1], d)
  <2>1. PICK d \in Layers : \A j \in 1..Len(r) - 1 :
            OnTrack(r[j], r[j + 1], IF j % 2 = 1 THEN d ELSE Across(d))
    BY DEF Routes, IsRoute
  <2>2. d \in Layers /\ Across(d) \in Layers
    BY DEF Layers, Across
  <2> QED
    BY <1>2, <2>1, <2>2
<1> QED
  BY <1>3, <1>4, EdgeOfVertices DEF Edge

LEMMA EdgesOfRoute ==
    ASSUME NEW r \in Routes
    PROVE  EdgesOf(r) \subseteq Edges
BY EdgeOfRoute DEF EdgesOf

LEMMA EdgeSpansEnds ==
    ASSUME NEW u \in Vertices, NEW v \in Vertices, NEW d \in Layers, OnTrack(u, v, d)
    PROVE  Spans(EdgeBetween(u, v), u) /\ Spans(EdgeBetween(u, v), v)
<1>1. /\ u.horizontal \in Int /\ u.vertical \in Int
      /\ v.horizontal \in Int /\ v.vertical \in Int
  BY OffsetAssumption DEF Vertices
<1>2. CASE d = "horizontal"
  <2>1. u.vertical = v.vertical
    BY <1>2 DEF OnTrack, Across
  <2>2. EdgeBetween(u, v) =
            [dir |-> "horizontal", at |-> u.vertical,
             lo |-> IF u.horizontal < v.horizontal THEN u.horizontal ELSE v.horizontal,
             hi |-> IF u.horizontal < v.horizontal THEN v.horizontal ELSE u.horizontal]
    BY <2>1 DEF EdgeBetween, Across
  <2> QED
    BY <1>1, <2>1, <2>2 DEF Spans, Across
<1>3. CASE d = "vertical"
  <2>1. u.horizontal = v.horizontal /\ u.vertical # v.vertical
    BY <1>3 DEF OnTrack, Across
  <2>2. EdgeBetween(u, v) =
            [dir |-> "vertical", at |-> u.horizontal,
             lo |-> IF u.vertical < v.vertical THEN u.vertical ELSE v.vertical,
             hi |-> IF u.vertical < v.vertical THEN v.vertical ELSE u.vertical]
    BY <2>1 DEF EdgeBetween, Across
  <2> QED
    BY <1>1, <2>1, <2>2 DEF Spans, Across
<1> QED
  BY <1>2, <1>3 DEF Layers

LEMMA RouteShape ==
    ASSUME NEW r \in Routes
    PROVE  /\ Len(r) \in Nat /\ Len(r) >= 2
           /\ \A i \in EdgeIndices(r) :
                /\ r[i] \in Vertices /\ r[i + 1] \in Vertices
                /\ \E d \in Layers : OnTrack(r[i], r[i + 1], d)
<1>1. PICK k \in 2..MaxCorners : r \in [1..k -> Vertices]
  BY DEF Routes
<1>2. Len(r) = k /\ k \in Nat /\ k >= 2
  BY <1>1, BoundAssumption
<1>3. ASSUME NEW i \in EdgeIndices(r)
      PROVE  /\ r[i] \in Vertices /\ r[i + 1] \in Vertices
             /\ \E d \in Layers : OnTrack(r[i], r[i + 1], d)
  <2>1. i \in 1..k - 1
    BY <1>2, <1>3 DEF EdgeIndices
  <2>2. PICK d \in Layers : \A j \in 1..Len(r) - 1 :
            OnTrack(r[j], r[j + 1], IF j % 2 = 1 THEN d ELSE Across(d))
    BY DEF Routes, IsRoute
  <2>3. d \in Layers /\ Across(d) \in Layers
    BY <2>2 DEF Layers, Across
  <2> QED
    BY <1>1, <1>2, <2>1, <2>2, <2>3
<1> QED
  BY <1>2, <1>3

LEMMA RouteSpansEnds ==
    ASSUME NEW r \in Routes
    PROVE  /\ \E e \in EdgesOf(r) : Spans(e, r[1])
           /\ \E e \in EdgesOf(r) : Spans(e, r[Len(r)])
<1>1. Len(r) \in Nat /\ Len(r) >= 2
  BY RouteShape
<1>2. 1 \in EdgeIndices(r) /\ Len(r) - 1 \in EdgeIndices(r)
  BY <1>1 DEF EdgeIndices
<1>3. \A i \in EdgeIndices(r) : Spans(Edge(r, i), r[i]) /\ Spans(Edge(r, i), r[i + 1])
  BY RouteShape, EdgeSpansEnds DEF Edge
<1>4. (Len(r) - 1) + 1 = Len(r)
  BY <1>1
<1>5. Spans(Edge(r, 1), r[1]) /\ Spans(Edge(r, Len(r) - 1), r[(Len(r) - 1) + 1])
  BY <1>2, <1>3
<1>6. Edge(r, 1) \in EdgesOf(r) /\ Edge(r, Len(r) - 1) \in EdgesOf(r)
  BY <1>2 DEF EdgesOf
<1> QED
  BY <1>4, <1>5, <1>6

LEMMA RouteEndsAreVertices ==
    ASSUME NEW r \in Routes
    PROVE  r[1] \in Vertices /\ r[Len(r)] \in Vertices
<1>1. PICK k \in 2..MaxCorners : r \in [1..k -> Vertices]
  BY DEF Routes
<1> QED
  BY <1>1, BoundAssumption

LEMMA VerticesOfRoute ==
    ASSUME NEW r \in Routes
    PROVE  VerticesOf(r) \subseteq Vertices
<1>1. PICK k \in 2..MaxCorners : r \in [1..k -> Vertices]
  BY DEF Routes
<1> QED
  BY <1>1 DEF VerticesOf

LEMMA NeighboursAreMutual ==
    ASSUME NEW u, NEW v, AreNeighbours(u, v)
    PROVE  AreNeighbours(v, u)
BY DEF AreNeighbours, NoneBetween

LEMMA DirectionOfEdge ==
    ASSUME NEW u \in Vertices, NEW v \in Vertices, NEW d \in Layers, OnTrack(u, v, d)
    PROVE  EdgeBetween(u, v).dir = d
<1>1. CASE d = "horizontal"
  BY <1>1 DEF EdgeBetween, OnTrack, Across
<1>2. CASE d = "vertical"
  BY <1>2 DEF EdgeBetween, OnTrack, Across
<1> QED
  BY <1>1, <1>2 DEF Layers

\* A route turns at every inner vertex.
LEMMA RouteTurns ==
    ASSUME NEW r \in Routes, NEW i \in EdgeIndices(r)
    PROVE  /\ Edge(r, i).dir \in Layers
           /\ i + 1 \in EdgeIndices(r) => Edge(r, i + 1).dir = Across(Edge(r, i).dir)
<1>1. PICK d \in Layers : \A j \in 1..Len(r) - 1 :
          OnTrack(r[j], r[j + 1], IF j % 2 = 1 THEN d ELSE Across(d))
  BY DEF Routes, IsRoute
<1>2. Across(d) \in Layers /\ Across(Across(d)) = d
  BY DEF Layers, Across
<1>3. \A j \in EdgeIndices(r) : Edge(r, j).dir = IF j % 2 = 1 THEN d ELSE Across(d)
  <2> TAKE j \in EdgeIndices(r)
  <2>1. r[j] \in Vertices /\ r[j + 1] \in Vertices
    BY RouteShape
  <2>2. CASE j % 2 = 1
    <3>1. OnTrack(r[j], r[j + 1], d)
      BY <1>1, <2>2 DEF EdgeIndices
    <3> QED
      BY <2>1, <2>2, <3>1, DirectionOfEdge DEF Edge
  <2>3. CASE j % 2 # 1
    <3>1. OnTrack(r[j], r[j + 1], Across(d))
      BY <1>1, <2>3 DEF EdgeIndices
    <3> QED
      BY <1>2, <2>1, <2>3, <3>1, DirectionOfEdge DEF Edge
  <2> QED
    BY <2>2, <2>3
<1>4. i \in Int /\ (i % 2 = 1 <=> (i + 1) % 2 # 1)
  BY DEF EdgeIndices
<1> QED
  BY <1>2, <1>3, <1>4

\* Two wires share metal or do not, whichever is looked at from the other.
LEMMA TouchesIsSymmetric ==
    ASSUME NEW e \in Edges, NEW f \in Edges, Touches(e, f)
    PROVE  Touches(f, e)
<1>1. e.lo \in Int /\ e.hi \in Int /\ f.lo \in Int /\ f.hi \in Int
  BY OffsetAssumption DEF Edges
<1>2. e.lo + 2 <= e.hi /\ f.lo + 2 <= f.hi
  BY PitchAssumption DEF Edges
<1>3. f.lo < e.hi /\ e.lo < f.hi
  BY <1>1, <1>2 DEF Touches, Blocks
<1> QED
  BY <1>1, <1>2, <1>3 DEF Touches, Blocks
-----------------------------------------------------------------------------
\* What a search hands on is a route, or a route with one vertex more; what is
\* installed of it is a route again.

LEMMA SharesIfOverlaps ==
    ASSUME NEW e \in Edges, NEW f \in Edges
    PROVE  SharesMetal(e, f) <=> /\ e.dir = f.dir /\ e.at = f.at
                                 /\ e.lo < f.hi /\ f.lo < e.hi
<1>1. e.lo \in Int /\ e.hi \in Int /\ f.lo \in Int /\ f.hi \in Int
  BY OffsetAssumption DEF Edges
<1>2. e.lo + 2 <= e.hi /\ f.lo + 2 <= f.hi
  BY PitchAssumption DEF Edges
<1>3. ASSUME SharesMetal(e, f)
      PROVE  e.dir = f.dir /\ e.at = f.at /\ e.lo < f.hi /\ f.lo < e.hi
  BY <1>1, <1>2, <1>3 DEF SharesMetal, Touches, Blocks
<1>4. ASSUME e.dir = f.dir, e.at = f.at, e.lo < f.hi, f.lo < e.hi
      PROVE  SharesMetal(e, f)
  BY <1>1, <1>2, <1>4 DEF SharesMetal, Touches, Blocks
<1> QED
  BY <1>3, <1>4

LEMMA FoundShape ==
    ASSUME NEW f \in FoundPaths
    PROVE  f \in Routes \/ \E r \in Routes, v \in Vertices :
              /\ f = Append(r, v)
              /\ AreNeighbours(r[Len(r)], v) /\ InLine(r[Len(r)], v)
              /\ \A e \in EdgesOf(r) : ~Spans(e, v)
BY DEF FoundPaths, Extensions, Steps

LEMMA RouteOfVertices ==
    ASSUME NEW r \in Routes
    PROVE  /\ r \in [1..Len(r) -> Vertices] /\ r \in Seq(Vertices)
           /\ Len(r) \in 2..MaxCorners
<1>1. PICK k \in 2..MaxCorners : r \in [1..k -> Vertices]
  BY DEF Routes
<1>2. k \in Nat
  BY BoundAssumption
<1>3. r \in Seq(Vertices) /\ Len(r) = k
  BY <1>1, <1>2
<1> QED
  BY <1>1, <1>3

\* One vertex more is one edge more.
LEMMA AppendShape ==
    ASSUME NEW r \in Routes, NEW v \in Vertices
    PROVE  /\ Append(r, v) \in [1..Len(r) + 1 -> Vertices] /\ Len(Append(r, v)) = Len(r) + 1
           /\ \A i \in 1..Len(r) : Append(r, v)[i] = r[i]
           /\ Append(r, v)[Len(r) + 1] = v
           /\ \A i \in EdgeIndices(r) : Edge(Append(r, v), i) = Edge(r, i)
           /\ Edge(Append(r, v), Len(r)) = EdgeBetween(r[Len(r)], v)
           /\ EdgesOf(Append(r, v)) = EdgesOf(r) \cup {EdgeBetween(r[Len(r)], v)}
           /\ VerticesOf(Append(r, v)) = VerticesOf(r) \cup {v}
<1> DEFINE q == Append(r, v)
           k == Len(r)
<1>1. r \in [1..k -> Vertices] /\ r \in Seq(Vertices) /\ k \in Nat /\ k >= 2
  BY RouteOfVertices, BoundAssumption
<1>2. q \in Seq(Vertices) /\ Len(q) = k + 1
      /\ (\A i \in 1..k : q[i] = r[i]) /\ q[k + 1] = v
  BY <1>1
<1> HIDE DEF q
<1>3. q \in [1..k + 1 -> Vertices]
  BY <1>1, <1>2
<1>4. \A i \in EdgeIndices(r) : Edge(q, i) = Edge(r, i)
  BY <1>1, <1>2 DEF EdgeIndices, Edge
<1>5. Edge(q, k) = EdgeBetween(r[k], v)
  BY <1>1, <1>2 DEF Edge
<1>6. EdgeIndices(q) = EdgeIndices(r) \cup {k}
  BY <1>1, <1>2 DEF EdgeIndices
<1>7. EdgesOf(q) = EdgesOf(r) \cup {EdgeBetween(r[k], v)}
  BY <1>4, <1>5, <1>6 DEF EdgesOf
<1>8. VerticesOf(q) = VerticesOf(r) \cup {v}
  <2>1. DOMAIN q = 1..k + 1 /\ DOMAIN r = 1..k
    BY <1>1, <1>3
  <2>2. 1..k + 1 = (1..k) \cup {k + 1}
    BY <1>1
  <2> QED
    BY <1>2, <2>1, <2>2 DEF VerticesOf
<1> QED
  BY <1>2, <1>3, <1>4, <1>5, <1>7, <1>8 DEF q

LEMMA RouteIsMerged ==
    ASSUME NEW r \in Routes
    PROVE  ~EndsStraight(r) /\ Merged(r) = r
<1>1. Len(r) \in Nat
  BY RouteShape
<1>2. ASSUME EndsStraight(r) PROVE FALSE
  <2>1. Len(r) - 2 \in EdgeIndices(r) /\ (Len(r) - 2) + 1 = Len(r) - 1
        /\ Len(r) - 1 \in EdgeIndices(r)
    BY <1>1, <1>2 DEF EndsStraight, EdgeIndices
  <2>2. Edge(r, Len(r) - 1).dir = Across(Edge(r, Len(r) - 2).dir)
        /\ Edge(r, Len(r) - 2).dir \in Layers
    BY <2>1, RouteTurns
  <2> QED
    BY <1>2, <2>2 DEF EndsStraight, Across, Layers
<1> QED
  BY <1>2 DEF Merged

\* The last two edges of a path that ends straight become one.
LEMMA MergedShape ==
    ASSUME NEW r \in Routes, NEW v \in Vertices, EndsStraight(Append(r, v))
    PROVE  /\ Len(Merged(Append(r, v))) = Len(r)
           /\ Merged(Append(r, v)) \in [1..Len(r) -> Vertices]
           /\ \A i \in 1..Len(r) - 1 : Merged(Append(r, v))[i] = r[i]
           /\ Merged(Append(r, v))[Len(r)] = v
           /\ Edge(r, Len(r) - 1).dir = EdgeBetween(r[Len(r)], v).dir
<1> DEFINE q == Append(r, v)
           k == Len(r)
           s == SubSeq(q, 1, k - 1)
<1>1. k \in Nat /\ k >= 2
  BY RouteShape
<1>2. q \in [1..k + 1 -> Vertices] /\ Len(q) = k + 1
      /\ (\A i \in 1..k : q[i] = r[i]) /\ q[k + 1] = v
      /\ Edge(q, k) = EdgeBetween(r[k], v)
      /\ \A i \in EdgeIndices(r) : Edge(q, i) = Edge(r, i)
  BY AppendShape
<1>3. Len(q) - 2 = k - 1 /\ Len(q) - 1 = k /\ k - 1 \in EdgeIndices(r)
  BY <1>1, <1>2 DEF EdgeIndices
<1>4. Merged(q) = Append(s, v)
  BY <1>2, <1>3 DEF Merged
<1>5. Edge(r, k - 1).dir = EdgeBetween(r[k], v).dir
  BY <1>2, <1>3 DEF EndsStraight
<1> HIDE DEF q
<1>6. s = [i \in 1..k - 1 |-> q[i]]
  BY <1>1, <1>2
<1>7. s \in Seq(Vertices) /\ Len(s) = k - 1 /\ \A i \in 1..k - 1 : s[i] = r[i]
  BY <1>1, <1>2, <1>6
<1> HIDE DEF s
<1>8. /\ Append(s, v) \in Seq(Vertices) /\ Len(Append(s, v)) = k
      /\ \A i \in 1..k - 1 : Append(s, v)[i] = r[i]
      /\ Append(s, v)[k] = v
  BY <1>1, <1>7
<1>9. Append(s, v) \in [1..k -> Vertices]
  <2>1. \A t \in Seq(Vertices) : t \in [1..Len(t) -> Vertices]
    OBVIOUS
  <2> HIDE DEF k
  <2> QED
    BY <1>8, <2>1
<1>10. /\ Len(Merged(q)) = k /\ Merged(q) \in [1..k -> Vertices]
       /\ \A i \in 1..k - 1 : Merged(q)[i] = r[i]
       /\ Merged(q)[k] = v
  BY <1>4, <1>8, <1>9
<1> QED
  BY <1>5, <1>10 DEF q

LEMMA MergedKeepsEnds ==
    ASSUME NEW f \in FoundPaths
    PROVE  /\ Merged(f) \in Routes
           /\ f[1] \in Vertices /\ f[Len(f)] \in Vertices
           /\ Merged(f)[1] = f[1] /\ Merged(f)[Len(Merged(f))] = f[Len(f)]
           /\ VerticesOf(Merged(f)) \subseteq VerticesOf(f)
<1>1. Merged(f) \in Routes
  BY DEF FoundPaths
<1>2. CASE Merged(f) = f
  BY <1>1, <1>2, RouteEndsAreVertices
<1>3. CASE Merged(f) # f
  <2>1. f \notin Routes
    BY <1>3, RouteIsMerged
  <2>2. PICK r \in Routes, v \in Vertices : f = Append(r, v)
    BY <2>1, FoundShape
  <2>3. EndsStraight(f)
    BY <1>3 DEF Merged
  <2>4. Len(r) \in Nat /\ Len(r) >= 2 /\ r[1] \in Vertices /\ DOMAIN r = 1..Len(r)
    BY RouteShape, RouteEndsAreVertices, RouteOfVertices
  <2>5. /\ Len(f) = Len(r) + 1 /\ f[1] = r[1] /\ f[Len(f)] = v
        /\ VerticesOf(f) = VerticesOf(r) \cup {v}
    BY <2>2, <2>4, AppendShape
  <2>6. /\ Len(Merged(f)) = Len(r) /\ DOMAIN Merged(f) = 1..Len(r)
        /\ \A i \in 1..Len(r) - 1 : Merged(f)[i] = r[i]
        /\ Merged(f)[Len(r)] = v
    BY <2>2, <2>3, MergedShape
  <2>7. VerticesOf(Merged(f)) \subseteq VerticesOf(r) \cup {v}
    <3> SUFFICES ASSUME NEW i \in 1..Len(r) PROVE Merged(f)[i] \in VerticesOf(r) \cup {v}
      BY <2>6 DEF VerticesOf
    <3> QED
      BY <2>4, <2>6 DEF VerticesOf
  <2> QED
    BY <1>1, <2>4, <2>5, <2>6, <2>7
<1> QED
  BY <1>2, <1>3

LEMMA EdgesOfFound ==
    ASSUME NEW f \in FoundPaths
    PROVE  EdgesOf(f) \subseteq Edges
<1>1. CASE f \in Routes
  BY <1>1, EdgesOfRoute
<1>2. CASE f \notin Routes
  <2>1. PICK r \in Routes, v \in Vertices : f = Append(r, v) /\ InLine(r[Len(r)], v)
    BY <1>2, FoundShape
  <2>2. EdgeBetween(r[Len(r)], v) \in Edges
    BY <2>1, RouteEndsAreVertices, EdgeOfVertices DEF InLine
  <2> QED
    BY <2>1, <2>2, AppendShape, EdgesOfRoute
<1> QED
  BY <1>1, <1>2

\* A step straight on from an edge goes further along its track.
LEMMA StraightOn ==
    ASSUME NEW a \in Vertices, NEW b \in Vertices, NEW c \in Vertices, NEW d \in Layers,
           OnTrack(a, b, d), OnTrack(b, c, d), AreNeighbours(b, c),
           ~Spans(EdgeBetween(a, b), c)
    PROVE  /\ OnTrack(a, c, d)
           /\ EdgeBetween(a, c).at = EdgeBetween(a, b).at
           /\ EdgeBetween(b, c).at = EdgeBetween(a, b).at
           /\ \/ /\ EdgeBetween(a, c).lo = EdgeBetween(a, b).lo
                 /\ EdgeBetween(a, b).hi = EdgeBetween(b, c).lo
                 /\ EdgeBetween(a, c).hi = EdgeBetween(b, c).hi
              \/ /\ EdgeBetween(a, c).lo = EdgeBetween(b, c).lo
                 /\ EdgeBetween(b, c).hi = EdgeBetween(a, b).lo
                 /\ EdgeBetween(a, c).hi = EdgeBetween(a, b).hi
<1>1. /\ EdgeBetween(a, b).dir = d /\ EdgeBetween(b, c).dir = d
      /\ Spans(EdgeBetween(a, b), a) /\ Spans(EdgeBetween(a, b), b)
  BY DirectionOfEdge, EdgeSpansEnds
<1>2. /\ a[Across(d)] = b[Across(d)] /\ b[Across(d)] = c[Across(d)]
      /\ a[d] # b[d] /\ b[d] # c[d]
  BY DEF OnTrack
<1>3. /\ EdgeBetween(a, b).at = a[Across(d)]
      /\ EdgeBetween(a, b).lo = (IF a[d] < b[d] THEN a[d] ELSE b[d])
      /\ EdgeBetween(a, b).hi = (IF a[d] < b[d] THEN b[d] ELSE a[d])
      /\ EdgeBetween(b, c).at = b[Across(d)]
      /\ EdgeBetween(b, c).lo = (IF b[d] < c[d] THEN b[d] ELSE c[d])
      /\ EdgeBetween(b, c).hi = (IF b[d] < c[d] THEN c[d] ELSE b[d])
  BY <1>1 DEF EdgeBetween
<1>4. a[d] \in Int /\ b[d] \in Int /\ c[d] \in Int
  BY OffsetAssumption DEF Vertices, Layers
<1>5. ~((b[d] < a[d] /\ a[d] < c[d]) \/ (c[d] < a[d] /\ a[d] < b[d]))
  BY DEF AreNeighbours, NoneBetween, Vertices, Layers
<1>6. ~(EdgeBetween(a, b).lo <= c[d] /\ c[d] <= EdgeBetween(a, b).hi)
  BY <1>1, <1>2, <1>3 DEF Spans
<1>7. OnTrack(a, c, d)
  BY <1>2, <1>3, <1>4, <1>6 DEF OnTrack
<1>8. /\ EdgeBetween(a, c).at = a[Across(d)]
      /\ EdgeBetween(a, c).lo = (IF a[d] < c[d] THEN a[d] ELSE c[d])
      /\ EdgeBetween(a, c).hi = (IF a[d] < c[d] THEN c[d] ELSE a[d])
  <2>1. EdgeBetween(a, c).dir = d
    BY <1>7, DirectionOfEdge
  <2> QED
    BY <2>1 DEF EdgeBetween
<1>9. CASE a[d] < b[d]
  <2>1. b[d] < c[d] /\ a[d] < c[d]
    BY <1>2, <1>3, <1>4, <1>5, <1>6, <1>9
  <2> QED
    BY <1>2, <1>3, <1>4, <1>7, <1>8, <1>9, <2>1
<1>10. CASE b[d] < a[d]
  <2>1. c[d] < b[d] /\ c[d] < a[d]
    BY <1>2, <1>3, <1>4, <1>5, <1>6, <1>10
  <2> QED
    BY <1>2, <1>3, <1>4, <1>7, <1>8, <1>10, <2>1
<1> QED
  BY <1>2, <1>4, <1>9, <1>10

\* The parts of a path that ends straight, with the wire they become.
LEMMA MergedEdges ==
    ASSUME NEW r \in Routes, NEW v \in Vertices, EndsStraight(Append(r, v)),
           AreNeighbours(r[Len(r)], v), InLine(r[Len(r)], v),
           \A e \in EdgesOf(r) : ~Spans(e, v), Merged(Append(r, v)) \in Routes,
           NEW e \in EdgesOf(Merged(Append(r, v)))
    PROVE  \/ e \in EdgesOf(r)
           \/ \E d \in Layers :
                 /\ OnTrack(r[Len(r) - 1], r[Len(r)], d) /\ OnTrack(r[Len(r)], v, d)
                 /\ e = EdgeBetween(r[Len(r) - 1], v)
                 /\ EdgeBetween(r[Len(r) - 1], r[Len(r)]) \in EdgesOf(r)
<1> DEFINE k == Len(r)
           m == Merged(Append(r, v))
<1>1. /\ k \in Nat /\ k >= 2
      /\ \A i \in EdgeIndices(r) : /\ r[i] \in Vertices /\ r[i + 1] \in Vertices
                                   /\ \E d \in Layers : OnTrack(r[i], r[i + 1], d)
  BY RouteShape
<1>2. /\ Len(m) = k /\ m[k] = v /\ \A i \in 1..k - 1 : m[i] = r[i]
      /\ Edge(r, k - 1).dir = EdgeBetween(r[k], v).dir
  BY MergedShape
<1> HIDE DEF m
<1>3. PICK i \in 1..k - 1 : e = Edge(m, i)
  BY <1>2 DEF EdgesOf, EdgeIndices, m
<1>4. CASE i < k - 1
  <2>1. i \in 1..k - 1 /\ i + 1 \in 1..k - 1
    BY <1>1, <1>3, <1>4
  <2>2. Edge(m, i) = Edge(r, i) /\ i \in EdgeIndices(r)
    BY <1>1, <1>2, <2>1 DEF Edge, EdgeIndices
  <2> QED
    BY <1>3, <2>2 DEF EdgesOf
<1>5. CASE i = k - 1
  <2>1. k - 1 \in EdgeIndices(r) /\ (k - 1) + 1 = k /\ k - 1 \in 1..k - 1
    BY <1>1 DEF EdgeIndices
  <2>2. PICK d1 \in Layers : OnTrack(r[k - 1], r[k], d1)
    BY <1>1, <2>1
  <2>3. PICK d2 \in Layers : OnTrack(r[k], v, d2)
    BY DEF InLine
  <2>4. r[k - 1] \in Vertices /\ r[k] \in Vertices
    BY <1>1, <2>1
  <2>5. d1 = d2
    <3>1. EdgeBetween(r[k - 1], r[k]).dir = d1 /\ EdgeBetween(r[k], v).dir = d2
      BY <2>2, <2>3, <2>4, DirectionOfEdge
    <3> QED
      BY <1>2, <2>1, <3>1 DEF Edge
  <2>6. e = EdgeBetween(r[k - 1], v)
    BY <1>2, <1>3, <1>5, <2>1 DEF Edge
  <2>7. EdgeBetween(r[k - 1], r[k]) \in EdgesOf(r)
    BY <2>1 DEF EdgesOf, Edge
  <2> QED
    BY <2>2, <2>3, <2>5, <2>6, <2>7
<1> QED
  BY <1>1, <1>3, <1>4, <1>5

\* Metal that the installed path lies on is metal of a part that was found.
LEMMA MergedTouches ==
    ASSUME NEW f \in FoundPaths, NEW e \in EdgesOf(Merged(f)),
           NEW w \in Edges, SharesMetal(w, e)
    PROVE  \E g \in EdgesOf(f) : /\ SharesMetal(w, g)
                                  /\ \A x \in Edges : SharesMetal(x, g) => SharesMetal(x, e)
<1>1. CASE e \in EdgesOf(f)
  BY <1>1
<1>2. CASE e \notin EdgesOf(f)
  <2>1. Merged(f) # f
    BY <1>2
  <2>2. f \notin Routes /\ EndsStraight(f)
    BY <2>1, RouteIsMerged DEF Merged
  <2>3. PICK r \in Routes, v \in Vertices :
              /\ f = Append(r, v)
              /\ AreNeighbours(r[Len(r)], v) /\ InLine(r[Len(r)], v)
              /\ \A g \in EdgesOf(r) : ~Spans(g, v)
    BY <2>2, FoundShape
  <2> DEFINE a == r[Len(r) - 1]
             b == r[Len(r)]
             e1 == EdgeBetween(a, b)
             e2 == EdgeBetween(b, v)
  <2>4. EdgesOf(f) = EdgesOf(r) \cup {e2}
    BY <2>3, AppendShape
  <2>5. Merged(f) \in Routes
    BY MergedKeepsEnds
  <2>6. PICK d \in Layers : /\ OnTrack(a, b, d) /\ OnTrack(b, v, d)
                            /\ e = EdgeBetween(a, v) /\ e1 \in EdgesOf(r)
    BY <1>2, <2>2, <2>3, <2>4, <2>5, MergedEdges
  <2>7. a \in Vertices /\ b \in Vertices
    <3>1. Len(r) \in Nat /\ Len(r) >= 2
      BY RouteShape
    <3>2. Len(r) - 1 \in EdgeIndices(r) /\ (Len(r) - 1) + 1 = Len(r)
      BY <3>1 DEF EdgeIndices
    <3> QED
      BY <3>2, RouteShape
  <2> HIDE DEF a, b
  <2>8. OnTrack(a, v, d)
        /\ EdgeBetween(a, v).at = e1.at /\ e2.at = e1.at
        /\ \/ EdgeBetween(a, v).lo = e1.lo /\ e1.hi = e2.lo /\ EdgeBetween(a, v).hi = e2.hi
           \/ EdgeBetween(a, v).lo = e2.lo /\ e2.hi = e1.lo /\ EdgeBetween(a, v).hi = e1.hi
    <3>1. AreNeighbours(b, v) /\ ~Spans(EdgeBetween(a, b), v)
      BY <2>3, <2>6 DEF b
    <3> QED
      BY <2>6, <2>7, <3>1, StraightOn
  <2>9. e.dir = d /\ e1.dir = d /\ e2.dir = d
    BY <2>6, <2>7, <2>8, DirectionOfEdge
  <2>10. e \in Edges /\ e1 \in Edges /\ e2 \in Edges
    BY <2>6, <2>7, <2>8, EdgeOfVertices
  <2> HIDE DEF e1, e2
  <2>11. e.lo < w.hi /\ w.lo < e.hi /\ w.dir = d /\ w.at = e.at
    BY <2>9, <2>10, SharesIfOverlaps
  <2>12. /\ w.lo \in Int /\ w.hi \in Int /\ w.lo < w.hi
         /\ e1.lo \in Int /\ e1.hi \in Int /\ e2.lo \in Int /\ e2.hi \in Int
    BY <2>10, OffsetAssumption DEF Edges
  <2>13. \/ w.lo < e1.hi /\ e1.lo < w.hi
         \/ w.lo < e2.hi /\ e2.lo < w.hi
    BY <2>6, <2>8, <2>11, <2>12
  <2>14. SharesMetal(w, e1) \/ SharesMetal(w, e2)
    BY <2>6, <2>8, <2>9, <2>10, <2>11, <2>13, SharesIfOverlaps
  <2>15. ASSUME NEW x \in Edges, SharesMetal(x, e1) \/ SharesMetal(x, e2)
         PROVE  SharesMetal(x, e)
    <3>1. /\ x.dir = d /\ x.at = e.at
          /\ (x.lo < e1.hi /\ e1.lo < x.hi) \/ (x.lo < e2.hi /\ e2.lo < x.hi)
      BY <2>6, <2>8, <2>9, <2>10, <2>15, SharesIfOverlaps
    <3>2. x.lo \in Int /\ x.hi \in Int /\ e1.lo < e1.hi /\ e2.lo < e2.hi
      BY <2>10, OffsetAssumption DEF Edges
    <3>3. x.lo < e.hi /\ e.lo < x.hi
      BY <2>6, <2>8, <2>12, <3>1, <3>2
    <3> QED
      BY <2>9, <2>10, <3>1, <3>3, SharesIfOverlaps
  <2> QED
    BY <2>4, <2>6, <2>14, <2>15
<1> QED
  BY <1>1, <1>2

\* A wire over metal between two neighbours of a track comes to one of them.
LEMMA BetweenNeighbours ==
    ASSUME NEW u \in Vertices, NEW v \in Vertices, NEW d \in Layers,
           OnTrack(u, v, d), AreNeighbours(u, v),
           NEW w \in Edges, SharesMetal(w, EdgeBetween(u, v))
    PROVE  Spans(w, u) \/ Spans(w, v)
<1> DEFINE e == EdgeBetween(u, v)
<1>1. e \in Edges /\ e.dir = d /\ Spans(e, u) /\ Spans(e, v)
  BY EdgeOfVertices, DirectionOfEdge, EdgeSpansEnds
<1>2. w.dir = d /\ w.at = e.at /\ w.lo < e.hi /\ e.lo < w.hi
  BY <1>1, SharesIfOverlaps
<1>3. /\ e.lo = (IF u[d] < v[d] THEN u[d] ELSE v[d])
      /\ e.hi = (IF u[d] < v[d] THEN v[d] ELSE u[d])
  BY <1>1 DEF EdgeBetween
<1>4. /\ u[d] \in Int /\ v[d] \in Int /\ w.lo \in Int /\ w.hi \in Int /\ w.lo < w.hi
  BY OffsetAssumption DEF Vertices, Layers, Edges
<1>5. ~((u[d] < w.lo /\ w.lo < v[d]) \/ (v[d] < w.lo /\ w.lo < u[d]))
  <2>1. CASE d = "horizontal"
    <3>1. w.lo \in Columns
      BY <1>2, <2>1 DEF Edges
    <3> QED
      BY <2>1, <3>1 DEF AreNeighbours, NoneBetween
  <2>2. CASE d = "vertical"
    <3>1. w.lo \in Rows
      BY <1>2, <2>2 DEF Edges
    <3> QED
      BY <2>2, <3>1 DEF AreNeighbours, NoneBetween
  <2> QED
    BY <2>1, <2>2 DEF Layers
<1>6. u[Across(d)] = w.at /\ v[Across(d)] = w.at
  BY <1>1, <1>2 DEF Spans
<1>7. (w.lo <= u[d] /\ u[d] <= w.hi) \/ (w.lo <= v[d] /\ v[d] <= w.hi)
  BY <1>2, <1>3, <1>4, <1>5
<1> QED
  BY <1>2, <1>6, <1>7 DEF Spans

LEMMA CornersAreSpanned ==
    ASSUME NEW r \in Routes, NEW v \in VerticesOf(r)
    PROVE  \E e \in EdgesOf(r) : Spans(e, v)
<1>1. PICK i \in 1..Len(r) : v = r[i]
  BY RouteOfVertices DEF VerticesOf
<1>2. Len(r) \in Nat /\ Len(r) >= 2
  BY RouteShape
<1>3. \A j \in EdgeIndices(r) :
          Edge(r, j) \in EdgesOf(r) /\ Spans(Edge(r, j), r[j]) /\ Spans(Edge(r, j), r[j + 1])
  BY RouteShape, EdgeSpansEnds DEF Edge, EdgesOf
<1>4. CASE i < Len(r)
  BY <1>1, <1>2, <1>3, <1>4 DEF EdgeIndices
<1>5. CASE i = Len(r)
  <2>1. i - 1 \in EdgeIndices(r) /\ (i - 1) + 1 = i
    BY <1>2, <1>5 DEF EdgeIndices
  <2> QED
    BY <1>1, <1>3, <2>1
<1> QED
  BY <1>1, <1>2, <1>4, <1>5

\* A route that goes on to a neighbour it does not lie on is a path that may be
\* handed on, whether it turns there or not.
LEMMA ExtensionIsFound ==
    ASSUME NEW r \in Routes, Len(r) < MaxCorners, NEW v \in Vertices,
           AreNeighbours(r[Len(r)], v), InLine(r[Len(r)], v),
           \A e \in EdgesOf(r) : ~Spans(e, v)
    PROVE  Append(r, v) \in FoundPaths
<1> DEFINE q == Append(r, v)
           k == Len(r)
<1>1. /\ k \in Nat /\ k >= 2 /\ MaxCorners \in Nat /\ r \in [1..k -> Vertices]
      /\ \A i \in EdgeIndices(r) : r[i] \in Vertices /\ r[i + 1] \in Vertices
  BY RouteShape, RouteOfVertices, BoundAssumption
<1>2. /\ q \in [1..k + 1 -> Vertices] /\ Len(q) = k + 1
      /\ (\A i \in 1..k : q[i] = r[i]) /\ q[k + 1] = v
      /\ Edge(q, k) = EdgeBetween(r[k], v)
      /\ \A i \in EdgeIndices(r) : Edge(q, i) = Edge(r, i)
  BY AppendShape
<1>3. \A i, j \in 1..k : r[i] = r[j] => i = j
  BY <1>1 DEF Routes, IsRoute
<1>4. \A i \in 1..k : r[i] # v
  BY <1>1, CornersAreSpanned DEF VerticesOf
<1>5. PICK d \in Layers : \A i \in 1..k - 1 :
          OnTrack(r[i], r[i + 1], IF i % 2 = 1 THEN d ELSE Across(d))
  BY DEF Routes, IsRoute
<1>6. PICK c \in Layers : OnTrack(r[k], v, c)
  BY DEF InLine
<1>7. /\ k - 1 \in EdgeIndices(r) /\ (k - 1) + 1 = k /\ k - 1 \in 1..k - 1
      /\ ((k - 1) % 2 = 1 <=> k % 2 # 1)
  <2>1. \A j \in Nat : (j - 1) % 2 = 1 <=> j % 2 # 1
    OBVIOUS
  <2> QED
    BY <1>1, <2>1 DEF EdgeIndices
<1>8. EdgeBetween(r[k], v).dir = c
      /\ Edge(r, k - 1).dir = (IF (k - 1) % 2 = 1 THEN d ELSE Across(d))
  <2>1. r[k - 1] \in Vertices /\ r[k] \in Vertices
    BY <1>1, <1>7
  <2>2. OnTrack(r[k - 1], r[k], IF (k - 1) % 2 = 1 THEN d ELSE Across(d))
    BY <1>5, <1>7
  <2>3. (IF (k - 1) % 2 = 1 THEN d ELSE Across(d)) \in Layers
    BY DEF Layers, Across
  <2> QED
    BY <1>6, <1>7, <2>1, <2>2, <2>3, DirectionOfEdge DEF Edge
<1> HIDE DEF q, k
<1>9. Merged(q) \in Routes
  <2>1. CASE ~EndsStraight(q)
    <3>1. c # Edge(r, k - 1).dir
      <4>1. Len(q) - 2 = k - 1 /\ Len(q) - 1 = k /\ Len(q) > 2
        BY <1>1, <1>2
      <4> QED
        BY <1>2, <1>7, <1>8, <2>1, <4>1 DEF EndsStraight
    <3>2. c = IF k % 2 = 1 THEN d ELSE Across(d)
      BY <1>5, <1>6, <1>7, <1>8, <3>1 DEF Layers, Across
    <3>3. \A i \in 1..k : OnTrack(q[i], q[i + 1], IF i % 2 = 1 THEN d ELSE Across(d))
      <4> TAKE i \in 1..k
      <4>1. CASE i < k
        <5>1. q[i] = r[i] /\ q[i + 1] = r[i + 1] /\ i \in 1..k - 1
          BY <1>1, <1>2, <4>1
        <5> QED
          BY <1>5, <5>1
      <4>2. CASE i = k
        BY <1>1, <1>2, <1>6, <3>2, <4>2
      <4> QED
        BY <1>1, <4>1, <4>2
    <3>4. IsRoute(q)
      <4>1. \A i, j \in 1..k + 1 : q[i] = q[j] => i = j
        BY <1>1, <1>2, <1>3, <1>4
      <4>2. DOMAIN q = 1..k + 1 /\ Len(q) - 1 = k
        BY <1>1, <1>2
      <4> QED
        BY <3>3, <4>1, <4>2 DEF IsRoute
    <3>5. q \in Routes
      <4>1. k + 1 \in 2..MaxCorners
        BY <1>1 DEF k
      <4> QED
        BY <1>2, <3>4, <4>1 DEF Routes
    <3> QED
      BY <3>5, RouteIsMerged
  <2>2. CASE EndsStraight(q)
    <3> DEFINE m == Merged(q)
    <3>1. /\ Len(m) = k /\ m \in [1..k -> Vertices] /\ m[k] = v
          /\ \A i \in 1..k - 1 : m[i] = r[i]
          /\ Edge(r, k - 1).dir = c
      BY <1>8, <2>2, MergedShape DEF q, k
    <3> HIDE DEF m
    <3>2. OnTrack(r[k - 1], v, IF (k - 1) % 2 = 1 THEN d ELSE Across(d))
      <4>1. OnTrack(r[k - 1], r[k], c) /\ OnTrack(r[k], v, c)
        BY <1>5, <1>6, <1>7, <1>8, <3>1
      <4>2. ~Spans(EdgeBetween(r[k - 1], r[k]), v) /\ AreNeighbours(r[k], v)
        BY <1>7 DEF EdgesOf, Edge, k
      <4>3. r[k - 1] \in Vertices /\ r[k] \in Vertices
        BY <1>1, <1>7
      <4>4. OnTrack(r[k - 1], v, c)
        BY <4>1, <4>2, <4>3, StraightOn
      <4> QED
        BY <1>8, <3>1, <4>4
    <3>3. \A i \in 1..k - 1 : OnTrack(m[i], m[i + 1], IF i % 2 = 1 THEN d ELSE Across(d))
      <4> TAKE i \in 1..k - 1
      <4>1. CASE i < k - 1
        <5>1. m[i] = r[i] /\ m[i + 1] = r[i + 1]
          BY <1>1, <3>1, <4>1
        <5> QED
          BY <1>5, <5>1
      <4>2. CASE i = k - 1
        <5>1. m[i] = r[k - 1] /\ m[i + 1] = v
          BY <1>1, <1>7, <3>1, <4>2
        <5> QED
          BY <3>2, <4>2, <5>1
      <4> QED
        BY <1>1, <4>1, <4>2
    <3>4. IsRoute(m)
      <4>1. \A i, j \in 1..k : m[i] = m[j] => i = j
        BY <1>1, <1>3, <1>4, <3>1
      <4>2. DOMAIN m = 1..k
        BY <3>1
      <4> QED
        BY <3>1, <3>3, <4>1, <4>2 DEF IsRoute
    <3>5. k \in 2..MaxCorners
      BY RouteOfVertices DEF k
    <3> QED
      BY <3>1, <3>4, <3>5 DEF Routes, m
  <2> QED
    BY <2>1, <2>2
<1>10. q \in Extensions(r)
  BY DEF Extensions, Steps, q
<1> QED
  BY <1>9, <1>10 DEF FoundPaths, q
-----------------------------------------------------------------------------
\* Type correctness.

LEMMA LayerOfEntry ==
    ASSUME GridTypeOK, NEW r \in Routes, NEW i \in EdgeIndices(r), NEW start
    PROVE  EnteredFrom(r, i, start) \in Layers
<1>1. CASE i > 1
  <2>1. i - 1 \in EdgeIndices(r)
    BY <1>1 DEF EdgeIndices
  <2> QED
    BY <1>1, <2>1, EdgeOfRoute DEF EnteredFrom, GridTypeOK
<1>2. CASE ~(i > 1)
  BY <1>2, LayerAssumption DEF EnteredFrom, PickSource, PickLowest, UpperLayer, Layers
<1> QED
  BY <1>1, <1>2

LEMMA LayersOfRoute ==
    ASSUME GridTypeOK, NEW r \in Routes, NEW start, NEW end
    PROVE  LayersInPath(r, start, end) \in [EdgeIndices(r) -> Layers]
BY LayerOfEntry, EdgeOfRoute DEF LayersInPath, GridTypeOK

LEMMA PickIsLayer ==
    ASSUME NEW S, NEW access
    PROVE  PickTarget(S, access) \in Layers
BY LayerAssumption DEF PickTarget, PickLowest, UpperLayer, Layers

LEMMA AssignTyping ==
    ASSUME GridTypeOK, NEW n \in Nets, NEW r \in Routes, NEW start, NEW end,
           Assign(n, r, start, end)
    PROVE  GridTypeOK'
<1>1. edgeNet' \in [Edges -> Nets \cup {NoNet}]
  BY DEF Assign, MarkEdgesAsUsed, GridTypeOK
<1>2. edgeBlocked' \in [Edges -> BOOLEAN]
  BY DEF Assign, MarkEdgesAsUsed, GridTypeOK
<1>3. edgeLayer' \in [Edges -> Layers]
  BY DEF Assign, SetLayers, GridTypeOK, Across, Layers
<1>4. layers' \in [Vertices -> SUBSET Layers]
  BY DEF Assign, SetLayers, GridTypeOK
<1>5. using' \in [Vertices -> SUBSET (Nets \X Layers)]
  <2> DEFINE on == LayersInPath(r, start, end)
             entry == PickTarget({on[1]}, start)
             exit == PickTarget({on[Len(r) - 1]}, end)
             layersAt(v) == {on[i] : i \in {j \in EdgeIndices(r) : Spans(Edge(r, j), v)}}
                            \cup {l \in {entry} : v = r[1]}
                            \cup {l \in {exit} : v = r[Len(r)]}
  <2>1. using' = [v \in Vertices |-> using[v] \cup ({n} \X layersAt(v))]
    BY DEF Assign, MarkVerticesAsUsed, AddUsingNet
  <2>2. \A v : layersAt(v) \subseteq Layers
    <3>1. entry \in Layers /\ exit \in Layers
      BY PickIsLayer
    <3>2. \A i \in EdgeIndices(r) : on[i] \in Layers
      BY LayersOfRoute
    <3> HIDE DEF on, entry, exit
    <3> QED
      BY <3>1, <3>2
  <2> HIDE DEF layersAt
  <2>3. \A v : {n} \X layersAt(v) \subseteq Nets \X Layers
    BY <2>2
  <2> QED
    BY <2>1, <2>3 DEF GridTypeOK
<1>6. blocking' \in [Vertices -> SUBSET Nets]
  BY DEF Assign, BlockNeighbours, AddBlockingNet, GridTypeOK
<1>7. paths' \subseteq [net : Nets, route : Routes]
  BY DEF Assign, GridTypeOK
<1> QED
  BY <1>1, <1>2, <1>3, <1>4, <1>5, <1>6, <1>7 DEF GridTypeOK

\* A path is installed as it was merged.
LEMMA InstallAssigns ==
    ASSUME NEW n, NEW f, NEW start, NEW end, InstallPath(n, f, start, end)
    PROVE  CheckStillAvailable(n, f) /\ Assign(n, Merged(f), start, end)
BY DEF InstallPath

LEMMA InstallPathTyping ==
    ASSUME GridTypeOK, NEW n \in Nets, NEW f \in FoundPaths, NEW start, NEW end,
           InstallPath(n, f, start, end)
    PROVE  GridTypeOK'
BY InstallAssigns, MergedKeepsEnds, AssignTyping

LEMMA GridTypeInitially == GridInit => GridTypeOK
BY DEF GridInit, GridTypeOK, Edges, Layers

\* Every variable of the grid keeps the type of the member it stands for.
THEOREM GridTyping == GridSpec => []GridTypeOK
<1>1. GridTypeOK /\ [GridNext]_gridVars => GridTypeOK'
  <2> SUFFICES ASSUME GridTypeOK, [GridNext]_gridVars PROVE GridTypeOK'
    OBVIOUS
  <2>1. CASE GridNext
    BY <2>1, InstallPathTyping DEF GridNext
  <2>2. CASE UNCHANGED gridVars
    BY <2>2 DEF gridVars, GridTypeOK
  <2> QED
    BY <2>1, <2>2
<1> QED
  BY <1>1, GridTypeInitially, PTL DEF GridSpec
-----------------------------------------------------------------------------
\* Shadows.  An edge that shares metal with an installed wire can only be given
\* to that wire's net or be blocked (MarkEdgeAsUsed).  CheckStillAvailable sees
\* to that for the edges the path was found with; an edge that two of them are
\* merged into is not looked at, so the invariant also has to say where the net
\* and the block of an edge come from: from wires over the same metal, which
\* cast their shadow on one of the two as well.

Accounted ==
    \A e \in Edges :
        /\ edgeNet[e] \in Nets =>
              \E p \in paths : p.net = edgeNet[e] /\ \E w \in EdgesOf(p.route) : SharesMetal(w, e)
        /\ edgeBlocked[e] =>
              \E p, q \in paths :
                 /\ p.net # q.net
                 /\ \E w \in EdgesOf(p.route) : SharesMetal(w, e)
                 /\ \E w \in EdgesOf(q.route) : SharesMetal(w, e)

ShadowInv == WiresCastShadows /\ Accounted

\* What no other net holds, or is out of use.
Untaken(n, r) == \A e \in EdgesOf(r) : edgeBlocked[e] \/ edgeNet[e] \in {NoNet, n}

LEMMA MergedIsUntaken ==
    ASSUME GridTypeOK, ShadowInv, NEW n \in Nets, NEW f \in FoundPaths,
           CheckStillAvailable(n, f)
    PROVE  Untaken(n, Merged(f))
<1> SUFFICES ASSUME NEW e \in EdgesOf(Merged(f)), ~edgeBlocked[e], edgeNet[e] \notin {NoNet, n}
             PROVE  FALSE
  BY DEF Untaken
<1>1. e \in Edges
  BY MergedKeepsEnds, EdgesOfRoute
<1>2. edgeNet[e] \in Nets
  BY <1>1 DEF GridTypeOK
<1>3. PICK p \in paths : p.net = edgeNet[e] /\ \E w \in EdgesOf(p.route) : SharesMetal(w, e)
  BY <1>1, <1>2 DEF ShadowInv, Accounted
<1>4. PICK w \in EdgesOf(p.route) : SharesMetal(w, e)
  BY <1>3
<1>5. w \in Edges
  BY EdgesOfRoute DEF GridTypeOK
<1>6. PICK g \in EdgesOf(f) : /\ SharesMetal(w, g)
                              /\ \A x \in Edges : SharesMetal(x, g) => SharesMetal(x, e)
  BY <1>4, <1>5, MergedTouches
<1>7. g \in Edges /\ edgeNet[g] \in {NoNet, n}
  BY EdgesOfFound DEF CheckStillAvailable
<1>8. edgeBlocked[g]
  BY <1>2, <1>3, <1>6, <1>7, NetAssumption DEF ShadowInv, WiresCastShadows
<1>9. PICK p1 \in paths, p2 \in paths :
         /\ p1.net # p2.net
         /\ \E x \in EdgesOf(p1.route) : SharesMetal(x, g)
         /\ \E x \in EdgesOf(p2.route) : SharesMetal(x, g)
  BY <1>7, <1>8 DEF ShadowInv, Accounted
<1>10. \A q \in paths : (\E x \in EdgesOf(q.route) : SharesMetal(x, g)) => edgeNet[e] = q.net
  <2> TAKE q \in paths
  <2> SUFFICES ASSUME NEW x \in EdgesOf(q.route), SharesMetal(x, g) PROVE edgeNet[e] = q.net
    OBVIOUS
  <2>1. x \in Edges
    BY EdgesOfRoute DEF GridTypeOK
  <2>2. SharesMetal(x, e)
    BY <1>6, <2>1
  <2> QED
    BY <1>1, <2>2 DEF ShadowInv, WiresCastShadows
<1> QED
  BY <1>9, <1>10

LEMMA AssignShadows ==
    ASSUME GridTypeOK, WiresCastShadows, NEW n \in Nets, NEW r \in Routes, Untaken(n, r),
           NEW start, NEW end, Assign(n, r, start, end)
    PROVE  WiresCastShadows'
<1> DEFINE wires == EdgesOf(r)
           open == {f \in Edges \ wires : ~edgeBlocked[f] /\ \E e \in wires : Touches(e, f)}
           taken == {f \in open : edgeNet[f] \notin {NoNet, n}}
<1>1. /\ edgeNet' = [f \in Edges |-> IF f \in wires THEN n
                                     ELSE IF f \in taken THEN NoNet
                                     ELSE IF f \in open THEN n ELSE edgeNet[f]]
      /\ edgeBlocked' = [f \in Edges |-> edgeBlocked[f] \/ f \in taken]
  BY DEF Assign, MarkEdgesAsUsed
<1>2. \A f \in wires : edgeBlocked[f] \/ edgeNet[f] \in {NoNet, n}
  BY DEF Untaken
<1>3. wires \subseteq Edges
  BY EdgesOfRoute
<1>4. SUFFICES ASSUME NEW p \in paths', NEW e \in EdgesOf(p.route), NEW f \in Edges,
                      SharesMetal(e, f)
               PROVE  edgeBlocked'[f] \/ edgeNet'[f] = p.net
  BY DEF WiresCastShadows, SharesMetal, Touches
<1>5. CASE p \in paths
  <2>1. edgeBlocked[f] \/ edgeNet[f] = p.net
    BY <1>4, <1>5 DEF WiresCastShadows
  <2>2. p.net \in Nets
    BY <1>5 DEF GridTypeOK
  <2>3. CASE edgeBlocked[f]
    BY <1>1, <2>3
  <2>4. CASE edgeNet[f] = p.net /\ ~edgeBlocked[f]
    <3>1. CASE p.net = n
      BY <1>1, <2>4, <3>1
    <3>2. CASE p.net # n
      <4>1. edgeNet[f] \notin {NoNet, n}
        BY <2>2, <2>4, <3>2, NetAssumption
      <4>2. f \notin wires
        BY <1>2, <2>4, <4>1
      <4>3. CASE f \in open
        BY <1>1, <4>1, <4>3
      <4>4. CASE f \notin open
        BY <1>1, <2>4, <4>2, <4>4
      <4> QED
        BY <4>3, <4>4
    <3> QED
      BY <3>1, <3>2
  <2> QED
    BY <2>1, <2>3, <2>4
<1>6. CASE p \notin paths
  <2>1. p.net = n /\ e \in wires
    BY <1>4, <1>6 DEF Assign
  <2>2. CASE f \in wires
    BY <1>1, <2>1, <2>2
  <2>3. CASE f \notin wires
    <3>1. Touches(e, f)
      BY <1>4, <2>1, <2>3 DEF SharesMetal
    <3>2. CASE edgeBlocked[f]
      BY <1>1, <3>2
    <3>3. CASE ~edgeBlocked[f]
      <4>1. f \in open
        BY <2>1, <2>3, <3>1, <3>3
      <4> QED
        BY <1>1, <2>1, <2>3, <4>1
    <3> QED
      BY <3>2, <3>3
  <2> QED
    BY <2>2, <2>3
<1> QED
  BY <1>5, <1>6

\* Installed wires never leave, so what they account for they go on to.
LEMMA AssignAccounts ==
    ASSUME GridTypeOK, Accounted, NEW n \in Nets, NEW r \in Routes,
           NEW start, NEW end, Assign(n, r, start, end)
    PROVE  Accounted'
<1> DEFINE wires == EdgesOf(r)
           open == {f \in Edges \ wires : ~edgeBlocked[f] /\ \E e \in wires : Touches(e, f)}
           taken == {f \in open : edgeNet[f] \notin {NoNet, n}}
           Over(p, f) == \E w \in EdgesOf(p.route) : SharesMetal(w, f)
           new == [net |-> n, route |-> r]
<1>1. /\ edgeNet' = [f \in Edges |-> IF f \in wires THEN n
                                     ELSE IF f \in taken THEN NoNet
                                     ELSE IF f \in open THEN n ELSE edgeNet[f]]
      /\ edgeBlocked' = [f \in Edges |-> edgeBlocked[f] \/ f \in taken]
      /\ paths' = paths \cup {new}
  BY DEF Assign, MarkEdgesAsUsed
<1>2. \A f \in wires \cup open : Over(new, f)
  BY DEF SharesMetal
<1>3. \A f \in Edges : edgeNet[f] \in Nets => \E p \in paths : p.net = edgeNet[f] /\ Over(p, f)
  BY DEF Accounted
<1>4. \A f \in Edges : edgeBlocked[f] =>
          \E p, q \in paths : p.net # q.net /\ Over(p, f) /\ Over(q, f)
  BY DEF Accounted
<1>5. \A f \in Edges : edgeNet[f] \in Nets \cup {NoNet} /\ new.net = n
  BY DEF GridTypeOK
<1> HIDE DEF Over, new, wires, open
<1>6. ASSUME NEW f \in Edges, edgeNet'[f] \in Nets
      PROVE  \E p \in paths' : p.net = edgeNet'[f] /\ Over(p, f)
  <2>1. CASE f \in wires \cup open /\ f \notin taken
    <3>1. edgeNet'[f] = n
      BY <1>1, <2>1
    <3> QED
      BY <1>1, <1>2, <1>5, <2>1, <3>1
  <2>2. CASE f \notin wires \cup open
    <3>1. edgeNet'[f] = edgeNet[f]
      BY <1>1, <2>2
    <3> QED
      BY <1>1, <1>3, <1>6, <3>1
  <2>3. CASE f \in taken
    <3>1. edgeNet'[f] = n \/ edgeNet'[f] = NoNet
      BY <1>1, <2>3
    <3>2. edgeNet'[f] = n
      BY <1>6, <3>1, NetAssumption
    <3> QED
      BY <1>1, <1>2, <1>5, <2>3, <3>2
  <2> QED
    BY <2>1, <2>2, <2>3
<1>7. ASSUME NEW f \in Edges, edgeBlocked'[f]
      PROVE  \E p, q \in paths' : p.net # q.net /\ Over(p, f) /\ Over(q, f)
  <2>1. CASE edgeBlocked[f]
    BY <1>1, <1>4, <2>1
  <2>2. CASE ~edgeBlocked[f]
    <3>1. f \in taken
      BY <1>1, <1>7, <2>2
    <3>2. edgeNet[f] \in Nets /\ edgeNet[f] # n
      BY <1>5, <3>1
    <3>3. PICK p \in paths : p.net = edgeNet[f] /\ Over(p, f)
      BY <1>3, <3>2
    <3> QED
      BY <1>1, <1>2, <1>5, <3>1, <3>2, <3>3
  <2> QED
    BY <2>1, <2>2
<1>8. SUFFICES ASSUME NEW f \in Edges
               PROVE  /\ edgeNet'[f] \in Nets =>
                            \E p \in paths' : p.net = edgeNet'[f] /\ Over(p, f)
                      /\ edgeBlocked'[f] =>
                            \E p, q \in paths' : p.net # q.net /\ Over(p, f) /\ Over(q, f)
  BY DEF Accounted, Over, SharesMetal, Touches
<1> QED
  BY <1>6, <1>7

LEMMA InstallPathShadows ==
    ASSUME GridTypeOK, ShadowInv, NEW n \in Nets, NEW f \in FoundPaths, NEW start, NEW end,
           InstallPath(n, f, start, end)
    PROVE  ShadowInv'
<1>1. Merged(f) \in Routes /\ Assign(n, Merged(f), start, end) /\ Untaken(n, Merged(f))
  BY InstallAssigns, MergedKeepsEnds, MergedIsUntaken
<1> QED
  BY <1>1, AssignShadows, AssignAccounts DEF ShadowInv

LEMMA ShadowsInitially == GridInit => ShadowInv
BY NetAssumption DEF GridInit, ShadowInv, WiresCastShadows, Accounted

\* The other variables of the grid change nothing here.
LEMMA ShadowsUnmoved ==
    ASSUME UNCHANGED gridVars, ShadowInv
    PROVE  ShadowInv'
BY DEF gridVars, ShadowInv, WiresCastShadows, Accounted, SharesMetal, Touches

LEMMA GridShadowInv == GridSpec => [](GridTypeOK /\ ShadowInv)
<1>1. GridTypeOK /\ ShadowInv /\ [GridNext]_gridVars => ShadowInv'
  <2> SUFFICES ASSUME GridTypeOK, ShadowInv, [GridNext]_gridVars
               PROVE  ShadowInv'
    OBVIOUS
  <2>1. CASE GridNext
    BY <2>1, InstallPathShadows DEF GridNext
  <2>2. CASE UNCHANGED gridVars
    BY <2>2, ShadowsUnmoved
  <2> QED
    BY <2>1, <2>2
<1> QED
  BY <1>1, ShadowsInitially, GridTyping, PTL DEF GridSpec

\* Whatever shares metal with an installed wire carries its net or is blocked,
\* for any clients that install any paths in any order, extended ones among
\* them, whose last two edges are merged into one that nobody looked at.
THEOREM GridShadows == GridSpec => []WiresCastShadows
<1>1. ShadowInv => WiresCastShadows
  BY DEF ShadowInv
<1> QED
  BY <1>1, GridShadowInv, PTL

LEMMA ShadowsFlagShorts ==
    ASSUME GridTypeOK, WiresCastShadows
    PROVE  ShortsAreFlagged
<1> SUFFICES ASSUME NEW p \in paths, NEW q \in paths, p.net # q.net,
                    NEW e \in EdgesOf(p.route), NEW f \in EdgesOf(q.route),
                    SharesMetal(e, f)
             PROVE  edgeBlocked[e] /\ edgeBlocked[f]
  BY DEF ShortsAreFlagged
<1>1. e \in Edges /\ f \in Edges
  BY EdgesOfRoute DEF GridTypeOK
<1>2. SharesMetal(f, e) /\ SharesMetal(e, e) /\ SharesMetal(f, f)
  BY <1>1, TouchesIsSymmetric DEF SharesMetal
<1>3. edgeBlocked[f] \/ (edgeNet[f] = p.net /\ edgeNet[f] = q.net)
  BY <1>1, <1>2 DEF WiresCastShadows
<1>4. edgeBlocked[e] \/ (edgeNet[e] = p.net /\ edgeNet[e] = q.net)
  BY <1>1, <1>2 DEF WiresCastShadows
<1> QED
  BY <1>3, <1>4

\* Two nets never share metal on an edge that a later search could be offered.
THEOREM GridShortsFlagged == GridSpec => []ShortsAreFlagged
<1>1. GridTypeOK /\ WiresCastShadows => ShortsAreFlagged
  BY ShadowsFlagShorts
<1> QED
  BY <1>1, GridTyping, GridShadows, PTL

LEMMA AssignHandsNothingOver ==
    ASSUME GridTypeOK, NEW n \in Nets, NEW r \in Routes, Untaken(n, r), NEW start, NEW end,
           Assign(n, r, start, end),
           NEW e \in Edges, edgeNet[e] \in Nets, ~edgeBlocked[e], edgeNet'[e] # edgeNet[e]
    PROVE  edgeBlocked'[e] /\ edgeNet'[e] = NoNet
<1> DEFINE wires == EdgesOf(r)
           open == {f \in Edges \ wires : ~edgeBlocked[f] /\ \E g \in wires : Touches(g, f)}
           taken == {f \in open : edgeNet[f] \notin {NoNet, n}}
<1>1. /\ edgeNet' = [f \in Edges |-> IF f \in wires THEN n
                                     ELSE IF f \in taken THEN NoNet
                                     ELSE IF f \in open THEN n ELSE edgeNet[f]]
      /\ edgeBlocked' = [f \in Edges |-> edgeBlocked[f] \/ f \in taken]
  BY DEF Assign, MarkEdgesAsUsed
<1>2. edgeNet[e] # NoNet
  BY NetAssumption
<1>3. CASE e \in wires
  <2>1. edgeNet[e] = n
    BY <1>2, <1>3 DEF Untaken
  <2> QED
    BY <1>1, <1>3, <2>1
<1>4. CASE e \notin wires
  <2>1. e \in taken
    BY <1>1, <1>2, <1>4
  <2> QED
    BY <1>1, <1>4, <2>1
<1> QED
  BY <1>3, <1>4

\* An edge that a net can be offered is kept by its net or taken out of use,
\* never given to another.
THEOREM GridNoSilentHandover == GridSpec => NoSilentHandover
<1> DEFINE Kept == \A e \in Edges :
                       edgeNet[e] \in Nets /\ ~edgeBlocked[e] /\ edgeNet'[e] # edgeNet[e]
                           => edgeBlocked'[e] /\ edgeNet'[e] = NoNet
<1>1. GridTypeOK /\ ShadowInv /\ [GridNext]_gridVars => [Kept]_gridVars
  <2> SUFFICES ASSUME GridTypeOK, ShadowInv, GridNext PROVE Kept
    OBVIOUS
  <2>1. PICK n \in Nets, f \in FoundPaths, start \in Accesses, end \in Accesses :
          InstallPath(n, f, start, end)
    BY DEF GridNext
  <2>2. Merged(f) \in Routes /\ Assign(n, Merged(f), start, end) /\ Untaken(n, Merged(f))
    BY <2>1, InstallAssigns, MergedKeepsEnds, MergedIsUntaken
  <2> QED
    BY <2>2, AssignHandsNothingOver
<1> QED
  BY <1>1, GridShadowInv, PTL DEF GridSpec, NoSilentHandover

(***************************************************************************)
(* Part 2: RouteOrders, whatever order the threads take their steps in, and*)
(* its serial runs (Jobs = 1).                                             *)
(***************************************************************************)

-----------------------------------------------------------------------------
\* What the searches return.

LEMMA CheapestOfRoutes ==
    ASSUME NEW S \in SUBSET Routes
    PROVE  Cheapest(S) \subseteq S
BY DEF Cheapest

LEMMA RoutesBetweenAreFree ==
    ASSUME NEW n, NEW begin \in Vertices, NEW end, NEW r \in RoutesBetween(n, begin, end)
    PROVE  /\ r \in Routes /\ r[1] = begin /\ r[Len(r)] = end /\ VerticesUsable(r, n)
           /\ \A e \in EdgesOf(r) : EdgeUsable(e, n) /\ EdgeAvailable(e, n)
<1> DEFINE S == {s \in RoutesFrom[begin] :
                    /\ s[Len(s)] = end
                    /\ VerticesUsable(s, n)
                    /\ \A e \in EdgesOf(s) : EdgeUsable(e, n)}
<1>1. RoutesBetween(n, begin, end) = Cheapest(S)
  BY DEF RoutesBetween
<1>2. S \subseteq Routes
  BY DEF RoutesFrom
<1>3. r \in S
  BY <1>1, <1>2, CheapestOfRoutes
<1> QED
  BY <1>2, <1>3 DEF EdgeUsable, RoutesFrom

LEMMA ShortestToNetIsFree ==
    ASSUME NEW n, NEW begin \in Vertices, NEW r \in ShortestToNet(n, begin)
    PROVE  /\ r \in Routes /\ Len(r) < MaxCorners
           /\ r[1] = begin /\ IsTarget(r[Len(r)], n) /\ VerticesUsable(r, n)
           /\ \A e \in EdgesOf(r) : EdgeAvailable(e, n)
<1> DEFINE S == {s \in RoutesFrom[begin] :
                    /\ Len(s) < MaxCorners
                    /\ IsTarget(s[Len(s)], n)
                    /\ VerticesUsable(s, n)
                    /\ \A e \in EdgesOf(s) : EdgeUsableToNet(e, n)}
<1>1. r \in Cheapest(S)
  BY DEF ShortestToNet
<1>2. S \subseteq Routes
  BY DEF RoutesFrom
<1>3. r \in S
  BY <1>1, <1>2, CheapestOfRoutes
<1> QED
  BY <1>2, <1>3 DEF EdgeUsableToNet, RoutesFrom
-----------------------------------------------------------------------------
\* Type correctness.  Nothing is searched for before the second node is
\* reached, so an order at work is past its first.

PastFirst == \A n \in Nets : Running(n) => node[n] >= 2


SearchSet == UNION {[1..k -> Vertices] : k \in 1..2}

LEMMA NodesAreSequences ==
    ASSUME nodes \in Problems, NEW n \in Nets
    PROVE  /\ nodes[n] \in Seq((SUBSET Vertices) \ {{}})
           /\ Len(nodes[n]) \in Nat
           /\ \A i \in 1..Len(nodes[n]) : nodes[n][i] \subseteq Vertices
<1>1. nodes[n] \in Seq((SUBSET Vertices) \ {{}})
  BY OrderAssumption
<1> QED
  BY <1>1

LEMMA SearchesTyped ==
    ASSUME nodes \in Problems, NEW n \in Nets, NEW i \in Nat, i >= 2, NEW toNet \in BOOLEAN
    PROVE  Searches(n, i, toNet) \in SUBSET SearchSet
<1> SUFFICES ASSUME NEW s \in Searches(n, i, toNet) PROVE s \in SearchSet
  OBVIOUS
<1>1. i \in 1..Len(nodes[n])
  BY DEF Searches
<1>2. i - 1 \in 1..Len(nodes[n])
  BY <1>1, NodesAreSequences
<1>3. nodes[n][i] \subseteq Vertices /\ nodes[n][i - 1] \subseteq Vertices
  BY <1>1, <1>2, NodesAreSequences
<1>4. CASE toNet
  <2>1. PICK b \in nodes[n][i] : s = <<b>>
    BY <1>1, <1>4 DEF Searches
  <2>2. s \in [1..1 -> Vertices]
    BY <1>3, <2>1
  <2> QED
    BY <2>2 DEF SearchSet
<1>5. CASE ~toNet
  <2>1. PICK b \in nodes[n][i], e \in nodes[n][i - 1] : s = <<b, e>>
    BY <1>1, <1>5 DEF Searches
  <2>2. s \in [1..2 -> Vertices]
    BY <1>3, <2>1
  <2> QED
    BY <2>2 DEF SearchSet
<1> QED
  BY <1>4, <1>5

\* The part of TypeOK that a step of an order can disturb besides the grid.
OrderTypeOK ==
    /\ staged \subseteq Nets
    /\ node \in [Nets -> Nat]
    /\ linked \in [Nets -> BOOLEAN]
    /\ attempts \in [Nets -> 0..kNumRetries - 1]
    /\ todo \in [Nets -> SUBSET SearchSet]
    /\ options \in [Nets -> SUBSET [path : FoundPaths, access : SUBSET Layers]]
    /\ failed \in [Nets -> BOOLEAN]

TypeInv == GridTypeOK /\ nodes \in Problems /\ OrderTypeOK /\ PastFirst

LEMMA TypeParts == TypeInv => GridTypeOK /\ nodes \in Problems /\ OrderTypeOK
BY DEF TypeInv

\* A step of an order goes on with its work or touches none of this.
Idle == UNCHANGED <<gridVars, nodes, staged, orderVars>>

LEMMA NextWorks ==
    ASSUME [Next]_vars
    PROVE  (\E n \in Nets : Work(n)) \/ Idle
BY DEF Next, Step, Abort, AllEnded, vars, Idle

LEMMA GoToTyping ==
    ASSUME OrderTypeOK, nodes \in Problems, failed' \in [Nets -> BOOLEAN],
           NEW n \in Nets, NEW i \in Nat, i >= 2, NEW toNet \in BOOLEAN,
           GoTo(n, i, toNet)
    PROVE  OrderTypeOK'
<1>1. staged' \subseteq Nets
  BY DEF GoTo, OrderTypeOK
<1>2. node' \in [Nets -> Nat] /\ linked' \in [Nets -> BOOLEAN]
  BY DEF GoTo, OrderTypeOK
<1>3. attempts' \in [Nets -> 0..kNumRetries - 1]
  BY ManagerAssumption DEF GoTo, OrderTypeOK
<1>4. todo' \in [Nets -> SUBSET SearchSet]
  BY SearchesTyped DEF GoTo, OrderTypeOK
<1>5. options' \in [Nets -> SUBSET [path : FoundPaths, access : SUBSET Layers]]
  BY DEF GoTo, OrderTypeOK
<1>6. SearchSet' = SearchSet
  BY DEF SearchSet
<1> QED
  BY <1>1, <1>2, <1>3, <1>4, <1>5, <1>6 DEF OrderTypeOK

LEMMA GoToPastFirst ==
    ASSUME OrderTypeOK, PastFirst, nodes' = nodes,
           NEW n \in Nets, NEW i \in Nat, i >= 2, NEW toNet, GoTo(n, i, toNet)
    PROVE  PastFirst'
<1> SUFFICES ASSUME NEW m \in Nets, Running(m)' PROVE node'[m] >= 2
  BY DEF PastFirst
<1>1. node' = [node EXCEPT ![n] = i]
  BY DEF GoTo
<1>2. CASE m = n
  BY <1>1, <1>2 DEF OrderTypeOK
<1>3. CASE m # n
  <2>1. node'[m] = node[m] /\ Running(m)
    BY <1>1, <1>3 DEF OrderTypeOK, Running
  <2> QED
    BY <2>1 DEF PastFirst
<1> QED
  BY <1>2, <1>3

LEMMA UnmovedPastFirst ==
    ASSUME PastFirst, nodes' = nodes, node' = node
    PROVE  PastFirst'
BY DEF PastFirst, Running

LEMMA SearchBegins ==
    ASSUME OrderTypeOK, NEW n \in Nets, NEW job \in todo[n]
    PROVE  job[1] \in Vertices
BY DEF OrderTypeOK, SearchSet

LEMMA GridUnmoved ==
    ASSUME UNCHANGED gridVars
    PROVE  /\ GridTypeOK => GridTypeOK'
           /\ ShadowInv => ShadowInv'
BY ShadowsUnmoved DEF gridVars, GridTypeOK

LEMMA StartOrderTyping ==
    ASSUME TypeInv, NEW n \in Nets, StartOrder(n)
    PROVE  TypeInv'
<1>1. GridTypeOK' /\ OrderTypeOK /\ nodes \in Problems /\ PastFirst
  BY GridUnmoved, TypeParts DEF StartOrder, TypeInv
<1>2. GoTo(n, 2, FALSE) /\ nodes' = nodes /\ failed' \in [Nets -> BOOLEAN]
  BY <1>1 DEF StartOrder, OrderTypeOK
<1>3. 2 \in Nat /\ 2 >= 2 /\ FALSE \in BOOLEAN
  OBVIOUS
<1>4. OrderTypeOK'
  BY <1>1, <1>2, <1>3, GoToTyping
<1>5. PastFirst'
  BY <1>1, <1>2, <1>3, GoToPastFirst
<1> QED
  BY <1>1, <1>2, <1>4, <1>5 DEF TypeInv, OrderTypeOK, SearchSet

LEMMA RefuseOrderTyping ==
    ASSUME TypeInv, NEW n \in Nets, RefuseOrder(n)
    PROVE  TypeInv'
<1>1. GridTypeOK' /\ nodes' = nodes
  BY GridUnmoved, TypeParts DEF RefuseOrder, TypeInv
<1>2. OrderTypeOK /\ Len(nodes[n]) \in Nat
  BY NodesAreSequences, TypeParts DEF TypeInv
<1>3. OrderTypeOK'
  BY <1>2 DEF RefuseOrder, OrderTypeOK, SearchSet
<1>4. PastFirst'
  <2> SUFFICES ASSUME NEW m \in Nets, Running(m)' PROVE node'[m] >= 2
    BY DEF PastFirst
  <2>1. CASE m = n
    BY <1>1, <1>2, <2>1 DEF RefuseOrder, Running, OrderTypeOK
  <2>2. CASE m # n
    <3>1. node'[m] = node[m] /\ Running(m)
      BY <1>1, <1>2, <2>2 DEF RefuseOrder, Running, OrderTypeOK
    <3> QED
      BY <3>1 DEF TypeInv, PastFirst
  <2> QED
    BY <2>1, <2>2
<1> QED
  BY <1>1, <1>3, <1>4, TypeParts DEF TypeInv, OrderTypeOK, SearchSet

LEMMA ShortestIsRoute ==
    ASSUME OrderTypeOK, NEW n \in Nets, NEW job \in todo[n], NEW r \in Shortest(n, job)
    PROVE  /\ r \in Routes /\ r[1] = job[1] /\ VerticesUsable(r, n)
           /\ \A e \in EdgesOf(r) : EdgeAvailable(e, n)
           /\ linked[n] => Len(r) < MaxCorners /\ IsTarget(r[Len(r)], n)
           /\ ~linked[n] => r[Len(r)] = job[2] /\ \A e \in EdgesOf(r) : EdgeUsable(e, n)
BY SearchBegins, RoutesBetweenAreFree, ShortestToNetIsFree DEF Shortest

\* What an option is made of: the path that was found, or that path and the
\* way to a via of its net beside its end.
ExtendsTo(r, n, f) ==
    \E v \in NearbyVias(r, n) : InLine(r[Len(r)], v) /\ f = Append(r, v)

LEMMA NewOptions ==
    ASSUME OrderTypeOK, NEW n \in Nets, FindRoute(n), NEW o \in options'[n], o \notin options[n]
    PROVE  \E job \in todo[n] : \E r \in Shortest(n, job) : o \in OptionsOf(r, n, linked[n])
BY DEF FindRoute, OrderTypeOK

LEMMA OptionShape ==
    ASSUME OrderTypeOK, NEW n \in Nets, NEW job \in todo[n], NEW r \in Shortest(n, job),
           NEW o \in OptionsOf(r, n, linked[n])
    PROVE  /\ o \in [path : FoundPaths, access : SUBSET Layers]
           /\ o.path = r \/ (linked[n] /\ ExtendsTo(r, n, o.path))
           /\ ~linked[n] => o.path = r /\ o.access = {PortLayer}
           /\ linked[n] => o.access = NetLayersAt(o.path[Len(o.path)], n)
<1>1. /\ r \in Routes
      /\ linked[n] => Len(r) < MaxCorners
  BY ShortestIsRoute
<1>2. CASE ~linked[n]
  <2>1. o = [path |-> r, access |-> {PortLayer}]
    BY <1>2 DEF OptionsOf
  <2>2. r \in FoundPaths
    BY <1>1, RouteIsMerged DEF FoundPaths
  <2> QED
    BY <1>2, <2>1, <2>2, PortAssumption
<1>3. CASE linked[n]
  <2>1. PICK q \in Extended(r, n) : o = [path |-> q, access |-> NetLayersAt(q[Len(q)], n)]
    BY <1>3 DEF OptionsOf
  <2>2. q = r \/ ExtendsTo(r, n, q)
    BY <2>1 DEF Extended, ExtendsTo
  <2>3. q \in FoundPaths
    <3>1. CASE q = r
      BY <1>1, <3>1, RouteIsMerged DEF FoundPaths
    <3>2. CASE ExtendsTo(r, n, q)
      BY <1>1, <1>3, <3>2, ExtensionIsFound DEF ExtendsTo, NearbyVias
    <3> QED
      BY <2>2, <3>1, <3>2
  <2>4. NetLayersAt(q[Len(q)], n) \in SUBSET Layers
    BY DEF NetLayersAt
  <2> QED
    BY <1>3, <2>1, <2>2, <2>3, <2>4
<1> QED
  BY <1>2, <1>3

LEMMA FindRouteTyping ==
    ASSUME TypeInv, NEW n \in Nets, FindRoute(n)
    PROVE  TypeInv'
<1>1. GridTypeOK' /\ nodes' = nodes /\ OrderTypeOK
  BY GridUnmoved, TypeParts DEF FindRoute, TypeInv
<1>2. \A o \in options'[n] : o \in [path : FoundPaths, access : SUBSET Layers]
  <2> SUFFICES ASSUME NEW o \in options'[n]
               PROVE  o \in [path : FoundPaths, access : SUBSET Layers]
    OBVIOUS
  <2>1. CASE o \in options[n]
    BY <1>1, <2>1 DEF OrderTypeOK
  <2>2. CASE o \notin options[n]
    BY <1>1, <2>2, NewOptions, OptionShape
  <2> QED
    BY <2>1, <2>2
<1>3. \E S : options' = [options EXCEPT ![n] = S]
  <2>1. options = [options EXCEPT ![n] = options[n]]
    BY <1>1 DEF OrderTypeOK
  <2> QED
    BY <2>1 DEF FindRoute
<1>4. options' \in [Nets -> SUBSET [path : FoundPaths, access : SUBSET Layers]]
  <2>1. PICK S : options' = [options EXCEPT ![n] = S]
    BY <1>3
  <2>2. S = options'[n]
    BY <1>1, <2>1 DEF OrderTypeOK
  <2>3. S \in SUBSET [path : FoundPaths, access : SUBSET Layers]
    BY <1>2, <2>2
  <2> QED
    BY <1>1, <2>1, <2>3 DEF OrderTypeOK
<1>5. todo' \in [Nets -> SUBSET SearchSet]
  BY <1>1 DEF OrderTypeOK, FindRoute
<1>6. PastFirst'
  BY <1>1, UnmovedPastFirst DEF FindRoute, TypeInv
<1> QED
  BY <1>1, <1>4, <1>5, <1>6, TypeParts
  DEF TypeInv, OrderTypeOK, SearchSet, FindRoute

LEMMA InstallNextTyping ==
    ASSUME TypeInv, NEW n \in Nets, InstallNext(n)
    PROVE  TypeInv'
<1>1. OrderTypeOK /\ GridTypeOK /\ nodes \in Problems /\ nodes' = nodes
  BY TypeParts DEF InstallNext, TypeInv
<1>2. PICK o \in options[n] : InstallPath(n, o.path, {PortLayer}, o.access)
  BY DEF InstallNext, NextOptions
<1>3. o.path \in FoundPaths
  BY <1>1 DEF OrderTypeOK
<1>4. GridTypeOK'
  BY <1>1, <1>2, <1>3, InstallPathTyping
<1>5. node[n] + 1 \in Nat /\ node[n] + 1 >= 2
  BY <1>1 DEF InstallNext, TypeInv, PastFirst, OrderTypeOK
<1>6. OrderTypeOK'
  BY <1>1, <1>5, GoToTyping DEF InstallNext, OrderTypeOK
<1>7. PastFirst'
  BY <1>1, <1>5, GoToPastFirst DEF InstallNext, TypeInv
<1> QED
  BY <1>1, <1>4, <1>6, <1>7 DEF TypeInv, OrderTypeOK, SearchSet

LEMMA DropUnavailableTyping ==
    ASSUME TypeInv, NEW n \in Nets, DropUnavailable(n)
    PROVE  TypeInv'
<1>1. GridTypeOK' /\ OrderTypeOK /\ nodes' = nodes
  BY GridUnmoved, TypeParts DEF DropUnavailable, TypeInv
<1>2. options' \in [Nets -> SUBSET [path : FoundPaths, access : SUBSET Layers]]
  BY <1>1 DEF DropUnavailable, OrderTypeOK
<1>3. PastFirst'
  BY <1>1, UnmovedPastFirst DEF DropUnavailable, TypeInv
<1> QED
  BY <1>1, <1>2, <1>3, TypeParts
  DEF TypeInv, OrderTypeOK, SearchSet, DropUnavailable

LEMMA RetryNodeTyping ==
    ASSUME TypeInv, NEW n \in Nets, RetryNode(n)
    PROVE  TypeInv'
<1>1. GridTypeOK' /\ OrderTypeOK /\ nodes \in Problems /\ nodes' = nodes
  BY GridUnmoved, TypeParts DEF RetryNode, TypeInv
<1>2. attempts' \in [Nets -> 0..kNumRetries - 1]
  <2>1. attempts[n] + 1 \in 0..kNumRetries - 1
    BY <1>1, ManagerAssumption DEF RetryNode, OrderTypeOK
  <2> QED
    BY <1>1, <2>1 DEF RetryNode, OrderTypeOK
<1>3. todo' \in [Nets -> SUBSET SearchSet]
  <2>1. node[n] \in Nat /\ node[n] >= 2 /\ linked[n] \in BOOLEAN
    BY <1>1 DEF RetryNode, TypeInv, PastFirst, OrderTypeOK
  <2>2. Searches(n, node[n], linked[n]) \in SUBSET SearchSet
    BY <1>1, <2>1, SearchesTyped
  <2> QED
    BY <1>1, <2>2 DEF RetryNode, OrderTypeOK
<1>4. PastFirst'
  BY <1>1, UnmovedPastFirst DEF RetryNode, TypeInv
<1> QED
  BY <1>1, <1>2, <1>3, <1>4, TypeParts
  DEF TypeInv, OrderTypeOK, SearchSet, RetryNode

LEMMA GiveUpNodeTyping ==
    ASSUME TypeInv, NEW n \in Nets, GiveUpNode(n)
    PROVE  TypeInv'
<1>1. GridTypeOK' /\ OrderTypeOK /\ nodes \in Problems /\ nodes' = nodes
  BY GridUnmoved, TypeParts DEF GiveUpNode, TypeInv
<1>2. node[n] + 1 \in Nat /\ node[n] + 1 >= 2 /\ linked[n] \in BOOLEAN
  BY <1>1 DEF GiveUpNode, TypeInv, PastFirst, OrderTypeOK
<1>3. OrderTypeOK'
  BY <1>1, <1>2, GoToTyping DEF GiveUpNode, OrderTypeOK
<1>4. PastFirst'
  BY <1>1, <1>2, GoToPastFirst DEF GiveUpNode, TypeInv
<1> QED
  BY <1>1, <1>3, <1>4 DEF TypeInv, OrderTypeOK, SearchSet

LEMMA TypeInitially == Init => TypeInv
<1> SUFFICES ASSUME Init PROVE TypeInv
  OBVIOUS
<1>1. GridTypeOK
  BY GridTypeInitially DEF Init
<1>2. OrderTypeOK /\ nodes \in Problems
  BY ManagerAssumption DEF Init, OrderTypeOK
<1>3. PastFirst
  BY DEF Init, PastFirst, Running
<1> QED
  BY <1>1, <1>2, <1>3, TypeParts DEF TypeInv

LEMMA WorkTyping ==
    ASSUME TypeInv, NEW n \in Nets, Work(n)
    PROVE  TypeInv'
BY StartOrderTyping, RefuseOrderTyping, FindRouteTyping, InstallNextTyping,
   DropUnavailableTyping, RetryNodeTyping, GiveUpNodeTyping
DEF Work

LEMMA TypePreserved ==
    ASSUME TypeInv, [Next]_vars
    PROVE  TypeInv'
<1>1. ASSUME NEW n \in Nets, Work(n) PROVE TypeInv'
  BY <1>1, WorkTyping
<1>2. CASE Idle
  <2>1. UNCHANGED gridVars /\ UNCHANGED <<nodes, staged, orderVars>>
    BY <1>2 DEF Idle
  <2>2. GridTypeOK'
    BY <2>1, GridUnmoved, TypeParts DEF TypeInv
  <2> QED
    BY <2>1, <2>2, TypeParts, UnmovedPastFirst
    DEF orderVars, TypeInv, OrderTypeOK, SearchSet
<1> QED
  BY <1>1, <1>2, NextWorks

\* Whatever the orders and however many threads run them, every variable of
\* RunOrder and of the grid keeps its type.
THEOREM OrdersTyping == Spec => []TypeOK
<1> DEFINE Typed == TypeInv /\ aborted \in BOOLEAN
<1>1. Init => Typed
  BY TypeInitially DEF Init
<1>2. Typed /\ [Next]_vars => Typed'
  BY TypePreserved DEF Next, Step, Abort, AllEnded, vars
<1>3. Typed => TypeOK
  BY TypeParts DEF TypeOK, OrderTypeOK, SearchSet
<1> HIDE DEF Typed
<1> QED
  BY <1>1, <1>2, <1>3, PTL DEF Spec
-----------------------------------------------------------------------------
\* The grid under the manager.  A step of an order installs a path or leaves
\* the grid alone, so what is proved of any client of the grid holds here.

LEMMA WorkInstallsOrNot ==
    ASSUME TypeInv, NEW n \in Nets, Work(n)
    PROVE  \/ UNCHANGED gridVars
           \/ \E f \in FoundPaths, start, end \in SUBSET Layers : InstallPath(n, f, start, end)
<1>1. CASE InstallNext(n)
  <2>1. PICK o \in options[n] : InstallPath(n, o.path, {PortLayer}, o.access)
    BY <1>1 DEF InstallNext, NextOptions
  <2>2. o.path \in FoundPaths /\ o.access \in SUBSET Layers
    BY TypeParts DEF TypeInv, OrderTypeOK
  <2>3. {PortLayer} \in SUBSET Layers
    BY PortAssumption
  <2> QED
    BY <2>1, <2>2, <2>3
<1> QED
  BY <1>1 DEF Work, StartOrder, RefuseOrder, FindRoute, DropUnavailable, RetryNode, GiveUpNode

\* The wire or the turn of a path is a use of every vertex that it comes to.
WiresUse ==
    \A p \in paths : \A e \in EdgesOf(p.route), v \in Vertices :
        Spans(e, v) => p.net \in UsingNets(v)

WireInv == ShadowInv /\ WiresUse

LEMMA SpannedIsMarked ==
    ASSUME GridTypeOK, NEW n \in Nets, NEW r \in Routes, NEW start, NEW end,
           Assign(n, r, start, end), NEW v \in Vertices
    PROVE  /\ UsingNets(v) \subseteq UsingNets(v)'
           /\ (\E e \in EdgesOf(r) : Spans(e, v)) => n \in UsingNets(v)'
<1> DEFINE on == LayersInPath(r, start, end)
           entry == PickTarget({on[1]}, start)
           exit == PickTarget({on[Len(r) - 1]}, end)
           layersAt(w) == {on[i] : i \in {j \in EdgeIndices(r) : Spans(Edge(r, j), w)}}
                          \cup {l \in {entry} : w = r[1]}
                          \cup {l \in {exit} : w = r[Len(r)]}
<1>1. using'[v] = using[v] \cup ({n} \X layersAt(v))
  BY DEF Assign, MarkVerticesAsUsed, AddUsingNet
<1>2. UsingNets(v) \subseteq UsingNets(v)'
  BY <1>1 DEF UsingNets
<1>3. ASSUME NEW e \in EdgesOf(r), Spans(e, v) PROVE n \in UsingNets(v)'
  <2>1. PICK j \in EdgeIndices(r) : Spans(Edge(r, j), v)
    BY <1>3 DEF EdgesOf
  <2>2. on[j] \in layersAt(v)
    BY <2>1
  <2> HIDE DEF on, layersAt
  <2>3. <<n, on[j]>> \in using'[v]
    BY <1>1, <2>2
  <2>4. <<n, on[j]>>[1] = n
    OBVIOUS
  <2> QED
    BY <2>3, <2>4 DEF UsingNets
<1> QED
  BY <1>2, <1>3

LEMMA WiresPreserved ==
    ASSUME TypeInv, WireInv, [Next]_vars
    PROVE  WireInv'
<1>1. GridTypeOK
  BY TypeParts
<1>2. ASSUME UNCHANGED gridVars PROVE WireInv'
  <2>1. ShadowInv'
    BY <1>2, ShadowsUnmoved DEF WireInv
  <2>2. WiresUse'
    BY <1>2 DEF gridVars, WireInv, WiresUse, UsingNets, Spans
  <2> QED
    BY <2>1, <2>2 DEF WireInv
<1>3. ASSUME NEW n \in Nets, NEW f \in FoundPaths, NEW start, NEW end,
             InstallPath(n, f, start, end)
      PROVE  WireInv'
  <2> DEFINE r == Merged(f)
  <2>1. r \in Routes /\ Assign(n, r, start, end)
    BY <1>3, InstallAssigns, MergedKeepsEnds
  <2>2. ShadowInv'
    BY <1>1, <1>3, InstallPathShadows DEF WireInv
  <2> HIDE DEF r
  <2>3. paths' = paths \cup {[net |-> n, route |-> r]}
    BY <2>1 DEF Assign
  <2>4. SUFFICES ASSUME NEW p \in paths', NEW e \in EdgesOf(p.route), NEW v \in Vertices,
                        Spans(e, v)
                 PROVE  p.net \in UsingNets(v)'
    BY <2>2 DEF WireInv, WiresUse, Spans
  <2>5. CASE p \in paths
    BY <1>1, <2>1, <2>4, <2>5, SpannedIsMarked DEF WireInv, WiresUse
  <2>6. CASE p \notin paths
    BY <1>1, <2>1, <2>3, <2>4, <2>6, SpannedIsMarked
  <2> QED
    BY <2>5, <2>6
<1>4. ASSUME NEW n \in Nets, Work(n) PROVE WireInv'
  BY <1>2, <1>3, <1>4, WorkInstallsOrNot
<1>5. CASE Idle
  BY <1>2, <1>5 DEF Idle
<1> QED
  BY <1>4, <1>5, NextWorks

LEMMA WiresInitially == Init => TypeInv /\ WireInv
<1>1. GridInit => WiresUse
  BY DEF GridInit, WiresUse
<1> QED
  BY <1>1, TypeInitially, ShadowsInitially DEF Init, WireInv

LEMMA OrdersWires == Spec => [](TypeInv /\ WireInv)
<1>1. TypeInv /\ WireInv /\ [Next]_vars => (TypeInv /\ WireInv)'
  BY TypePreserved, WiresPreserved
<1> QED
  BY <1>1, WiresInitially, PTL DEF Spec

\* Whatever stale paths the threads install, two nets share metal only on
\* edges that are out of use.
THEOREM OrdersShortsFlagged == Spec => []ShortsAreFlagged
<1>1. TypeInv /\ WireInv => ShortsAreFlagged
  BY ShadowsFlagShorts, TypeParts DEF WireInv, ShadowInv
<1> QED
  BY <1>1, OrdersWires, PTL
-----------------------------------------------------------------------------
\* Serial runs.  With one thread the orders that have started are at an end,
\* all but one, so the grid a path was found in is the grid it is installed
\* in: what was clear of the wires of other nets then still is.

OneAtATime ==
    \A m, n \in Nets : node[n] # 0 /\ Turn[m] < Turn[n] => Ended(m)

IsClear(r, n) ==
    \A q \in paths : q.net # n =>
        \A e \in EdgesOf(r), f \in EdgesOf(q.route) : ~SharesMetal(e, f) /\ ~SharesMetal(f, e)

FoundIsClear ==
    \A n \in Nets : \A o \in options[n] : Running(n) /\ IsClear(Merged(o.path), n)

SerialInv == TypeInv /\ WireInv /\ OneAtATime /\ FoundIsClear /\ NoShorts

LEMMA EndedIsNotRunning ==
    ASSUME TypeInv, NEW n \in Nets, Ended(n)
    PROVE  node[n] # 0 /\ ~Running(n)
BY NodesAreSequences, TypeParts DEF TypeInv, Ended, Running

LEMMA RunningAlone ==
    ASSUME TypeInv, OneAtATime, NEW m \in Nets, NEW n \in Nets, Running(m), Running(n)
    PROVE  m = n
<1>1. Turn[m] \in Nat /\ Turn[n] \in Nat /\ (Turn[m] = Turn[n] => m = n)
  BY OrderAssumption
<1>2. node[m] # 0 /\ node[n] # 0
  BY DEF Running
<1>3. ~Ended(m) /\ ~Ended(n)
  BY EndedIsNotRunning
<1> QED
  BY <1>1, <1>2, <1>3 DEF OneAtATime

LEMMA WorkMovesOne ==
    ASSUME TypeInv, NEW n \in Nets, Work(n)
    PROVE  /\ nodes' = nodes
           /\ \A m \in Nets \ {n} : node'[m] = node[m] /\ options'[m] = options[m]
           /\ (node[n] = 0 /\ MayStart(n)) \/ Running(n)
BY TypeParts
DEF TypeInv, OrderTypeOK, Work, StartOrder, RefuseOrder, FindRoute, InstallNext,
    DropUnavailable, RetryNode, GiveUpNode, GoTo

LEMMA SerialTurns ==
    ASSUME Jobs = 1, NEW m \in Nets, NEW n \in Nets
    PROVE  Turn[m] \div Jobs < Turn[n] \div Jobs <=> Turn[m] < Turn[n]
<1>1. Turn[m] \in Nat /\ Turn[n] \in Nat
  BY OrderAssumption
<1> QED
  BY <1>1

LEMMA OneAtATimePreserved ==
    ASSUME Jobs = 1, TypeInv, OneAtATime, NEW n \in Nets, Work(n)
    PROVE  OneAtATime'
<1> SUFFICES ASSUME NEW m \in Nets, NEW k \in Nets, node'[k] # 0, Turn[m] < Turn[k]
             PROVE  Ended(m)'
  BY DEF OneAtATime
<1>1. m # k
  BY OrderAssumption
<1>2. CASE m = n
  <2>1. node[k] # 0
    BY <1>1, <1>2, WorkMovesOne
  <2>2. Ended(n)
    BY <1>2, <2>1 DEF OneAtATime
  <2> QED
    BY <2>2, EndedIsNotRunning, WorkMovesOne
<1>3. CASE m # n
  <2>1. Ended(m)
    <3>1. CASE k = n /\ node[n] = 0
      BY <3>1, WorkMovesOne, SerialTurns DEF MayStart, Running
    <3>2. CASE ~(k = n /\ node[n] = 0)
      BY <3>2, WorkMovesOne DEF OneAtATime
    <3> QED
      BY <3>1, <3>2
  <2> QED
    BY <1>3, <2>1, WorkMovesOne DEF Ended
<1> QED
  BY <1>2, <1>3

LEMMA ClearIsOfThePaths ==
    ASSUME UNCHANGED paths, NEW r, NEW n
    PROVE  IsClear(r, n)' <=> IsClear(r, n)
BY DEF IsClear, EdgesOf, EdgeIndices, Edge, EdgeBetween, Across, SharesMetal, Touches

\* Wires cast their shadow on all they touch, so a free edge is clear of them.
LEMMA FreeEdgesAreClear ==
    ASSUME TypeInv, WireInv, NEW n \in Nets, NEW e \in Edges, EdgeAvailable(e, n),
           NEW q \in paths, q.net # n, NEW f \in EdgesOf(q.route)
    PROVE  ~SharesMetal(f, e)
<1>1. GridTypeOK
  BY TypeParts
<1>2. f \in Edges /\ q.net \in Nets
  BY <1>1, EdgesOfRoute DEF GridTypeOK
<1> QED
  BY <1>2, NetAssumption DEF WireInv, ShadowInv, WiresCastShadows, EdgeAvailable

\* The edge to a via beside the end is not looked at; no other net has come to
\* either of its ends, and nothing passes between them.
LEMMA LastEdgeIsClear ==
    ASSUME TypeInv, WireInv, NEW n \in Nets, NEW r \in Routes, IsTarget(r[Len(r)], n),
           NEW v \in NearbyVias(r, n), InLine(r[Len(r)], v),
           NEW q \in paths, q.net # n, NEW f \in EdgesOf(q.route)
    PROVE  ~SharesMetal(f, EdgeBetween(r[Len(r)], v))
<1> DEFINE u == r[Len(r)]
<1>1. /\ u \in Vertices /\ v \in Vertices /\ AreNeighbours(u, v)
      /\ InUseBySingleNet(u, n) /\ InUseBySingleNet(v, n)
  BY RouteEndsAreVertices DEF NearbyVias, IsTarget
<1>2. PICK d \in Layers : OnTrack(u, v, d)
  BY DEF InLine
<1> HIDE DEF u
<1>3. f \in Edges
  BY TypeParts, EdgesOfRoute DEF GridTypeOK
<1>4. ASSUME SharesMetal(f, EdgeBetween(u, v)) PROVE FALSE
  <2>1. Spans(f, u) \/ Spans(f, v)
    BY <1>1, <1>2, <1>3, <1>4, BetweenNeighbours
  <2>2. q.net \in UsingNets(u) \/ q.net \in UsingNets(v)
    BY <1>1, <2>1 DEF WireInv, WiresUse
  <2> QED
    BY <1>1, <2>2 DEF InUseBySingleNet
<1> QED
  BY <1>4 DEF u

LEMMA OptionIsClear ==
    ASSUME TypeInv, WireInv, NEW n \in Nets, NEW job \in todo[n], NEW r \in Shortest(n, job),
           NEW o \in OptionsOf(r, n, linked[n])
    PROVE  IsClear(Merged(o.path), n)
<1> SUFFICES ASSUME NEW q \in paths, q.net # n,
                    NEW e \in EdgesOf(Merged(o.path)), NEW f \in EdgesOf(q.route)
             PROVE  ~SharesMetal(e, f) /\ ~SharesMetal(f, e)
  BY DEF IsClear
<1>1. OrderTypeOK
  BY TypeParts
<1>2. /\ r \in Routes /\ \A g \in EdgesOf(r) : EdgeAvailable(g, n)
      /\ linked[n] => IsTarget(r[Len(r)], n)
  BY <1>1, ShortestIsRoute
<1>3. o.path \in FoundPaths /\ (o.path = r \/ (linked[n] /\ ExtendsTo(r, n, o.path)))
  BY <1>1, OptionShape
<1>4. e \in Edges /\ f \in Edges
  BY <1>3, MergedKeepsEnds, EdgesOfRoute, TypeParts DEF GridTypeOK
<1>5. \A g \in EdgesOf(o.path) : ~SharesMetal(f, g)
  <2>1. \A g \in EdgesOf(r) : ~SharesMetal(f, g)
    BY <1>2, EdgesOfRoute, FreeEdgesAreClear
  <2>2. CASE ExtendsTo(r, n, o.path) /\ linked[n]
    <3>1. PICK v \in NearbyVias(r, n) : InLine(r[Len(r)], v) /\ o.path = Append(r, v)
      BY <2>2 DEF ExtendsTo
    <3>2. EdgesOf(o.path) = EdgesOf(r) \cup {EdgeBetween(r[Len(r)], v)}
      BY <1>2, <3>1, AppendShape DEF NearbyVias
    <3>3. ~SharesMetal(f, EdgeBetween(r[Len(r)], v))
      BY <1>2, <2>2, <3>1, LastEdgeIsClear
    <3> QED
      BY <2>1, <3>2, <3>3
  <2> QED
    BY <1>3, <2>1, <2>2
<1>6. ~SharesMetal(f, e)
  BY <1>3, <1>4, <1>5, MergedTouches
<1>7. ~SharesMetal(e, f)
  BY <1>4, <1>6, TouchesIsSymmetric DEF SharesMetal
<1> QED
  BY <1>6, <1>7

\* What the other orders have found stays clear: they have found nothing when
\* the grid changes.
LEMMA FoundByOthersIsClear ==
    ASSUME SerialInv, NEW n \in Nets, Work(n), NEW m \in Nets \ {n}, NEW o \in options'[m]
    PROVE  Running(m)' /\ IsClear(Merged(o.path), m)'
<1>1. o \in options[m] /\ node'[m] = node[m] /\ nodes' = nodes
  BY WorkMovesOne DEF SerialInv
<1>2. Running(m) /\ IsClear(Merged(o.path), m)
  BY <1>1 DEF SerialInv, FoundIsClear
<1>3. Running(m)'
  BY <1>1, <1>2 DEF Running
<1>4. UNCHANGED paths
  <2>1. ~Running(n)
    BY <1>2, RunningAlone DEF SerialInv
  <2> QED
    BY <2>1 DEF Work, StartOrder, RefuseOrder, FindRoute, InstallNext, DropUnavailable,
                RetryNode, GiveUpNode, gridVars
<1>5. IsClear(Merged(o.path), m)' <=> IsClear(Merged(o.path), m)
  BY <1>4, ClearIsOfThePaths DEF Merged, EndsStraight, Edge, EdgeBetween, Across
<1> QED
  BY <1>2, <1>3, <1>5

LEMMA FoundByWorkIsClear ==
    ASSUME SerialInv, NEW n \in Nets, Work(n), NEW o \in options'[n]
    PROVE  Running(n)' /\ IsClear(Merged(o.path), n)'
<1>1. OrderTypeOK
  BY TypeParts DEF SerialInv
<1>2. CASE StartOrder(n) \/ InstallNext(n) \/ GiveUpNode(n)
  BY <1>1, <1>2 DEF StartOrder, InstallNext, GiveUpNode, GoTo, OrderTypeOK
<1>3. CASE RefuseOrder(n)
  BY <1>3 DEF RefuseOrder, Running, SerialInv, FoundIsClear
<1>4. CASE FindRoute(n) \/ DropUnavailable(n) \/ RetryNode(n)
  <2>1. UNCHANGED paths /\ Running(n)'
    BY <1>4 DEF FindRoute, DropUnavailable, RetryNode, Running, gridVars
  <2>2. IsClear(Merged(o.path), n)
    <3>1. CASE o \in options[n]
      BY <3>1 DEF SerialInv, FoundIsClear
    <3>2. CASE o \notin options[n]
      <4>1. FindRoute(n)
        BY <1>1, <1>4, <3>2 DEF DropUnavailable, RetryNode, OrderTypeOK
      <4> QED
        BY <1>1, <3>2, <4>1, NewOptions, OptionIsClear DEF SerialInv
    <3> QED
      BY <3>1, <3>2
  <2>3. IsClear(Merged(o.path), n)' <=> IsClear(Merged(o.path), n)
    BY <2>1, ClearIsOfThePaths DEF Merged, EndsStraight, Edge, EdgeBetween, Across
  <2> QED
    BY <2>1, <2>2, <2>3
<1> QED
  BY <1>2, <1>3, <1>4 DEF Work

LEMMA FoundIsClearPreserved ==
    ASSUME SerialInv, NEW n \in Nets, Work(n)
    PROVE  FoundIsClear'
<1> SUFFICES ASSUME NEW m \in Nets, NEW o \in options'[m]
             PROVE  Running(m)' /\ IsClear(Merged(o.path), m)'
  BY DEF FoundIsClear
<1> QED
  BY FoundByOthersIsClear, FoundByWorkIsClear

LEMMA NoShortsPreserved ==
    ASSUME SerialInv, NEW n \in Nets, Work(n)
    PROVE  NoShorts'
<1>1. CASE UNCHANGED paths
  BY <1>1 DEF SerialInv, NoShorts, SharesMetal, Touches
<1>2. CASE ~UNCHANGED paths
  <2>1. InstallNext(n)
    BY <1>2 DEF Work, StartOrder, RefuseOrder, FindRoute, DropUnavailable, RetryNode,
                GiveUpNode, gridVars
  <2>2. PICK o \in options[n] : InstallPath(n, o.path, {PortLayer}, o.access)
    BY <2>1 DEF InstallNext, NextOptions
  <2> DEFINE r == Merged(o.path)
  <2>3. IsClear(r, n)
    BY DEF SerialInv, FoundIsClear
  <2>4. paths' = paths \cup {[net |-> n, route |-> r]}
    BY <2>2, InstallAssigns DEF Assign
  <2> HIDE DEF r
  <2>5. SUFFICES ASSUME NEW p \in paths', NEW q \in paths', p.net # q.net,
                        NEW e \in EdgesOf(p.route), NEW f \in EdgesOf(q.route)
                 PROVE  ~SharesMetal(e, f)
    BY DEF NoShorts, SharesMetal, Touches
  <2>6. CASE p \in paths /\ q \in paths
    BY <2>5, <2>6 DEF SerialInv, NoShorts
  <2>7. CASE p \notin paths
    <3>1. p.net = n /\ p.route = r /\ q \in paths
      BY <2>4, <2>5, <2>7
    <3> QED
      BY <2>3, <2>5, <3>1 DEF IsClear
  <2>8. CASE q \notin paths
    <3>1. q.net = n /\ q.route = r /\ p \in paths
      BY <2>4, <2>5, <2>8
    <3> QED
      BY <2>3, <2>5, <3>1 DEF IsClear
  <2> QED
    BY <2>6, <2>7, <2>8
<1> QED
  BY <1>1, <1>2

LEMMA SerialInitially == Init => SerialInv
<1> SUFFICES ASSUME Init PROVE SerialInv
  OBVIOUS
<1>1. TypeInv /\ WireInv
  BY WiresInitially
<1>2. OneAtATime /\ FoundIsClear /\ NoShorts
  BY DEF Init, GridInit, OneAtATime, FoundIsClear, NoShorts
<1> QED
  BY <1>1, <1>2 DEF SerialInv

LEMMA SerialPreserved ==
    ASSUME Jobs = 1, SerialInv, [Next]_vars
    PROVE  SerialInv'
<1>1. TypeInv' /\ WireInv'
  BY TypePreserved, WiresPreserved DEF SerialInv
<1>2. ASSUME NEW n \in Nets, Work(n) PROVE OneAtATime' /\ FoundIsClear' /\ NoShorts'
  BY <1>2, OneAtATimePreserved, FoundIsClearPreserved, NoShortsPreserved DEF SerialInv
<1>3. CASE Idle
  <2>1. UNCHANGED <<gridVars, nodes, node, options, paths>>
    BY <1>3 DEF Idle, orderVars, gridVars
  <2>2. OneAtATime' /\ NoShorts'
    BY <2>1 DEF SerialInv, OneAtATime, Ended, NoShorts, SharesMetal, Touches
  <2>3. FoundIsClear'
    <3>1. \A n \in Nets, o \in UNION {options[m] : m \in Nets} :
              IsClear(Merged(o.path), n)' <=> IsClear(Merged(o.path), n)
      BY <2>1, ClearIsOfThePaths DEF Merged, EndsStraight, Edge, EdgeBetween, Across
    <3> QED
      BY <2>1, <3>1 DEF SerialInv, FoundIsClear, Running
  <2> QED
    BY <1>1, <2>2, <2>3 DEF SerialInv
<1> QED
  BY <1>1, <1>2, <1>3, NextWorks DEF SerialInv

\* Orders that run one after the other never share metal, on any grid and for
\* any orders.
THEOREM SerialNoShorts == Jobs = 1 => (Spec => []NoShorts)
<1> SUFFICES ASSUME Jobs = 1 PROVE Spec => []NoShorts
  OBVIOUS
<1>1. SerialInv /\ [Next]_vars => SerialInv'
  BY SerialPreserved
<1>2. SerialInv => NoShorts
  BY DEF SerialInv
<1> QED
  BY <1>1, <1>2, SerialInitially, PTL DEF Spec

(***************************************************************************)
(* Part 3: RouteOrders implements RoutedNets: every order that ends without*)
(* an error has joined its nodes and, when one thread runs the orders,     *)
(* without metal shared between nets. Then: the vias of serial orders stay *)
(* apart, paths between two nodes stay off the staged pins of other nets,  *)
(* and where both hold no vertex has two nets on one layer.                *)
(***************************************************************************)

-----------------------------------------------------------------------------
\* Routes come to their ends.

\* A path that is installed is used where its edges pass and nowhere else.
LEMMA MarkedIsSpanned ==
    ASSUME NEW n \in Nets, NEW r \in Routes, NEW start, NEW end,
           Assign(n, r, start, end),
           NEW v \in Vertices, NEW m \in UsingNets(v)'
    PROVE  m \in UsingNets(v) \/ (m = n /\ \E e \in EdgesOf(r) : Spans(e, v))
<1> DEFINE on == LayersInPath(r, start, end)
           entry == PickTarget({on[1]}, start)
           exit == PickTarget({on[Len(r) - 1]}, end)
           layersAt(w) == {on[i] : i \in {j \in EdgeIndices(r) : Spans(Edge(r, j), w)}}
                          \cup {l \in {entry} : w = r[1]}
                          \cup {l \in {exit} : w = r[Len(r)]}
<1>1. using' = [w \in Vertices |-> using[w] \cup ({n} \X layersAt(w))]
  BY DEF Assign, MarkVerticesAsUsed, AddUsingNet
<1>2. PICK use \in using'[v] : m = use[1]
  BY DEF UsingNets
<1>3. use \in using[v] \/ use \in {n} \X layersAt(v)
  BY <1>1, <1>2
<1>4. CASE use \in using[v]
  BY <1>2, <1>4 DEF UsingNets
<1>5. CASE use \in {n} \X layersAt(v)
  <2>1. m = n /\ \E l : l \in layersAt(v)
    BY <1>2, <1>5
  <2>2. \/ \E j \in EdgeIndices(r) : Spans(Edge(r, j), v)
        \/ v = r[1] \/ v = r[Len(r)]
    BY <2>1
  <2>3. CASE \E j \in EdgeIndices(r) : Spans(Edge(r, j), v)
    BY <2>1, <2>3 DEF EdgesOf
  <2> QED
    BY <2>1, <2>2, <2>3, RouteSpansEnds
<1> QED
  BY <1>3, <1>4, <1>5
-----------------------------------------------------------------------------
\* The inductive invariant.

ReachedBy(n, v) == \E p \in PathsOf(n) : Reaches(p, v)

\* A vertex is in use by those nets whose paths come to it.
UsedIsReached == \A v \in Vertices, n \in Nets : n \in UsingNets(v) => ReachedBy(n, v)

\* What is searched for, and what was found, leads from the node at work to the
\* node before it, or to what the net already has.
SearchesJoin ==
    \A n \in Nets : \A s \in todo[n] :
        Running(n) /\ s[1] \in nodes[n][node[n]]
        /\ (~linked[n] => s[2] \in nodes[n][node[n] - 1])

OptionsJoin ==
    \A n \in Nets : \A o \in options[n] :
        Running(n) /\ o.path[1] \in nodes[n][node[n]]
        /\ IF linked[n] THEN ReachedBy(n, o.path[Len(o.path)])
           ELSE o.path[Len(o.path)] \in nodes[n][node[n] - 1]

UnlinkedHaveNone ==
    \A n \in Nets : IF linked[n] THEN node[n] # 0 ELSE PathsOf(n) = {}

\* An order without an error has come to every node it is past.
NodesReached ==
    \A n \in Nets : node[n] # 0 /\ ~failed[n] =>
        /\ node[n] >= 2 /\ Len(nodes[n]) >= 2
        /\ node[n] = 2 => ~linked[n]
        /\ node[n] > 2 =>
              linked[n] /\ \A i \in 1..node[n] - 1 : \E v \in nodes[n][i] : ReachedBy(n, v)

PathsHang == \A n \in Nets : Promise!HangTogether(PathsOf(n))

JoinInv ==
    /\ TypeInv
    /\ UsedIsReached /\ SearchesJoin /\ OptionsJoin
    /\ UnlinkedHaveNone /\ NodesReached /\ PathsHang

\* Paths stay, so what is reached stays reached.
LEMMA ReachedStays ==
    ASSUME paths \subseteq paths', NEW n, NEW v, ReachedBy(n, v)
    PROVE  ReachedBy(n, v)'
BY DEF ReachedBy, PathsOf, Reaches, EdgesOf, EdgeIndices, Edge, EdgeBetween, Across, Spans

LEMMA ReachedIsOfPaths ==
    ASSUME paths' = paths, NEW n, NEW v
    PROVE  ReachedBy(n, v)' <=> ReachedBy(n, v)
BY DEF ReachedBy, PathsOf, Reaches, EdgesOf, EdgeIndices, Edge, EdgeBetween, Across, Spans

\* A route that meets one of several that hang together hangs together with
\* them.
LEMMA OneMoreHangs ==
    ASSUME NEW S, NEW p, Promise!HangTogether(S),
           S # {} => \E q \in S : Promise!Meet(p, q)
    PROVE  Promise!HangTogether(S \cup {p})
<1> SUFFICES ASSUME NEW T \in SUBSET (S \cup {p}), T \notin {{}, S \cup {p}}
             PROVE  \E q1 \in T, q2 \in (S \cup {p}) \ T : Promise!Meet(q1, q2)
  BY DEF Promise!HangTogether
<1>1. CASE T \cap S \notin {{}, S}
  <2>1. PICK q1 \in T \cap S, q2 \in S \ (T \cap S) : Promise!Meet(q1, q2)
    BY <1>1 DEF Promise!HangTogether
  <2> QED
    BY <2>1
<1>2. CASE T \cap S = {}
  <2>1. T = {p} /\ p \notin S /\ S # {}
    BY <1>2
  <2> QED
    BY <2>1
<1>3. CASE T \cap S = S /\ S # {}
  <2>1. p \notin T /\ T = S
    BY <1>3
  <2>2. PICK q \in S : Promise!Meet(p, q)
    BY <1>3
  <2>3. Promise!Meet(q, p)
    BY <2>2 DEF Promise!Meet
  <2> QED
    BY <2>1, <2>2, <2>3
<1> QED
  BY <1>1, <1>2, <1>3
-----------------------------------------------------------------------------
\* A step of one order adds paths of its net and leaves the others be.

LEMMA WorkIsLocal ==
    ASSUME TypeInv, NEW n \in Nets, Work(n)
    PROVE  /\ nodes' = nodes
           /\ \A m \in Nets \ {n} :
                /\ node'[m] = node[m] /\ linked'[m] = linked[m] /\ failed'[m] = failed[m]
                /\ todo'[m] = todo[m] /\ options'[m] = options[m]
BY TypeParts
DEF TypeInv, OrderTypeOK, Work, StartOrder, RefuseOrder, FindRoute, InstallNext,
    DropUnavailable, RetryNode, GiveUpNode, GoTo

LEMMA OnlyInstallNextMovesTheGrid ==
    ASSUME NEW n \in Nets, Work(n), ~InstallNext(n)
    PROVE  UNCHANGED gridVars /\ paths' = paths /\ using' = using
BY DEF Work, StartOrder, RefuseOrder, FindRoute, DropUnavailable, RetryNode, GiveUpNode,
       gridVars

LEMMA InstalledOption ==
    ASSUME TypeInv, NEW n \in Nets, InstallNext(n)
    PROVE  \E o \in options[n] : \E r \in Routes :
              /\ r = Merged(o.path) /\ r[1] = o.path[1] /\ r[Len(r)] = o.path[Len(o.path)]
              /\ VerticesOf(r) \subseteq VerticesOf(o.path)
              /\ Assign(n, r, {PortLayer}, o.access)
              /\ paths' = paths \cup {[net |-> n, route |-> r]}
<1>1. PICK o \in options[n] : InstallPath(n, o.path, {PortLayer}, o.access)
  BY DEF InstallNext, NextOptions
<1>2. o.path \in FoundPaths
  BY TypeParts DEF OrderTypeOK
<1>3. Assign(n, Merged(o.path), {PortLayer}, o.access)
  BY <1>1, InstallAssigns
<1>4. paths' = paths \cup {[net |-> n, route |-> Merged(o.path)]}
  BY <1>3 DEF Assign
<1> QED
  BY <1>2, <1>3, <1>4, MergedKeepsEnds

LEMMA PathsGrow ==
    ASSUME JoinInv, NEW n \in Nets, Work(n)
    PROVE  /\ paths \subseteq paths'
           /\ \A m \in Nets \ {n} : PathsOf(m)' = PathsOf(m)
<1>1. CASE InstallNext(n)
  <2>1. PICK r : paths' = paths \cup {[net |-> n, route |-> r]}
    BY <1>1, InstalledOption DEF JoinInv
  <2> QED
    BY <2>1 DEF PathsOf
<1>2. CASE ~InstallNext(n)
  BY <1>2, OnlyInstallNextMovesTheGrid DEF PathsOf
<1> QED
  BY <1>1, <1>2

LEMMA UsedIsReachedPreserved ==
    ASSUME JoinInv, NEW n \in Nets, Work(n)
    PROVE  UsedIsReached'
<1> SUFFICES ASSUME NEW v \in Vertices, NEW m \in Nets, m \in UsingNets(v)'
             PROVE  ReachedBy(m, v)'
  BY DEF UsedIsReached
<1>1. CASE m \in UsingNets(v)
  BY <1>1, PathsGrow, ReachedStays DEF JoinInv, UsedIsReached
<1>2. CASE m \notin UsingNets(v)
  <2>1. InstallNext(n)
    BY <1>2, OnlyInstallNextMovesTheGrid DEF UsingNets
  <2>2. PICK o \in options[n], r \in Routes :
          /\ Assign(n, r, {PortLayer}, o.access)
          /\ paths' = paths \cup {[net |-> n, route |-> r]}
    BY <2>1, InstalledOption DEF JoinInv
  <2>3. m = n /\ \E e \in EdgesOf(r) : Spans(e, v)
    BY <1>2, <2>2, MarkedIsSpanned
  <2> DEFINE p == [net |-> n, route |-> r]
  <2>4. p \in PathsOf(m)' /\ Reaches(p, v)
    BY <2>2, <2>3 DEF PathsOf, Reaches
  <2> QED
    BY <2>4 DEF ReachedBy, Reaches, EdgesOf, EdgeIndices, Edge, EdgeBetween, Across, Spans
<1> QED
  BY <1>1, <1>2

\* The searches of the node that an order goes on to.
LEMMA NewSearchesJoin ==
    ASSUME nodes \in Problems, nodes' = nodes, NEW n \in Nets,
           NEW i \in Nat, NEW toNet \in BOOLEAN,
           NEW s \in Searches(n, i, toNet)
    PROVE  /\ i \in 1..Len(nodes[n]) /\ s[1] \in nodes[n][i]
           /\ ~toNet => s[2] \in nodes[n][i - 1]
BY DEF Searches

LEMMA SearchesJoinPreserved ==
    ASSUME JoinInv, NEW n \in Nets, Work(n)
    PROVE  SearchesJoin'
<1>1. OrderTypeOK /\ nodes \in Problems /\ nodes' = nodes
  BY TypeParts, WorkIsLocal DEF JoinInv, TypeInv
<1> SUFFICES ASSUME NEW m \in Nets, NEW s \in todo'[m]
             PROVE  /\ Running(m)' /\ s[1] \in nodes[m][node'[m]]
                    /\ ~linked'[m] => s[2] \in nodes[m][node'[m] - 1]
  BY <1>1 DEF SearchesJoin
<1>2. CASE m # n
  BY <1>1, <1>2, WorkIsLocal DEF JoinInv, TypeInv, SearchesJoin, Running
<1>3. CASE m = n /\ s \in todo[n] /\ node'[n] = node[n] /\ linked'[n] = linked[n]
  BY <1>1, <1>3 DEF JoinInv, SearchesJoin, Running
<1>4. ASSUME m = n, NEW i \in Nat, NEW toNet \in BOOLEAN, s \in Searches(n, i, toNet),
             node'[n] = i, linked'[n] = toNet
      PROVE  /\ Running(m)' /\ s[1] \in nodes[m][node'[m]]
             /\ ~linked'[m] => s[2] \in nodes[m][node'[m] - 1]
  BY <1>1, <1>4, NewSearchesJoin DEF Running
<1>5. CASE m = n /\ StartOrder(n)
  <2>1. s \in Searches(n, 2, FALSE) /\ node'[n] = 2 /\ linked'[n] = FALSE
    BY <1>1, <1>5 DEF StartOrder, GoTo, OrderTypeOK
  <2> QED
    BY <1>4, <1>5, <2>1
<1>6. CASE m = n /\ InstallNext(n)
  <2>1. s \in Searches(n, node[n] + 1, TRUE) /\ node'[n] = node[n] + 1 /\ linked'[n] = TRUE
    BY <1>1, <1>6 DEF InstallNext, GoTo, OrderTypeOK
  <2>2. node[n] + 1 \in Nat
    BY <1>1 DEF OrderTypeOK
  <2> QED
    BY <1>4, <1>6, <2>1, <2>2
<1>7. CASE m = n /\ GiveUpNode(n)
  <2>1. /\ s \in Searches(n, node[n] + 1, linked[n])
        /\ node'[n] = node[n] + 1 /\ linked'[n] = linked[n]
    BY <1>1, <1>7 DEF GiveUpNode, GoTo, OrderTypeOK
  <2>2. node[n] + 1 \in Nat /\ linked[n] \in BOOLEAN
    BY <1>1 DEF OrderTypeOK
  <2> QED
    BY <1>4, <1>7, <2>1, <2>2
<1>8. CASE m = n /\ RetryNode(n)
  <2>1. s \in Searches(n, node[n], linked[n]) /\ node'[n] = node[n] /\ linked'[n] = linked[n]
    BY <1>1, <1>8 DEF RetryNode, OrderTypeOK
  <2>2. node[n] \in Nat /\ linked[n] \in BOOLEAN
    BY <1>1 DEF OrderTypeOK
  <2> QED
    BY <1>4, <1>8, <2>1, <2>2
<1>9. CASE m = n /\ FindRoute(n)
  <2>1. s \in todo[n] /\ node'[n] = node[n] /\ linked'[n] = linked[n]
    BY <1>1, <1>9 DEF FindRoute, OrderTypeOK
  <2> QED
    BY <1>3, <1>9, <2>1
<1>10. CASE m = n /\ DropUnavailable(n)
  BY <1>1, <1>3, <1>10 DEF DropUnavailable
<1>11. CASE m = n /\ RefuseOrder(n)
  <2>1. s \in todo[n] /\ node[n] = 0
    BY <1>11 DEF RefuseOrder
  <2> QED
    BY <2>1 DEF JoinInv, SearchesJoin, Running
<1> QED
  BY <1>2, <1>5, <1>6, <1>7, <1>8, <1>9, <1>10, <1>11 DEF Work

\* A route found for n joins the node at work to the one before, or to n.
LEMMA FoundJoins ==
    ASSUME JoinInv, NEW n \in Nets, FindRoute(n), NEW o \in options'[n]
    PROVE  /\ Running(n) /\ o.path[1] \in nodes[n][node[n]]
           /\ IF linked[n] THEN ReachedBy(n, o.path[Len(o.path)])
              ELSE o.path[Len(o.path)] \in nodes[n][node[n] - 1]
<1>1. OrderTypeOK
  BY TypeParts DEF JoinInv, TypeInv
<1>2. CASE o \in options[n]
  BY <1>2 DEF JoinInv, OptionsJoin
<1>3. CASE o \notin options[n]
  <2>1. PICK job \in todo[n] : \E r \in Shortest(n, job) : o \in OptionsOf(r, n, linked[n])
    BY <1>1, <1>3, NewOptions
  <2>2. PICK r \in Shortest(n, job) : o \in OptionsOf(r, n, linked[n])
    BY <2>1
  <2>3. /\ r \in Routes /\ r[1] = job[1]
        /\ linked[n] => IsTarget(r[Len(r)], n)
        /\ ~linked[n] => r[Len(r)] = job[2]
    BY <1>1, ShortestIsRoute
  <2>4. /\ Running(n) /\ job[1] \in nodes[n][node[n]]
        /\ ~linked[n] => job[2] \in nodes[n][node[n] - 1]
    BY DEF JoinInv, SearchesJoin
  <2>5. o.path = r \/ (linked[n] /\ ExtendsTo(r, n, o.path))
    BY <1>1, <2>2, OptionShape
  <2>6. CASE o.path = r
    <3>1. linked[n] => n \in UsingNets(r[Len(r)]) /\ r[Len(r)] \in Vertices
      BY <2>3, RouteEndsAreVertices DEF IsTarget, InUseBySingleNet
    <3>2. linked[n] => ReachedBy(n, r[Len(r)])
      BY <3>1 DEF JoinInv, UsedIsReached
    <3> QED
      BY <2>3, <2>4, <2>6, <3>2
  <2>7. CASE linked[n] /\ ExtendsTo(r, n, o.path)
    <3>1. PICK v \in NearbyVias(r, n) : o.path = Append(r, v)
      BY <2>7 DEF ExtendsTo
    <3>2. v \in Vertices /\ n \in UsingNets(v)
      BY DEF NearbyVias, InUseBySingleNet
    <3>3. ReachedBy(n, v)
      BY <3>2 DEF JoinInv, UsedIsReached
    <3>4. o.path[1] = r[1] /\ o.path[Len(o.path)] = v
      <4>1. Len(r) \in Nat /\ Len(r) >= 2
        BY <2>3, RouteShape
      <4> QED
        BY <2>3, <3>1, <3>2, <4>1, AppendShape
    <3> QED
      BY <2>3, <2>4, <2>7, <3>3, <3>4
  <2> QED
    BY <2>5, <2>6, <2>7
<1> QED
  BY <1>2, <1>3

LEMMA OptionsJoinPreserved ==
    ASSUME JoinInv, NEW n \in Nets, Work(n)
    PROVE  OptionsJoin'
<1>1. OrderTypeOK /\ nodes' = nodes
  BY TypeParts, WorkIsLocal DEF JoinInv, TypeInv
<1> SUFFICES ASSUME NEW m \in Nets, NEW o \in options'[m]
             PROVE  /\ Running(m)' /\ o.path[1] \in nodes[m][node'[m]]
                    /\ IF linked'[m] THEN ReachedBy(m, o.path[Len(o.path)])'
                       ELSE o.path[Len(o.path)] \in nodes[m][node'[m] - 1]
  BY <1>1 DEF OptionsJoin, ReachedBy, PathsOf, Reaches, EdgesOf, EdgeIndices, Edge,
              EdgeBetween, Across, Spans
<1>2. CASE o \in options[m] /\ node'[m] = node[m] /\ linked'[m] = linked[m]
  <2>1. /\ Running(m) /\ o.path[1] \in nodes[m][node[m]]
        /\ IF linked[m] THEN ReachedBy(m, o.path[Len(o.path)])
           ELSE o.path[Len(o.path)] \in nodes[m][node[m] - 1]
    BY <1>2 DEF JoinInv, OptionsJoin
  <2> QED
    BY <1>1, <1>2, <2>1, PathsGrow, ReachedStays DEF Running
<1>3. CASE m # n
  BY <1>2, <1>3, WorkIsLocal DEF JoinInv
<1>4. CASE m = n /\ (StartOrder(n) \/ InstallNext(n) \/ GiveUpNode(n))
  BY <1>1, <1>4 DEF StartOrder, InstallNext, GiveUpNode, GoTo, OrderTypeOK
<1>5. CASE m = n /\ RefuseOrder(n)
  <2>1. o \in options[n] /\ node[n] = 0
    BY <1>5 DEF RefuseOrder
  <2> QED
    BY <2>1 DEF JoinInv, OptionsJoin, Running
<1>6. CASE m = n /\ (DropUnavailable(n) \/ RetryNode(n))
  BY <1>1, <1>2, <1>6 DEF DropUnavailable, RetryNode, OrderTypeOK
<1>7. CASE m = n /\ FindRoute(n)
  <2>1. node' = node /\ linked' = linked
    BY <1>7 DEF FindRoute
  <2>2. /\ Running(n) /\ o.path[1] \in nodes[n][node[n]]
        /\ IF linked[n] THEN ReachedBy(n, o.path[Len(o.path)])
           ELSE o.path[Len(o.path)] \in nodes[n][node[n] - 1]
    BY <1>7, FoundJoins
  <2> QED
    BY <1>1, <1>7, <2>1, <2>2, PathsGrow, ReachedStays DEF Running
<1> QED
  BY <1>3, <1>4, <1>5, <1>6, <1>7 DEF Work

LEMMA UnlinkedHaveNonePreserved ==
    ASSUME JoinInv, NEW n \in Nets, Work(n)
    PROVE  UnlinkedHaveNone'
<1>1. OrderTypeOK
  BY TypeParts DEF JoinInv, TypeInv
<1>2. ASSUME InstallNext(n) PROVE linked'[n]
  BY <1>1, <1>2 DEF InstallNext, GoTo, OrderTypeOK
<1>3. \A m \in Nets : ~linked'[m] => PathsOf(m)' = PathsOf(m)
  BY <1>2, PathsGrow, OnlyInstallNextMovesTheGrid DEF PathsOf
<1>4. ASSUME NEW m \in Nets, ~linked'[m] PROVE PathsOf(m)' = {}
  <2>1. CASE ~linked[m]
    BY <1>3, <1>4, <2>1 DEF JoinInv, UnlinkedHaveNone
  <2>2. CASE linked[m]
    <3>1. m = n /\ node[n] # 0
      BY <1>4, <2>2, WorkIsLocal DEF JoinInv, UnlinkedHaveNone
    <3>2. linked'[n] = linked[n] \/ linked'[n] = TRUE
      BY <1>1, <3>1 DEF Work, StartOrder, RefuseOrder, FindRoute, InstallNext,
                        DropUnavailable, RetryNode, GiveUpNode, GoTo, OrderTypeOK
    <3> QED
      BY <1>4, <2>2, <3>1, <3>2
  <2> QED
    BY <2>1, <2>2
<1>5. ASSUME NEW m \in Nets, linked'[m] PROVE node'[m] # 0
  <2>1. CASE m # n
    BY <1>5, <2>1, WorkIsLocal DEF JoinInv, UnlinkedHaveNone
  <2>2. CASE m = n /\ node'[n] = node[n] /\ linked'[n] = linked[n]
    BY <1>5, <2>2 DEF JoinInv, UnlinkedHaveNone
  <2>3. CASE m = n /\ node'[n] # node[n]
    <3>1. node[n] \in Nat /\ Len(nodes[n]) \in Nat
      BY <1>1, NodesAreSequences, TypeParts DEF OrderTypeOK, JoinInv, TypeInv
    <3>2. node'[n] \in {2, node[n] + 1, Len(nodes[n]) + 1}
      BY <1>1, <2>3 DEF Work, StartOrder, RefuseOrder, FindRoute, InstallNext,
                        DropUnavailable, RetryNode, GiveUpNode, GoTo, OrderTypeOK
    <3> QED
      BY <2>3, <3>1, <3>2
  <2>4. CASE m = n /\ node'[n] = node[n] /\ linked'[n] # linked[n]
    <3>1. node[n] \in Nat /\ node[n] # node[n] + 1
      BY <1>1 DEF OrderTypeOK
    <3>2. StartOrder(n) \/ InstallNext(n)
      BY <1>1, <2>4, <3>1 DEF Work, RefuseOrder, FindRoute, DropUnavailable, RetryNode,
                              GiveUpNode, GoTo, OrderTypeOK
    <3>3. node'[n] = 2 \/ node'[n] = node[n] + 1
      BY <1>1, <3>2 DEF StartOrder, InstallNext, GoTo, OrderTypeOK
    <3> QED
      BY <2>4, <3>1, <3>3
  <2> QED
    BY <2>1, <2>2, <2>3, <2>4
<1>6. \A m \in Nets : IF linked'[m] THEN node'[m] # 0 ELSE PathsOf(m)' = {}
  BY <1>4, <1>5
<1> QED
  BY <1>6 DEF UnlinkedHaveNone, PathsOf

\* The two ends of an installed path are reached by its net.
LEMMA InstalledReachesEnds ==
    ASSUME NEW n, NEW r \in Routes, paths' = paths \cup {[net |-> n, route |-> r]}
    PROVE  ReachedBy(n, r[1])' /\ ReachedBy(n, r[Len(r)])'
<1> DEFINE p == [net |-> n, route |-> r]
<1>1. p \in PathsOf(n)'
  BY DEF PathsOf
<1>2. Reaches(p, r[1]) /\ Reaches(p, r[Len(r)])
  BY RouteSpansEnds DEF Reaches
<1> QED
  BY <1>1, <1>2 DEF ReachedBy, Reaches, EdgesOf, EdgeIndices, Edge, EdgeBetween, Across, Spans

LEMMA InstallReachesNode ==
    ASSUME JoinInv, NEW n \in Nets, InstallNext(n), NodesReached, ~failed[n]
    PROVE  \A i \in 1..node[n] : \E v \in nodes[n][i] : ReachedBy(n, v)'
<1>1. PICK o \in options[n], r \in Routes :
        /\ r[1] = o.path[1] /\ r[Len(r)] = o.path[Len(o.path)]
        /\ paths' = paths \cup {[net |-> n, route |-> r]}
  BY InstalledOption DEF JoinInv
<1>2. /\ Running(n) /\ o.path[1] \in nodes[n][node[n]]
      /\ ~linked[n] => o.path[Len(o.path)] \in nodes[n][node[n] - 1]
  BY DEF JoinInv, OptionsJoin
<1>3. ReachedBy(n, o.path[1])' /\ ReachedBy(n, o.path[Len(o.path)])'
  <2>1. ReachedBy(n, r[1])' /\ ReachedBy(n, r[Len(r)])'
    BY <1>1, InstalledReachesEnds
  <2>2. ASSUME NEW u, NEW v, u = v, ReachedBy(n, u)' PROVE ReachedBy(n, v)'
    BY <2>2 DEF ReachedBy, PathsOf, Reaches, EdgesOf, EdgeIndices, Edge, EdgeBetween, Across,
                Spans
  <2> QED
    BY <1>1, <2>1, <2>2
<1>4. node[n] \in Nat /\ node[n] # 0
  BY <1>2, TypeParts DEF JoinInv, TypeInv, OrderTypeOK, Running
<1>5. paths \subseteq paths'
  BY <1>1
<1> SUFFICES ASSUME NEW i \in 1..node[n] PROVE \E v \in nodes[n][i] : ReachedBy(n, v)'
  OBVIOUS
<1>6. CASE i = node[n]
  BY <1>2, <1>3, <1>6
<1>7. CASE i # node[n] /\ node[n] = 2
  <2>1. ~linked[n] /\ i = node[n] - 1
    BY <1>4, <1>7 DEF NodesReached
  <2> QED
    BY <1>2, <1>3, <2>1
<1>8. CASE i # node[n] /\ node[n] # 2
  <2>1. node[n] > 2 /\ i \in 1..node[n] - 1
    BY <1>4, <1>8 DEF NodesReached
  <2>2. \E v \in nodes[n][i] : ReachedBy(n, v)
    BY <1>4, <2>1 DEF NodesReached
  <2> QED
    BY <1>5, <2>2, ReachedStays
<1> QED
  BY <1>6, <1>7, <1>8

LEMMA NodesReachedPreserved ==
    ASSUME JoinInv, NEW n \in Nets, Work(n)
    PROVE  NodesReached'
<1>1. OrderTypeOK /\ nodes' = nodes
  BY TypeParts, WorkIsLocal DEF JoinInv, TypeInv
<1> DEFINE Here(m) ==
        /\ node[m] >= 2 /\ Len(nodes[m]) >= 2
        /\ node[m] = 2 => ~linked[m]
        /\ node[m] > 2 =>
              linked[m] /\ \A i \in 1..node[m] - 1 : \E v \in nodes[m][i] : ReachedBy(m, v)
           There(m) ==
        /\ node'[m] >= 2 /\ Len(nodes[m]) >= 2
        /\ node'[m] = 2 => ~linked'[m]
        /\ node'[m] > 2 =>
              linked'[m] /\ \A i \in 1..node'[m] - 1 : \E v \in nodes[m][i] : ReachedBy(m, v)'
<1>2. \A m \in Nets : node[m] # 0 /\ ~failed[m] => Here(m)
  BY DEF JoinInv, NodesReached
<1>3. SUFFICES ASSUME NEW m \in Nets, node'[m] # 0, ~failed'[m] PROVE There(m)
  BY <1>1 DEF NodesReached, ReachedBy, PathsOf
<1>4. CASE node'[m] = node[m] /\ linked'[m] = linked[m] /\ failed'[m] = failed[m]
  <2>1. Here(m)
    BY <1>2, <1>3, <1>4
  <2> QED
    BY <1>4, <2>1, PathsGrow, ReachedStays
<1>5. CASE m # n
  BY <1>4, <1>5, WorkIsLocal DEF JoinInv
<1>6. CASE m = n /\ StartOrder(n)
  <2>1. node'[n] = 2 /\ linked'[n] = FALSE /\ Len(nodes[n]) >= 2
    BY <1>1, <1>6 DEF StartOrder, GoTo, OrderTypeOK
  <2> QED
    BY <1>6, <2>1
<1>7. CASE m = n /\ InstallNext(n)
  <2>1. node'[n] = node[n] + 1 /\ linked'[n] = TRUE /\ failed'[n] = failed[n]
    BY <1>1, <1>7 DEF InstallNext, GoTo, OrderTypeOK
  <2>2. node[n] \in Nat /\ node[n] # 0
    BY <1>1, <1>7 DEF InstallNext, Running, OrderTypeOK
  <2>3. Here(n)
    BY <1>2, <1>3, <1>7, <2>1, <2>2
  <2>4. \A i \in 1..node[n] : \E v \in nodes[n][i] : ReachedBy(n, v)'
    BY <1>3, <1>7, <2>1, InstallReachesNode DEF JoinInv
  <2>5. node'[n] - 1 = node[n] /\ node'[n] > 2
    BY <2>1, <2>2, <2>3
  <2> QED
    BY <1>7, <2>1, <2>2, <2>3, <2>4, <2>5
<1>8. CASE m = n /\ (RefuseOrder(n) \/ GiveUpNode(n))
  <2>1. failed'[n]
    BY <1>1, <1>8 DEF RefuseOrder, GiveUpNode, OrderTypeOK
  <2> QED
    BY <1>3, <1>8, <2>1
<1>9. CASE m = n /\ (FindRoute(n) \/ DropUnavailable(n) \/ RetryNode(n))
  BY <1>4, <1>9 DEF FindRoute, DropUnavailable, RetryNode
<1> QED
  BY <1>5, <1>6, <1>7, <1>8, <1>9 DEF Work

\* An installed path meets what its net already has.
LEMMA InstalledMeetsNet ==
    ASSUME JoinInv, NEW n \in Nets, NEW o \in options[n], NEW r \in Routes,
           r[Len(r)] = o.path[Len(o.path)], PathsOf(n) # {}
    PROVE  \E q \in PathsOf(n) : Promise!Meet([net |-> n, route |-> r], q)
<1>1. linked[n]
  BY DEF JoinInv, UnlinkedHaveNone
<1>2. ReachedBy(n, r[Len(r)])
  BY <1>1 DEF JoinInv, OptionsJoin
<1>3. PICK q \in PathsOf(n) : Reaches(q, r[Len(r)])
  BY <1>2 DEF ReachedBy
<1>4. Reaches([net |-> n, route |-> r], r[Len(r)])
  BY RouteSpansEnds DEF Reaches
<1> QED
  BY <1>3, <1>4, RouteEndsAreVertices DEF Promise!Meet

LEMMA PathsHangPreserved ==
    ASSUME JoinInv, NEW n \in Nets, Work(n)
    PROVE  PathsHang'
<1>1. ASSUME NEW m \in Nets PROVE Promise!HangTogether(PathsOf(m)')
  <2>1. CASE m = n /\ InstallNext(n)
    <3>1. PICK o \in options[n], r \in Routes :
            /\ r[Len(r)] = o.path[Len(o.path)]
            /\ paths' = paths \cup {[net |-> n, route |-> r]}
      BY <2>1, InstalledOption DEF JoinInv
    <3> DEFINE p == [net |-> n, route |-> r]
    <3>2. PathsOf(n)' = PathsOf(n) \cup {p}
      BY <3>1 DEF PathsOf
    <3>3. PathsOf(n) # {} => \E q \in PathsOf(n) : Promise!Meet(p, q)
      BY <3>1, InstalledMeetsNet
    <3>4. Promise!HangTogether(PathsOf(n))
      BY DEF JoinInv, PathsHang
    <3>5. Promise!HangTogether(PathsOf(n) \cup {p})
      BY <3>3, <3>4, OneMoreHangs
    <3> QED
      BY <2>1, <3>2, <3>5
  <2>2. CASE ~(m = n /\ InstallNext(n))
    <3>1. PathsOf(m)' = PathsOf(m)
      BY <2>2, PathsGrow, OnlyInstallNextMovesTheGrid DEF PathsOf
    <3> QED
      BY <3>1 DEF JoinInv, PathsHang
  <2> QED
    BY <2>1, <2>2
<1> QED
  BY <1>1 DEF PathsHang, PathsOf, Promise!HangTogether, Promise!Meet,
              Reaches, EdgesOf, EdgeIndices, Edge, EdgeBetween, Across, Spans

LEMMA JoinInitially == Init => JoinInv
<1> SUFFICES ASSUME Init PROVE JoinInv
  OBVIOUS
<1>1. TypeInv
  BY TypeInitially
<1>2. \A n \in Nets : PathsOf(n) = {}
  BY DEF Init, GridInit, PathsOf
<1>3. UsedIsReached
  BY DEF Init, GridInit, UsedIsReached, UsingNets
<1>4. SearchesJoin /\ OptionsJoin /\ NodesReached
  BY DEF Init, SearchesJoin, OptionsJoin, NodesReached
<1>5. UnlinkedHaveNone /\ PathsHang
  BY <1>2 DEF Init, UnlinkedHaveNone, PathsHang, Promise!HangTogether
<1> QED
  BY <1>1, <1>3, <1>4, <1>5 DEF JoinInv

LEMMA JoinPreserved ==
    ASSUME JoinInv, [Next]_vars
    PROVE  JoinInv'
<1>1. TypeInv'
  BY TypePreserved DEF JoinInv
<1>2. ASSUME NEW n \in Nets, Work(n) PROVE JoinInv'
  BY <1>1, <1>2, UsedIsReachedPreserved, SearchesJoinPreserved, OptionsJoinPreserved,
     UnlinkedHaveNonePreserved, NodesReachedPreserved, PathsHangPreserved
  DEF JoinInv
<1>3. CASE Idle
  <2>1. /\ paths' = paths /\ using' = using /\ nodes' = nodes /\ node' = node
        /\ todo' = todo /\ options' = options /\ linked' = linked /\ failed' = failed
    BY <1>3 DEF Idle, gridVars, orderVars
  <2>2. UsedIsReached'
    BY <2>1, ReachedIsOfPaths DEF JoinInv, UsedIsReached, UsingNets
  <2>3. SearchesJoin'
    BY <2>1 DEF JoinInv, SearchesJoin, Running
  <2>4. OptionsJoin' /\ NodesReached'
    BY <2>1, ReachedIsOfPaths DEF JoinInv, OptionsJoin, NodesReached, Running
  <2>5. UnlinkedHaveNone'
    BY <2>1 DEF JoinInv, UnlinkedHaveNone, PathsOf
  <2>6. PathsHang'
    <3>1. \A m \in Nets : PathsOf(m)' = PathsOf(m)
      BY <2>1 DEF PathsOf
    <3>2. \A m \in Nets : Promise!HangTogether(PathsOf(m)')
      BY <3>1 DEF JoinInv, PathsHang
    <3> QED
      BY <3>2 DEF PathsHang, PathsOf, Promise!HangTogether, Promise!Meet,
                  Reaches, EdgesOf, EdgeIndices, Edge, EdgeBetween, Across, Spans
  <2> QED
    BY <1>1, <2>2, <2>3, <2>4, <2>5, <2>6 DEF JoinInv
<1> QED
  BY <1>2, <1>3, NextWorks
-----------------------------------------------------------------------------
\* The theorems.

LEMMA EndedIsJoined ==
    ASSUME JoinInv, NEW n \in Nets, Ended(n), ~failed[n]
    PROVE  /\ \A i \in DOMAIN nodes[n] : \E v \in nodes[n][i] : ReachedBy(n, v)
           /\ Promise!HangTogether(PathsOf(n))
<1>1. nodes[n] \in Seq((SUBSET Vertices) \ {{}}) /\ Len(nodes[n]) \in Nat
  BY NodesAreSequences, TypeParts DEF JoinInv, TypeInv
<1>2. node[n] = Len(nodes[n]) + 1 /\ node[n] # 0
  BY <1>1 DEF Ended
<1>3. Len(nodes[n]) >= 2 /\ node[n] > 2
  BY <1>1, <1>2 DEF JoinInv, NodesReached
<1>4. \A i \in 1..node[n] - 1 : \E v \in nodes[n][i] : ReachedBy(n, v)
  BY <1>2, <1>3 DEF JoinInv, NodesReached
<1>5. node[n] - 1 = Len(nodes[n]) /\ DOMAIN nodes[n] = 1..Len(nodes[n])
  BY <1>1, <1>2
<1> QED
  BY <1>4, <1>5 DEF JoinInv, PathsHang

\* Whatever the grid, the orders and the number of threads, an order that ends
\* without an error has joined its nodes.
THEOREM OrdersConnect == Spec => []OrdersConnectTheirNodes
<1>1. JoinInv => OrdersConnectTheirNodes
  <2> SUFFICES ASSUME JoinInv, NEW n \in Nets, Ended(n), ~failed[n]
               PROVE  /\ \A i \in DOMAIN nodes[n] :
                            \E v \in nodes[n][i], p \in PathsOf(n) : Reaches(p, v)
                      /\ \A S \in SUBSET PathsOf(n) : S \notin {{}, PathsOf(n)} =>
                            \E p \in S, q \in PathsOf(n) \ S, v \in Vertices :
                                Reaches(p, v) /\ Reaches(q, v)
    BY DEF OrdersConnectTheirNodes
  <2> QED
    BY EndedIsJoined DEF ReachedBy, Promise!HangTogether, Promise!Meet
<1>2. JoinInv /\ [Next]_vars => JoinInv'
  BY JoinPreserved
<1> QED
  BY <1>1, <1>2, JoinInitially, PTL DEF Spec

\* The invariant of the promise: the joins, and no shorts when one thread runs.
PromiseInv == JoinInv /\ (Jobs = 1 => SerialInv)

LEMMA PromiseInitially == Init => PromiseInv
BY JoinInitially, SerialInitially DEF PromiseInv

LEMMA PromisePreserved ==
    ASSUME PromiseInv, [Next]_vars
    PROVE  PromiseInv'
BY JoinPreserved, SerialPreserved DEF PromiseInv

LEMMA PromiseBegins == Init => Promise!Init
<1> SUFFICES ASSUME Init PROVE paths = {} /\ Outcome = [n \in Nets |-> "pending"]
  BY DEF Init, Promise!Init
<1>1. \A n \in Nets : Len(nodes[n]) \in Nat
  BY NodesAreSequences DEF Init
<1>2. \A n \in Nets : ~Ended(n)
  BY <1>1 DEF Init, Ended
<1> QED
  BY <1>2 DEF Init, GridInit, Outcome

SettledAreJoined == \A n \in Nets : Ended(n) /\ ~failed[n] => Promise!Joined(n)

LEMMA InvSettledAreJoined == JoinInv => SettledAreJoined
BY EndedIsJoined DEF SettledAreJoined, Promise!Joined, Promise!RoutesOf, PathsOf, ReachedBy

\* The outcome of the other nets stays, and that of a net that goes on does.
LEMMA OthersKeepOutcome ==
    ASSUME TypeInv, NEW n \in Nets, Work(n), NEW m \in Nets \ {n}
    PROVE  Outcome'[m] = Outcome[m]
BY WorkIsLocal DEF Outcome, Ended

LEMMA WorkingIsPending ==
    ASSUME TypeInv, NEW n \in Nets, Work(n)
    PROVE  ~Ended(n)
<1>1. node[n] \in Nat /\ Len(nodes[n]) \in Nat
  BY NodesAreSequences, TypeParts DEF TypeInv, OrderTypeOK
<1>2. node[n] = 0 \/ Running(n)
  BY WorkMovesOne
<1> QED
  BY <1>1, <1>2 DEF Running, Ended

LEMMA WorkSettles ==
    ASSUME TypeInv, SettledAreJoined', NEW n \in Nets, Work(n)
    PROVE  /\ Outcome[n] = "pending"
           /\ Outcome' = Outcome \/ Promise!Settle(n)
<1>1. ~Ended(n) /\ Outcome[n] = "pending"
  BY WorkingIsPending DEF Outcome
<1>2. \A m \in Nets \ {n} : Outcome'[m] = Outcome[m]
  BY OthersKeepOutcome
<1>3. Outcome' = [Outcome EXCEPT ![n] = Outcome'[n]]
  BY <1>2 DEF Outcome
<1>4. Outcome'[n] \in {"pending", "failed", "connected"}
  BY DEF Outcome
<1>5. CASE Outcome'[n] = "pending"
  <2>1. Outcome' = Outcome
    BY <1>1, <1>3, <1>5 DEF Outcome
  <2> QED
    BY <1>1, <2>1
<1>6. CASE Outcome'[n] = "failed"
  BY <1>1, <1>3, <1>6 DEF Promise!Settle
<1>7. CASE Outcome'[n] = "connected"
  <2>1. Ended(n)' /\ ~failed'[n]
    BY <1>7 DEF Outcome
  <2>2. Promise!Joined(n)'
    BY <2>1 DEF SettledAreJoined, Promise!Joined, Promise!RoutesOf, Promise!HangTogether,
                Promise!Meet, Reaches, EdgesOf, EdgeIndices, Edge, EdgeBetween, Across, Spans
  <2> QED
    BY <1>1, <1>3, <1>7, <2>2 DEF Promise!Settle
<1> QED
  BY <1>4, <1>5, <1>6, <1>7

LEMMA InstallExtends ==
    ASSUME PromiseInv, NEW n \in Nets, InstallNext(n)
    PROVE  \E r \in Routes : Promise!Extend(n, [net |-> n, route |-> r])
<1>1. PICK o \in options[n], r \in Routes :
        /\ r = Merged(o.path) /\ r[Len(r)] = o.path[Len(o.path)]
        /\ paths' = paths \cup {[net |-> n, route |-> r]}
  BY InstalledOption DEF PromiseInv, JoinInv
<1> DEFINE p == [net |-> n, route |-> r]
<1>2. PathsOf(n) # {} => \E q \in PathsOf(n) : Promise!Meet(p, q)
  BY <1>1, InstalledMeetsNet DEF PromiseInv
<1>3. ASSUME Jobs = 1, NEW q \in paths, q.net # n
      PROVE  ~Shorts(p, q) /\ ~Shorts(q, p)
  <2>1. IsClear(r, n)
    BY <1>1, <1>3 DEF PromiseInv, SerialInv, FoundIsClear
  <2> QED
    BY <1>3, <2>1 DEF IsClear, Shorts
<1>4. Promise!Extend(n, p)
  BY <1>1, <1>2, <1>3 DEF Promise!Extend, Promise!RoutesOf, PathsOf
<1> QED
  BY <1>1, <1>4

LEMMA WorkKeepsPromise ==
    ASSUME PromiseInv, SettledAreJoined', NEW n \in Nets, Work(n), ~aborted, UNCHANGED aborted
    PROVE  Promise!Work(n)
<1>1. nodes' = nodes
  BY WorkIsLocal DEF PromiseInv, JoinInv
<1>2. Outcome[n] = "pending" /\ (Outcome' = Outcome \/ Promise!Settle(n))
  BY WorkSettles DEF PromiseInv, JoinInv
<1>3. paths' = paths \/ \E r \in Routes : Promise!Extend(n, [net |-> n, route |-> r])
  BY InstallExtends, OnlyInstallNextMovesTheGrid
<1> QED
  BY <1>1, <1>2, <1>3 DEF Promise!Work

\* The manager keeps the safety of its promise: on any grid, for any orders,
\* every step of RunAllSerial or RunAllParallel adds at most one route, which
\* joins what its net has (and, with one thread, shares no metal with another
\* net's), and settles a net as connected only when it is; or it ends the whole
\* process, after which nothing happens.
THEOREM OrdersKeepPromise == Spec => Promise!SafeSpec
<1>1. PromiseInv /\ SettledAreJoined' /\ [Next]_vars => [Promise!Next]_Promise!vars
  <2> SUFFICES ASSUME PromiseInv, SettledAreJoined', [Next]_vars
               PROVE  Promise!Next \/ Promise!vars' = Promise!vars
    OBVIOUS
  <2>1. CASE \E n \in Nets : Step(n)
    <3>1. PICK n \in Nets : Step(n)
      BY <2>1
    <3>2. CASE Work(n) /\ UNCHANGED aborted
      BY <3>1, <3>2, WorkKeepsPromise DEF Step, Promise!Next
    <3>3. CASE Abort(n)
      <4>1. Outcome' = Outcome /\ nodes' = nodes /\ paths' = paths /\ aborted' = TRUE
        BY <3>3 DEF Abort, gridVars, orderVars, Outcome, Ended
      <4> QED
        BY <4>1 DEF Promise!Next, Promise!Abort
    <3> QED
      BY <3>1, <3>2, <3>3 DEF Step
  <2>2. CASE UNCHANGED vars
    BY <2>2 DEF vars, gridVars, orderVars, Promise!vars, Outcome, Ended
  <2> QED
    BY <2>1, <2>2 DEF Next, AllEnded
<1>2. PromiseInv /\ [Next]_vars => PromiseInv'
  BY PromisePreserved
<1>3. PromiseInv => SettledAreJoined
  BY InvSettledAreJoined DEF PromiseInv
<1> QED
  BY <1>1, <1>2, <1>3, PromiseInitially, PromiseBegins, PTL DEF Spec, Promise!SafeSpec

-----------------------------------------------------------------------------
\* What the searches return, besides free edges.

LEMMA UsableIsUnblocked ==
    ASSUME NEW r, NEW n, VerticesUsable(r, n), NEW v \in VerticesOf(r)
    PROVE  blocking[v] \subseteq {n}
BY DEF VerticesUsable, VerticesOf, AvailableOnAnyLayer, VertexAvailable
-----------------------------------------------------------------------------
\* Where a path begins, turns or ends, it blocks the vertices around.

CornersBlock ==
    \A p \in paths : \A u \in VerticesOf(p.route), v \in Vertices :
        AreNeighbours(u, v) => p.net \in blocking[v]

LEMMA AssignBlocks ==
    ASSUME GridTypeOK, CornersBlock,
           NEW n \in Nets, NEW r \in Routes, NEW start, NEW end,
           Assign(n, r, start, end)
    PROVE  CornersBlock'
<1>1. \A v \in Vertices :
        /\ blocking[v] \subseteq blocking'[v]
        /\ (\E u \in VerticesOf(r) : AreNeighbours(u, v)) => n \in blocking'[v]
  BY DEF Assign, BlockNeighbours, AddBlockingNet
<1>2. SUFFICES ASSUME NEW p \in paths', NEW u \in VerticesOf(p.route), NEW v \in Vertices,
                      AreNeighbours(u, v)
               PROVE  p.net \in blocking'[v]
  BY DEF CornersBlock, VerticesOf, AreNeighbours, NoneBetween
<1>3. CASE p \in paths
  BY <1>1, <1>2, <1>3 DEF CornersBlock
<1>4. CASE p \notin paths
  <2>1. p = [net |-> n, route |-> r]
    BY <1>4 DEF Assign
  <2> QED
    BY <1>1, <1>2, <2>1
<1> QED
  BY <1>3, <1>4

LEMMA CornersUnmoved ==
    ASSUME UNCHANGED gridVars, CornersBlock
    PROVE  CornersBlock'
BY DEF gridVars, CornersBlock, VerticesOf, AreNeighbours, NoneBetween

LEMMA CornersBlockPreserved ==
    ASSUME TypeInv, CornersBlock, NEW n \in Nets, Work(n)
    PROVE  CornersBlock'
<1>1. ASSUME NEW f \in FoundPaths, NEW start, NEW end, InstallPath(n, f, start, end)
      PROVE  CornersBlock'
  BY <1>1, InstallAssigns, MergedKeepsEnds, AssignBlocks, TypeParts
<1> QED
  BY <1>1, WorkInstallsOrNot, CornersUnmoved

\* No corner of another net lies beside a corner of this path.
StandsApart(r, n) ==
    \A p \in paths : p.net # n =>
        \A u \in VerticesOf(p.route), v \in VerticesOf(r) : ~AreNeighbours(u, v)

\* What a serial order has found stands apart from all there is.
FoundIsApart == \A n \in Nets : \A o \in options[n] : StandsApart(Merged(o.path), n)

ApartInv == SerialInv /\ CornersBlock /\ FoundIsApart /\ ViasKeepApart

\* The via that a path goes on to is a corner of its own net, and stands apart.
LEMMA NearbyViaIsApart ==
    ASSUME TypeInv, WireInv, ViasKeepApart, NEW n \in Nets, NEW r,
           NEW v \in NearbyVias(r, n),
           NEW q \in paths, q.net # n, NEW u \in VerticesOf(q.route)
    PROVE  ~AreNeighbours(u, v)
<1>1. v \in Vertices /\ UsingNets(v) = {n} /\ HostsVia(v)
  BY DEF NearbyVias, InUseBySingleNet
<1>2. PICK p \in paths : \E i \in 2..Len(p.route) - 1 : p.route[i] = v
  BY <1>1 DEF HostsVia
<1>3. p.route \in Routes
  BY TypeParts DEF GridTypeOK
<1>4. v \in VerticesOf(p.route)
  <2>1. DOMAIN p.route = 1..Len(p.route) /\ Len(p.route) \in Nat
    BY <1>3, RouteOfVertices, RouteShape
  <2> QED
    BY <1>2, <2>1 DEF VerticesOf
<1>5. p.net = n
  BY <1>1, <1>3, <1>4, CornersAreSpanned DEF WireInv, WiresUse
<1> QED
  BY <1>4, <1>5 DEF ViasKeepApart

LEMMA OptionIsApart ==
    ASSUME TypeInv, WireInv, CornersBlock, ViasKeepApart, NEW n \in Nets,
           NEW job \in todo[n], NEW r \in Shortest(n, job), NEW o \in OptionsOf(r, n, linked[n])
    PROVE  StandsApart(Merged(o.path), n)
<1> SUFFICES ASSUME NEW p \in paths, p.net # n,
                    NEW u \in VerticesOf(p.route), NEW v \in VerticesOf(Merged(o.path)),
                    AreNeighbours(u, v)
             PROVE  FALSE
  BY DEF StandsApart
<1>1. OrderTypeOK
  BY TypeParts
<1>2. r \in Routes /\ VerticesUsable(r, n)
  BY <1>1, ShortestIsRoute
<1>3. o.path \in FoundPaths /\ (o.path = r \/ (linked[n] /\ ExtendsTo(r, n, o.path)))
  BY <1>1, OptionShape
<1>4. v \in VerticesOf(o.path)
  BY <1>3, MergedKeepsEnds
<1>5. v \notin VerticesOf(r)
  BY <1>2, UsableIsUnblocked, VerticesOfRoute DEF CornersBlock
<1>6. PICK w \in NearbyVias(r, n) : o.path = Append(r, w)
  BY <1>3, <1>4, <1>5 DEF ExtendsTo
<1>7. v = w
  <2>1. w \in Vertices
    BY DEF NearbyVias
  <2>2. VerticesOf(o.path) = VerticesOf(r) \cup {w}
    BY <1>2, <1>6, <2>1, AppendShape
  <2> QED
    BY <1>4, <1>5, <2>2
<1> QED
  BY <1>7, NearbyViaIsApart

LEMMA ApartIsOfThePaths ==
    ASSUME UNCHANGED paths, NEW r, NEW n
    PROVE  StandsApart(r, n)' <=> StandsApart(r, n)
BY DEF StandsApart, VerticesOf, AreNeighbours, NoneBetween

LEMMA FoundIsApartPreserved ==
    ASSUME ApartInv, NEW n \in Nets, Work(n)
    PROVE  FoundIsApart'
<1>1. TypeInv /\ OrderTypeOK /\ WireInv
  BY TypeParts DEF ApartInv, SerialInv
<1> SUFFICES ASSUME NEW m \in Nets, NEW o \in options'[m]
             PROVE  StandsApart(Merged(o.path), m)'
  BY DEF FoundIsApart
<1>2. CASE InstallNext(n)
  <2>1. options'[n] = {} /\ Running(n)
    BY <1>1, <1>2 DEF InstallNext, GoTo, OrderTypeOK
  <2>2. m # n /\ o \in options[m]
    BY <1>1, <2>1, WorkMovesOne
  <2>3. Running(m)
    BY <2>2 DEF ApartInv, SerialInv, FoundIsClear
  <2> QED
    BY <1>1, <2>1, <2>2, <2>3, RunningAlone DEF ApartInv, SerialInv
<1>3. CASE ~InstallNext(n)
  <2>1. paths' = paths
    BY <1>3, OnlyInstallNextMovesTheGrid
  <2>2. StandsApart(Merged(o.path), m)
    <3>1. CASE o \in options[m]
      BY <3>1 DEF ApartInv, FoundIsApart
    <3>2. CASE o \notin options[m]
      <4>1. m = n
        BY <1>1, <3>2, WorkMovesOne
      <4>2. FindRoute(n)
        BY <1>1, <1>3, <3>2, <4>1
        DEF Work, StartOrder, RefuseOrder, DropUnavailable, RetryNode, GiveUpNode, GoTo,
            OrderTypeOK
      <4> QED
        BY <1>1, <3>2, <4>1, <4>2, NewOptions, OptionIsApart DEF ApartInv
    <3> QED
      BY <3>1, <3>2
  <2>3. StandsApart(Merged(o.path), m)' <=> StandsApart(Merged(o.path), m)
    BY <2>1, ApartIsOfThePaths DEF Merged, EndsStraight, Edge, EdgeBetween, Across
  <2> QED
    BY <2>2, <2>3
<1> QED
  BY <1>2, <1>3

LEMMA ViasKeepApartPreserved ==
    ASSUME ApartInv, NEW n \in Nets, Work(n)
    PROVE  ViasKeepApart'
<1>1. CASE ~InstallNext(n)
  <2>1. paths' = paths
    BY <1>1, OnlyInstallNextMovesTheGrid
  <2> QED
    BY <2>1 DEF ApartInv, ViasKeepApart, VerticesOf, AreNeighbours, NoneBetween
<1>2. CASE InstallNext(n)
  <2>1. PICK o \in options[n], r \in Routes :
          r = Merged(o.path) /\ paths' = paths \cup {[net |-> n, route |-> r]}
    BY <1>2, InstalledOption DEF ApartInv, SerialInv
  <2>2. ASSUME NEW p \in paths, p.net # n,
               NEW u \in VerticesOf(p.route), NEW v \in VerticesOf(r)
        PROVE  ~AreNeighbours(u, v)
    BY <2>1, <2>2 DEF ApartInv, FoundIsApart, StandsApart
  <2>3. SUFFICES ASSUME NEW p \in paths', NEW q \in paths', p.net # q.net,
                        NEW u \in VerticesOf(p.route), NEW v \in VerticesOf(q.route)
                 PROVE  ~AreNeighbours(u, v)
    BY DEF ViasKeepApart, VerticesOf, AreNeighbours, NoneBetween
  <2>4. CASE p \in paths /\ q \in paths
    BY <2>3, <2>4 DEF ApartInv, ViasKeepApart
  <2>5. CASE p \notin paths
    <3>1. p = [net |-> n, route |-> r] /\ q \in paths
      BY <2>1, <2>3, <2>5
    <3> QED
      BY <2>2, <2>3, <3>1, NeighboursAreMutual
  <2>6. CASE q \notin paths
    <3>1. q = [net |-> n, route |-> r] /\ p \in paths
      BY <2>1, <2>3, <2>6
    <3> QED
      BY <2>2, <2>3, <3>1
  <2> QED
    BY <2>4, <2>5, <2>6
<1> QED
  BY <1>1, <1>2

\* Orders that run one after the other keep their vias, and whatever may become
\* one, off the vertices next to another net's, on any grid.
THEOREM SerialViasKeepApart == Jobs = 1 => (Spec => []ViasKeepApart)
<1> SUFFICES ASSUME Jobs = 1 PROVE Spec => []ViasKeepApart
  OBVIOUS
<1>1. Init => ApartInv
  <2>1. Init => SerialInv
    BY SerialInitially
  <2>2. Init => CornersBlock /\ FoundIsApart /\ ViasKeepApart
    BY DEF Init, GridInit, CornersBlock, FoundIsApart, ViasKeepApart
  <2> QED
    BY <2>1, <2>2 DEF ApartInv
<1>2. ApartInv /\ [Next]_vars => ApartInv'
  <2> SUFFICES ASSUME ApartInv, [Next]_vars PROVE ApartInv'
    OBVIOUS
  <2>1. SerialInv'
    BY SerialPreserved DEF ApartInv
  <2>2. ASSUME NEW n \in Nets, Work(n) PROVE CornersBlock' /\ FoundIsApart' /\ ViasKeepApart'
    BY <2>2, CornersBlockPreserved, FoundIsApartPreserved, ViasKeepApartPreserved
    DEF ApartInv, SerialInv
  <2>3. CASE Idle
    <3>1. options' = options /\ blocking' = blocking /\ paths' = paths
      BY <2>3 DEF Idle, gridVars, orderVars
    <3>2. CornersBlock' /\ ViasKeepApart'
      BY <3>1 DEF ApartInv, CornersBlock, ViasKeepApart, VerticesOf, AreNeighbours, NoneBetween
    <3>3. FoundIsApart'
      <4>1. \A n \in Nets, o \in UNION {options[m] : m \in Nets} :
                StandsApart(Merged(o.path), n)' <=> StandsApart(Merged(o.path), n)
        BY <3>1, ApartIsOfThePaths DEF Merged, EndsStraight, Edge, EdgeBetween, Across
      <4> QED
        BY <3>1, <4>1 DEF ApartInv, FoundIsApart
    <3> QED
      BY <2>1, <3>2, <3>3 DEF ApartInv
  <2> QED
    BY <2>1, <2>2, <2>3, NextWorks DEF ApartInv
<1> QED
  BY <1>1, <1>2, PTL DEF Spec, ApartInv
-----------------------------------------------------------------------------
\* Orders of at most two nodes, whose pins stay staged: every path is found
\* between two ports, and such a search looks its edges up in the cache.

PairsOnly == \A order \in Problems : \A n \in Nets : Len(order[n]) <= 2

OffPins(r, n) == \A e \in EdgesOf(r) : ~CrossesForeignPin(e, n)

PairInv ==
    /\ TypeInv
    /\ staged = Nets
    /\ \A n \in Nets : Running(n) => ~linked[n]
    /\ \A n \in Nets : \A o \in options[n] : o.path \in Routes /\ OffPins(o.path, n)
    /\ \A p \in paths : OffPins(p.route, p.net)

LEMMA PinsUnmoved ==
    ASSUME nodes' = nodes, staged' = staged, NEW r, NEW n
    PROVE  OffPins(r, n)' <=> OffPins(r, n)
BY DEF OffPins, CrossesForeignPin, ForeignPins, Pins, EdgesOf, EdgeIndices, Edge,
       EdgeBetween, Across, Spans

LEMMA PairIsOffPins ==
    ASSUME PairInv, NEW n \in Nets, FindRoute(n), NEW o \in options'[n]
    PROVE  o.path \in Routes /\ OffPins(o.path, n)
<1>1. OrderTypeOK /\ Running(n) /\ ~linked[n]
  BY TypeParts DEF PairInv, FindRoute
<1>2. CASE o \in options[n]
  BY <1>2 DEF PairInv
<1>3. CASE o \notin options[n]
  <2>1. PICK job \in todo[n] : \E r \in Shortest(n, job) : o \in OptionsOf(r, n, linked[n])
    BY <1>1, <1>3, NewOptions
  <2>2. PICK r \in Shortest(n, job) : o \in OptionsOf(r, n, linked[n])
    BY <2>1
  <2>3. r \in Routes /\ (\A e \in EdgesOf(r) : EdgeUsable(e, n)) /\ o.path = r
    BY <1>1, <2>2, ShortestIsRoute, OptionShape
  <2> QED
    BY <2>3 DEF OffPins, EdgeUsable
<1> QED
  BY <1>2, <1>3

LEMMA PairStaysUnlinked ==
    ASSUME PairsOnly, PairInv, NEW n \in Nets, Work(n), Running(n)'
    PROVE  ~linked'[n]
<1>1. OrderTypeOK /\ nodes \in Problems /\ nodes' = nodes /\ PastFirst
  BY TypeParts, WorkMovesOne DEF PairInv, TypeInv
<1>2. Len(nodes[n]) <= 2 /\ Len(nodes[n]) \in Nat
  BY <1>1, NodesAreSequences DEF PairsOnly
<1>3. CASE StartOrder(n)
  BY <1>1, <1>3 DEF StartOrder, GoTo, OrderTypeOK
<1>4. CASE InstallNext(n) \/ GiveUpNode(n)
  <2>1. node[n] \in Nat /\ node[n] >= 2 /\ node'[n] = node[n] + 1
    BY <1>1, <1>4 DEF InstallNext, GiveUpNode, GoTo, PastFirst, OrderTypeOK
  <2> QED
    BY <1>1, <1>2, <2>1 DEF Running
<1>5. CASE RefuseOrder(n)
  BY <1>1, <1>2, <1>5 DEF RefuseOrder, Running, OrderTypeOK
<1>6. CASE FindRoute(n) \/ DropUnavailable(n) \/ RetryNode(n)
  BY <1>1, <1>6 DEF FindRoute, DropUnavailable, RetryNode, PairInv
<1> QED
  BY <1>3, <1>4, <1>5, <1>6 DEF Work

LEMMA PairPreserved ==
    ASSUME PairsOnly, ~AutoCancel, PairInv, NEW n \in Nets, Work(n)
    PROVE  PairInv'
<1>1. TypeInv' /\ OrderTypeOK /\ nodes' = nodes
  BY WorkTyping, WorkMovesOne, TypeParts DEF PairInv
<1>2. staged' = Nets
  BY DEF PairInv, Work, StartOrder, RefuseOrder, FindRoute, InstallNext, DropUnavailable,
         RetryNode, GiveUpNode, GoTo
<1>3. ASSUME NEW m \in Nets, Running(m)' PROVE ~linked'[m]
  <2>1. CASE m = n
    BY <1>3, <2>1, PairStaysUnlinked
  <2>2. CASE m # n
    <3>1. Running(m) /\ linked'[m] = linked[m]
      BY <1>1, <1>3, <2>2
      DEF Running, Work, StartOrder, RefuseOrder, FindRoute, InstallNext, DropUnavailable,
          RetryNode, GiveUpNode, GoTo, OrderTypeOK
    <3> QED
      BY <3>1 DEF PairInv
  <2> QED
    BY <2>1, <2>2
<1>4. ASSUME NEW m \in Nets, NEW o \in options'[m] PROVE o.path \in Routes /\ OffPins(o.path, m)
  <2>1. CASE o \in options[m]
    BY <2>1 DEF PairInv
  <2>2. CASE o \notin options[m]
    <3>1. m = n /\ FindRoute(n)
      BY <1>1, <2>2, WorkMovesOne
      DEF PairInv, Work, StartOrder, RefuseOrder, InstallNext, DropUnavailable, RetryNode,
          GiveUpNode, GoTo, OrderTypeOK
    <3> QED
      BY <3>1, PairIsOffPins
  <2> QED
    BY <2>1, <2>2
<1>5. ASSUME NEW p \in paths' PROVE OffPins(p.route, p.net)
  <2>1. CASE p \in paths
    BY <2>1 DEF PairInv
  <2>2. CASE p \notin paths
    <3>1. InstallNext(n)
      BY <2>2 DEF Work, StartOrder, RefuseOrder, FindRoute, DropUnavailable, RetryNode,
                  GiveUpNode, gridVars
    <3>2. PICK o \in options[n] : paths' = paths \cup {[net |-> n, route |-> Merged(o.path)]}
      BY <3>1, InstalledOption DEF PairInv
    <3>3. o.path \in Routes /\ OffPins(o.path, n)
      BY DEF PairInv
    <3>4. p = [net |-> n, route |-> o.path]
      BY <2>2, <3>2, <3>3, RouteIsMerged
    <3> QED
      BY <3>3, <3>4
  <2> QED
    BY <2>1, <2>2
<1>6. staged' = staged
  BY <1>2 DEF PairInv
<1>7. \A m \in Nets : \A o \in options'[m] : o.path \in Routes /\ OffPins(o.path, m)'
  BY <1>1, <1>4, <1>6, PinsUnmoved
<1>8. \A p \in paths' : OffPins(p.route, p.net)'
  BY <1>1, <1>5, <1>6, PinsUnmoved
<1> QED
  BY <1>1, <1>2, <1>3, <1>7, <1>8
  DEF PairInv, Running, OffPins, CrossesForeignPin, ForeignPins, Pins, EdgesOf, EdgeIndices,
      Edge, EdgeBetween, Across, Spans

LEMMA PairInitially == Init => PairInv
<1>1. Init => TypeInv
  BY TypeInitially
<1> QED
  BY <1>1 DEF Init, GridInit, PairInv, Running

LEMMA PairKept ==
    ASSUME PairsOnly, ~AutoCancel, PairInv, [Next]_vars
    PROVE  PairInv'
<1>1. CASE \E n \in Nets : Work(n)
  BY <1>1, PairPreserved
<1>2. CASE Idle
  <2>1. /\ nodes' = nodes /\ staged' = staged /\ node' = node /\ linked' = linked
        /\ options' = options /\ paths' = paths
    BY <1>2 DEF Idle, gridVars, orderVars
  <2>2. TypeInv'
    BY TypePreserved DEF PairInv
  <2> QED
    BY <2>1, <2>2, PinsUnmoved DEF PairInv, Running
<1> QED
  BY <1>1, <1>2, NextWorks

\* Between two nodes no wire is laid over the pin of another net, however many
\* threads run, as long as nothing cancels the staged pins.  (A path to a net
\* is found without looking at them.)
THEOREM PairsRespectPins == PairsOnly /\ ~AutoCancel => (Spec => []PinsAreRespected)
<1> SUFFICES ASSUME PairsOnly, ~AutoCancel PROVE Spec => []PinsAreRespected
  OBVIOUS
<1>1. PairInv /\ [Next]_vars => PairInv'
  BY PairKept
<1>2. PairInv => PinsAreRespected
  BY DEF PairInv, PinsAreRespected, OffPins, CrossesForeignPin, ForeignPins
<1> QED
  BY <1>1, <1>2, PairInitially, PTL DEF Spec
-----------------------------------------------------------------------------
\* What Flatten moves to another layer.

LEMMA SmallestNat ==
    ASSUME NEW S, S \subseteq Nat, S # {}
    PROVE  \E m \in S : \A k \in S : m <= k
<1> DEFINE R == OpToRel(<, Nat)
<1>1. IsWellFoundedOn(R, Nat)
  BY NatLessThanWellFounded
<1>2. PICK m \in S : \A y \in S : ~(<<y, m>> \in R)
  <2> HIDE DEF R
  <2> QED
    BY <1>1, WFMin
<1>3. \A k \in S : ~(k < m)
  BY <1>2 DEF R, OpToRel
<1> QED
  BY <1>3

\* Every second edge of a run of edges that could be flattened is: the choice
\* is made along the path, and there is one.
LEMMA FlatteningIsDefined ==
    ASSUME NEW N \in Nat, NEW S
    PROVE  \E f : f = [i \in 0..N |-> i > 0 /\ i \in S /\ ~f[i - 1]]
<1> DEFINE Upto(k) == \E f : f = [i \in 0..k |-> i > 0 /\ i \in S /\ ~f[i - 1]]
           Without == {k \in Nat : ~Upto(k)}
<1>1. SUFFICES ASSUME Without # {} PROVE FALSE
  OBVIOUS
<1>2. PICK m \in Without : \A k \in Without : m <= k
  <2>1. Without \subseteq Nat
    OBVIOUS
  <2> HIDE DEF Without
  <2> QED
    BY <1>1, <2>1, SmallestNat
<1>3. m # 0
  <2>1. SUFFICES Upto(0)
    BY <1>2
  <2>2. PICK f : f = [i \in 0..0 |-> FALSE]
    OBVIOUS
  <2>3. \A i \in 0..0 : (i > 0 /\ i \in S /\ ~f[i - 1]) = FALSE
    OBVIOUS
  <2>4. f = [i \in 0..0 |-> i > 0 /\ i \in S /\ ~f[i - 1]]
    BY <2>2, <2>3
  <2> QED
    BY <2>4
<1>4. m - 1 \in Nat /\ m - 1 \notin Without /\ m \in Nat
  BY <1>2, <1>3
<1>5. PICK f : f = [i \in 0..m - 1 |-> i > 0 /\ i \in S /\ ~f[i - 1]]
  BY <1>4
<1> DEFINE g == [i \in 0..m |-> IF i < m THEN f[i] ELSE m \in S /\ ~f[m - 1]]
<1>6. \A i \in 0..m : g[i] = (i > 0 /\ i \in S /\ ~g[i - 1])
  <2>1. \A i \in 0..m - 1 : f[i] = (i > 0 /\ i \in S /\ ~f[i - 1])
    <3> DEFINE F == [i \in 0..m - 1 |-> i > 0 /\ i \in S /\ ~f[i - 1]]
    <3>1. \A i \in 0..m - 1 : F[i] = (i > 0 /\ i \in S /\ ~f[i - 1])
      OBVIOUS
    <3>2. f = F
      BY <1>5
    <3> HIDE DEF F
    <3> QED
      BY <3>1, <3>2
  <2>2. TAKE i \in 0..m
  <2>3. CASE i = 0
    BY <1>3, <1>4, <2>1, <2>3
  <2>4. CASE i # 0 /\ i < m
    <3>1. i \in 0..m - 1 /\ i - 1 \in 0..m /\ i - 1 < m
      BY <1>4, <2>4
    <3>2. g[i] = f[i] /\ g[i - 1] = f[i - 1]
      BY <2>4, <3>1
    <3> QED
      BY <2>1, <3>1, <3>2
  <2>5. CASE i = m
    <3>1. m - 1 \in 0..m /\ m - 1 < m /\ m > 0
      BY <1>3, <1>4
    <3>2. g[m - 1] = f[m - 1] /\ g[m] = (m \in S /\ ~f[m - 1])
      BY <1>4, <3>1
    <3> QED
      BY <2>5, <3>1, <3>2
  <2> QED
    BY <1>4, <2>3, <2>4, <2>5
<1>7. g = [i \in 0..m |-> i > 0 /\ i \in S /\ ~g[i - 1]]
  BY <1>6
<1> HIDE DEF g
<1> QED
  BY <1>2, <1>7

\* An edge is flattened only between vertices too close for two vias, and only
\* when the path comes from the layer that it leaves on.
LEMMA FlattenedAreEnclosed ==
    ASSUME NEW r, Len(r) \in Nat, NEW start, NEW end, NEW i \in Flattened(r, start, end)
    PROVE  /\ AreNeighbours(r[i], r[i + 1])
           /\ EnteredFrom(r, i, start) = LeftOn(r, i, start, end)
<1> DEFINE N == Len(r) - 1
           flat[j \in 0..Len(r) - 1] ==
              /\ j > 0
              /\ TooCloseForVias(r[j], r[j + 1])
              /\ EnteredFrom(r, j, start) = LeftOn(r, j, start, end)
              /\ ~flat[j - 1]
           S == {j \in 0..Len(r) - 1 :
                    /\ TooCloseForVias(r[j], r[j + 1])
                    /\ EnteredFrom(r, j, start) = LeftOn(r, j, start, end)}
<1>1. Flattened(r, start, end) = {j \in EdgeIndices(r) : flat[j]}
  BY Zenon DEF Flattened
<1>2. \E f : f = [j \in 0..Len(r) - 1 |->
              /\ j > 0
              /\ TooCloseForVias(r[j], r[j + 1])
              /\ EnteredFrom(r, j, start) = LeftOn(r, j, start, end)
              /\ ~f[j - 1]]
  <2>0. N \in Nat
    BY DEF Flattened, EdgeIndices
  <2>1. PICK f : f = [j \in 0..N |-> j > 0 /\ j \in S /\ ~f[j - 1]]
    BY <2>0, FlatteningIsDefined
  <2> DEFINE F == [j \in 0..Len(r) - 1 |->
              /\ j > 0
              /\ TooCloseForVias(r[j], r[j + 1])
              /\ EnteredFrom(r, j, start) = LeftOn(r, j, start, end)
              /\ ~f[j - 1]]
  <2>2. F = [j \in 0..N |-> j > 0 /\ j \in S /\ ~f[j - 1]]
    OBVIOUS
  <2> QED
    BY <2>1, <2>2
<1>3. flat = [j \in 0..Len(r) - 1 |->
              /\ j > 0
              /\ TooCloseForVias(r[j], r[j + 1])
              /\ EnteredFrom(r, j, start) = LeftOn(r, j, start, end)
              /\ ~flat[j - 1]]
  BY <1>2, Zenon
<1> HIDE DEF flat
<1>4. i \in 0..Len(r) - 1 /\ flat[i]
  BY <1>1 DEF EdgeIndices
<1>5. TooCloseForVias(r[i], r[i + 1]) /\ EnteredFrom(r, i, start) = LeftOn(r, i, start, end)
  BY <1>3, <1>4
<1> QED
  BY <1>5 DEF TooCloseForVias

\* The wire between two neighbours of a track passes over no other vertex.
LEMMA ShortEdgeSpansEnds ==
    ASSUME NEW u \in Vertices, NEW w \in Vertices, NEW d \in Layers, OnTrack(u, w, d),
           AreNeighbours(u, w), NEW v \in Vertices, Spans(EdgeBetween(u, w), v)
    PROVE  v = u \/ v = w
<1>1. /\ u.horizontal \in Columns /\ u.vertical \in Rows
      /\ w.horizontal \in Columns /\ w.vertical \in Rows
      /\ v.horizontal \in Columns /\ v.vertical \in Rows
  BY DEF Vertices
<1>2. /\ u.horizontal \in Int /\ w.horizontal \in Int /\ v.horizontal \in Int
      /\ u.vertical \in Int /\ w.vertical \in Int /\ v.vertical \in Int
  BY <1>1, OffsetAssumption
<1>3. \A x, y \in Vertices : x.horizontal = y.horizontal /\ x.vertical = y.vertical => x = y
  BY DEF Vertices
<1>4. /\ ~((u.horizontal < v.horizontal /\ v.horizontal < w.horizontal)
           \/ (w.horizontal < v.horizontal /\ v.horizontal < u.horizontal))
      /\ ~((u.vertical < v.vertical /\ v.vertical < w.vertical)
           \/ (w.vertical < v.vertical /\ v.vertical < u.vertical))
  BY <1>1 DEF AreNeighbours, NoneBetween
<1>5. CASE d = "horizontal"
  <2>1. u.vertical = w.vertical
    BY <1>5 DEF OnTrack, Across
  <2>2. EdgeBetween(u, w) =
            [dir |-> "horizontal", at |-> u.vertical,
             lo |-> IF u.horizontal < w.horizontal THEN u.horizontal ELSE w.horizontal,
             hi |-> IF u.horizontal < w.horizontal THEN w.horizontal ELSE u.horizontal]
    BY <2>1 DEF EdgeBetween, Across
  <2>3. /\ v.vertical = u.vertical
        /\ (IF u.horizontal < w.horizontal THEN u.horizontal ELSE w.horizontal) <= v.horizontal
        /\ v.horizontal <= (IF u.horizontal < w.horizontal THEN w.horizontal ELSE u.horizontal)
    BY <2>2 DEF Spans, Across
  <2>4. v.horizontal = u.horizontal \/ v.horizontal = w.horizontal
    <3>1. CASE u.horizontal < w.horizontal
      BY <1>2, <1>4, <2>3, <3>1
    <3>2. CASE ~(u.horizontal < w.horizontal)
      BY <1>2, <1>4, <2>3, <3>2
    <3> QED
      BY <3>1, <3>2
  <2> QED
    BY <1>3, <2>1, <2>3, <2>4
<1>6. CASE d = "vertical"
  <2>1. u.horizontal = w.horizontal /\ u.vertical # w.vertical
    BY <1>6 DEF OnTrack, Across
  <2>2. EdgeBetween(u, w) =
            [dir |-> "vertical", at |-> u.horizontal,
             lo |-> IF u.vertical < w.vertical THEN u.vertical ELSE w.vertical,
             hi |-> IF u.vertical < w.vertical THEN w.vertical ELSE u.vertical]
    BY <2>1 DEF EdgeBetween, Across
  <2>3. /\ v.horizontal = u.horizontal
        /\ (IF u.vertical < w.vertical THEN u.vertical ELSE w.vertical) <= v.vertical
        /\ v.vertical <= (IF u.vertical < w.vertical THEN w.vertical ELSE u.vertical)
    BY <2>2 DEF Spans, Across
  <2>4. v.vertical = u.vertical \/ v.vertical = w.vertical
    <3>1. CASE u.vertical < w.vertical
      BY <1>2, <1>4, <2>3, <3>1
    <3>2. CASE ~(u.vertical < w.vertical)
      BY <1>2, <1>4, <2>3, <3>2
    <3> QED
      BY <3>1, <3>2
  <2> QED
    BY <1>3, <2>1, <2>3, <2>4
<1> QED
  BY <1>5, <1>6 DEF Layers

\* Why a net uses vertex v on layer l: a wire of that layer passes over or ends
\* at v, or the path begins or ends there and is reached from the port's layer.
Explains(r, v, l) ==
    \/ \E e \in EdgesOf(r) : e.dir = l /\ Spans(e, v)
    \/ v \in {r[1], r[Len(r)]} /\ l = PortLayer

\* Whichever layer Flatten moves an edge to, it is one that the path has at both
\* ends of the edge anyway.
LEMMA FlattenedStaysInPlace ==
    ASSUME GridTypeOK, NEW r \in Routes, \A e \in EdgesOf(r) : edgeLayer[e] = e.dir,
           NEW i \in Flattened(r, {PortLayer}, {PortLayer}), NEW v \in {r[i], r[i + 1]}
    PROVE  Explains(r, v, EnteredFrom(r, i, {PortLayer}))
<1> DEFINE l == EnteredFrom(r, i, {PortLayer})
<1>1. Len(r) \in Nat /\ i \in EdgeIndices(r)
  BY RouteShape DEF Flattened
<1>2. l = LeftOn(r, i, {PortLayer}, {PortLayer})
  BY <1>1, FlattenedAreEnclosed
<1>3. \A j \in EdgeIndices(r) :
        /\ Edge(r, j) \in EdgesOf(r) /\ edgeLayer[Edge(r, j)] = Edge(r, j).dir
        /\ Spans(Edge(r, j), r[j]) /\ Spans(Edge(r, j), r[j + 1])
  BY RouteShape, EdgeSpansEnds DEF Edge, EdgesOf
<1>4. l \in Layers /\ PortLayer \in Layers
  BY <1>1, LayerOfEntry, PortAssumption
<1>5. CASE l = Edge(r, i).dir
  BY <1>1, <1>3, <1>5 DEF Explains
<1>6. CASE l # Edge(r, i).dir /\ v = r[i] /\ i > 1
  <2>1. i - 1 \in EdgeIndices(r) /\ (i - 1) + 1 = i
    BY <1>1, <1>6 DEF EdgeIndices
  <2>2. l = Edge(r, i - 1).dir
    BY <1>3, <1>6, <2>1 DEF EnteredFrom
  <2> QED
    BY <1>3, <1>6, <2>1, <2>2 DEF Explains
<1>7. CASE l # Edge(r, i).dir /\ v = r[i + 1] /\ i < Len(r) - 1
  <2>1. i + 1 \in EdgeIndices(r)
    BY <1>1, <1>7 DEF EdgeIndices
  <2>2. l = Edge(r, i + 1).dir
    BY <1>2, <1>3, <1>7, <2>1 DEF LeftOn
  <2> QED
    BY <1>3, <1>7, <2>1, <2>2 DEF Explains
<1>8. CASE l # Edge(r, i).dir /\ v = r[i] /\ ~(i > 1)
  <2>1. i = 1
    BY <1>1, <1>8 DEF EdgeIndices
  <2> DEFINE S == {edgeLayer[Edge(r, j)] : j \in EdgeIndices(r) \cap {1, 2}}
  <2>2. l = PickSource(S, {PortLayer})
    BY <1>8 DEF EnteredFrom
  <2>3. l \in S /\ (PortLayer \in S => l = PortLayer)
    <3>1. S # {} /\ S \subseteq Layers
      BY <1>1, <1>3, <2>1, RouteTurns
    <3> HIDE DEF S, l
    <3> QED
      BY <1>4, <2>2, <3>1, LayerAssumption DEF PickSource, PickLowest, UpperLayer, Layers
  <2>4. 2 \in EdgeIndices(r) /\ S = {Edge(r, 1).dir, Edge(r, 2).dir}
    BY <1>1, <1>3, <1>8, <2>1, <2>3
  <2>5. Edge(r, 1).dir \in Layers /\ Edge(r, 2).dir = Across(Edge(r, 1).dir)
    BY <1>1, <2>1, <2>4, RouteTurns
  <2>6. S = Layers
    BY <2>4, <2>5 DEF Layers, Across
  <2> QED
    BY <1>4, <1>8, <2>1, <2>3, <2>6 DEF Explains
<1>9. CASE l # Edge(r, i).dir /\ v = r[i + 1] /\ ~(i < Len(r) - 1)
  <2>1. i = Len(r) - 1 /\ i + 1 = Len(r)
    BY <1>1, <1>9 DEF EdgeIndices
  <2> DEFINE S == {l, Edge(r, i).dir}
  <2>2. l = PickSource(S, {PortLayer})
    BY <1>1, <1>2, <1>3, <1>9 DEF LeftOn
  <2>3. S = Layers
    BY <1>1, <1>4, <1>9, RouteTurns DEF Layers
  <2>4. l = PortLayer
    BY <1>4, <2>2, <2>3, LayerAssumption DEF PickSource, PickLowest, UpperLayer, Layers
  <2> QED
    BY <1>9, <2>1, <2>4 DEF Explains
<1> QED
  BY <1>5, <1>6, <1>7, <1>8, <1>9

LEMMA LayersAreExplained ==
    ASSUME GridTypeOK, NEW r \in Routes, \A e \in EdgesOf(r) : edgeLayer[e] = e.dir,
           NEW i \in EdgeIndices(r), NEW v \in Vertices, Spans(Edge(r, i), v)
    PROVE  Explains(r, v, LayersInPath(r, {PortLayer}, {PortLayer})[i])
<1> DEFINE flat == Flattened(r, {PortLayer}, {PortLayer})
<1>1. LayersInPath(r, {PortLayer}, {PortLayer})[i] =
        IF i \in flat THEN EnteredFrom(r, i, {PortLayer}) ELSE edgeLayer[Edge(r, i)]
  BY DEF LayersInPath
<1>2. CASE i \in flat
  <2>1. AreNeighbours(r[i], r[i + 1])
    BY <1>2, RouteShape, FlattenedAreEnclosed
  <2>2. v \in {r[i], r[i + 1]}
    BY <2>1, RouteShape, ShortEdgeSpansEnds DEF Edge
  <2> QED
    BY <1>1, <1>2, <2>2, FlattenedStaysInPlace
<1>3. CASE i \notin flat
  BY <1>1, <1>3 DEF Explains, EdgesOf
<1> QED
  BY <1>2, <1>3

\* Two wires of a layer that pass one vertex overlap, or else both end there.
LEMMA WiresMeetAtEnds ==
    ASSUME NEW e \in Edges, NEW f \in Edges, e.dir = f.dir,
           NEW v \in Vertices, Spans(e, v), Spans(f, v), ~SharesMetal(e, f)
    PROVE  v[f.dir] = f.lo \/ v[f.dir] = f.hi
<1>1. e.lo \in Int /\ e.hi \in Int /\ f.lo \in Int /\ f.hi \in Int
  BY OffsetAssumption DEF Edges
<1>2. e.lo < e.hi /\ f.lo < f.hi /\ f.dir \in Layers
  BY DEF Edges, Layers
<1>3. v[f.dir] \in Int /\ \E S \in {Columns, Rows} :
          e.lo \in S /\ e.hi \in S /\ f.lo \in S /\ f.hi \in S
  <2>1. CASE f.dir = "horizontal"
    <3>1. e.lo \in Columns /\ e.hi \in Columns /\ f.lo \in Columns /\ f.hi \in Columns
      BY <2>1 DEF Edges
    <3> QED
      BY <2>1, <3>1, OffsetAssumption DEF Vertices
  <2>2. CASE f.dir = "vertical"
    <3>1. e.lo \in Rows /\ e.hi \in Rows /\ f.lo \in Rows /\ f.hi \in Rows
      BY <2>2 DEF Edges
    <3> QED
      BY <2>2, <3>1, OffsetAssumption DEF Vertices
  <2> QED
    BY <1>2, <2>1, <2>2 DEF Layers
<1>4. /\ f.lo < e.lo => f.lo + 2 <= e.lo
      /\ e.lo < f.hi => e.lo + 2 <= f.hi
      /\ f.lo < e.hi => f.lo + 2 <= e.hi
      /\ e.hi < f.hi => e.hi + 2 <= f.hi
      /\ f.lo + 2 <= f.hi
  BY <1>2, <1>3, PitchAssumption
<1>5. e # f /\ f.at = e.at /\ ~Blocks(e.lo, e.hi, f.lo + 1, f.hi - 1)
  BY DEF SharesMetal, Touches, Spans
<1>6. e.lo <= v[f.dir] /\ v[f.dir] <= e.hi /\ f.lo <= v[f.dir] /\ v[f.dir] <= f.hi
  BY DEF Spans
<1>7. ~(f.lo < e.hi /\ e.lo < f.hi)
  BY <1>1, <1>4, <1>5 DEF Blocks
<1> QED
  BY <1>1, <1>3, <1>6, <1>7

\* Where a wire of a route ends is a vertex of the route.
LEMMA EdgeEndsOnRoute ==
    ASSUME NEW r \in Routes, NEW i \in EdgeIndices(r), NEW v \in Vertices,
           Spans(Edge(r, i), v),
           v[Edge(r, i).dir] = Edge(r, i).lo \/ v[Edge(r, i).dir] = Edge(r, i).hi
    PROVE  v \in VerticesOf(r)
<1>1. PICK d \in Layers : OnTrack(r[i], r[i + 1], d)
  BY RouteShape
<1>2. r[i] \in Vertices /\ r[i + 1] \in Vertices
  BY RouteShape
<1>3. r[i] \in VerticesOf(r) /\ r[i + 1] \in VerticesOf(r)
  <2>1. PICK k \in 2..MaxCorners : r \in [1..k -> Vertices]
    BY DEF Routes
  <2>2. i \in DOMAIN r /\ i + 1 \in DOMAIN r
    BY <2>1, BoundAssumption DEF EdgeIndices
  <2> QED
    BY <2>2 DEF VerticesOf
<1>4. Edge(r, i).dir = d
  BY <1>1, <1>2, DirectionOfEdge DEF Edge
<1>5. Spans(Edge(r, i), r[i])
  BY <1>1, <1>2, EdgeSpansEnds DEF Edge
<1>6. r[i + 1][Across(d)] = r[i][Across(d)] /\ v[Across(d)] = r[i][Across(d)]
  BY <1>1, <1>4, <1>5 DEF OnTrack, Spans
<1>7. v[d] = r[i][d] \/ v[d] = r[i + 1][d]
  <2>1. /\ Edge(r, i).lo = r[i][d] \/ Edge(r, i).lo = r[i + 1][d]
        /\ Edge(r, i).hi = r[i][d] \/ Edge(r, i).hi = r[i + 1][d]
    BY <1>4 DEF Edge, EdgeBetween
  <2> QED
    BY <1>4, <2>1
<1>8. \A x, y \in Vertices : x[d] = y[d] /\ x[Across(d)] = y[Across(d)] => x = y
  <2>1. \A x, y \in Vertices : x.horizontal = y.horizontal /\ x.vertical = y.vertical => x = y
    BY DEF Vertices
  <2> QED
    BY <2>1 DEF Layers, Across
<1> QED
  BY <1>2, <1>3, <1>6, <1>7, <1>8

\* What a path that is installed between two ports adds to the use of a vertex.
LEMMA NewUsesAreExplained ==
    ASSUME GridTypeOK, NEW n \in Nets, NEW r \in Routes,
           \A e \in EdgesOf(r) : edgeLayer[e] = e.dir,
           Assign(n, r, {PortLayer}, {PortLayer}),
           NEW v \in Vertices, NEW use \in using'[v]
    PROVE  use \in using[v] \/ (use[1] = n /\ Explains(r, v, use[2]))
<1> DEFINE on == LayersInPath(r, {PortLayer}, {PortLayer})
           entry == PickTarget({on[1]}, {PortLayer})
           exit == PickTarget({on[Len(r) - 1]}, {PortLayer})
           layersAt(w) == {on[i] : i \in {j \in EdgeIndices(r) : Spans(Edge(r, j), w)}}
                          \cup {l \in {entry} : w = r[1]}
                          \cup {l \in {exit} : w = r[Len(r)]}
<1>1. using' = [w \in Vertices |-> using[w] \cup ({n} \X layersAt(w))]
  BY DEF Assign, MarkVerticesAsUsed, AddUsingNet
<1>2. entry = PortLayer /\ exit = PortLayer
  <2>1. \A S : PickTarget(S, {PortLayer}) = PortLayer
    BY PortAssumption, LayerAssumption DEF PickTarget, PickLowest, UpperLayer, Layers
  <2> QED
    BY <2>1
<1>3. \A i \in EdgeIndices(r) : Spans(Edge(r, i), v) => Explains(r, v, on[i])
  BY LayersAreExplained
<1> HIDE DEF on, entry, exit
<1>4. use \in using[v] \/ use \in {n} \X layersAt(v)
  BY <1>1
<1>5. CASE use \in {n} \X layersAt(v)
  <2>1. use[1] = n /\ use[2] \in layersAt(v)
    BY <1>5
  <2>2. \/ \E i \in EdgeIndices(r) : Spans(Edge(r, i), v) /\ use[2] = on[i]
        \/ v \in {r[1], r[Len(r)]} /\ use[2] = PortLayer
    BY <1>2, <2>1
  <2> QED
    BY <1>3, <2>1, <2>2 DEF Explains
<1> QED
  BY <1>4, <1>5
-----------------------------------------------------------------------------
\* Serial orders of at most two nodes: each net has at most one path, and what
\* it uses is explained by that path.

\* Each vertex of what was found is open on some layer.
FoundIsOpen ==
    \A n \in Nets : \A o \in options[n] :
        /\ o.access = {PortLayer}
        /\ \A v \in VerticesOf(o.path) :
               \E l \in Layers : \A use \in using[v] : use[2] = l => use[1] = n

EndsArePins ==
    \A p \in paths : {p.route[1], p.route[Len(p.route)]} \subseteq Pins(p.net)

UsesAreExplained ==
    \A v \in Vertices : \A use \in using[v] :
        \E p \in paths : p.net = use[1] /\ Explains(p.route, v, use[2])

\* An edge that is not on the layer of its track was flattened by a path.
MovedAreInstalled ==
    \A e \in Edges : edgeLayer[e] # e.dir => \E p \in paths : e \in EdgesOf(p.route)

LayersInv ==
    /\ JoinInv /\ SerialInv /\ PairInv
    /\ FoundIsOpen /\ EndsArePins /\ UsesAreExplained /\ MovedAreInstalled
    /\ LayersAreDisjoint

LEMMA InstalledPair ==
    ASSUME LayersInv, NEW n \in Nets, InstallNext(n)
    PROVE  /\ PathsOf(n) = {}
           /\ \E o \in options[n] :
                 /\ CheckStillAvailable(n, o.path)
                 /\ Assign(n, o.path, {PortLayer}, {PortLayer})
                 /\ o.path \in Routes
                 /\ paths' = paths \cup {[net |-> n, route |-> o.path]}
                 /\ \A e \in EdgesOf(o.path) : edgeLayer[e] = e.dir
<1>1. PICK o \in options[n] : InstallPath(n, o.path, {PortLayer}, o.access)
  BY DEF InstallNext, NextOptions
<1>2. o.access = {PortLayer} /\ o.path \in Routes /\ Merged(o.path) = o.path
  BY RouteIsMerged DEF LayersInv, FoundIsOpen, PairInv
<1>3. PathsOf(n) = {}
  BY DEF LayersInv, PairInv, JoinInv, UnlinkedHaveNone, InstallNext
<1>4. ASSUME NEW e \in EdgesOf(o.path) PROVE edgeLayer[e] = e.dir
  <2>1. e \in Edges
    BY <1>2, EdgesOfRoute
  <2>2. SUFFICES ASSUME NEW p \in paths, e \in EdgesOf(p.route) PROVE FALSE
    BY <2>1 DEF LayersInv, MovedAreInstalled
  <2>3. p.net # n
    BY <1>3 DEF PathsOf
  <2>4. ~SharesMetal(e, e)
    BY <1>2, <2>2, <2>3 DEF LayersInv, SerialInv, FoundIsClear, IsClear
  <2> QED
    BY <2>4 DEF SharesMetal
<1>5. CheckStillAvailable(n, o.path) /\ Assign(n, o.path, {PortLayer}, {PortLayer})
  BY <1>1, <1>2, InstallAssigns
<1>6. paths' = paths \cup {[net |-> n, route |-> o.path]}
  BY <1>5 DEF Assign
<1> QED
  BY <1>2, <1>3, <1>4, <1>5, <1>6

\* CheckStillAvailable refuses a vertex in use by one other net, and the search
\* one that has no layer left; so no other net uses a vertex of the path.
LEMMA InstalledVerticesAreUnused ==
    ASSUME LayersInv, NEW n \in Nets, PathsOf(n) = {}, NEW o \in options[n],
           CheckStillAvailable(n, o.path), NEW v \in VerticesOf(o.path), v \in Vertices
    PROVE  using[v] = {}
<1> SUFFICES ASSUME NEW use \in using[v] PROVE FALSE
  OBVIOUS
<1>1. \A u \in using[v] : u[1] # n /\ u[1] \in Nets /\ u[2] \in Layers
  BY TypeParts DEF LayersInv, UsesAreExplained, PathsOf, JoinInv, TypeInv, GridTypeOK
<1>2. UsingNets(v) # {use[1]}
  BY <1>1 DEF CheckStillAvailable, InUseBySingleNet
<1>3. PICK other \in using[v] : other[1] # use[1]
  BY <1>2 DEF UsingNets
<1>4. other[2] # use[2]
  BY <1>3 DEF LayersInv, LayersAreDisjoint
<1>5. PICK l \in Layers : \A u \in using[v] : u[2] = l => u[1] = n
  BY DEF LayersInv, FoundIsOpen
<1> QED
  BY <1>1, <1>3, <1>4, <1>5 DEF Layers

LEMMA NewUsesAreApart ==
    ASSUME LayersInv, NEW n \in Nets, NEW o \in options[n], PathsOf(n) = {},
           o.path \in Routes, CheckStillAvailable(n, o.path),
           NEW v \in Vertices, NEW use \in using[v], Explains(o.path, v, use[2])
    PROVE  FALSE
<1>1. v \notin VerticesOf(o.path)
  BY InstalledVerticesAreUnused
<1>2. PICK p \in paths : p.net = use[1] /\ Explains(p.route, v, use[2])
  BY DEF LayersInv, UsesAreExplained
<1>3. p.net # n /\ p.net \in Nets /\ p.route \in Routes
  BY <1>2, TypeParts DEF PathsOf, LayersInv, JoinInv, TypeInv, GridTypeOK
<1>4. v # o.path[1] /\ v # o.path[Len(o.path)]
  <2>1. PICK k \in 2..MaxCorners : o.path \in [1..k -> Vertices]
    BY DEF Routes
  <2>2. 1 \in DOMAIN o.path /\ Len(o.path) \in DOMAIN o.path
    BY <2>1, BoundAssumption
  <2> QED
    BY <1>1, <2>2 DEF VerticesOf
<1>5. PICK i \in EdgeIndices(o.path) :
          Edge(o.path, i).dir = use[2] /\ Spans(Edge(o.path, i), v)
  BY <1>4 DEF Explains, EdgesOf
<1> DEFINE f == Edge(o.path, i)
<1>6. f \in EdgesOf(o.path) /\ f \in Edges
  BY EdgeOfRoute DEF EdgesOf
<1>7. CASE \E e \in EdgesOf(p.route) : e.dir = use[2] /\ Spans(e, v)
  <2>1. PICK e \in EdgesOf(p.route) : e.dir = use[2] /\ Spans(e, v)
    BY <1>7
  <2>2. ~SharesMetal(e, f)
    BY <1>3, <1>6, RouteIsMerged DEF LayersInv, SerialInv, FoundIsClear, IsClear
  <2>3. e \in Edges
    BY <1>3, EdgesOfRoute
  <2>4. v[f.dir] = f.lo \/ v[f.dir] = f.hi
    BY <1>5, <1>6, <2>1, <2>2, <2>3, WiresMeetAtEnds
  <2> QED
    BY <1>1, <1>5, <2>4, EdgeEndsOnRoute
<1>8. CASE v \in {p.route[1], p.route[Len(p.route)]} /\ use[2] = PortLayer
  <2>1. v \in Pins(p.net)
    BY <1>8 DEF LayersInv, EndsArePins
  <2>2. v \in ForeignPins(n)
    BY <1>3, <2>1 DEF LayersInv, PairInv, ForeignPins
  <2>3. ~CrossesForeignPin(f, n)
    BY <1>6 DEF LayersInv, PairInv, OffPins
  <2> QED
    BY <1>5, <1>8, <2>2, <2>3 DEF CrossesForeignPin
<1> QED
  BY <1>2, <1>7, <1>8 DEF Explains

\* The next step keeps the five conjuncts.
LEMMA SearchLeavesOpenLayers ==
    ASSUME GridTypeOK, NEW n, NEW r \in Routes, VerticesUsable(r, n), NEW v \in VerticesOf(r)
    PROVE  \E l \in Layers : \A use \in using[v] : use[2] = l => use[1] = n
<1>1. v \in Vertices
  BY VerticesOfRoute
<1>2. AvailableOnAnyLayer(v, n)
  BY DEF VerticesUsable, VerticesOf
<1>3. PICK l \in layers[v] : VertexAvailable(v, n, {l})
  BY <1>2 DEF AvailableOnAnyLayer
<1>4. l \in Layers
  BY <1>1, <1>3 DEF GridTypeOK
<1> QED
  BY <1>3, <1>4 DEF VertexAvailable

LEMMA FoundByFindRouteIsOpen ==
    ASSUME LayersInv, NEW n \in Nets, FindRoute(n), NEW o \in options'[n]
    PROVE  /\ o.access = {PortLayer}
           /\ \A v \in VerticesOf(o.path) :
                  \E l \in Layers : \A use \in using[v] : use[2] = l => use[1] = n
<1>1. OrderTypeOK /\ GridTypeOK /\ Running(n) /\ ~linked[n]
  BY TypeParts DEF LayersInv, PairInv, TypeInv, FindRoute
<1>2. CASE o \in options[n]
  BY <1>2 DEF LayersInv, FoundIsOpen
<1>3. CASE o \notin options[n]
  <2>1. PICK job \in todo[n] : \E r \in Shortest(n, job) : o \in OptionsOf(r, n, linked[n])
    BY <1>1, <1>3, NewOptions
  <2>2. PICK r \in Shortest(n, job) : o \in OptionsOf(r, n, linked[n])
    BY <2>1
  <2>3. o.path = r /\ o.access = {PortLayer} /\ r \in Routes /\ VerticesUsable(r, n)
    BY <1>1, <2>2, ShortestIsRoute, OptionShape
  <2> QED
    BY <1>1, <2>3, SearchLeavesOpenLayers
<1> QED
  BY <1>2, <1>3

LEMMA FoundIsOpenPreserved ==
    ASSUME LayersInv, NEW n \in Nets, Work(n)
    PROVE  FoundIsOpen'
<1>1. TypeInv /\ OrderTypeOK
  BY TypeParts DEF LayersInv, SerialInv, TypeInv
<1> SUFFICES ASSUME NEW m \in Nets, NEW o \in options'[m]
             PROVE  /\ o.access = {PortLayer}
                    /\ \A v \in VerticesOf(o.path) :
                           \E l \in Layers : \A use \in using'[v] : use[2] = l => use[1] = m
  BY DEF FoundIsOpen, VerticesOf
<1>2. CASE InstallNext(n)
  <2>1. options'[n] = {} /\ Running(n)
    BY <1>1, <1>2 DEF InstallNext, GoTo, OrderTypeOK
  <2>2. m # n /\ o \in options[m]
    BY <1>1, <2>1, WorkMovesOne
  <2>3. Running(m)
    BY <2>2 DEF LayersInv, SerialInv, FoundIsClear
  <2> QED
    BY <1>1, <2>1, <2>2, <2>3, RunningAlone DEF LayersInv, SerialInv
<1>3. CASE ~InstallNext(n)
  <2>1. using' = using
    BY <1>3, OnlyInstallNextMovesTheGrid
  <2>2. CASE o \in options[m]
    BY <2>1, <2>2 DEF LayersInv, FoundIsOpen
  <2>3. CASE o \notin options[m]
    <3>1. m = n
      BY <1>1, <2>3, WorkMovesOne
    <3>2. FindRoute(n)
      BY <1>1, <1>3, <2>3, <3>1
      DEF Work, StartOrder, RefuseOrder, DropUnavailable, RetryNode, GiveUpNode, GoTo,
          OrderTypeOK
    <3> QED
      BY <2>1, <3>1, <3>2, FoundByFindRouteIsOpen
  <2> QED
    BY <2>2, <2>3
<1> QED
  BY <1>2, <1>3

LEMMA EndsArePinsPreserved ==
    ASSUME LayersInv, NEW n \in Nets, Work(n)
    PROVE  EndsArePins'
<1>1. nodes' = nodes /\ TypeInv /\ OrderTypeOK /\ nodes \in Problems /\ PastFirst
  BY WorkIsLocal, TypeParts DEF LayersInv, SerialInv, TypeInv
<1> SUFFICES ASSUME NEW p \in paths'
             PROVE  {p.route[1], p.route[Len(p.route)]} \subseteq Pins(p.net)
  BY <1>1 DEF EndsArePins, Pins
<1>2. CASE p \in paths
  BY <1>2 DEF LayersInv, EndsArePins
<1>3. CASE p \notin paths
  <2>1. InstallNext(n)
    BY <1>3, OnlyInstallNextMovesTheGrid
  <2>2. PICK o \in options[n] : p = [net |-> n, route |-> o.path]
    BY <1>3, <2>1, InstalledPair
  <2>3. /\ Running(n) /\ ~linked[n]
        /\ o.path[1] \in nodes[n][node[n]]
        /\ o.path[Len(o.path)] \in nodes[n][node[n] - 1]
    BY DEF LayersInv, JoinInv, OptionsJoin, PairInv
  <2>4. node[n] \in DOMAIN nodes[n] /\ node[n] - 1 \in DOMAIN nodes[n]
    <3>1. node[n] \in Nat /\ node[n] >= 2 /\ node[n] \in 1..Len(nodes[n])
      BY <1>1, <2>3 DEF PastFirst, OrderTypeOK, Running
    <3> QED
      BY <1>1, <3>1, NodesAreSequences
  <2> QED
    BY <2>2, <2>3, <2>4 DEF Pins
<1> QED
  BY <1>2, <1>3

LEMMA UsesAreExplainedPreserved ==
    ASSUME LayersInv, NEW n \in Nets, Work(n)
    PROVE  UsesAreExplained'
<1> SUFFICES ASSUME NEW v \in Vertices, NEW use \in using'[v]
             PROVE  \E p \in paths' : p.net = use[1] /\ Explains(p.route, v, use[2])
  BY DEF UsesAreExplained, Explains, EdgesOf, EdgeIndices, Edge, EdgeBetween, Across, Spans
<1>1. CASE use \in using[v]
  BY <1>1, PathsGrow DEF LayersInv, UsesAreExplained
<1>2. CASE use \notin using[v]
  <2>1. InstallNext(n)
    BY <1>2, OnlyInstallNextMovesTheGrid
  <2>2. PICK o \in options[n] :
          /\ Assign(n, o.path, {PortLayer}, {PortLayer})
          /\ o.path \in Routes
          /\ paths' = paths \cup {[net |-> n, route |-> o.path]}
          /\ \A e \in EdgesOf(o.path) : edgeLayer[e] = e.dir
    BY <2>1, InstalledPair
  <2>3. use[1] = n /\ Explains(o.path, v, use[2])
    BY <1>2, <2>2, NewUsesAreExplained, TypeParts DEF LayersInv, JoinInv, TypeInv
  <2>4. PICK p \in paths' : p = [net |-> n, route |-> o.path]
    BY <2>2
  <2>5. p.net = use[1] /\ Explains(p.route, v, use[2])
    BY <2>3, <2>4
  <2> QED
    BY <2>5
<1> QED
  BY <1>1, <1>2

LEMMA MovedAreInstalledPreserved ==
    ASSUME LayersInv, NEW n \in Nets, Work(n)
    PROVE  MovedAreInstalled'
<1> SUFFICES ASSUME NEW e \in Edges, edgeLayer'[e] # e.dir
             PROVE  \E p \in paths' : e \in EdgesOf(p.route)
  BY DEF MovedAreInstalled, EdgesOf, EdgeIndices, Edge, EdgeBetween, Across
<1>1. CASE edgeLayer'[e] = edgeLayer[e]
  BY <1>1, PathsGrow DEF LayersInv, MovedAreInstalled
<1>2. CASE edgeLayer'[e] # edgeLayer[e]
  <2>1. InstallNext(n)
    BY <1>2, OnlyInstallNextMovesTheGrid DEF gridVars
  <2>2. PICK o \in options[n] :
          /\ Assign(n, o.path, {PortLayer}, {PortLayer})
          /\ paths' = paths \cup {[net |-> n, route |-> o.path]}
    BY <2>1, InstalledPair
  <2>3. e \in EdgesOf(o.path)
    BY <1>2, <2>2 DEF Assign, SetLayers, EdgesOf
  <2>4. PICK p \in paths' : p = [net |-> n, route |-> o.path]
    BY <2>2
  <2>5. e \in EdgesOf(p.route)
    BY <2>3, <2>4
  <2> QED
    BY <2>5
<1> QED
  BY <1>1, <1>2

LEMMA LayersAreDisjointPreserved ==
    ASSUME LayersInv, NEW n \in Nets, Work(n)
    PROVE  LayersAreDisjoint'
<1>1. CASE InstallNext(n)
  <2>1. PICK o \in options[n] :
          /\ CheckStillAvailable(n, o.path)
          /\ Assign(n, o.path, {PortLayer}, {PortLayer})
          /\ o.path \in Routes
          /\ \A e \in EdgesOf(o.path) : edgeLayer[e] = e.dir
    BY <1>1, InstalledPair
  <2>2. CheckStillAvailable(n, o.path) /\ PathsOf(n) = {}
    BY <1>1, <2>1, InstalledPair
  <2>3. \A v \in Vertices : \A use \in using'[v] :
           use \in using[v] \/ (use[1] = n /\ Explains(o.path, v, use[2]))
    BY <2>1, NewUsesAreExplained, TypeParts DEF LayersInv, JoinInv, TypeInv
  <2> SUFFICES ASSUME NEW v \in Vertices, NEW use1 \in using'[v], NEW use2 \in using'[v],
                      use1[2] = use2[2]
               PROVE  use1[1] = use2[1]
    BY DEF LayersAreDisjoint
  <2>4. CASE use1 \in using[v] /\ use2 \in using[v]
    BY <2>4 DEF LayersInv, LayersAreDisjoint
  <2>5. CASE use1 \notin using[v] /\ use2 \notin using[v]
    BY <2>3, <2>5
  <2>6. CASE use1 \in using[v] /\ use2 \notin using[v]
    <3>1. Explains(o.path, v, use1[2])
      BY <2>3, <2>6
    <3> QED
      BY <2>1, <2>2, <2>6, <3>1, NewUsesAreApart
  <2>7. CASE use1 \notin using[v] /\ use2 \in using[v]
    <3>1. Explains(o.path, v, use2[2])
      BY <2>3, <2>7
    <3> QED
      BY <2>1, <2>2, <2>7, <3>1, NewUsesAreApart
  <2> QED
    BY <2>4, <2>5, <2>6, <2>7
<1>2. CASE ~InstallNext(n)
  BY <1>2, OnlyInstallNextMovesTheGrid DEF LayersInv, LayersAreDisjoint
<1> QED
  BY <1>1, <1>2

\* Serial orders of two nodes, whose pins stay staged, never use a vertex on the
\* layer on which another net uses it, be it by a wire that passes over it, by a
\* flattened edge or by the via to a port, on any grid.
THEOREM SerialLayersAreDisjoint ==
    Jobs = 1 /\ PairsOnly /\ ~AutoCancel => (Spec => []LayersAreDisjoint)
<1> SUFFICES ASSUME Jobs = 1, PairsOnly, ~AutoCancel PROVE Spec => []LayersAreDisjoint
  OBVIOUS
<1>1. Init => LayersInv
  <2> SUFFICES ASSUME Init PROVE LayersInv
    OBVIOUS
  <2>1. JoinInv /\ SerialInv
    BY JoinInitially, SerialInitially
  <2>2. PairInv
    BY PairInitially
  <2>3. FoundIsOpen /\ EndsArePins /\ UsesAreExplained /\ LayersAreDisjoint
    BY DEF Init, GridInit, FoundIsOpen, EndsArePins, UsesAreExplained, LayersAreDisjoint
  <2>4. MovedAreInstalled
    BY DEF Init, GridInit, MovedAreInstalled
  <2> QED
    BY <2>1, <2>2, <2>3, <2>4 DEF LayersInv
<1>2. LayersInv /\ [Next]_vars => LayersInv'
  <2> SUFFICES ASSUME LayersInv, [Next]_vars PROVE LayersInv'
    OBVIOUS
  <2>1. JoinInv' /\ SerialInv' /\ PairInv'
    BY JoinPreserved, SerialPreserved, PairKept DEF LayersInv
  <2>2. ASSUME NEW n \in Nets, Work(n)
        PROVE  /\ FoundIsOpen' /\ EndsArePins' /\ UsesAreExplained' /\ MovedAreInstalled'
               /\ LayersAreDisjoint'
    BY <2>2, FoundIsOpenPreserved, EndsArePinsPreserved, UsesAreExplainedPreserved,
       MovedAreInstalledPreserved, LayersAreDisjointPreserved
  <2>3. CASE Idle
    <3>1. /\ options' = options /\ paths' = paths /\ nodes' = nodes /\ using' = using
          /\ edgeLayer' = edgeLayer
      BY <2>3 DEF Idle, gridVars, orderVars
    <3>2. FoundIsOpen' /\ LayersAreDisjoint' /\ EndsArePins'
      <4>1. FoundIsOpen'
        BY <3>1 DEF LayersInv, FoundIsOpen, VerticesOf
      <4>2. LayersAreDisjoint'
        BY <3>1 DEF LayersInv, LayersAreDisjoint
      <4>3. EndsArePins'
        <5> SUFFICES ASSUME NEW p \in paths'
                     PROVE  {p.route[1], p.route[Len(p.route)]} \subseteq Pins(p.net)
          BY <3>1 DEF EndsArePins, Pins
        <5> QED
          BY <3>1 DEF LayersInv, EndsArePins
      <4> QED
        BY <4>1, <4>2, <4>3
    <3>3. UsesAreExplained'
      BY <3>1 DEF LayersInv, UsesAreExplained, Explains, EdgesOf, EdgeIndices, Edge,
                  EdgeBetween, Across, Spans
    <3>4. MovedAreInstalled'
      <4> SUFFICES ASSUME NEW e \in Edges, edgeLayer'[e] # e.dir
                   PROVE  \E p \in paths' : e \in EdgesOf(p.route)
        BY DEF MovedAreInstalled, EdgesOf, EdgeIndices, Edge, EdgeBetween, Across
      <4> QED
        BY <3>1 DEF LayersInv, MovedAreInstalled
    <3> QED
      BY <2>1, <3>2, <3>3, <3>4 DEF LayersInv
  <2> QED
    BY <2>1, <2>2, <2>3, NextWorks DEF LayersInv
<1>3. LayersInv => LayersAreDisjoint
  BY DEF LayersInv
<1> QED
  BY <1>1, <1>2, <1>3, PTL DEF Spec


(***************************************************************************)
(* Part 4: the steps of ShortestPath, whatever the vertices and edges may be*)
(* used for: the back-pointers always lead to the vertex the search began  *)
(* from, even though the queue need not stay a heap and costs are lowered  *)
(* behind it.                                                              *)
(***************************************************************************)

-----------------------------------------------------------------------------
\* The heap: its operations keep to the vertices there are, in any order.

LEMMA MoveUpKeeps ==
    ASSUME NEW S, NEW q \in Seq(S), NEW i, NEW w \in S, NEW cost
    PROVE  MoveUp(q, i, w, cost) \in Seq(S)
<1> DEFINE ends[j \in 1..i] ==
               IF j > 1 /\ cost[q[j \div 2]] > cost[w] THEN ends[j \div 2] ELSE j
           passed[j \in 1..i] ==
               IF j <= ends[i] THEN {} ELSE {j} \cup passed[j \div 2]
           moved == [j \in DOMAIN q |-> IF j = ends[i] THEN w
                                        ELSE IF j \in passed[i] \ {1} THEN q[j \div 2]
                                        ELSE q[j]]
<1>1. MoveUp(q, i, w, cost) = moved
  BY DEF MoveUp
<1> HIDE DEF ends, passed
<1>2. Len(q) \in Nat /\ DOMAIN q = 1..Len(q) /\ \A j \in 1..Len(q) : q[j] \in S
  OBVIOUS
<1>3. \A j \in 1..Len(q) : j # 1 => j \div 2 \in 1..Len(q)
  BY <1>2
<1>4. moved \in [1..Len(q) -> S]
  BY <1>2, <1>3
<1> QED
  BY <1>1, <1>2, <1>4

LEMMA PushHeapKeeps ==
    ASSUME NEW S, NEW q \in Seq(S), NEW v \in S, NEW cost
    PROVE  PushHeap(q, v, cost) \in Seq(S)
<1>1. Append(q, v) \in Seq(S)
  OBVIOUS
<1> QED
  BY <1>1, MoveUpKeeps DEF PushHeap

LEMMA PopHeapKeeps ==
    ASSUME NEW S, NEW q \in Seq(S), q # <<>>, NEW cost
    PROVE  PopHeap(q, cost) \in Seq(S)
<1> DEFINE last == Len(q) - 1
           child(j) ==
               IF 2 * j < last /\ cost[q[2 * j + 1]] <= cost[q[2 * j]] THEN 2 * j + 1 ELSE 2 * j
           hole[k \in 0..last] ==
               IF k = 0 THEN 1 ELSE IF 2 * hole[k - 1] > last THEN hole[k - 1] ELSE child(hole[k - 1])
           down == {hole[k] : k \in 0..last}
           inner == [j \in 1..last |->
                        IF j \in down /\ 2 * j <= last THEN q[child(j)] ELSE q[j]]
<1>1. PopHeap(q, cost) = IF last = 0 THEN <<>> ELSE MoveUp(inner, hole[last], q[Len(q)], cost)
  BY DEF PopHeap
<1> HIDE DEF hole, down
<1>2. Len(q) \in Nat /\ Len(q) > 0 /\ last \in Nat /\ \A j \in 1..Len(q) : q[j] \in S
  OBVIOUS
<1>3. \A j \in 1..last : 2 * j <= last => child(j) \in 1..Len(q)
  BY <1>2
<1>4. inner \in Seq(S)
  <2>1. \A j \in 1..last : inner[j] \in S
    BY <1>2, <1>3
  <2>2. inner \in [1..last -> S]
    BY <2>1
  <2> QED
    BY <1>2, <2>2
<1>5. MoveUp(inner, hole[last], q[Len(q)], cost) \in Seq(S)
  <2> HIDE DEF inner
  <2>1. q[Len(q)] \in S
    BY <1>2
  <2> QED
    BY <1>4, <2>1, MoveUpKeeps, Zenon
<1> QED
  BY <1>1, <1>5

-----------------------------------------------------------------------------
\* What the thread of an order knows between two steps of its search.

Costs == UNION {[S -> Nat] : S \in SUBSET Vertices}
BackPointers == UNION {[S -> Vertices \cup {NoVertex}] : S \in SUBSET Vertices}

SearchStates ==
    [begin : Vertices, end : Vertices, toNet : BOOLEAN, cost : Costs, prev : BackPointers,
     queue : Seq(Vertices), current : Vertices \cup {NoVertex},
     next : SUBSET Vertices, found : SUBSET Vertices]

\* The vertices a search has met, the last one taken off the queue among them.
Seen(s) ==
    /\ DOMAIN s.prev = DOMAIN s.cost
    /\ s.begin \in DOMAIN s.cost /\ s.cost[s.begin] = 0
    /\ s.queue \in Seq(DOMAIN s.cost)
    /\ s.next # {} => s.current \in DOMAIN s.cost

\* What Pop has checked of the edges left is still true when Relax takes them.
StillBetter(s) ==
    \A v \in s.next : (\E d \in Layers : OnTrack(s.current, v, d)) /\ Improves(s, s.current, v)

Descends(s) ==
    \A v \in DOMAIN s.cost : v # s.begin =>
        s.prev[v] \in DOMAIN s.cost /\ s.cost[s.prev[v]] + StepCost(s.prev[v], v) <= s.cost[v]

SearchOK(s) == s \in SearchStates /\ Seen(s) /\ StillBetter(s) /\ Descends(s)

LEMMA StepsCost ==
    ASSUME NEW u \in Vertices, NEW v \in Vertices, \E d \in Layers : OnTrack(u, v, d)
    PROVE  StepCost(u, v) \in Nat \ {0} /\ u # v
<1>1. u.horizontal \in Int /\ u.vertical \in Int /\ v.horizontal \in Int /\ v.vertical \in Int
  BY OffsetAssumption DEF Vertices
<1>2. EdgeBetween(u, v).hi - EdgeBetween(u, v).lo \in Nat \ {0} /\ u # v
  <2>1. CASE OnTrack(u, v, "horizontal")
    BY <1>1, <2>1 DEF OnTrack, Across, EdgeBetween
  <2>2. CASE OnTrack(u, v, "vertical")
    BY <1>1, <2>2 DEF OnTrack, Across, EdgeBetween
  <2> QED
    BY <2>1, <2>2 DEF Layers
<1> QED
  BY <1>2 DEF StepCost

LEMMA StepsInt ==
    ASSUME NEW u \in Vertices, NEW v \in Vertices
    PROVE  StepCost(u, v) \in Int
<1>1. u.horizontal \in Int /\ u.vertical \in Int /\ v.horizontal \in Int /\ v.vertical \in Int
  BY OffsetAssumption DEF Vertices
<1> QED
  BY <1>1 DEF StepCost, EdgeBetween

LEMMA SearchBeginsWell ==
    ASSUME NEW u \in Vertices, NEW v \in Vertices, NEW toNet \in BOOLEAN
    PROVE  SearchOK(BeginSearch(u, v, toNet))
<1> DEFINE s == BeginSearch(u, v, toNet)
<1>1. s.cost \in Costs /\ s.prev \in BackPointers
  <2>1. s.cost \in [{u} -> Nat] /\ s.prev \in [{u} -> Vertices \cup {NoVertex}]
    BY DEF BeginSearch
  <2>2. {u} \in SUBSET Vertices
    OBVIOUS
  <2> HIDE DEF s
  <2> QED
    BY <2>1, <2>2 DEF Costs, BackPointers
<1>2. s \in SearchStates
  BY <1>1 DEF BeginSearch, SearchStates
<1>3. Seen(s) /\ StillBetter(s) /\ Descends(s)
  BY DEF BeginSearch, Seen, StillBetter, Descends
<1> QED
  BY <1>2, <1>3 DEF SearchOK

LEMMA PopKeeps ==
    ASSUME NEW n, NEW s, SearchOK(s), s.next = {}, s.queue # <<>>
    PROVE  SearchOK(Pop(s, n))
<1> DEFINE u == s.queue[1]
           rest == [s EXCEPT !.queue = PopHeap(s.queue, s.cost)]
           ended == [rest EXCEPT !.found = @ \cup {u}]
           better == {v \in Vertices : CanStep(s, u, v, n) /\ Improves(s, u, v)}
           onward == [rest EXCEPT !.current = u, !.next = better]
<1>1. s \in SearchStates /\ Seen(s) /\ Descends(s)
  BY DEF SearchOK
<1>2. u \in DOMAIN s.cost /\ DOMAIN s.cost \subseteq Vertices
  BY <1>1 DEF Seen, SearchStates, Costs
<1>3. PopHeap(s.queue, s.cost) \in Seq(DOMAIN s.cost) /\ PopHeap(s.queue, s.cost) \in Seq(Vertices)
  BY <1>1, PopHeapKeeps DEF Seen, SearchStates
<1>4. Pop(s, n) \in {rest, ended, onward}
  BY DEF Pop
<1> HIDE DEF u
<1>5. SearchOK(rest)
  <2>1. rest \in SearchStates
    BY <1>1, <1>3 DEF SearchStates
  <2>2. Seen(rest) /\ StillBetter(rest) /\ Descends(rest)
    BY <1>1, <1>3 DEF Seen, StillBetter, Descends, SearchStates
  <2> QED
    BY <2>1, <2>2 DEF SearchOK
<1>6. SearchOK(ended)
  <2>1. ended \in SearchStates
    BY <1>1, <1>2, <1>3 DEF SearchStates
  <2>2. Seen(ended) /\ StillBetter(ended) /\ Descends(ended)
    BY <1>1, <1>3 DEF Seen, StillBetter, Descends, SearchStates
  <2> QED
    BY <2>1, <2>2 DEF SearchOK
<1>7. SearchOK(onward)
  <2>1. onward \in SearchStates
    BY <1>1, <1>2, <1>3 DEF SearchStates
  <2>2. Seen(onward) /\ Descends(onward)
    BY <1>1, <1>2, <1>3 DEF Seen, Descends, SearchStates
  <2>3. StillBetter(onward)
    BY <1>1 DEF StillBetter, SearchStates, CanStep, Improves
  <2> QED
    BY <2>1, <2>2, <2>3 DEF SearchOK
<1> QED
  BY <1>4, <1>5, <1>6, <1>7

LEMMA RelaxKeeps ==
    ASSUME NEW s, SearchOK(s), NEW v \in s.next
    PROVE  SearchOK(Relax(s, v))
<1> DEFINE u == s.current
           S == DOMAIN s.cost
           cost == Put(s.cost, v, s.cost[u] + StepCost(u, v))
           prev == Put(s.prev, v, u)
           queue == IF v \in S THEN s.queue ELSE PushHeap(s.queue, v, cost)
           t == [s EXCEPT !.cost = cost, !.prev = prev, !.queue = queue, !.next = @ \ {v}]
<1>1. Relax(s, v) = t
  BY DEF Relax
<1>2. s \in SearchStates /\ Seen(s) /\ StillBetter(s) /\ Descends(s)
  BY DEF SearchOK
<1>3. /\ S \subseteq Vertices /\ s.cost \in [S -> Nat] /\ u \in S
      /\ s.prev \in [S -> Vertices \cup {NoVertex}]
      /\ s.begin \in S /\ s.cost[s.begin] = 0 /\ s.queue \in Seq(S) /\ v \in Vertices
  BY <1>2 DEF SearchStates, Seen, Costs, BackPointers
<1>4. StepCost(u, v) \in Nat \ {0} /\ u # v
  BY <1>2, <1>3, StepsCost DEF StillBetter
<1>5. v \in S => s.cost[u] + StepCost(u, v) < s.cost[v]
  BY <1>2 DEF StillBetter, Improves
<1> HIDE DEF S, u
<1>6. s.cost[u] + StepCost(u, v) \in Nat /\ s.cost[u] \in Nat
  BY <1>3, <1>4
<1>7. /\ cost \in [S \cup {v} -> Nat] /\ DOMAIN cost = S \cup {v}
      /\ cost[v] = s.cost[u] + StepCost(u, v)
      /\ \A x \in S : x # v => cost[x] = s.cost[x]
  BY <1>3, <1>6 DEF Put
<1>8. /\ prev \in [S \cup {v} -> Vertices \cup {NoVertex}] /\ DOMAIN prev = S \cup {v}
      /\ prev[v] = u
      /\ \A x \in S : x # v => prev[x] = s.prev[x]
  <2>1. u \in Vertices \cup {NoVertex}
    BY <1>3
  <2> QED
    BY <1>3, <2>1 DEF Put
<1> HIDE DEF cost, prev
<1>9. queue \in Seq(S \cup {v}) /\ queue \in Seq(Vertices)
  <2>1. s.queue \in Seq(S \cup {v})
    BY <1>3
  <2>2. queue \in Seq(S \cup {v})
    BY <2>1, PushHeapKeeps
  <2> QED
    BY <1>3, <2>2
<1> HIDE DEF queue
<1>10. v # s.begin
  BY <1>3, <1>5, <1>6
<1>11. t \in SearchStates
  <2>1. cost \in Costs /\ prev \in BackPointers
    <3>1. S \cup {v} \in SUBSET Vertices
      BY <1>3
    <3> QED
      BY <1>7, <1>8, <3>1 DEF Costs, BackPointers
  <2> QED
    BY <1>2, <1>9, <2>1 DEF SearchStates
<1>12. /\ t.cost = cost /\ t.prev = prev /\ t.queue = queue /\ t.next = s.next \ {v}
       /\ t.current = u /\ t.begin = s.begin
  BY <1>2 DEF SearchStates, u
<1> HIDE DEF t
<1>13. Seen(t)
  BY <1>3, <1>7, <1>8, <1>9, <1>10, <1>12 DEF Seen
<1>14. StillBetter(t)
  <2> SUFFICES ASSUME NEW x \in s.next, x # v
               PROVE  (\E d \in Layers : OnTrack(u, x, d)) /\ Improves(t, u, x)
    BY <1>12 DEF StillBetter
  <2>1. (\E d \in Layers : OnTrack(u, x, d)) /\ Improves(s, u, x)
    BY <1>2 DEF StillBetter, u
  <2>2. cost[u] = s.cost[u]
    BY <1>3, <1>4, <1>7
  <2>3. x \in DOMAIN cost => x \in S /\ cost[x] = s.cost[x]
    BY <1>7
  <2> QED
    BY <1>12, <2>1, <2>2, <2>3 DEF Improves, S
<1>15. Descends(t)
  <2> SUFFICES ASSUME NEW x \in S \cup {v}, x # s.begin
               PROVE  prev[x] \in S \cup {v} /\ cost[prev[x]] + StepCost(prev[x], x) <= cost[x]
    BY <1>7, <1>12 DEF Descends
  <2>1. CASE x = v
    BY <1>3, <1>4, <1>6, <1>7, <1>8, <2>1
  <2>2. CASE x # v
    <3>1. x \in S /\ prev[x] = s.prev[x] /\ cost[x] = s.cost[x] /\ cost[x] \in Nat
      BY <1>3, <1>7, <1>8, <2>2
    <3>2. s.prev[x] \in S /\ s.cost[s.prev[x]] + StepCost(s.prev[x], x) <= s.cost[x]
      BY <1>2, <3>1 DEF Descends, S
    <3>3. CASE s.prev[x] = v
      <4>1. s.cost[v] \in Nat /\ cost[v] < s.cost[v] /\ cost[v] \in Nat
        BY <1>3, <1>5, <1>6, <1>7, <3>2, <3>3
      <4>2. StepCost(v, x) \in Int
        BY StepsInt, <1>3, <3>1
      <4> QED
        BY <3>1, <3>2, <3>3, <4>1, <4>2
    <3>4. CASE s.prev[x] # v
      BY <1>7, <3>1, <3>2, <3>4
    <3> QED
      BY <3>3, <3>4
  <2> QED
    BY <2>1, <2>2
<1> QED
  BY <1>1, <1>11, <1>13, <1>14, <1>15 DEF SearchOK

-----------------------------------------------------------------------------
\* The orders, as far as they say where searches begin.

OrderOK ==
    /\ nodes \in Problems
    /\ node \in [Nets -> Nat]
    /\ linked \in [Nets -> BOOLEAN]
    /\ todo \in [Nets -> SUBSET SearchSet]
    /\ PastFirst

SearchInv ==
    /\ OrderOK
    /\ search \in [Nets -> SearchStates \cup {NoSearch}]
    /\ \A n \in Nets : search[n] # NoSearch => SearchOK(search[n])

LEMMA GoToOK ==
    ASSUME OrderOK, nodes' = nodes, NEW n \in Nets, NEW i \in Nat, i >= 2,
           NEW toNet \in BOOLEAN, GoTo(n, i, toNet)
    PROVE  OrderOK'
<1>1. Searches(n, i, toNet) \in SUBSET SearchSet
  BY SearchesTyped DEF OrderOK
<1>2. node' = [node EXCEPT ![n] = i] /\ linked' = [linked EXCEPT ![n] = toNet]
      /\ todo' = [todo EXCEPT ![n] = Searches(n, i, toNet)]
  BY DEF GoTo
<1>3. PastFirst'
  <2> SUFFICES ASSUME NEW m \in Nets, Running(m)' PROVE node'[m] >= 2
    BY DEF PastFirst
  <2>1. CASE m = n
    BY <1>2, <2>1 DEF OrderOK
  <2>2. CASE m # n
    BY <1>2, <2>2 DEF OrderOK, PastFirst, Running
  <2> QED
    BY <2>1, <2>2
<1> QED
  BY <1>1, <1>2, <1>3 DEF OrderOK

LEMMA OrderStepsKeep ==
    ASSUME OrderOK, NEW n \in Nets,
           \/ StartOrder(n) \/ RefuseOrder(n) \/ RetryNode(n) \/ GiveUpNode(n)
           \/ InstallNext(n) \/ DropUnavailable(n)
    PROVE  OrderOK'
<1>1. Len(nodes[n]) \in Nat /\ node[n] \in Nat /\ linked[n] \in BOOLEAN
  BY NodesAreSequences DEF OrderOK
<1>2. Running(n) => node[n] >= 2 /\ node[n] + 1 \in Nat /\ node[n] + 1 >= 2
  BY <1>1 DEF OrderOK, PastFirst
<1>3. CASE StartOrder(n)
  <2>1. nodes' = nodes /\ GoTo(n, 2, FALSE)
    BY <1>3 DEF StartOrder
  <2>2. 2 \in Nat /\ 2 >= 2 /\ FALSE \in BOOLEAN
    OBVIOUS
  <2> QED
    BY <2>1, <2>2, GoToOK
<1>4. CASE RefuseOrder(n)
  <2>1. nodes' = nodes /\ linked' = linked /\ todo' = todo
        /\ node' = [node EXCEPT ![n] = Len(nodes[n]) + 1]
    BY <1>4 DEF RefuseOrder
  <2>2. PastFirst'
    BY <1>1, <2>1 DEF OrderOK, PastFirst, Running
  <2> QED
    BY <1>1, <2>1, <2>2 DEF OrderOK
<1>5. CASE RetryNode(n)
  <2>1. nodes' = nodes /\ node' = node /\ linked' = linked
        /\ todo' = [todo EXCEPT ![n] = Searches(n, node[n], linked[n])]
    BY <1>5 DEF RetryNode
  <2>2. Searches(n, node[n], linked[n]) \in SUBSET SearchSet
    BY <1>1, <1>2, <1>5, SearchesTyped DEF OrderOK, RetryNode
  <2> QED
    BY <2>1, <2>2, UnmovedPastFirst DEF OrderOK
<1>6. CASE GiveUpNode(n)
  BY <1>1, <1>2, <1>6, GoToOK DEF GiveUpNode
<1>7. CASE InstallNext(n)
  BY <1>2, <1>7, GoToOK DEF InstallNext
<1>8. CASE DropUnavailable(n)
  <2>1. nodes' = nodes /\ node' = node /\ linked' = linked /\ todo' = todo
    BY <1>8 DEF DropUnavailable
  <2> QED
    BY <2>1, UnmovedPastFirst DEF OrderOK
<1> QED
  BY <1>3, <1>4, <1>5, <1>6, <1>7, <1>8

LEMMA SearchTypeInitially == SearchInit => SearchInv
<1> SUFFICES ASSUME SearchInit PROVE SearchInv
  OBVIOUS
<1>1. OrderOK
  BY DEF SearchInit, Init, OrderOK, PastFirst, Running
<1> QED
  BY <1>1 DEF SearchInit, SearchInv

LEMMA SearchPreserved ==
    ASSUME SearchInv, [SearchNext]_searchVars
    PROVE  SearchInv'
<1> DEFINE Ok(s) == s = NoSearch \/ (s \in SearchStates /\ SearchOK(s))
<1>1. OrderOK /\ search \in [Nets -> SearchStates \cup {NoSearch}] /\ \A m \in Nets : Ok(search[m])
  BY DEF SearchInv
<1>2. ASSUME NEW n \in Nets, NEW s, Ok(s), search' = [search EXCEPT ![n] = s], OrderOK'
      PROVE  SearchInv'
  BY <1>1, <1>2 DEF SearchInv
<1>3. UNCHANGED <<nodes, node, linked, todo>> => OrderOK'
  BY <1>1, UnmovedPastFirst DEF OrderOK
<1>4. search' = search /\ OrderOK' => SearchInv'
  BY <1>1 DEF SearchInv
<1>5. ASSUME NEW n \in Nets, StartSearch(n) PROVE SearchInv'
  <2>1. PICK w \in todo[n] :
            search' = [search EXCEPT ![n] = BeginSearch(w[1], w[Len(w)], linked[n])]
    BY <1>5 DEF StartSearch
  <2>2. w[1] \in Vertices /\ w[Len(w)] \in Vertices /\ linked[n] \in BOOLEAN
    BY <1>1 DEF OrderOK, SearchSet
  <2>3. Ok(BeginSearch(w[1], w[Len(w)], linked[n]))
    BY <2>2, SearchBeginsWell DEF SearchOK
  <2> QED
    BY <1>2, <1>3, <1>5, <2>1, <2>3 DEF StartSearch, vars, orderVars
<1>6. ASSUME NEW n \in Nets, PopVertex(n) PROVE SearchInv'
  <2>1. SearchOK(Pop(search[n], n))
    BY <1>1, <1>6, PopKeeps DEF PopVertex
  <2>2. Ok(Pop(search[n], n))
    BY <2>1 DEF SearchOK
  <2> QED
    BY <1>2, <1>3, <1>6, <2>2 DEF PopVertex, vars, orderVars
<1>7. ASSUME NEW n \in Nets, RelaxEdge(n) PROVE SearchInv'
  <2>1. PICK v \in search[n].next : search' = [search EXCEPT ![n] = Relax(search[n], v)]
    BY <1>7 DEF RelaxEdge
  <2>2. SearchOK(Relax(search[n], v))
    BY <1>1, <1>7, RelaxKeeps DEF RelaxEdge
  <2>3. Ok(Relax(search[n], v))
    BY <2>2 DEF SearchOK
  <2> QED
    BY <1>2, <1>3, <1>7, <2>1, <2>3 DEF RelaxEdge, vars, orderVars
<1>8. ASSUME NEW n \in Nets, EndSearch(n) PROVE SearchInv'
  <2>1. /\ nodes' = nodes /\ node' = node /\ linked' = linked
        /\ search' = [search EXCEPT ![n] = NoSearch]
    BY <1>8 DEF EndSearch
  <2>2. todo' \in [Nets -> SUBSET SearchSet]
    BY <1>1, <1>8 DEF EndSearch, OrderOK
  <2>3. OrderOK'
    BY <1>1, <2>1, <2>2, UnmovedPastFirst DEF OrderOK
  <2> QED
    BY <1>2, <2>1, <2>3
<1>9. ASSUME NEW n \in Nets, search' = search, Between(n) PROVE SearchInv'
  BY <1>1, <1>4, <1>9, OrderStepsKeep DEF Between
<1>10. ASSUME NEW n \in Nets, AbortSearch(n) PROVE SearchInv'
  BY <1>3, <1>4, <1>10 DEF AbortSearch, orderVars
<1>11. ASSUME NEW n \in Nets, SearchStep(n) PROVE SearchInv'
  BY <1>5, <1>6, <1>7, <1>8, <1>9, <1>11, <1>10 DEF SearchStep
<1>12. CASE UNCHANGED searchVars
  BY <1>3, <1>4, <1>12 DEF searchVars, vars, orderVars
<1>13. CASE AllEnded /\ UNCHANGED search
  BY <1>3, <1>4, <1>13 DEF AllEnded, vars, orderVars
<1> QED
  BY <1>11, <1>12, <1>13 DEF SearchNext

\* Whatever a search has met leads back to where it began: each back-pointer
\* goes to a vertex cheaper by the edge at least, so Backtrack ends, for every
\* grid, every cost of its edges and every order in which edges are relaxed.
THEOREM SearchesLeadBack == SearchSpec => []BackPointersDescend
<1>1. SearchInv => BackPointersDescend
  BY DEF SearchInv, SearchOK, Descends, BackPointersDescend
<1> QED
  BY <1>1, SearchTypeInitially, SearchPreserved, PTL DEF SearchSpec
====
