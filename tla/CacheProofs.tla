---- MODULE CacheProofs ----
(***************************************************************************)
(* Theorems about the arithmetic of the grid, for every area, offset and    *)
(* pitch; about what is staged, for every shape; and about the blockage     *)
(* cache over it, for every layout, every set of orders and every order of *)
(* events, with exactly the exceptions that double cancellation makes.      *)
(***************************************************************************)
EXTENDS StagedCache, FiniteSetTheorems, WellFoundedInduction, TLAPS

-----------------------------------------------------------------------------
(* The arithmetic of the grid, and what is staged.                          *)

LEMMA Division == ASSUME NEW a \in Int, NEW p \in Nat \ {0}
                  PROVE  /\ a \div p \in Int
                         /\ p * (a \div p) <= a /\ a < p * (a \div p) + p
  BY SMT

LEMMA Closer == ASSUME NEW p \in Nat \ {0}, NEW f \in Int, NEW k \in Int, p * f < p * k + p
                PROVE  f <= k
  <1>1. SUFFICES ASSUME f >= k + 1 PROVE FALSE
    OBVIOUS
  <1>2. p * f >= p * (k + 1)
    BY <1>1, SMT
  <1>3. p * (k + 1) = p * k + p
    BY SMT
  <1>4. QED
    BY <1>2, <1>3, SMT

LEMMA RoundedInts == ASSUME NEW axis \in Axes, NEW x \in Int
                     PROVE  Below(axis, x) \in Int /\ Above(axis, x) \in Int
  BY Division DEF Axes, Below, Above

\* Rounding down never passes a track less than a pitch below.
LEMMA BelowReaches == ASSUME NEW axis \in Axes, NEW x \in Int, NEW k \in Int,
                             x - axis.pitch < Coordinate(axis, k)
                      PROVE  Below(axis, x) <= k
  <1> DEFINE p == axis.pitch
             a == x - axis.start
  <1>1. p \in Nat \ {0} /\ a \in Int /\ axis.start \in Int
    BY DEF Axes
  <1>2. p * (a \div p) <= a /\ a \div p \in Int
    BY <1>1, Division
  <1>3. p * k \in Int /\ a < p * k + p
    BY <1>1 DEF Coordinate
  <1>4. p * (a \div p) < p * k + p
    BY <1>1, <1>2, <1>3
  <1>5. a \div p <= k
    BY <1>1, <1>2, <1>4, Closer
  <1>6. QED
    BY <1>5 DEF Below

\* Nor does rounding up pass one less than a pitch above.
LEMMA AboveReaches == ASSUME NEW axis \in Axes, NEW x \in Int, NEW k \in Int,
                             Coordinate(axis, k) < x + axis.pitch
                      PROVE  k <= Above(axis, x)
  <1> DEFINE p == axis.pitch
             a == axis.start - x
  <1>1. p \in Nat \ {0} /\ a \in Int /\ axis.start \in Int
    BY DEF Axes
  <1>2. p * (a \div p) <= a /\ a \div p \in Int
    BY <1>1, Division
  <1>3. p * k \in Int /\ a + p * k < p
    BY <1>1 DEF Coordinate
  <1>4. p * (-k) = -(p * k) /\ -k \in Int
    BY <1>1
  <1>5. p * (a \div p) < p * (-k) + p
    BY <1>1, <1>2, <1>3, <1>4
  <1>6. a \div p <= -k
    BY <1>1, <1>2, <1>4, <1>5, Closer
  <1>7. QED
    BY <1>2, <1>6 DEF Above

\* What lies between two indices is still between them when they are bounded.
LEMMA BoundsKeep == ASSUME NEW axis \in Axes, NEW low \in Int, NEW high \in Int,
                           NEW layers \in Nat \ {0}, NEW k \in 0..axis.max, low <= k, k <= high
                    PROVE  k \in Bounded(axis, low, high, layers)
  BY DEF Axes, Bounded, Within

\* Whatever the area, the offset and the pitch, and however far from the grid
\* a shape is: a track closer to it than the pitch is among the nearest tracks.
THEOREM NearTracksAreFound ==
    ASSUME NEW axis \in Axes, NEW low \in Int, NEW high \in Int, NEW layers \in Nat \ {0},
           NEW k \in Tracks(axis),
           low - axis.pitch < Coordinate(axis, k), Coordinate(axis, k) < high + axis.pitch
    PROVE  k \in NearestTracks(axis, <<low, high>>, layers)
  <1>1. k \in 0..axis.max /\ k \in Int
    BY DEF Tracks, Axes
  <1>2. Below(axis, low) <= k /\ k <= Above(axis, high)
    BY <1>1, BelowReaches, AboveReaches
  <1>3. Below(axis, low) \in Int /\ Above(axis, high) \in Int
    BY RoundedInts
  <1>4. k \in Bounded(axis, Below(axis, low), Above(axis, high), layers)
    BY <1>1, <1>2, <1>3, BoundsKeep
  <1>5. QED
    BY <1>4 DEF NearestTracks, NearestTrackIndices

\* The vertices around a rectangle reach a pitch further than the padding.
LEMMA WindowHolds ==
    ASSUME NEW axis \in Axes, NEW low \in Int, NEW high \in Int, NEW around \in Nat,
           NEW k \in Tracks(axis),
           low - around - axis.pitch < Coordinate(axis, k),
           Coordinate(axis, k) < high + around + axis.pitch
    PROVE  k \in Enveloping(axis, <<low, high>>, around, 1)
  <1>1. k \in 0..axis.max /\ k \in Int /\ Coordinate(axis, k) \in Int
    BY DEF Tracks, Axes, Coordinate
  <1>3. Below(axis, low - around) <= k /\ k <= Above(axis, high + around)
    BY <1>1, BelowReaches, AboveReaches
  <1>4. Below(axis, low - around) \in Int /\ Above(axis, high + around) \in Int
    BY RoundedInts
  <1>5. k \in Bounded(axis, Below(axis, low - around), Above(axis, high + around), 1)
    BY <1>1, <1>3, <1>4, BoundsKeep
  <1>6. QED
    BY <1>5 DEF Enveloping

-----------------------------------------------------------------------------
USE DEF GridLayers, Headings

LEMMA Halved == ASSUME NEW n \in Nat PROVE n \div 2 \in Nat /\ (n % 2 = 0 => n - n \div 2 = n \div 2)
  BY SMT

LEMMA AxesOfLayers ==
    ASSUME NEW l \in GridLayers
    PROVE  /\ AcrossAxis(l) \in Axes /\ AlongAxis(l) \in Axes
           /\ wire_width[l] \div 2 + min_separation[l] + padding <= AcrossAxis(l).pitch
  BY GridAssumption, TechnologyAssumption DEF AcrossAxis, AlongAxis

LEMMA EdgesAreOnTracks ==
    ASSUME NEW e \in GridEdges
    PROVE  /\ e.layer \in GridLayers
           /\ e.track \in Tracks(AcrossAxis(e.layer))
           /\ e.from \in Tracks(AlongAxis(e.layer)) /\ e.to \in Tracks(AlongAxis(e.layer))
  BY GridAssumption DEF GridEdges, EdgesOn, AcrossAxis, AlongAxis

LEMMA TracksAreInts ==
    ASSUME NEW axis \in Axes, NEW k \in Tracks(axis) PROVE Coordinate(axis, k) \in Int
  BY DEF Axes, Tracks, Coordinate

\* Staging misses no wire: an edge whose wire would be closer to a shape, on a
\* layer it blocks, than the rules allow is entered in the cache, wherever the
\* shape lies and whatever the grid.
THEOREM NearWiresAreEntered ==
    ASSUME NEW r \in Rectangles, NEW layers, NEW e \in GridEdges, e.layer \in layers,
           ~WireIsClear(e, r)
    PROVE  e \in EdgesAffected(r, layers)
  <1> DEFINE l == e.layer
             across == AcrossSpan(l, r)
             along == AlongSpan(l, r)
             c == Coordinate(AcrossAxis(l), e.track)
             from == Coordinate(AlongAxis(l), e.from)
             to == Coordinate(AlongAxis(l), e.to)
             half == wire_width[l] \div 2
             sep == min_separation[l]
  <1>1. /\ l \in GridLayers /\ AcrossAxis(l) \in Axes /\ AlongAxis(l) \in Axes
        /\ e.track \in Tracks(AcrossAxis(l))
        /\ half + sep + padding <= AcrossAxis(l).pitch
    BY EdgesAreOnTracks, AxesOfLayers
  <1>2. c \in Int /\ from \in Int /\ to \in Int
    BY <1>1, EdgesAreOnTracks, TracksAreInts
  <1>3. /\ half \in Nat /\ wire_width[l] - half = half /\ sep \in Nat \ {0} /\ padding \in Nat
        /\ encap_length[l] \div 2 \in Nat
    BY <1>1, GridAssumption, TechnologyAssumption, Halved
  <1>4. /\ across[1] \in Int /\ across[2] \in Int /\ along[1] \in Int /\ along[2] \in Int
        /\ across = <<across[1], across[2]>>
    BY DEF Rectangles, AcrossSpan, AlongSpan
  <1>5. /\ across[1] < c + half + sep + padding /\ c - half < across[2] + sep + padding
        /\ along[1] < to + sep + padding /\ from < along[2] + sep + padding
    <2>1. CASE l = HorizontalLayer
      BY <2>1, <1>2, <1>3, <1>4 DEF WireIsClear, Apart, Wire, AcrossSpan, AlongSpan
    <2>2. CASE l # HorizontalLayer
      BY <2>2, <1>2, <1>3, <1>4 DEF WireIsClear, Apart, Wire, AcrossSpan, AlongSpan
    <2>3. QED
      BY <2>1, <2>2
  <1>6. TrackMeets(l, e.track, r)
    BY <1>2, <1>3, <1>4, <1>5 DEF TrackMeets, Meets, Around
  <1>7. EdgeMeets(e, r)
    BY <1>2, <1>3, <1>4, <1>5 DEF EdgeMeets, Meets
  <1>8. e.track \in NearestTracks(AcrossAxis(l), across, 1)
    <2>1. AcrossAxis(l).pitch \in Nat
      BY <1>1 DEF Axes
    <2>2. across[1] - AcrossAxis(l).pitch < c /\ c < across[2] + AcrossAxis(l).pitch
      BY <2>1, <1>1, <1>2, <1>3, <1>4, <1>5
    <2>3. e.track \in NearestTracks(AcrossAxis(l), <<across[1], across[2]>>, 1)
      BY <2>2, <1>1, <1>4, NearTracksAreFound
    <2>4. QED
      BY <2>3, <1>4
  <1>9. QED
    BY <1>6, <1>7, <1>8 DEF EdgesAffected

LEMMA LowestLayer ==
    ASSUME NEW layers, layers \cap GridLayers # {}
    PROVE  CheckedLayer(layers) \in layers \cap GridLayers
  <1>1. \E l \in layers \cap GridLayers : \A m \in layers \cap GridLayers : l <= m
    BY GridAssumption
  <1>2. QED
    BY <1>1 DEF CheckedLayer

\* Staging misses no via either: where one of the checked layer would be too
\* close to a shape its direction is inhibited.  The window of the search need
\* not reach as far as the rule of a pin layer, if a pitch makes up for it.
THEOREM NearViasAreEntered ==
    ASSUME NEW r \in Rectangles, NEW layers, layers \cap GridLayers # {},
           NEW layer, min_separation[layer] \in Nat \ {0},
           \A axis \in {Columns, Rows} :
               min_separation[layer] <= axis.pitch
                   + Larger(min_separation[HorizontalLayer], min_separation[VerticalLayer]),
           NEW v \in GridVertices, NEW heading \in Headings,
           ~ViaIsClear(v, heading, CheckedLayer(layers), r, layer)
    PROVE  <<v, heading>> \in ViasCrowded(r, layer, layers)
  <1> DEFINE l == CheckedLayer(layers)
             sep == min_separation[layer]
             x == Coordinate(Columns, v[1])
             y == Coordinate(Rows, v[2])
             wide == (IF heading = "horizontal" THEN encap_length[l] ELSE encap_width[l]) \div 2
             tall == (IF heading = "vertical" THEN encap_length[l] ELSE encap_width[l]) \div 2
             window == padding + search_window_margin
  <1>1. l \in GridLayers
    BY LowestLayer
  <1>2. /\ Columns \in Axes /\ Rows \in Axes /\ padding \in Nat
        /\ v = <<v[1], v[2]>> /\ v[1] \in Tracks(Columns) /\ v[2] \in Tracks(Rows)
    BY GridAssumption DEF GridVertices
  <1>3. x \in Int /\ y \in Int
    BY <1>2, TracksAreInts
  <1>4. /\ r.x[1] \in Int /\ r.x[2] \in Int /\ r.y[1] \in Int /\ r.y[2] \in Int
        /\ r.x = <<r.x[1], r.x[2]>> /\ r.y = <<r.y[1], r.y[2]>>
    BY DEF Rectangles
  <1>5. /\ wide \in Nat /\ tall \in Nat /\ search_window_margin \in Nat
        /\ wide + sep <= search_window_margin + Columns.pitch
        /\ tall + sep <= search_window_margin + Rows.pitch
    <2> DEFINE longest == Larger(encap_length[HorizontalLayer], encap_length[VerticalLayer])
               apart == Larger(min_separation[HorizontalLayer], min_separation[VerticalLayer])
    <2>1. /\ encap_length[l] \in Nat /\ encap_width[l] \in Nat /\ encap_width[l] <= encap_length[l]
          /\ longest \in Nat /\ encap_length[l] <= longest /\ apart \in Nat
      BY <1>1, GridAssumption, TechnologyAssumption DEF Larger
    <2>2. \A n \in 0..longest : n \div 2 \in Nat /\ n \div 2 <= longest \div 2
      BY <2>1, SMT
    <2>3. wide \in Nat /\ tall \in Nat /\ wide <= longest \div 2 /\ tall <= longest \div 2
      BY <2>1, <2>2
    <2>4. search_window_margin = longest \div 2 + apart
      BY DEF search_window_margin
    <2>5. longest \div 2 \in Nat
      BY <2>1, <2>2
    <2>6. /\ Columns.pitch \in Nat /\ Rows.pitch \in Nat
          /\ sep <= Columns.pitch + apart /\ sep <= Rows.pitch + apart
      BY <1>2 DEF Axes
    <2>7. QED
      BY <2>1, <2>3, <2>4, <2>5, <2>6
  <1>6. /\ r.x[1] < x + wide + sep + padding /\ x - wide < r.x[2] + sep + padding
        /\ r.y[1] < y + tall + sep + padding /\ y - tall < r.y[2] + sep + padding
    BY <1>2, <1>3, <1>4, <1>5 DEF ViaIsClear, Apart, Footprint, Around
  <1>7. v \in PossiblyAffected(r, layers)
    <2>1. window \in Nat /\ Columns.pitch \in Nat /\ Rows.pitch \in Nat
      BY <1>2, <1>5 DEF Axes
    <2>2. /\ r.x[1] - window - Columns.pitch < x /\ x < r.x[2] + window + Columns.pitch
          /\ r.y[1] - window - Rows.pitch < y /\ y < r.y[2] + window + Rows.pitch
      BY <2>1, <1>2, <1>3, <1>4, <1>5, <1>6
    <2>3. /\ v[1] \in Enveloping(Columns, <<r.x[1], r.x[2]>>, window, 1)
          /\ v[2] \in Enveloping(Rows, <<r.y[1], r.y[2]>>, window, 1)
      BY <2>1, <2>2, <1>2, <1>4, WindowHolds
    <2>4. QED
      BY <2>3, <1>2, <1>4 DEF PossiblyAffected
  <1>8. KeepOut(layer) = padding + sep - 1
    BY <1>2 DEF KeepOut, Larger
  <1>9. Overlap(r, Footprint(v, l, heading, KeepOut(layer)))
    BY <1>2, <1>3, <1>4, <1>5, <1>6, <1>8 DEF Overlap, Meets, Footprint, Around
  <1>10. QED
    BY <1>7, <1>9 DEF ViasCrowded

-----------------------------------------------------------------------------
LEMMA Multiples == ASSUME NEW p \in Nat \ {0}, NEW k \in Int PROVE (p * k) \div p = k
  <1>1. p * k \in Int /\ (p * k) \div p \in Int
    BY Division, SMT
  <1>2. p * ((p * k) \div p) <= p * k /\ p * k < p * ((p * k) \div p) + p
    BY <1>1, Division
  <1>3. p * ((p * k) \div p) < p * k + p
    BY <1>1, <1>2, SMT
  <1>4. (p * k) \div p <= k /\ k <= (p * k) \div p
    BY <1>1, <1>2, <1>3, Closer
  <1>5. QED
    BY <1>1, <1>4

LEMMA OnTheLine == ASSUME NEW axis \in Axes, NEW k \in Int
                   PROVE  Below(axis, Coordinate(axis, k)) = k /\ Above(axis, Coordinate(axis, k)) = k
  <1> DEFINE p == axis.pitch
  <1>1. p \in Nat \ {0} /\ axis.start \in Int /\ p * k \in Int /\ -k \in Int
    BY DEF Axes
  <1>2. Coordinate(axis, k) - axis.start = p * k /\ axis.start - Coordinate(axis, k) = p * (-k)
    BY <1>1 DEF Coordinate
  <1>3. (p * k) \div p = k /\ (p * (-k)) \div p = -k
    BY <1>1, Multiples
  <1>4. QED
    BY <1>1, <1>2, <1>3 DEF Below, Above

\* A vertex is near its own tracks and those beside them, as far as the grid
\* goes: the neighbours that an installed path looks at.
THEOREM VerticesAroundAVertex ==
    ASSUME NEW axis \in Axes, NEW k \in 0..axis.max
    PROVE  EnvelopingPoint(axis, Coordinate(axis, k), 1) = (k - 1..k + 1) \cap (0..axis.max)
  <1>1. axis.max \in Int /\ k \in Int
    BY DEF Axes
  <1>2. Below(axis, Coordinate(axis, k)) = k /\ Above(axis, Coordinate(axis, k)) = k
    BY <1>1, OnTheLine
  <1>3. EnvelopingPoint(axis, Coordinate(axis, k), 1) =
            Bounded(axis, Within(axis, k - 1), Within(axis, k + 1), 1)
    BY <1>2 DEF EnvelopingPoint
  <1>4. QED
    BY <1>1, <1>3 DEF Bounded, Within

\* AlignRoutingLayerInfos does what it is called for: a track runs through the
\* point, for every point of the area that the layers share.
THEOREM TracksRunThroughAlignedPoints ==
    ASSUME NEW low \in Int, NEW high \in Int, NEW point \in low..high, NEW pitch \in Nat \ {0}
    PROVE  TrackThrough(Axis(low, high, AlignedOffset(low, point, pitch), pitch), point) # {}
  <1> DEFINE offset == AlignedOffset(low, point, pitch)
             axis == Axis(low, high, offset, pitch)
             k == (point - low) \div pitch
  <1>1. /\ offset \in Int /\ k \in Nat /\ pitch * k \in Nat
        /\ point - low = pitch * k + offset
    BY SMT DEF AlignedOffset
  <1>2. axis.start = low + offset /\ axis.pitch = pitch /\ axis.last = high
    BY DEF Axis
  <1>3. high - (low + offset) >= pitch * k /\ high - (low + offset) \in Nat
    BY <1>1
  <1>4. axis.max = (high - (low + offset)) \div pitch
    BY <1>3 DEF Axis, Truncated
  <1>5. axis \in Axes
    BY <1>1, <1>3, <1>4, Division DEF Axis, Axes
  <1>6. Coordinate(axis, k) = point
    <2>1. Coordinate(axis, k) = (low + offset) + pitch * k
      BY <1>2 DEF Coordinate
    <2>2. (low + offset) + pitch * k = point
      <3> HIDE DEF offset, k
      <3> QED
        BY <1>1
    <2>3. QED
      BY <2>1, <2>2
  <1>7. Below(axis, point) = k /\ Above(axis, point) = k
    BY <1>1, <1>5, <1>6, OnTheLine
  <1>8. k <= axis.max
    <2> DEFINE a == high - (low + offset)
    <2>1. a \in Int /\ a \div pitch \in Int /\ a < pitch * (a \div pitch) + pitch
      BY <1>3, Division
    <2>2. pitch * k < pitch * (a \div pitch) + pitch
      BY <2>1, <1>1, <1>3
    <2>3. QED
      BY <2>1, <2>2, <1>1, <1>4, Closer
  <1>9. k \in Tracks(axis)
    BY <1>1, <1>2, <1>5, <1>6, <1>8 DEF Tracks, Axes
  <1>10. QED
    BY <1>7, <1>9 DEF TrackThrough

-----------------------------------------------------------------------------
(* The blockage cache.  Entries are compared with blockages by injections:  *)
(* an entry names the shape it was made for, and no two of those that count *)
(* for an order name the same.                                              *)

Caches == Orders \cup {Root}

StagedInv ==
    /\ staged \in [Blockages -> Shapes]
    /\ \A i, j \in Blockages : staged[i] = staged[j] => i = j

\* The entries of the root cache are those that orders left when they ended,
\* one for each blockage they gave up.
RootInv ==
    /\ \A x \in cancelled[Root] : x[1] \in Done /\ x[2] = x[3] /\ x[3] \in GivenUp(x[1])
    /\ \A p \in Done : \A b \in GivenUp(p) : <<p, b, b>> \in cancelled[Root]

\* Entries of a child: one for each shape on the nets of the order.
ChildInv ==
    \A o \in Orders :
        /\ phase[o] # "searching" => cancelled[o] = {}
        /\ \A x \in cancelled[o] :
               /\ NetOf[staged[x[2]]] \in NetsOf[o] \cup GlobalNets
               /\ Alike(staged[x[3]], staged[x[2]])
               /\ \A y \in cancelled[o] : x[2] = y[2] => x = y

CacheInv ==
    /\ StagedInv
    /\ cancelled \in [Caches -> SUBSET Entries]
    /\ phase \in [Orders -> {"waiting", "searching", "done"}]
    /\ RootInv
    /\ ChildInv

-----------------------------------------------------------------------------
LEMMA RootIsNoOrder == Root \notin Orders
  BY OrdersAssumption

LEMMA BlockagesAreFinite ==
    IsFiniteSet(Blockages) /\ Blockages \subseteq Nat /\ Cardinality(Shapes) \in Nat
  <1>1. Cardinality(Shapes) \in Nat
    BY ShapesAssumption, FS_CardinalityType
  <1>2. QED
    BY <1>1, FS_Interval DEF Blockages

\* The first of some numbers.
LEMMA Least ==
    ASSUME NEW S \in SUBSET Nat, S # {}
    PROVE  \E m \in S : \A n \in S : m <= n
  <1> DEFINE R == OpToRel(<, Nat)
  <1>1. IsWellFoundedOn(R, Nat)
    BY NatLessThanWellFounded
  <1> HIDE DEF R
  <1>2. PICK m \in S : \A n \in S : <<n, m>> \notin R
    BY <1>1, WFMin
  <1>3. \A n \in S : <<n, m>> \in R <=> n < m
    BY DEF R, OpToRel
  <1>4. \A n \in S : n \in Nat /\ m \in Nat /\ ~(n < m)
    BY <1>2, <1>3
  <1>5. QED
    BY <1>4

LEMMA FirstIsAlike ==
    ASSUME NEW i \in Blockages
    PROVE  FirstLike(i) \in Blockages /\ Alike(staged[FirstLike(i)], staged[i])
  <1> DEFINE S == {b \in Blockages : Alike(staged[b], staged[i])}
  <1>1. i \in S /\ S \in SUBSET Nat
    BY BlockagesAreFinite DEF Alike
  <1>2. PICK m \in S : \A n \in S : m <= n
    BY <1>1, Least
  <1>3. \A c \in Blockages : Alike(staged[c], staged[i]) => m <= c
    BY <1>2
  <1>4. QED
    BY <1>2, <1>3 DEF FirstLike

-----------------------------------------------------------------------------
\* The bookkeeping of both caches: whoever left an entry, and for which shape.
THEOREM CacheInvariant == Spec => []CacheInv
<1>1. Init => CacheInv
  <2> SUFFICES ASSUME Init PROVE CacheInv
    OBVIOUS
  <2>1. StagedInv
    BY DEF Init, StagedInv
  <2>2. cancelled \in [Caches -> SUBSET Entries] /\ phase \in [Orders -> {"waiting", "searching", "done"}]
    BY DEF Init, Caches
  <2>3. RootInv /\ ChildInv
    BY DEF Init, RootInv, ChildInv, Caches, Done
  <2> QED
    BY <2>1, <2>2, <2>3 DEF CacheInv
<1>2. CacheInv /\ [Next]_vars => CacheInv'
  <2> SUFFICES ASSUME CacheInv, [Next]_vars PROVE CacheInv'
    OBVIOUS
  <2> USE DEF CacheInv
  <2>1. CASE UNCHANGED vars
    <3>1. UNCHANGED <<staged, cancelled, phase>>
      BY <2>1 DEF vars
    <3> QED
      BY <3>1 DEF StagedInv, RootInv, ChildInv, Done, GivenUp
  <2>2. ASSUME NEW o \in Orders, BeginOrder(o) PROVE CacheInv'
    <3> DEFINE new == CancelShapes(o, NetsOf[o] \cup GlobalNets)
    <3>1. o # Root /\ phase[o] = "waiting" /\ staged' = staged
      BY <2>2, RootIsNoOrder DEF BeginOrder
    <3>2. \A x \in new : /\ x \in Entries
                         /\ NetOf[staged[x[2]]] \in NetsOf[o] \cup GlobalNets
                         /\ Alike(staged[x[3]], staged[x[2]])
                         /\ \A y \in new : x[2] = y[2] => x = y
      BY FirstIsAlike DEF CancelShapes, Entries
    <3> HIDE DEF new
    <3>3. cancelled' = [cancelled EXCEPT ![o] = new] /\ phase' = [phase EXCEPT ![o] = "searching"]
      BY <2>2 DEF BeginOrder, new
    <3>4. /\ cancelled' \in [Caches -> SUBSET Entries]
          /\ phase' \in [Orders -> {"waiting", "searching", "done"}]
      BY <3>2, <3>3
    <3>5. cancelled'[Root] = cancelled[Root]
      BY <3>1, <3>3 DEF Caches
    <3>6. RootInv'
      <4>1. Done' = Done
        BY <3>1, <3>3 DEF Done
      <4>2. \A p \in Done : GivenUp(p)' = GivenUp(p)
        BY <3>1 DEF GivenUp
      <4> QED
        BY <3>5, <4>1, <4>2 DEF RootInv
    <3>7. ChildInv'
      <4>1. SUFFICES ASSUME NEW p \in Orders
                     PROVE  /\ phase'[p] # "searching" => cancelled'[p] = {}
                            /\ \A x \in cancelled'[p] :
                                   /\ NetOf[staged[x[2]]] \in NetsOf[p] \cup GlobalNets
                                   /\ Alike(staged[x[3]], staged[x[2]])
                                   /\ \A y \in cancelled'[p] : x[2] = y[2] => x = y
        BY <3>1 DEF ChildInv
      <4>2. CASE p = o
        <5>1. cancelled'[p] = new /\ phase'[p] = "searching"
          BY <3>3, <4>2 DEF Caches
        <5> QED
          BY <5>1, <3>2, <4>2
      <4>3. CASE p # o
        <5>1. cancelled'[p] = cancelled[p] /\ phase'[p] = phase[p]
          BY <3>3, <4>3 DEF Caches
        <5> QED
          BY <5>1 DEF ChildInv
      <4> QED
        BY <4>2, <4>3
    <3>8. StagedInv'
      BY <3>1 DEF StagedInv
    <3> QED
      BY <3>4, <3>6, <3>7, <3>8
  <2>3. ASSUME NEW o \in Orders, EndOrder(o) PROVE CacheInv'
    <3> DEFINE new == AutoCancelled(o, NetsOf[o])
    <3>1. o # Root /\ phase[o] = "searching" /\ staged' = staged
      BY <2>3, RootIsNoOrder DEF EndOrder
    <3>2. new = {<<o, b, b>> : b \in GivenUp(o)}
      <4>1. \A b \in Blockages : LayerOf[staged[b]] \in AllLayers
        BY DEF StagedInv, AllLayers
      <4> QED
        BY <4>1 DEF AutoCancelled, MatchingOn, GivenUp
    <3> HIDE DEF new
    <3>3. /\ cancelled' = [cancelled EXCEPT ![o] = {}, ![Root] = @ \cup new]
          /\ phase' = [phase EXCEPT ![o] = "done"]
      BY <2>3 DEF EndOrder, new
    <3>4. /\ cancelled'[Root] = cancelled[Root] \cup new /\ cancelled'[o] = {}
          /\ \A p \in Orders \ {o} : cancelled'[p] = cancelled[p]
          /\ phase'[o] = "done" /\ \A p \in Orders \ {o} : phase'[p] = phase[p]
      BY <3>1, <3>3, RootIsNoOrder DEF Caches
    <3>5. /\ cancelled' \in [Caches -> SUBSET Entries]
          /\ phase' \in [Orders -> {"waiting", "searching", "done"}]
      <4>1. cancelled[Root] \cup new \in SUBSET Entries
        BY <3>2 DEF Caches, Entries, GivenUp
      <4> QED
        BY <4>1, <3>1, <3>3 DEF Caches
    <3>6. RootInv'
      <4>1. Done' = Done \cup {o} /\ \A p \in Orders : GivenUp(p)' = GivenUp(p)
        BY <3>1, <3>4 DEF Done, GivenUp
      <4>2. ASSUME NEW x \in cancelled[Root] \cup new
            PROVE  x[1] \in Done' /\ x[2] = x[3] /\ x[3] \in GivenUp(x[1])'
        <5>1. CASE x \in new
          BY <5>1, <3>2, <4>1
        <5>2. CASE x \in cancelled[Root]
          BY <5>2, <4>1 DEF RootInv, Done
        <5> QED
          BY <4>2, <5>1, <5>2
      <4>3. ASSUME NEW p \in Done', NEW b \in GivenUp(p)'
            PROVE  <<p, b, b>> \in cancelled[Root] \cup new
        <5>1. CASE p = o
          BY <5>1, <3>2, <4>1, <4>3
        <5>2. CASE p # o
          <6>1. p \in Done /\ b \in GivenUp(p)
            BY <5>2, <4>1, <4>3 DEF Done
          <6> QED
            BY <6>1 DEF RootInv
        <5> QED
          BY <5>1, <5>2
      <4> QED
        BY <3>4, <4>2, <4>3 DEF RootInv
    <3>7. ChildInv'
      BY <3>1, <3>4 DEF ChildInv
    <3>8. StagedInv'
      BY <3>1 DEF StagedInv
    <3> QED
      BY <3>5, <3>6, <3>7, <3>8
  <2>4. CASE AllDone
    BY <2>1, <2>4 DEF AllDone
  <2> QED
    BY <2>1, <2>2, <2>3, <2>4 DEF Next
<1> QED
  BY <1>1, <1>2, PTL DEF Spec

-----------------------------------------------------------------------------
\* How many entries there are.

\* What an order that ended gave up has an entry in the root cache, and so does
\* not stand.
LEMMA GivenUpDoesNotStand ==
    ASSUME CacheInv, NEW o \in Orders, NEW p \in Done, NEW b \in GivenUp(p)
    PROVE  b \notin Standing(o)
  <1>1. b \in Blockages /\ <<p, b, b>> \in cancelled[Root]
    BY DEF CacheInv, RootInv, GivenUp
  <1>2. <<Root, <<p, b, b>>>> \in EntriesFor({b}, {Root, o})
    BY <1>1 DEF EntriesFor
  <1>3. QED
    BY <1>2 DEF Standing

\* Nor does anything beside it on its net and its layer.
LEMMA StandingIsAlone ==
    ASSUME CacheInv, NEW o \in Orders, NEW b \in Standing(o), NEW c \in CancelledTwice(o),
           NetOf[staged[c]] = NetOf[staged[b]], LayerOf[staged[c]] = LayerOf[staged[b]]
    PROVE  FALSE
  <1>1. PICK p \in Done : c \in GivenUp(p)
    BY DEF CancelledTwice
  <1>2. b \in GivenUp(p)
    BY <1>1 DEF GivenUp, Standing
  <1>3. QED
    BY <1>2, GivenUpDoesNotStand

\* A set of blockages that holds, with a blockage, the shapes that are
\* cancelled through it for an order.
Closed(o, B) ==
    \A i \in Blockages, d \in B :
        /\ Alike(staged[d], staged[i])
        /\ NetOf[staged[i]] \in NetsOf[o] \cup GlobalNets
        => i \in B

LEMMA EntriesShape ==
    ASSUME CacheInv, NEW o \in Orders, NEW B \in SUBSET Blockages,
           NEW e \in EntriesFor(B, {Root, o})
    PROVE  /\ e = <<e[1], e[2]>> /\ e[1] \in {Root, o} /\ e[2] \in cancelled[e[1]]
           /\ e[2] = <<e[2][1], e[2][2], e[2][3]>>
           /\ e[2][1] \in Orders /\ e[2][2] \in Blockages /\ e[2][3] \in B
  <1>1. PICK c \in {Root, o} : e \in {c} \X {x \in cancelled[c] : x[3] \in B}
    BY DEF EntriesFor
  <1>2. e = <<e[1], e[2]>> /\ e[1] = c /\ e[2] \in cancelled[c] /\ e[2][3] \in B
    BY <1>1
  <1>3. e[2] \in Entries
    BY <1>2 DEF CacheInv, Caches
  <1>4. QED
    BY <1>2, <1>3 DEF Entries

\* The entries that count for an order differ by the shape they were made for,
\* unless the blockage was cancelled twice.
LEMMA EntriesDiffer ==
    ASSUME CacheInv, NEW o \in Searching, NEW B \in SUBSET Blockages,
           NEW e \in EntriesFor(B, {Root, o}), NEW f \in EntriesFor(B, {Root, o}),
           e[2][2] = f[2][2], e[2][2] \notin CancelledTwice(o)
    PROVE  e = f
  <1>1. o \in Orders
    BY DEF Searching
  <1>2. /\ e = <<e[1], e[2]>> /\ e[1] \in {Root, o} /\ e[2] \in cancelled[e[1]]
        /\ e[2] = <<e[2][1], e[2][2], e[2][3]>> /\ e[2][2] \in Blockages
    BY <1>1, EntriesShape
  <1>3. /\ f = <<f[1], f[2]>> /\ f[1] \in {Root, o} /\ f[2] \in cancelled[f[1]]
        /\ f[2] = <<f[2][1], f[2][2], f[2][3]>> /\ f[2][2] \in Blockages
    BY <1>1, EntriesShape
  <1>4. ASSUME NEW x \in cancelled[Root], NEW y \in cancelled[o], x[2] = y[2], x[2] \in Blockages
        PROVE  x[2] \in CancelledTwice(o)
    <2>1. x[1] \in Done /\ x[2] \in GivenUp(x[1])
      BY <1>4 DEF CacheInv, RootInv
    <2>2. NetOf[staged[x[2]]] \in NetsOf[o] \cup GlobalNets
      BY <1>1, <1>4 DEF CacheInv, ChildInv
    <2>3. QED
      BY <1>4, <2>1, <2>2 DEF CancelledTwice
  <1>5. CASE e[1] = Root /\ f[1] = Root
    <2>1. /\ e[2][1] \in Done /\ e[2][2] = e[2][3] /\ e[2][3] \in GivenUp(e[2][1])
          /\ f[2][1] \in Done /\ f[2][2] = f[2][3] /\ f[2][3] \in GivenUp(f[2][1])
      BY <1>2, <1>3, <1>5 DEF CacheInv, RootInv
    <2>2. e[2][1] = f[2][1]
      BY <1>2, <2>1 DEF CancelledTwice
    <2>3. e[2] = f[2]
      BY <1>2, <1>3, <2>1, <2>2
    <2>4. QED
      BY <1>2, <1>3, <1>5, <2>3
  <1>6. CASE e[1] = o /\ f[1] = o
    <2>1. e[2] = f[2]
      BY <1>1, <1>2, <1>3, <1>6 DEF CacheInv, ChildInv
    <2>2. QED
      BY <1>2, <1>3, <1>6, <2>1
  <1>7. CASE e[1] = Root /\ f[1] = o
    BY <1>2, <1>3, <1>4, <1>7
  <1>8. CASE e[1] = o /\ f[1] = Root
    BY <1>2, <1>3, <1>4, <1>8
  <1>9. QED
    BY <1>2, <1>3, <1>5, <1>6, <1>7, <1>8

LEMMA EntriesInto ==
    ASSUME CacheInv, NEW o \in Searching, NEW B \in SUBSET Blockages,
           NEW T \in SUBSET Blockages, T \cap CancelledTwice(o) = {},
           \A e \in EntriesFor(B, {Root, o}) : e[2][2] \in T
    PROVE  /\ IsFiniteSet(T) /\ IsFiniteSet(EntriesFor(B, {Root, o}))
           /\ Cardinality(EntriesFor(B, {Root, o})) <= Cardinality(T)
  <1> DEFINE S == EntriesFor(B, {Root, o})
             f == [e \in S |-> e[2][2]]
  <1>1. IsFiniteSet(T)
    BY BlockagesAreFinite, FS_Subset
  <1>2. \A d, e \in S : d[2][2] = e[2][2] => d = e
    <2>1. \A e \in S : e[2][2] \notin CancelledTwice(o)
      OBVIOUS
    <2>2. QED
      BY <2>1, EntriesDiffer
  <1> HIDE DEF S
  <1>3. f \in Injection(S, T)
    BY <1>2 DEF Injection, IsInjective, S
  <1>4. IsFiniteSet(S) /\ Cardinality(S) <= Cardinality(T)
    BY <1>1, <1>3, FS_Injection
  <1>5. QED
    BY <1>1, <1>4 DEF S

\* What keeps an entry of a child within a set of blockages.
LEMMA EntriesStay ==
    ASSUME CacheInv, NEW o \in Orders, NEW B \in SUBSET Blockages, Closed(o, B),
           NEW e \in EntriesFor(B, {Root, o})
    PROVE  e[2][2] \in B
  <1>1. e[1] \in {Root, o} /\ e[2] \in cancelled[e[1]] /\ e[2][2] \in Blockages /\ e[2][3] \in B
    BY EntriesShape
  <1>2. CASE e[1] = Root
    BY <1>1, <1>2 DEF CacheInv, RootInv
  <1>3. CASE e[1] = o
    BY <1>1, <1>3 DEF CacheInv, ChildInv, Closed
  <1>4. QED
    BY <1>1, <1>2, <1>3

LEMMA NoMoreEntries ==
    ASSUME CacheInv, NEW o \in Searching, NEW B \in SUBSET Blockages, Closed(o, B),
           B \cap CancelledTwice(o) = {}
    PROVE  /\ IsFiniteSet(B) /\ IsFiniteSet(EntriesFor(B, {Root, o}))
           /\ Cardinality(EntriesFor(B, {Root, o})) \in Nat /\ Cardinality(B) \in Nat
           /\ Cardinality(EntriesFor(B, {Root, o})) <= Cardinality(B)
  <1>1. \A e \in EntriesFor(B, {Root, o}) : e[2][2] \in B
    BY EntriesStay DEF Searching
  <1>2. /\ IsFiniteSet(B) /\ IsFiniteSet(EntriesFor(B, {Root, o}))
        /\ Cardinality(EntriesFor(B, {Root, o})) <= Cardinality(B)
    BY <1>1, EntriesInto
  <1>3. QED
    BY <1>2, FS_CardinalityType

\* A blockage on another net that nobody cancelled is counted, in a set without
\* any that was cancelled twice.
LEMMA StandingCounts ==
    ASSUME CacheInv, OrdersAreNamed, DrawnAlike, NEW o \in Searching, NEW B \in SUBSET Blockages,
           Closed(o, B), B \cap CancelledTwice(o) = {}, NEW b \in B, b \in Foreign(o)
    PROVE  CountUncancelled(B, {Root, o}) # 0
  <1>1. /\ o \in Orders /\ b \in Blockages /\ EntriesFor({b}, {Root, o}) = {}
        /\ NetOf[staged[b]] \notin NetsOf[o]
    BY DEF Foreign, Standing, OnOtherNets, Searching, BlockedByNet, OrdersAreNamed
  <1>2. ASSUME NEW c \in {Root, o}, NEW x \in cancelled[c] PROVE x[3] # b
    <2>1. SUFFICES ASSUME x[3] = b PROVE FALSE
      OBVIOUS
    <2>2. <<c, x>> \in EntriesFor({b}, {Root, o})
      BY <2>1 DEF EntriesFor
    <2>3. QED
      BY <1>1, <2>2
  <1>3. ASSUME NEW e \in EntriesFor(B, {Root, o})
        PROVE  e[2][2] \in B \ {b}
    <2>1. /\ e[1] \in {Root, o} /\ e[2] \in cancelled[e[1]]
          /\ e[2][2] \in Blockages /\ e[2][3] \in B
      BY <1>1, EntriesShape
    <2>2. e[2][2] \in B
      BY <1>1, EntriesStay
    <2>3. e[2][3] # b
      BY <1>2, <2>1
    <2>4. CASE e[1] = Root
      BY <2>1, <2>2, <2>3, <2>4 DEF CacheInv, RootInv
    <2>5. CASE e[1] = o
      <3>1. SUFFICES ASSUME e[2][2] = b PROVE FALSE
        BY <2>2
      <3>2. Alike(staged[e[2][3]], staged[b]) /\ NetOf[staged[b]] \in GlobalNets
        BY <1>1, <2>1, <2>5, <3>1 DEF CacheInv, ChildInv
      <3>3. staged[b] # staged[e[2][3]] /\ staged[b] \in Shapes /\ staged[e[2][3]] \in Shapes
        BY <1>1, <2>1, <2>3 DEF CacheInv, StagedInv
      <3>4. Alike(staged[b], staged[e[2][3]])
        BY <3>2 DEF Alike
      <3>5. QED
        BY <3>2, <3>3, <3>4 DEF DrawnAlike
    <2>6. QED
      BY <2>1, <2>4, <2>5
  <1>4. /\ IsFiniteSet(EntriesFor(B, {Root, o})) /\ IsFiniteSet(B \ {b})
        /\ Cardinality(EntriesFor(B, {Root, o})) <= Cardinality(B \ {b})
    <2>1. B \ {b} \in SUBSET Blockages /\ (B \ {b}) \cap CancelledTwice(o) = {}
      OBVIOUS
    <2>2. QED
      BY <1>3, <2>1, EntriesInto
  <1>5. IsFiniteSet(B) /\ Cardinality(B \ {b}) = Cardinality(B) - 1
    BY BlockagesAreFinite, FS_Subset, FS_RemoveElement
  <1>6. Cardinality(EntriesFor(B, {Root, o})) \in Nat /\ Cardinality(B) \in Nat
    BY <1>4, <1>5, FS_CardinalityType
  <1>7. QED
    BY <1>4, <1>5, <1>6 DEF CountUncancelled

\* Where every blockage was cancelled nothing is left to count.
LEMMA CancelledDoNotCount ==
    ASSUME CacheInv, NEW o \in Searching, NEW B \in SUBSET Blockages,
           Closed(o, B), B \cap CancelledTwice(o) = {}, B \cap Standing(o) = {}
    PROVE  CountUncancelled(B, {Root, o}) = 0
  <1> DEFINE S == EntriesFor(B, {Root, o})
             f == [b \in B |-> CHOOSE e \in S : e[2][3] = b]
  <1>1. ASSUME NEW b \in B PROVE \E e \in S : e[2][3] = b
    <2>1. EntriesFor({b}, {Root, o}) # {}
      BY DEF Standing
    <2>2. PICK c \in {Root, o} : \E x \in cancelled[c] : x[3] = b
      BY <2>1 DEF EntriesFor
    <2>3. PICK x \in cancelled[c] : x[3] = b
      BY <2>2
    <2>4. <<c, x>> \in S /\ <<c, x>>[2] = x
      BY <2>3 DEF EntriesFor
    <2>5. QED
      BY <2>3, <2>4
  <1> HIDE DEF S
  <1>2. \A b \in B : f[b] \in S /\ f[b][2][3] = b
    BY <1>1
  <1>3. f \in [B -> S]
    BY <1>2
  <1> HIDE DEF f
  <1>4. f \in Injection(B, S)
    BY <1>2, <1>3 DEF Injection, IsInjective
  <1>5. /\ IsFiniteSet(B) /\ IsFiniteSet(S) /\ Cardinality(S) \in Nat /\ Cardinality(B) \in Nat
        /\ Cardinality(S) <= Cardinality(B)
    BY NoMoreEntries DEF S
  <1>6. Cardinality(B) <= Cardinality(S)
    BY <1>4, <1>5, FS_Injection
  <1>7. QED
    BY <1>5, <1>6 DEF CountUncancelled, S

-----------------------------------------------------------------------------
\* The sets the cache counts in are closed: shapes drawn alike are on one net
\* and too near to the same vertices.
LEMMA NetsAreClosed ==
    ASSUME CacheInv, OrdersAreNamed, DrawnAlike, NEW o \in Orders, NEW net,
           BlockedByNet(net, NetsOf[o]), NEW B \in SUBSET Blockages,
           \A b \in B : NetOf[staged[b]] = net
    PROVE  Closed(o, B)
  <1>1. SUFFICES ASSUME NEW i \in Blockages, NEW d \in B, i # d,
                        Alike(staged[d], staged[i]),
                        NetOf[staged[i]] \in NetsOf[o] \cup GlobalNets
                 PROVE  FALSE
    BY DEF Closed
  <1>2. staged[d] \in Shapes /\ staged[i] \in Shapes /\ staged[d] # staged[i]
    BY <1>1 DEF CacheInv, StagedInv
  <1>3. /\ NetOf[staged[d]] = NetOf[staged[i]] /\ NetOf[staged[d]] \notin GlobalNets
        /\ NetOf[staged[d]] = net
    BY <1>1, <1>2 DEF DrawnAlike
  <1>4. net \in NetsOf[o]
    BY <1>1, <1>3
  <1>5. QED
    BY <1>4 DEF BlockedByNet, OrdersAreNamed

LEMMA EdgesAreClosed ==
    ASSUME CacheInv, OrdersAreNamed, DrawnAlike, NEW o \in Orders, NEW net, NEW e,
           BlockedByNet(net, NetsOf[o])
    PROVE  EdgeBlockages(e, net) \in SUBSET Blockages /\ Closed(o, EdgeBlockages(e, net))
  <1>1. /\ EdgeBlockages(e, net) \in SUBSET Blockages
        /\ \A b \in EdgeBlockages(e, net) : NetOf[staged[b]] = net
    BY DEF EdgeBlockages
  <1>2. QED
    BY <1>1, NetsAreClosed

LEMMA UsersAreClosed ==
    ASSUME CacheInv, OrdersAreNamed, DrawnAlike, NEW o \in Orders, NEW net, NEW v, NEW l,
           BlockedByNet(net, NetsOf[o])
    PROVE  Users(v, net, l) \in SUBSET Blockages /\ Closed(o, Users(v, net, l))
  <1>1. /\ Users(v, net, l) \in SUBSET Blockages
        /\ \A b \in Users(v, net, l) : NetOf[staged[b]] = net
    BY DEF Users
  <1>2. QED
    BY <1>1, NetsAreClosed

LEMMA InhibitorsAreClosed ==
    ASSUME CacheInv, DrawnAlike, NEW o \in Orders, NEW v, NEW d, NEW l
    PROVE  Inhibitors(v, d, l) \in SUBSET Blockages /\ Closed(o, Inhibitors(v, d, l))
  <1>1. Inhibitors(v, d, l) \in SUBSET Blockages
    BY DEF Inhibitors
  <1>2. SUFFICES ASSUME NEW i \in Blockages, NEW b \in Inhibitors(v, d, l), i # b,
                        Alike(staged[b], staged[i])
                 PROVE  i \in Inhibitors(v, d, l)
    BY <1>1 DEF Closed
  <1>3. b \in Blockages /\ LayerOf[staged[b]] = l /\ <<v, d>> \in Crowds[staged[b]]
    BY <1>2 DEF Inhibitors
  <1>4. staged[b] \in Shapes /\ staged[i] \in Shapes /\ staged[b] # staged[i]
    BY <1>2, <1>3 DEF CacheInv, StagedInv
  <1>5. Crowds[staged[i]] = Crowds[staged[b]] /\ LayerOf[staged[i]] = l
    BY <1>2, <1>3, <1>4 DEF DrawnAlike, Alike
  <1>6. QED
    BY <1>3, <1>5 DEF Inhibitors

LEMMA NetsOfShapes ==
    ASSUME CacheInv, NEW b \in Blockages
    PROVE  NetOf[staged[b]] \in AllNets /\ LayerOf[staged[b]] \in AllLayers
  BY DEF CacheInv, StagedInv, AllNets, AllLayers

-----------------------------------------------------------------------------
\* Blockages are neither lost nor forgotten: whatever orders have cancelled, a
\* shape on another net still keeps a search from its vertices, and from its
\* edges unless one of its net was cancelled twice there.
LEMMA StandingByInvariant ==
    ASSUME CacheInv, OrdersAreNamed, DrawnAlike
    PROVE  StandingBlock
  <1>1. SUFFICES ASSUME NEW o \in Searching, NEW b \in Foreign(o)
                 PROVE  /\ \A e \in EdgesAt[staged[b]] :
                               \/ EdgeBlocked(o, e)
                               \/ \E c \in CancelledTwice(o) :
                                      /\ e \in EdgesAt[staged[c]]
                                      /\ NetOf[staged[c]] = NetOf[staged[b]]
                                      /\ LayerOf[staged[c]] # LayerOf[staged[b]]
                        /\ \A v \in VerticesAt[staged[b]], d \in Directions :
                               VertexBlocked(o, v, {d}, {LayerOf[staged[b]]})
    BY DEF StandingBlock
  <1> DEFINE net == NetOf[staged[b]]
             l == LayerOf[staged[b]]
  <1>2. /\ o \in Orders /\ b \in Blockages /\ BlockedByNet(net, NetsOf[o])
        /\ net \in AllNets /\ b \in Standing(o)
    BY NetsOfShapes DEF Searching, Foreign, Standing, OnOtherNets
  <1>3. ASSUME NEW e \in EdgesAt[staged[b]],
               ~\E c \in CancelledTwice(o) :
                    e \in EdgesAt[staged[c]] /\ NetOf[staged[c]] = net /\ LayerOf[staged[c]] # l
        PROVE  EdgeBlocked(o, e)
    <2>1. b \in EdgeBlockages(e, net)
      BY <1>2 DEF EdgeBlockages
    <2>2. EdgeBlockages(e, net) \cap CancelledTwice(o) = {}
      BY <1>2, <1>3, StandingIsAlone DEF EdgeBlockages
    <2>3. CountUncancelled(EdgeBlockages(e, net), {Root, o}) # 0
      BY <1>2, <2>1, <2>2, EdgesAreClosed, StandingCounts
    <2>4. QED
      BY <1>2, <2>3 DEF EdgeBlocked
  <1>4. ASSUME NEW v \in VerticesAt[staged[b]] PROVE BlockedByUsers(o, v, {l})
    <2>1. b \in Users(v, net, l)
      BY <1>2 DEF Users
    <2>2. Users(v, net, l) \cap CancelledTwice(o) = {}
      BY <1>2, StandingIsAlone DEF Users
    <2>3. CountUncancelled(Users(v, net, l), {Root, o}) # 0
      BY <1>2, <2>1, <2>2, UsersAreClosed, StandingCounts
    <2>4. QED
      BY <1>2, <2>3 DEF BlockedByUsers
  <1>5. QED
    BY <1>3, <1>4 DEF VertexBlocked

\* A count that is not zero has something that stands behind it, or something
\* that was cancelled twice.
LEMMA CountsHaveCauses ==
    ASSUME CacheInv, NEW o \in Searching, NEW B \in SUBSET Blockages, Closed(o, B),
           CountUncancelled(B, {Root, o}) # 0
    PROVE  \E b \in B : b \in Standing(o) \cup CancelledTwice(o)
  BY CancelledDoNotCount

\* What was cancelled for an order, once, does not block it.
LEMMA IgnoredByInvariant ==
    ASSUME CacheInv, OrdersAreNamed, DrawnAlike
    PROVE  CancelledAreIgnored
  <1>1. SUFFICES ASSUME NEW o \in Searching
                 PROVE  /\ \A e \in AllEdges : EdgeBlocked(o, e) =>
                               \E b \in Standing(o) \cup CancelledTwice(o) : Covers(b, o, e)
                        /\ \A v \in AllVertices, d \in Directions, l \in AllLayers :
                               VertexBlocked(o, v, {d}, {l}) =>
                                   \E b \in Standing(o) \cup CancelledTwice(o) : Bars(b, o, v, d, l)
    BY DEF CancelledAreIgnored
  <1>2. o \in Orders
    BY DEF Searching
  <1>3. ASSUME NEW e \in AllEdges, EdgeBlocked(o, e)
        PROVE  \E b \in Standing(o) \cup CancelledTwice(o) : Covers(b, o, e)
    <2>1. PICK net \in AllNets : /\ BlockedByNet(net, NetsOf[o])
                                 /\ CountUncancelled(EdgeBlockages(e, net), {Root, o}) # 0
      BY <1>3 DEF EdgeBlocked
    <2>2. PICK b \in EdgeBlockages(e, net) : b \in Standing(o) \cup CancelledTwice(o)
      BY <1>2, <2>1, EdgesAreClosed, CountsHaveCauses
    <2>3. Covers(b, o, e)
      BY <2>1, <2>2 DEF EdgeBlockages, Covers, OnOtherNets
    <2>4. QED
      BY <2>2, <2>3
  <1>4. ASSUME NEW v \in AllVertices, NEW d \in Directions, NEW l \in AllLayers,
               VertexBlocked(o, v, {d}, {l})
        PROVE  \E b \in Standing(o) \cup CancelledTwice(o) : Bars(b, o, v, d, l)
    <2>1. CASE BlockedByUsers(o, v, {l})
      <3>1. PICK net \in AllNets : /\ BlockedByNet(net, NetsOf[o])
                                   /\ CountUncancelled(Users(v, net, l), {Root, o}) # 0
        BY <2>1 DEF BlockedByUsers
      <3>2. PICK b \in Users(v, net, l) : b \in Standing(o) \cup CancelledTwice(o)
        BY <1>2, <3>1, UsersAreClosed, CountsHaveCauses
      <3>3. Bars(b, o, v, d, l)
        BY <3>1, <3>2 DEF Users, Bars, OnOtherNets
      <3>4. QED
        BY <3>2, <3>3
    <2>2. CASE Inhibited(o, v, {d}, {l})
      <3>1. CountUncancelled(Inhibitors(v, d, l), {Root, o}) # 0
        BY <2>2 DEF Inhibited
      <3>2. PICK b \in Inhibitors(v, d, l) : b \in Standing(o) \cup CancelledTwice(o)
        BY <1>2, <3>1, InhibitorsAreClosed, CountsHaveCauses
      <3>3. QED
        BY <3>2 DEF Inhibitors, Bars
    <2>3. QED
      BY <1>4, <2>1, <2>2 DEF VertexBlocked
  <1>5. QED
    BY <1>3, <1>4

\* For every layout, set of orders and order of events, a net ordered more than
\* once included: blockages that were not cancelled for an order keep it from
\* their vertices, and from the edges they share with no blockage of their net
\* that was cancelled twice on another layer.
THEOREM StandingBlockagesBlock ==
    ASSUME OrdersAreNamed, DrawnAlike
    PROVE  Spec => []StandingBlock
  <1>1. CacheInv => StandingBlock
    BY StandingByInvariant
  <1>2. QED
    BY <1>1, CacheInvariant, PTL

\* And only those do, apart from the ones that were cancelled twice.
THEOREM CancelledBlockagesAreIgnored ==
    ASSUME OrdersAreNamed, DrawnAlike
    PROVE  Spec => []CancelledAreIgnored
  <1>1. CacheInv => CancelledAreIgnored
    BY IgnoredByInvariant
  <1>2. QED
    BY <1>1, CacheInvariant, PTL

-----------------------------------------------------------------------------
\* Views only open.

\* In a set an order counts in, without a blockage that was cancelled twice,
\* entries do not outnumber blockages.
CountsFit ==
    \A o \in Searching : \A B \in SUBSET Blockages :
        Closed(o, B) /\ B \cap CancelledTwice(o) = {} =>
            /\ IsFiniteSet(EntriesFor(B, {Root, o}))
            /\ Cardinality(EntriesFor(B, {Root, o})) \in Nat
            /\ Cardinality(EntriesFor(B, {Root, o})) <= Cardinality(B)

LEMMA CountsAlwaysFit == CacheInv => CountsFit
  BY NoMoreEntries DEF CountsFit

\* What a step leaves of the view of an order that goes on searching.
LEMMA EntriesOnlyGrow ==
    ASSUME CacheInv, [Next]_vars, NEW o \in Searching, o \in Searching'
    PROVE  /\ staged' = staged
           /\ cancelled[o] = cancelled'[o] /\ cancelled[Root] \subseteq cancelled'[Root]
  <1>1. o \in Orders /\ phase[o] = "searching" /\ phase'[o] = "searching" /\ o # Root
    BY RootIsNoOrder DEF Searching
  <1>2. CASE UNCHANGED vars
    BY <1>2 DEF vars
  <1>3. ASSUME NEW p \in Orders, BeginOrder(p)
        PROVE  staged' = staged /\ cancelled[o] = cancelled'[o] /\ cancelled[Root] = cancelled'[Root]
    <2>1. p # o /\ p # Root
      BY <1>1, <1>3, RootIsNoOrder DEF BeginOrder
    <2>2. QED
      BY <1>1, <1>3, <2>1 DEF BeginOrder, CacheInv, Caches
  <1>4. ASSUME NEW p \in Orders, EndOrder(p)
        PROVE  staged' = staged /\ cancelled[o] = cancelled'[o]
                   /\ cancelled[Root] \subseteq cancelled'[Root]
    <2>1. p # o /\ p # Root
      BY <1>1, <1>4, RootIsNoOrder DEF EndOrder, CacheInv
    <2>2. QED
      BY <1>1, <1>4, <2>1 DEF EndOrder, CacheInv, Caches
  <1>5. CASE AllDone
    BY <1>2, <1>5 DEF AllDone
  <1>6. QED
    BY <1>2, <1>3, <1>4, <1>5 DEF Next

LEMMA NothingToCountStays ==
    ASSUME CacheInv, CountsFit', [Next]_vars, NEW o \in Searching, o \in Searching',
           NEW B, B \subseteq Blockages, Closed(o, B), B \cap CancelledTwice(o)' = {},
           CountUncancelled(B, {Root, o}) = 0
    PROVE  CountUncancelled(B, {Root, o})' = 0
  <1> DEFINE S == EntriesFor(B, {Root, o})
             T == EntriesFor(B, {Root, o})'
  <1>1. staged' = staged /\ cancelled[o] = cancelled'[o] /\ cancelled[Root] \subseteq cancelled'[Root]
    BY EntriesOnlyGrow
  <1>2. S \subseteq T
    BY <1>1 DEF EntriesFor
  <1>3. Closed(o, B)'
    BY <1>1 DEF Closed
  <1>4. IsFiniteSet(T) /\ Cardinality(T) \in Nat /\ Cardinality(T) <= Cardinality(B)
    BY <1>3 DEF CountsFit
  <1>5. Cardinality(B) \in Nat
    BY BlockagesAreFinite, FS_Subset, FS_CardinalityType
  <1>6. IsFiniteSet(S) /\ Cardinality(S) \in Nat /\ Cardinality(S) <= Cardinality(T)
    BY <1>2, <1>4, FS_Subset, FS_CardinalityType
  <1>7. Cardinality(B) = Cardinality(S)
    BY <1>5, <1>6 DEF CountUncancelled
  <1>8. Cardinality(B) = Cardinality(T)
    BY <1>4, <1>5, <1>6, <1>7
  <1>9. QED
    BY <1>4, <1>8 DEF CountUncancelled

\* Whatever other orders cancel when they end, a search loses nothing it could
\* use but where a blockage was cancelled twice: entries only grow, and
\* elsewhere never past the blockages.
THEOREM ViewsOfSearchesOnlyOpen ==
    ASSUME OrdersAreNamed, DrawnAlike
    PROVE  Spec => ViewsOnlyOpen
  <1> DEFINE Opens ==
          \A o \in Searching \cap Searching' :
           /\ \A e \in AllEdges : EdgeBlocked(o, e)' =>
                  EdgeBlocked(o, e) \/ (\E b \in CancelledTwice(o) : Covers(b, o, e))'
           /\ \A v \in AllVertices, d \in Directions, l \in AllLayers :
                  VertexBlocked(o, v, {d}, {l})' =>
                      \/ VertexBlocked(o, v, {d}, {l})
                      \/ (\E b \in CancelledTwice(o) : Bars(b, o, v, d, l))'
  <1>1. CacheInv /\ CountsFit' /\ [Next]_vars => Opens
    <2>1. SUFFICES ASSUME CacheInv, CountsFit', [Next]_vars,
                          NEW o \in Searching, o \in Searching'
                   PROVE  /\ \A e \in AllEdges : EdgeBlocked(o, e)' =>
                                 EdgeBlocked(o, e) \/ (\E b \in CancelledTwice(o) : Covers(b, o, e))'
                          /\ \A v \in AllVertices, d \in Directions, l \in AllLayers :
                                 VertexBlocked(o, v, {d}, {l})' =>
                                     \/ VertexBlocked(o, v, {d}, {l})
                                     \/ (\E b \in CancelledTwice(o) : Bars(b, o, v, d, l))'
      OBVIOUS
    <2>2. staged' = staged /\ o \in Orders
      BY <2>1, EntriesOnlyGrow DEF Searching
    <2>3. ASSUME NEW e \in AllEdges, EdgeBlocked(o, e)',
                 ~(\E b \in CancelledTwice(o) : Covers(b, o, e))'
          PROVE  EdgeBlocked(o, e)
      <3>1. PICK net \in AllNets :
                /\ BlockedByNet(net, NetsOf[o])
                /\ CountUncancelled(EdgeBlockages(e, net), {Root, o})' # 0
        BY <2>3 DEF EdgeBlocked
      <3>2. PICK B : B = EdgeBlockages(e, net)
        OBVIOUS
      <3>3. EdgeBlockages(e, net)' = B
        BY <2>2, <3>2 DEF EdgeBlockages
      <3>4. B \subseteq Blockages /\ Closed(o, B)
        BY <2>1, <2>2, <3>1, <3>2, EdgesAreClosed
      <3>5. CountUncancelled(B, {Root, o})' # 0
        BY <3>1, <3>3 DEF CountUncancelled, EntriesFor
      <3>6. B \cap CancelledTwice(o)' = {}
        BY <2>2, <2>3, <3>1, <3>2 DEF Covers, OnOtherNets, EdgeBlockages
      <3>7. CountUncancelled(B, {Root, o}) # 0
        BY <2>1, <3>4, <3>5, <3>6, NothingToCountStays
      <3>8. QED
        BY <3>1, <3>2, <3>7 DEF EdgeBlocked
    <2>4. ASSUME NEW v \in AllVertices, NEW d \in Directions, NEW l \in AllLayers,
                 VertexBlocked(o, v, {d}, {l})',
                 ~(\E b \in CancelledTwice(o) : Bars(b, o, v, d, l))'
          PROVE  VertexBlocked(o, v, {d}, {l})
      <3>1. CASE BlockedByUsers(o, v, {l})'
        <4>1. PICK net \in AllNets :
                  /\ BlockedByNet(net, NetsOf[o])
                  /\ CountUncancelled(Users(v, net, l), {Root, o})' # 0
          BY <3>1 DEF BlockedByUsers
        <4>2. PICK B : B = Users(v, net, l)
          OBVIOUS
        <4>3. Users(v, net, l)' = B
          BY <2>2, <4>2 DEF Users
        <4>4. B \subseteq Blockages /\ Closed(o, B)
          BY <2>1, <2>2, <4>1, <4>2, UsersAreClosed
        <4>5. CountUncancelled(B, {Root, o})' # 0
          BY <4>1, <4>3 DEF CountUncancelled, EntriesFor
        <4>6. B \cap CancelledTwice(o)' = {}
          BY <2>2, <2>4, <4>1, <4>2 DEF Bars, OnOtherNets, Users
        <4>7. CountUncancelled(B, {Root, o}) # 0
          BY <2>1, <4>4, <4>5, <4>6, NothingToCountStays
        <4>8. QED
          BY <4>1, <4>2, <4>7 DEF VertexBlocked, BlockedByUsers
      <3>2. CASE Inhibited(o, v, {d}, {l})'
        <4>1. CountUncancelled(Inhibitors(v, d, l), {Root, o})' # 0
          BY <3>2 DEF Inhibited
        <4>2. PICK B : B = Inhibitors(v, d, l)
          OBVIOUS
        <4>3. Inhibitors(v, d, l)' = B
          BY <2>2, <4>2 DEF Inhibitors
        <4>4. B \subseteq Blockages /\ Closed(o, B)
          BY <2>1, <2>2, <4>2, InhibitorsAreClosed
        <4>5. CountUncancelled(B, {Root, o})' # 0
          BY <4>1, <4>3 DEF CountUncancelled, EntriesFor
        <4>6. B \cap CancelledTwice(o)' = {}
          BY <2>2, <2>4, <4>2 DEF Bars, Inhibitors
        <4>7. CountUncancelled(B, {Root, o}) # 0
          BY <2>1, <4>4, <4>5, <4>6, NothingToCountStays
        <4>8. QED
          BY <4>2, <4>7 DEF VertexBlocked, Inhibited
      <3>3. QED
        BY <2>4, <3>1, <3>2 DEF VertexBlocked
    <2>5. QED
      BY <2>3, <2>4
  <1>2. QED
    BY <1>1, CacheInvariant, CountsAlwaysFit, PTL DEF ViewsOnlyOpen, Spec

-----------------------------------------------------------------------------
\* The composition with the geometry.

LEMMA WiresClear ==
    ASSUME ShapesFitWindow, CacheInv, StandingBlock
    PROVE  OfferedWiresAreClear
  <1>1. SUFFICES ASSUME NEW o \in Searching, NEW e \in GridEdges, ~EdgeBlocked(o, e),
                        NEW b \in Foreign(o), e.layer \in BlockedLayers[staged[b]],
                        CancelledTwice(o) \cap EdgeBlockages(e, NetOf[staged[b]]) = {},
                        ~WireIsClear(e, BoxOf[staged[b]])
                 PROVE  FALSE
    BY DEF OfferedWiresAreClear
  <1>2. staged[b] \in Shapes
    BY DEF CacheInv, StagedInv, Foreign, Standing
  <1>3. BoxOf[staged[b]] \in Rectangles
    BY <1>2 DEF ShapesFitWindow
  <1>4. e \in EdgesAffected(BoxOf[staged[b]], BlockedLayers[staged[b]])
    BY <1>1, <1>3, NearWiresAreEntered
  <1>5. e \in EdgesAt[staged[b]]
    BY <1>2, <1>4, StagedAssumption
  <1>6. PICK c \in CancelledTwice(o) : e \in EdgesAt[staged[c]] /\ NetOf[staged[c]] = NetOf[staged[b]]
    <2>1. \/ EdgeBlocked(o, e)
          \/ \E c \in CancelledTwice(o) :
                 e \in EdgesAt[staged[c]] /\ NetOf[staged[c]] = NetOf[staged[b]]
      BY <1>5 DEF StandingBlock
    <2>2. QED
      BY <1>1, <2>1
  <1>7. c \in EdgeBlockages(e, NetOf[staged[b]])
    BY <1>6 DEF EdgeBlockages, CancelledTwice
  <1>8. QED
    BY <1>1, <1>6, <1>7

\* A smaller via is clear where a larger one is.
LEMMA SmallerViasFit ==
    ASSUME NEW v \in GridVertices, NEW d \in Headings, NEW l \in GridLayers, NEW m \in GridLayers,
           encap_length[l] <= encap_length[m], encap_width[l] <= encap_width[m],
           NEW r \in Rectangles, NEW layer, min_separation[layer] \in Nat,
           ViaIsClear(v, d, m, r, layer)
    PROVE  ViaIsClear(v, d, l, r, layer)
  <1> DEFINE x == Coordinate(Columns, v[1])
             y == Coordinate(Rows, v[2])
             wide(k) == IF d = "horizontal" THEN encap_length[k] ELSE encap_width[k]
             tall(k) == IF d = "vertical" THEN encap_length[k] ELSE encap_width[k]
             s == min_separation[layer] + padding
  <1>1. x \in Int /\ y \in Int
    BY GridAssumption, TracksAreInts DEF GridVertices
  <1>2. /\ wide(l) \in Nat /\ wide(m) \in Nat /\ wide(l) <= wide(m)
        /\ tall(l) \in Nat /\ tall(m) \in Nat /\ tall(l) <= tall(m)
    BY GridAssumption
  <1>3. \A i, j \in Nat : i <= j => i \div 2 \in Nat /\ j \div 2 \in Nat /\ i \div 2 <= j \div 2
    BY SMT
  <1>4. /\ wide(l) \div 2 \in Nat /\ wide(m) \div 2 \in Nat /\ wide(l) \div 2 <= wide(m) \div 2
        /\ tall(l) \div 2 \in Nat /\ tall(m) \div 2 \in Nat /\ tall(l) \div 2 <= tall(m) \div 2
    BY <1>2, <1>3
  <1>5. /\ r.x[1] \in Int /\ r.x[2] \in Int /\ r.y[1] \in Int /\ r.y[2] \in Int /\ s \in Int
    BY GridAssumption DEF Rectangles
  <1>6. \A k \in {l, m} : Footprint(v, k, d, 0) =
            [x |-> <<x - wide(k) \div 2, x + wide(k) \div 2>>,
             y |-> <<y - tall(k) \div 2, y + tall(k) \div 2>>]
    BY <1>1, <1>4 DEF Footprint, Around
  <1> HIDE DEF wide, tall, x, y
  <1>7. \A k \in {l, m} : ViaIsClear(v, d, k, r, layer) <=>
            \/ x + wide(k) \div 2 + s <= r.x[1] \/ r.x[2] + s <= x - wide(k) \div 2
            \/ y + tall(k) \div 2 + s <= r.y[1] \/ r.y[2] + s <= y - tall(k) \div 2
    BY <1>6 DEF ViaIsClear, Apart
  <1>8. QED
    BY <1>1, <1>4, <1>5, <1>7

LEMMA ViasClear ==
    ASSUME ShapesFitWindow, LowestViaIsLargest, OrdersAreNamed, DrawnAlike, CacheInv
    PROVE  OfferedViasAreClear
  <1>1. SUFFICES ASSUME NEW o \in Searching, NEW v \in GridVertices,
                        ~VertexBlocked(o, v, Directions, AllLayers),
                        NEW b \in Foreign(o), NEW d \in Directions,
                        CancelledTwice(o) \cap Inhibitors(v, d, LayerOf[staged[b]]) = {},
                        NEW l \in BlockedLayers[staged[b]] \cap GridLayers
                 PROVE  ViaIsClear(v, d, l, BoxOf[staged[b]], LayerOf[staged[b]])
    BY DEF OfferedViasAreClear
  <1> DEFINE s == staged[b]
             layers == BlockedLayers[s]
             lowest == CheckedLayer(layers)
  <1>2. o \in Orders /\ b \in Blockages /\ s \in Shapes /\ d \in Headings
    BY DEF CacheInv, StagedInv, Foreign, Standing, Searching, Directions, Headings
  <1>3. lowest \in GridLayers
    BY LowestLayer
  <1>4. ViaIsClear(v, d, lowest, BoxOf[s], LayerOf[s])
    <2>1. SUFFICES ASSUME ~ViaIsClear(v, d, lowest, BoxOf[s], LayerOf[s]) PROVE FALSE
      OBVIOUS
    <2>2. <<v, d>> \in ViasCrowded(BoxOf[s], LayerOf[s], layers)
      BY <1>2, <2>1, NearViasAreEntered DEF ShapesFitWindow
    <2>3. b \in Inhibitors(v, d, LayerOf[s])
      BY <1>2, <2>2, StagedAssumption DEF Inhibitors
    <2>4. CountUncancelled(Inhibitors(v, d, LayerOf[s]), {Root, o}) # 0
      BY <1>1, <1>2, <2>3, InhibitorsAreClosed, StandingCounts
    <2>5. LayerOf[s] \in AllLayers
      BY <1>2, NetsOfShapes
    <2>6. QED
      BY <1>1, <2>4, <2>5 DEF VertexBlocked, Inhibited
  <1>5. QED
    BY <1>2, <1>3, <1>4, SmallerViasFit DEF ShapesFitWindow, LowestViaIsLargest

\* What is staged and what is counted together: a wire that a search may lay
\* keeps the separation from the shapes of other nets that were not cancelled
\* for it, for every grid, layout and set of orders, except beside a blockage
\* of the same net that was cancelled twice.
THEOREM WiresOfSearchesAreClear ==
    ASSUME OrdersAreNamed, DrawnAlike, ShapesFitWindow
    PROVE  Spec => []OfferedWiresAreClear
  <1>1. CacheInv => OfferedWiresAreClear
    BY StandingByInvariant, WiresClear
  <1>2. QED
    BY <1>1, CacheInvariant, PTL

\* And a vertex that it may use has room for a via, where the layer that is
\* checked has the largest and nothing on the layer of the shape that is in the
\* way of the via was cancelled twice.
THEOREM ViasOfSearchesAreClear ==
    ASSUME OrdersAreNamed, DrawnAlike, ShapesFitWindow, LowestViaIsLargest
    PROVE  Spec => []OfferedViasAreClear
  <1>1. CacheInv => OfferedViasAreClear
    BY ViasClear
  <1>2. QED
    BY <1>1, CacheInvariant, PTL
=====
