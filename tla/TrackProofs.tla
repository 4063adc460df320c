---- MODULE TrackProofs ----
(***************************************************************************)
(* Proofs about RoutingTrack for any offsets, shapes, paddings, widths and *)
(* nets, in both modes of a track, however many vertices come and go and   *)
(* however much metal is laid.                                             *)
(***************************************************************************)
EXTENDS RoutingTrack, FiniteSetTheorems, WellFoundedInduction, TLAPS

-----------------------------------------------------------------------------
\* Spans and margins.

Spanning == [start : Int, end : Int, net : Nets \cup {NoName}]
Proper(B) == IsFiniteSet(B) /\ B \subseteq Spanning /\ \A b \in B : b.start < b.end

LEMMA MarginsArePositive ==
    /\ min_separation_between_edges \in Nat /\ min_separation_between_edges >= 1
    /\ min_separation_to_new_blockages \in Nat /\ min_separation_to_new_blockages >= 1
<1>1. vertex_via_length \div 2 \in Nat
  BY TrackAssumption
<1> QED
  BY <1>1, TrackAssumption DEF min_separation_between_edges, min_separation_to_new_blockages

\* A blockage blocks a span when they have a position in common.
LEMMA BlocksIsMeeting ==
    ASSUME NEW b, b.start \in Int, b.end \in Int, b.start <= b.end,
           NEW low \in Int, NEW high \in Int, low <= high
    PROVE  Blocks(b, low, high) <=> b.start <= high /\ low <= b.end
BY DEF Blocks

LEMMA OffsetsOfPairs ==
    ASSUME NEW e \in Pairs
    PROVE  e[1] \in Offsets /\ e[2] \in Offsets /\ e[1] \in Int /\ e[2] \in Int /\ e[1] < e[2]
BY TrackAssumption DEF Pairs

\* What touches an edge is too close to it for another net.
LEMMA TouchingIsClose ==
    ASSUME NEW b \in Spanning, b.start < b.end, NEW e \in Pairs, BlocksEdge(b, e, 0)
    PROVE  BlocksEdge(b, e, min_separation_to_new_blockages)
<1> DEFINE r == min_separation_to_new_blockages
<1>1. /\ e[1] \in Int /\ e[2] \in Int /\ e[1] < e[2] /\ b.start \in Int /\ b.end \in Int
      /\ r \in Nat /\ r >= 1
  BY OffsetsOfPairs, MarginsArePositive DEF Spanning
<1> HIDE DEF r
<1>2. b.start <= e[2] /\ e[1] <= b.end
  BY <1>1 DEF BlocksEdge, Blocks
<1>3. e[1] - (r - 1) <= e[2] + (r - 1) /\ b.start <= e[2] + (r - 1) /\ e[1] - (r - 1) <= b.end
  BY <1>1, <1>2
<1>4. BlocksEdge(b, e, r)
  BY <1>1, <1>3 DEF BlocksEdge, Blocks
<1> QED
  BY <1>4 DEF r

\* What is in the way of a part is in the way of the whole, at any margin: of a
\* blockage that covers another, and of an edge that has an end at a point.
LEMMA WiderBlocksToo ==
    ASSUME NEW a, NEW b, a.start \in Int, a.end \in Int, b.start \in Int, b.end \in Int,
           b.start <= a.start, a.start <= a.end, a.end <= b.end,
           NEW low \in Int, NEW high \in Int, Blocks(a, low, high)
    PROVE  Blocks(b, low, high)
BY DEF Blocks

LEMMA EndIsClose ==
    ASSUME NEW b \in Spanning, b.start < b.end, NEW e \in Pairs, NEW v \in {e[1], e[2]},
           BlocksEdge(b, <<v, v>>, min_separation_to_new_blockages)
    PROVE  BlocksEdge(b, e, min_separation_to_new_blockages)
<1> DEFINE r == min_separation_to_new_blockages
<1>1. /\ e[1] \in Int /\ e[2] \in Int /\ e[1] < e[2] /\ b.start \in Int /\ b.end \in Int
      /\ r \in Nat /\ r >= 1
  BY OffsetsOfPairs, MarginsArePositive DEF Spanning
<1> HIDE DEF r
<1>2. Blocks(b, v - (r - 1), v + (r - 1))
  BY DEF BlocksEdge, r
<1>3. b.start <= v + (r - 1) /\ v - (r - 1) <= b.end
  BY <1>1, <1>2, BlocksIsMeeting
<1>4. b.start <= e[2] + (r - 1) /\ e[1] - (r - 1) <= b.end
  BY <1>1, <1>3
<1>5. Blocks(b, e[1] - (r - 1), e[2] + (r - 1))
  BY <1>1, <1>4, BlocksIsMeeting
<1> QED
  BY <1>5 DEF BlocksEdge, r

-----------------------------------------------------------------------------
\* The first and the last of some blockages.

LEMMA LeastNumber ==
    ASSUME NEW S \in SUBSET Nat, S # {}
    PROVE  \E m \in S : \A n \in S : m <= n
<1> DEFINE R == OpToRel(<, Nat)
<1>1. IsWellFoundedOn(R, Nat)
  BY NatLessThanWellFounded
<1> HIDE DEF R
<1>2. PICK m \in S : \A n \in S : <<n, m>> \notin R
  BY <1>1, WFMin
<1>3. \A n \in S : <<n, m>> \in R <=> n < m
  BY DEF R, OpToRel
<1>4. \A n \in S : n \in Nat /\ m \in Nat /\ ~(n < m)
  BY <1>2, <1>3
<1> QED
  BY <1>4

\* In a finite order something has nothing before it: what has least before it.
LEMMA SomethingIsFirst ==
    ASSUME NEW B, IsFiniteSet(B), B # {}, NEW R,
           \A b \in B : <<b, b>> \notin R,
           \A a, b, c \in B : <<a, b>> \in R /\ <<b, c>> \in R => <<a, c>> \in R
    PROVE  \E b \in B : \A c \in B : <<c, b>> \notin R
<1> DEFINE Earlier(b) == {c \in B : <<c, b>> \in R}
           Counts == {m \in Nat : \E b \in B : m = Cardinality(Earlier(b))}
<1>1. \A b \in B : IsFiniteSet(Earlier(b)) /\ Cardinality(Earlier(b)) \in Nat
  BY FS_Subset, FS_CardinalityType
<1>2. ASSUME NEW b \in B, NEW c \in B, <<c, b>> \in R
      PROVE  Earlier(c) \subseteq Earlier(b) /\ Earlier(c) # Earlier(b)
  BY <1>2
<1> HIDE DEF Earlier
<1>3. Counts \in SUBSET Nat /\ Counts # {}
  BY <1>1
<1>4. PICK m \in Counts : \A n \in Counts : m <= n
  BY <1>3, LeastNumber
<1>5. PICK b \in B : m = Cardinality(Earlier(b))
  BY <1>4
<1>6. ASSUME NEW c \in B, <<c, b>> \in R PROVE FALSE
  <2>1. Earlier(c) \subseteq Earlier(b) /\ Earlier(c) # Earlier(b)
    BY <1>2, <1>6
  <2>2. /\ Cardinality(Earlier(c)) <= Cardinality(Earlier(b))
        /\ Cardinality(Earlier(b)) = Cardinality(Earlier(c)) => Earlier(b) = Earlier(c)
    BY <1>1, <2>1, FS_Subset
  <2>3. m <= Cardinality(Earlier(c))
    BY <1>1, <1>4
  <2>4. Cardinality(Earlier(b)) = Cardinality(Earlier(c))
    BY <1>1, <1>5, <2>2, <2>3
  <2> QED
    BY <2>1, <2>2, <2>4
<1> QED
  BY <1>6

LEMMA FirstOfBlockages ==
    ASSUME NEW B, IsFiniteSet(B), B # {}, B \subseteq Spanning
    PROVE  First(B) \in B /\ \A c \in B : ~Before(c, First(B))
<1> DEFINE R == {p \in B \X B : Before(p[1], p[2])}
<1>1. \A b \in B : b.start \in Int /\ b.end \in Int
  BY DEF Spanning
<1>2. \A b \in B : <<b, b>> \notin R
  BY <1>1 DEF Before
<1>3. \A a, b, c \in B : <<a, b>> \in R /\ <<b, c>> \in R => <<a, c>> \in R
  BY <1>1 DEF Before
<1>4. \A b, c \in B : <<c, b>> \in R <=> Before(c, b)
  OBVIOUS
<1> HIDE DEF R
<1>5. \E b \in B : \A c \in B : <<c, b>> \notin R
  BY <1>2, <1>3, SomethingIsFirst
<1>6. \E b \in B : \A c \in B : ~Before(c, b)
  BY <1>4, <1>5
<1> QED
  BY <1>6 DEF First

LEMMA LastOfBlockages ==
    ASSUME NEW B, IsFiniteSet(B), B # {}, B \subseteq Spanning
    PROVE  Last(B) \in B /\ \A c \in B : ~Before(Last(B), c)
<1> DEFINE R == {p \in B \X B : Before(p[2], p[1])}
<1>1. \A b \in B : b.start \in Int /\ b.end \in Int
  BY DEF Spanning
<1>2. \A b \in B : <<b, b>> \notin R
  BY <1>1 DEF Before
<1>3. \A a, b, c \in B : <<a, b>> \in R /\ <<b, c>> \in R => <<a, c>> \in R
  BY <1>1 DEF Before
<1>4. \A b, c \in B : <<c, b>> \in R <=> Before(b, c)
  OBVIOUS
<1> HIDE DEF R
<1>5. \E b \in B : \A c \in B : <<c, b>> \notin R
  BY <1>2, <1>3, SomethingIsFirst
<1>6. \E b \in B : \A c \in B : ~Before(b, c)
  BY <1>4, <1>5
<1> QED
  BY <1>6 DEF Last

-----------------------------------------------------------------------------
\* MergeNewBlockage: on a list whose blockages are apart, the new blockage
\* covers what it replaces and is apart from what stays.

Apart(list) ==
    \A b, c \in list :
        b.net = c.net => \/ b = c
                         \/ b.end + min_separation_between_edges <= c.start
                         \/ c.end + min_separation_between_edges <= b.start

Met(list, start, end, margin, net) ==
    {b \in list : b.net = net /\ Blocks(b, start - (margin - 1), end + (margin - 1))}

LEMMA Merging ==
    ASSUME NEW list, Proper(list), Apart(list), NEW start \in Int, NEW end \in Int, start < end,
           NEW margin \in Nat, margin >= min_separation_between_edges, NEW net \in Nets \cup {NoName}
    PROVE  LET merged == Merge(list, start, end, margin, net)
               new == merged.new
               met == Met(list, start, end, margin, net)
           IN  /\ new \in Spanning /\ new.net = net
               /\ new.start <= start /\ end <= new.end
               /\ \A b \in met : b \in list /\ b.net = net /\ new.start <= b.start /\ b.end <= new.end
               /\ new.start = start \/ \E b \in met : new.start = b.start
               /\ new.end = end \/ \E b \in met : new.end = b.end
               /\ merged.list = (list \ met) \cup {new}
               /\ Proper(merged.list) /\ Apart(merged.list)
<1> DEFINE merged == Merge(list, start, end, margin, net)
           new == merged.new
           met == Met(list, start, end, margin, net)
<1>1. /\ met \subseteq list /\ IsFiniteSet(met) /\ met \subseteq Spanning
      /\ \A b \in list : b \in Spanning /\ b.start \in Int /\ b.end \in Int /\ b.start < b.end
      /\ \A b \in met : b.net = net
  BY FS_Subset DEF Met, Proper, Spanning
<1>2. /\ merged.list = (list \ met) \cup {new}
      /\ new = IF met = {} THEN [start |-> start, end |-> end, net |-> net]
               ELSE [start |-> IF First(met).start < start THEN First(met).start ELSE start,
                     end |-> IF Last(met).end > end THEN Last(met).end ELSE end,
                     net |-> net]
  BY DEF Merge, Met
<1> HIDE DEF new, merged
<1>3. ASSUME met # {}
      PROVE  /\ First(met) \in met /\ \A b \in met : First(met).start <= b.start
             /\ Last(met) \in met /\ \A b \in met : b.end <= Last(met).end
  <2>1. First(met) \in met /\ \A b \in met : ~Before(b, First(met))
    BY <1>1, <1>3, FirstOfBlockages
  <2>2. Last(met) \in met /\ \A b \in met : ~Before(Last(met), b)
    BY <1>1, <1>3, LastOfBlockages
  <2> DEFINE f == First(met)
             l == Last(met)
  <2> HIDE DEF f, l
  <2>3. \A b \in met : f.start <= b.start
    BY <1>1, <2>1 DEF Before, f
  <2>4. ASSUME NEW b \in met PROVE b.end <= l.end
    <3>1. b \in list /\ l \in list /\ b.net = l.net /\ ~Before(l, b)
      BY <1>1, <2>2 DEF l
    <3>2. b = l \/ b.end + min_separation_between_edges <= l.start
                \/ l.end + min_separation_between_edges <= b.start
      BY <3>1 DEF Apart
    <3> QED
      BY <1>1, <3>1, <3>2, MarginsArePositive DEF Before
  <2> QED
    BY <2>1, <2>2, <2>3, <2>4 DEF f, l
<1>4. /\ new \in Spanning /\ new.net = net /\ new.start < new.end
      /\ new.start <= start /\ end <= new.end
      /\ \A b \in met : new.start <= b.start /\ b.end <= new.end
      /\ new.start = start \/ \E b \in met : new.start = b.start
      /\ new.end = end \/ \E b \in met : new.end = b.end
  <2>1. CASE met = {}
    BY <1>2, <2>1 DEF Spanning
  <2>2. CASE met # {}
    <3>1. First(met).start \in Int /\ Last(met).end \in Int
      BY <1>1, <1>3, <2>2
    <3>2. /\ new.start = IF First(met).start < start THEN First(met).start ELSE start
          /\ new.end = IF Last(met).end > end THEN Last(met).end ELSE end
          /\ new.net = net /\ new \in Spanning
      BY <1>2, <2>2, <3>1 DEF Spanning
    <3>3. \A b \in met : b.start \in Int /\ b.end \in Int
      BY <1>1
    <3> QED
      BY <1>3, <2>2, <3>1, <3>2, <3>3
  <2> QED
    BY <2>1, <2>2
<1>5. Proper(merged.list)
  <2>1. IsFiniteSet(list \ met) /\ list \ met \subseteq list
    BY FS_Subset DEF Proper
  <2>2. IsFiniteSet((list \ met) \cup {new})
    BY <2>1, FS_AddElement
  <2> QED
    BY <1>1, <1>2, <1>4, <2>2 DEF Proper
<1>6. ASSUME NEW b \in list \ met, b.net = net
      PROVE  b.end + min_separation_between_edges <= new.start \/ new.end + min_separation_between_edges <= b.start
  <2> DEFINE gap == min_separation_between_edges
  <2>0. gap \in Nat /\ gap >= 1 /\ margin >= gap /\ b.start \in Int /\ b.end \in Int /\ b.start < b.end
    BY <1>1, MarginsArePositive
  <2> HIDE DEF gap
  <2>1. b.end + margin <= start \/ end + margin <= b.start
    <3>1. ~Blocks(b, start - (margin - 1), end + (margin - 1))
      BY <1>6 DEF Met
    <3>2. start - (margin - 1) <= end + (margin - 1)
      BY <2>0
    <3>3. ~(b.start <= end + (margin - 1) /\ start - (margin - 1) <= b.end)
      BY <2>0, <3>1, <3>2, BlocksIsMeeting
    <3> QED
      BY <2>0, <3>3
  <2>2. \A c \in met : c.end + gap <= b.start \/ b.end + gap <= c.start
    BY <1>1, <1>6 DEF Apart, gap
  <2>3. \A c \in met : /\ c.start \in Int /\ c.end \in Int /\ c.start < c.end
                       /\ c.start <= end + (margin - 1) /\ start - (margin - 1) <= c.end
    <3>1. ASSUME NEW c \in met PROVE c.start <= end + (margin - 1) /\ start - (margin - 1) <= c.end
      <4>1. Blocks(c, start - (margin - 1), end + (margin - 1)) /\ start - (margin - 1) <= end + (margin - 1)
        BY <2>0 DEF Met
      <4> QED
        BY <1>1, <2>0, <4>1, BlocksIsMeeting
    <3> QED
      BY <1>1, <3>1
  <2>4. new.start \in Int /\ new.end \in Int
    BY <1>4 DEF Spanning
  <2>5. CASE b.end + margin <= start
    <3>1. \A c \in met : b.end + gap <= c.start
      BY <2>0, <2>2, <2>3, <2>5
    <3> QED
      BY <1>4, <2>0, <2>4, <2>5, <3>1 DEF gap
  <2>6. CASE end + margin <= b.start
    <3>1. \A c \in met : c.end + gap <= b.start
      BY <2>0, <2>2, <2>3, <2>6
    <3> QED
      BY <1>4, <2>0, <2>4, <2>6, <3>1 DEF gap
  <2> QED
    BY <2>1, <2>5, <2>6
<1>7. Apart(merged.list)
  BY <1>2, <1>4, <1>6 DEF Apart
<1> QED
  BY <1>1, <1>2, <1>4, <1>5, <1>7 DEF new, merged

-----------------------------------------------------------------------------
\* The invariant of a track.

Metal == {m \in [start : Int, end : Int, net : Nets \cup {NoName},
                 reach : SUBSET {"vertices", "edges"}] : m.start < m.end}

\* The lists are finite, of spans that are not empty, and their blockages apart.
ListsInv ==
    /\ Proper(blockages) /\ Apart(blockages)
    /\ Proper(vertex_blockages) /\ Apart(vertex_blockages)
    /\ metal \subseteq Metal

\* An edge that is not blocked carries the net of every blockage it touches.
OpenEdgesAreClear ==
    \A e \in edges \ blocked, b \in blockages : BlocksEdge(b, e, 0) => netOf[e] = b.net

EdgesInv ==
    /\ edges_only_to_neighbours \in BOOLEAN
    /\ vertices \subseteq Offsets
    /\ edges \subseteq {e \in Pairs : e[1] \in vertices /\ e[2] \in vertices}
    /\ blocked \subseteq edges
    /\ netOf \in [Pairs -> Nets \cup {NoNet}]

TrackInv == EdgesInv /\ ListsInv /\ BlockagesCoverMetal /\ OpenEdgesAreClear /\ VerticesAreJoined

LEMMA InitInv == Init => TrackInv
<1> SUFFICES ASSUME Init PROVE TrackInv
  OBVIOUS
<1>1. EdgesInv
  BY TrackAssumption DEF Init, EdgesInv
<1>2. ListsInv
  BY FS_EmptySet DEF Init, ListsInv, Proper, Apart
<1>3. BlockagesCoverMetal
  BY DEF Init, BlockagesCoverMetal, Covers, Reaching
<1>4. OpenEdgesAreClear /\ VerticesAreJoined
  BY DEF Init, OpenEdgesAreClear, VerticesAreJoined
<1> QED
  BY <1>1, <1>2, <1>3, <1>4 DEF TrackInv

-----------------------------------------------------------------------------
\* Edges that are added.

LEMMA AddingEdges ==
    ASSUME EdgesInv, NEW added \in SUBSET Pairs, AddEdges(added)
    PROVE  /\ edges' = edges \cup added
           /\ blocked \subseteq blocked' /\ blocked' \subseteq blocked \cup added
           /\ \A e \in added \ edges : e \in blocked' \/ Collisions(e) = {}
           /\ \A e \in edges : netOf'[e] = netOf[e]
           /\ netOf' \in [Pairs -> Nets \cup {NoNet}]
<1> DEFINE met == {e \in added \ edges : Collisions(e) # {}}
<1>1. PICK name \in [met -> Nets] :
          netOf' = [e \in Pairs |-> IF e \in met THEN name[e] ELSE netOf[e]]
  BY DEF AddEdges
<1>2. edges' = edges \cup added /\ blocked' = blocked \cup met
  BY DEF AddEdges
<1>3. edges \subseteq Pairs /\ netOf \in [Pairs -> Nets \cup {NoNet}]
  BY DEF EdgesInv
<1>4. \A e \in met : name[e] \in Nets
  OBVIOUS
<1>5. met \subseteq added \ edges /\ \A e \in added \ edges : e \in met \/ Collisions(e) = {}
  OBVIOUS
<1> HIDE DEF met
<1>6. \A e \in edges : netOf'[e] = netOf[e]
  BY <1>1, <1>3, <1>5
<1>7. netOf' \in [Pairs -> Nets \cup {NoNet}]
  BY <1>1, <1>3, <1>4
<1> QED
  BY <1>2, <1>5, <1>6, <1>7

LEMMA AddingKeepsEdges ==
    ASSUME TrackInv, NEW added \in SUBSET Pairs, AddEdges(added), vertices \subseteq vertices',
           vertices' \subseteq Offsets, \A e \in added : e[1] \in vertices' /\ e[2] \in vertices',
           UNCHANGED <<edges_only_to_neighbours, blockages>>
    PROVE  EdgesInv' /\ OpenEdgesAreClear'
<1>1. /\ edges' = edges \cup added
      /\ blocked \subseteq blocked' /\ blocked' \subseteq blocked \cup added
      /\ \A e \in added \ edges : e \in blocked' \/ Collisions(e) = {}
      /\ \A e \in edges : netOf'[e] = netOf[e]
      /\ netOf' \in [Pairs -> Nets \cup {NoNet}]
  BY AddingEdges DEF TrackInv
<1>2. EdgesInv'
  BY <1>1 DEF EdgesInv, TrackInv
<1>3. ASSUME NEW e \in edges' \ blocked', NEW b \in blockages', BlocksEdge(b, e, 0)
      PROVE  netOf'[e] = b.net
  <2>1. b \in blockages /\ b \in Spanning /\ b.start < b.end
    BY DEF TrackInv, ListsInv, Proper
  <2>2. CASE e \in edges
    BY <1>1, <1>3, <2>1, <2>2 DEF TrackInv, OpenEdgesAreClear
  <2>3. CASE e \notin edges
    <3>1. e \in Pairs /\ Collisions(e) = {}
      BY <1>1, <2>3
    <3>2. b \in Collisions(e)
      BY <1>3, <2>1, <3>1, TouchingIsClose DEF Collisions
    <3> QED
      BY <3>1, <3>2
  <2> QED
    BY <2>2, <2>3
<1>4. OpenEdgesAreClear'
  BY <1>3 DEF OpenEdgesAreClear
<1> QED
  BY <1>2, <1>4

LEMMA NothingLaid ==
    ASSUME TrackInv, UNCHANGED <<blockages, vertex_blockages, metal>>
    PROVE  ListsInv' /\ BlockagesCoverMetal'
<1>1. ListsInv'
  BY DEF TrackInv, ListsInv
<1>2. BlockagesCoverMetal'
  BY DEF TrackInv, BlockagesCoverMetal, Reaching
<1> QED
  BY <1>1, <1>2

LEMMA EdgesToNewVertices ==
    ASSUME EdgesInv, NEW v \in Offsets, v \notin vertices, NEW u \in vertices
    PROVE  /\ Edge(u, v) \in Pairs /\ v \in {Edge(u, v)[1], Edge(u, v)[2]}
           /\ Edge(u, v)[1] \in vertices \cup {v} /\ Edge(u, v)[2] \in vertices \cup {v}
<1>1. u \in Offsets /\ u \in Int /\ v \in Int /\ u # v
  BY TrackAssumption DEF EdgesInv
<1> QED
  BY <1>1 DEF Edge, Pairs

LEMMA AddVertexKeeps ==
    ASSUME TrackInv, NEW v \in Offsets, NEW for_nets \in SUBSET Nets, AddVertex(v, for_nets)
    PROVE  TrackInv'
<1> DEFINE others == IF edges_only_to_neighbours THEN Neighbours(v, vertices) ELSE vertices
           added == {e \in {Edge(u, v) : u \in others} : MayAdd(e, for_nets)}
<1>1. /\ v \notin vertices /\ vertices' = vertices \cup {v} /\ AddEdges(added)
      /\ UNCHANGED <<edges_only_to_neighbours, blockages, vertex_blockages, metal>>
  BY DEF AddVertex
<1>2. others \subseteq vertices
  BY DEF Neighbours
<1>3. /\ vertices \subseteq Offsets /\ EdgesInv /\ VerticesAreJoined
  BY DEF TrackInv, EdgesInv
<1>4. added \in SUBSET Pairs /\ \A e \in added : e[1] \in vertices' /\ e[2] \in vertices'
  BY <1>1, <1>2, <1>3, EdgesToNewVertices
<1>5. \A u \in others : Edge(u, v) \in added \/ Collisions(Edge(u, v)) # {}
  BY DEF MayAdd
<1> HIDE DEF added
<1>6. EdgesInv' /\ OpenEdgesAreClear'
  BY <1>1, <1>3, <1>4, AddingKeepsEdges
<1>7. ListsInv' /\ BlockagesCoverMetal'
  BY <1>1, NothingLaid
<1>8. edges' = edges \cup added
  BY <1>1, <1>3, <1>4, AddingEdges
<1>9. ASSUME NEW e \in Pairs, {e[1], e[2]} \subseteq vertices',
             edges_only_to_neighbours' => e[1] \in Neighbours(e[2], vertices')
      PROVE  e \in edges' \/ Collisions(e) # {}
  <2>1. e[1] \in Int /\ e[2] \in Int /\ e[1] < e[2] /\ e = <<e[1], e[2]>>
    BY OffsetsOfPairs DEF Pairs
  <2>2. CASE v \notin {e[1], e[2]}
    <3>1. {e[1], e[2]} \subseteq vertices
      BY <1>1, <1>9, <2>2
    <3>2. edges_only_to_neighbours => e[1] \in Neighbours(e[2], vertices)
      BY <1>1, <1>9, <3>1 DEF Neighbours
    <3>3. e \in edges \/ Collisions(e) # {}
      BY <1>3, <3>1, <3>2 DEF VerticesAreJoined
    <3> QED
      BY <1>8, <3>3
  <2>3. CASE v = e[1]
    <3>1. e[2] \in vertices /\ Edge(e[2], v) = e
      BY <1>1, <1>9, <2>1, <2>3 DEF Edge
    <3>2. edges_only_to_neighbours => e[2] \in Neighbours(v, vertices)
      BY <1>1, <1>9, <2>1, <2>3, <3>1 DEF Neighbours
    <3>3. e[2] \in others
      BY <3>1, <3>2
    <3> QED
      BY <1>5, <1>8, <3>1, <3>3
  <2>4. CASE v = e[2]
    <3>1. e[1] \in vertices /\ Edge(e[1], v) = e
      BY <1>1, <1>9, <2>1, <2>4 DEF Edge
    <3>2. edges_only_to_neighbours => e[1] \in Neighbours(v, vertices)
      BY <1>1, <1>9, <2>1, <2>4, <3>1 DEF Neighbours
    <3>3. e[1] \in others
      BY <3>1, <3>2
    <3> QED
      BY <1>5, <1>8, <3>1, <3>3
  <2> QED
    BY <2>2, <2>3, <2>4
<1>10. VerticesAreJoined'
  BY <1>1, <1>9 DEF VerticesAreJoined, Collisions
<1> QED
  BY <1>6, <1>7, <1>10 DEF TrackInv

LEMMA BridgesTouchNothing ==
    ASSUME NEW v, NEW e \in Bridge(v)
    PROVE  e \in Pairs /\ Collisions(e) = {} /\ {e[1], e[2]} = Neighbours(v, vertices)
BY DEF Bridge, MayAdd

LEMMA HealKeeps ==
    ASSUME TrackInv, NEW v \in Offsets, HealAroundBlockedVertex(v)
    PROVE  TrackInv'
<1>1. /\ AddEdges(Bridge(v))
      /\ UNCHANGED <<edges_only_to_neighbours, vertices, blockages, vertex_blockages, metal>>
  BY DEF HealAroundBlockedVertex
<1>2. EdgesInv /\ VerticesAreJoined /\ vertices \subseteq Offsets
  BY DEF TrackInv, EdgesInv
<1>3. Bridge(v) \in SUBSET Pairs
  BY BridgesTouchNothing
<1>4. \A e \in Bridge(v) : e[1] \in vertices /\ e[2] \in vertices
  BY BridgesTouchNothing DEF Neighbours
<1>5. EdgesInv' /\ OpenEdgesAreClear'
  BY <1>1, <1>2, <1>3, <1>4, AddingKeepsEdges
<1>6. ListsInv' /\ BlockagesCoverMetal'
  BY <1>1, NothingLaid
<1>7. edges \subseteq edges'
  BY <1>1 DEF AddEdges
<1>8. VerticesAreJoined'
  BY <1>1, <1>2, <1>7 DEF VerticesAreJoined, Collisions
<1> QED
  BY <1>5, <1>6, <1>8 DEF TrackInv

\* Where a vertex goes, those on its two sides are its neighbours.
LEMMA SidesAreNeighbours ==
    ASSUME EdgesInv, NEW v \in vertices, NEW e \in Pairs, {e[1], e[2]} \subseteq vertices \ {v},
           e[1] \in Neighbours(e[2], vertices \ {v}), e[1] \notin Neighbours(e[2], vertices)
    PROVE  e[1] < v /\ v < e[2] /\ {e[1], e[2]} = Neighbours(v, vertices)
<1>1. /\ e[1] \in Int /\ e[2] \in Int /\ e[1] < e[2]
      /\ \A u \in vertices : u \in Int
  BY OffsetsOfPairs, TrackAssumption DEF EdgesInv
<1>2. \A w \in vertices \ {v, e[1], e[2]} : w < e[1] \/ e[2] < w
  BY <1>1 DEF Neighbours
<1>3. e[1] < v /\ v < e[2]
  BY <1>1, <1>2 DEF Neighbours
<1>4. e[1] \in Neighbours(v, vertices) /\ e[2] \in Neighbours(v, vertices)
  BY <1>1, <1>2, <1>3 DEF Neighbours
<1>5. ASSUME NEW u \in Neighbours(v, vertices) PROVE u \in {e[1], e[2]}
  <2>1. /\ u \in vertices \ {v}
        /\ ~((u < e[1] /\ e[1] < v) \/ (v < e[1] /\ e[1] < u)) \/ u = e[1]
        /\ ~((u < e[2] /\ e[2] < v) \/ (v < e[2] /\ e[2] < u)) \/ u = e[2]
    BY <1>3, <1>5 DEF Neighbours
  <2> QED
    BY <1>1, <1>2, <1>3, <2>1
<1> QED
  BY <1>3, <1>4, <1>5

LEMMA RemoveVertexKeeps ==
    ASSUME TrackInv, NEW v \in Offsets, RemoveVertex(v)
    PROVE  TrackInv'
<1> DEFINE kept == {e \in edges : v \notin {e[1], e[2]}}
           bridge == IF edges_only_to_neighbours THEN Bridge(v) ELSE {}
<1>1. /\ v \in vertices /\ vertices' = vertices \ {v} /\ edges' = kept \cup bridge
      /\ blocked' = blocked \cap edges'
      /\ netOf' = [e \in Pairs |-> IF e \in edges' THEN netOf[e] ELSE NoNet]
      /\ UNCHANGED <<edges_only_to_neighbours, blockages, vertex_blockages, metal>>
  BY DEF RemoveVertex
<1>2. /\ EdgesInv /\ VerticesAreJoined /\ OpenEdgesAreClear /\ ListsInv
      /\ edges \subseteq Pairs /\ vertices \subseteq Offsets
      /\ \A e \in edges : e[1] \in vertices /\ e[2] \in vertices
      /\ netOf \in [Pairs -> Nets \cup {NoNet}]
  BY DEF TrackInv, EdgesInv
<1>3. \A e \in bridge : /\ e \in Pairs /\ Collisions(e) = {}
                        /\ e[1] \in vertices \ {v} /\ e[2] \in vertices \ {v}
  BY BridgesTouchNothing DEF Neighbours
<1>4. \A e \in edges' : e \in Pairs /\ e[1] \in vertices' /\ e[2] \in vertices'
  BY <1>1, <1>2, <1>3
<1>5. EdgesInv'
  <2>1. netOf' \in [Pairs -> Nets \cup {NoNet}]
    BY <1>1, <1>2
  <2> QED
    BY <1>1, <1>2, <1>4, <2>1 DEF EdgesInv
<1>6. ListsInv' /\ BlockagesCoverMetal'
  BY <1>1, NothingLaid
<1>7. ASSUME NEW e \in edges' \ blocked', NEW b \in blockages', BlocksEdge(b, e, 0)
      PROVE  netOf'[e] = b.net
  <2>1. b \in blockages /\ b \in Spanning /\ b.start < b.end /\ e \in Pairs
    BY <1>1, <1>2, <1>4 DEF ListsInv, Proper
  <2>2. CASE e \in edges
    <3>1. e \notin blocked /\ netOf'[e] = netOf[e]
      BY <1>1, <2>1
    <3> QED
      BY <1>2, <1>7, <2>1, <2>2, <3>1 DEF OpenEdgesAreClear
  <2>3. CASE e \notin edges
    <3>1. Collisions(e) = {}
      BY <1>1, <1>3, <2>3
    <3>2. b \in Collisions(e)
      BY <1>7, <2>1, TouchingIsClose DEF Collisions
    <3> QED
      BY <3>1, <3>2
  <2> QED
    BY <2>2, <2>3
<1>8. OpenEdgesAreClear'
  BY <1>7 DEF OpenEdgesAreClear
<1>9. ASSUME NEW e \in Pairs, {e[1], e[2]} \subseteq vertices',
             edges_only_to_neighbours' => e[1] \in Neighbours(e[2], vertices')
      PROVE  e \in edges' \/ Collisions(e) # {}
  <2>1. {e[1], e[2]} \subseteq vertices \ {v}
    BY <1>1, <1>9
  <2>2. CASE edges_only_to_neighbours => e[1] \in Neighbours(e[2], vertices)
    BY <1>1, <1>2, <2>1, <2>2 DEF VerticesAreJoined
  <2>3. CASE edges_only_to_neighbours /\ e[1] \notin Neighbours(e[2], vertices)
    <3>1. e[1] < v /\ v < e[2] /\ {e[1], e[2]} = Neighbours(v, vertices)
      BY <1>1, <1>2, <1>9, <2>1, <2>3, SidesAreNeighbours
    <3>2. e \in Bridge(v) \/ Collisions(e) # {}
      BY <3>1 DEF Bridge, MayAdd
    <3> QED
      BY <1>1, <2>3, <3>2
  <2> QED
    BY <2>2, <2>3
<1>10. VerticesAreJoined'
  BY <1>1, <1>9 DEF VerticesAreJoined, Collisions
<1> QED
  BY <1>5, <1>6, <1>8, <1>10 DEF TrackInv

-----------------------------------------------------------------------------
\* Metal that is laid.

LEMMA MergingCovers ==
    ASSUME NEW list, Proper(list), Apart(list), NEW laid \in SUBSET Metal, Covers(list, laid),
           NEW m \in Metal, NEW margin \in Nat, margin >= min_separation_between_edges
    PROVE  LET merged == Merge(list, m.start, m.end, margin, m.net)
           IN  Proper(merged.list) /\ Apart(merged.list) /\ Covers(merged.list, laid \cup {m})
<1> DEFINE merged == Merge(list, m.start, m.end, margin, m.net)
           new == merged.new
           met == Met(list, m.start, m.end, margin, m.net)
<1>1. m.start \in Int /\ m.end \in Int /\ m.start < m.end /\ m.net \in Nets \cup {NoName}
  BY DEF Metal
<1>2. /\ new \in Spanning /\ new.net = m.net
      /\ new.start <= m.start /\ m.end <= new.end
      /\ \A b \in met : b \in list /\ b.net = m.net /\ new.start <= b.start /\ b.end <= new.end
      /\ new.start = m.start \/ \E b \in met : new.start = b.start
      /\ new.end = m.end \/ \E b \in met : new.end = b.end
      /\ merged.list = (list \ met) \cup {new}
      /\ Proper(merged.list) /\ Apart(merged.list)
  BY <1>1, Merging
<1> HIDE DEF merged, met
<1>3. \A b \in list : b.start \in Int /\ b.end \in Int
  BY DEF Proper, Spanning
<1>4. /\ new.start \in Int /\ new.end \in Int
  BY <1>2 DEF Spanning
<1>5. ASSUME NEW k \in laid \cup {m}
      PROVE  \E b \in merged.list : b.net = k.net /\ b.start <= k.start /\ k.end <= b.end
  <2>1. CASE k = m
    BY <1>2, <2>1
  <2>2. CASE k \in laid
    <3>1. PICK b \in list : b.net = k.net /\ b.start <= k.start /\ k.end <= b.end
      BY <2>2 DEF Covers
    <3>2. CASE b \in met
      <4>1. new.net = k.net /\ new.start <= b.start /\ b.end <= new.end
        BY <1>2, <3>1, <3>2
      <4>2. new.start <= k.start /\ k.end <= new.end
        BY <1>3, <1>4, <2>2, <3>1, <4>1 DEF Metal
      <4> QED
        BY <1>2, <4>1, <4>2, <3>1
    <3>3. CASE b \notin met
      BY <1>2, <3>1, <3>3
    <3> QED
      BY <3>2, <3>3
  <2> QED
    BY <2>1, <2>2
<1>6. \A b \in list : \E k, l \in laid : /\ k.net = b.net /\ k.start = b.start
                                         /\ l.net = b.net /\ l.end = b.end
  BY DEF Covers
<1>7. \E k, l \in laid \cup {m} : /\ k.net = new.net /\ k.start = new.start
                                  /\ l.net = new.net /\ l.end = new.end
  <2>1. PICK k \in laid \cup {m} : k.net = new.net /\ k.start = new.start
    BY <1>2, <1>6
  <2>2. PICK l \in laid \cup {m} : l.net = new.net /\ l.end = new.end
    BY <1>2, <1>6
  <2> QED
    BY <2>1, <2>2
<1>8. ASSUME NEW b \in merged.list
      PROVE  \E k, l \in laid \cup {m} : /\ k.net = b.net /\ k.start = b.start
                                          /\ l.net = b.net /\ l.end = b.end
  <2>1. CASE b = new
    BY <1>7, <2>1
  <2>2. CASE b \in list
    BY <1>6, <2>2
  <2> QED
    BY <1>2, <2>1, <2>2
<1>9. Covers(merged.list, laid \cup {m})
  BY <1>5, <1>8 DEF Covers
<1> QED
  BY <1>2, <1>9 DEF merged

LEMMA LayingMetal ==
    ASSUME TrackInv, NEW m \in Metal, metal' = metal \cup {m},
           NEW margin \in Nat, margin >= min_separation_between_edges,
           blockages' = IF "edges" \in m.reach
                        THEN Merge(blockages, m.start, m.end, margin, m.net).list ELSE blockages,
           vertex_blockages' = IF "vertices" \in m.reach
                        THEN Merge(vertex_blockages, m.start, m.end, margin, m.net).list
                        ELSE vertex_blockages
    PROVE  ListsInv' /\ BlockagesCoverMetal'
<1>1. /\ Proper(blockages) /\ Apart(blockages) /\ Covers(blockages, Reaching("edges"))
      /\ Proper(vertex_blockages) /\ Apart(vertex_blockages)
      /\ Covers(vertex_blockages, Reaching("vertices"))
      /\ Reaching("edges") \in SUBSET Metal /\ Reaching("vertices") \in SUBSET Metal
  BY DEF TrackInv, ListsInv, BlockagesCoverMetal, Reaching
<1>2. Proper(blockages') /\ Apart(blockages') /\ Covers(blockages', Reaching("edges")')
  <2>1. CASE "edges" \in m.reach
    <3>1. Reaching("edges")' = Reaching("edges") \cup {m}
      BY <2>1 DEF Reaching
    <3> DEFINE merged == Merge(blockages, m.start, m.end, margin, m.net)
    <3>2. /\ Proper(merged.list) /\ Apart(merged.list)
          /\ Covers(merged.list, Reaching("edges") \cup {m})
      BY <1>1, MergingCovers
    <3> QED
      BY <2>1, <3>1, <3>2
  <2>2. CASE "edges" \notin m.reach
    <3>1. Reaching("edges")' = Reaching("edges")
      BY <2>2 DEF Reaching
    <3> QED
      BY <1>1, <2>2, <3>1
  <2> QED
    BY <2>1, <2>2
<1>3. /\ Proper(vertex_blockages') /\ Apart(vertex_blockages')
      /\ Covers(vertex_blockages', Reaching("vertices")')
  <2>1. CASE "vertices" \in m.reach
    <3>1. Reaching("vertices")' = Reaching("vertices") \cup {m}
      BY <2>1 DEF Reaching
    <3> DEFINE merged == Merge(vertex_blockages, m.start, m.end, margin, m.net)
    <3>2. /\ Proper(merged.list) /\ Apart(merged.list)
          /\ Covers(merged.list, Reaching("vertices") \cup {m})
      BY <1>1, MergingCovers
    <3> QED
      BY <2>1, <3>1, <3>2
  <2>2. CASE "vertices" \notin m.reach
    <3>1. Reaching("vertices")' = Reaching("vertices")
      BY <2>2 DEF Reaching
    <3> QED
      BY <1>1, <2>2, <3>1
  <2> QED
    BY <2>1, <2>2
<1>4. metal' \subseteq Metal
  BY DEF TrackInv, ListsInv
<1>5. ListsInv'
  BY <1>2, <1>3, <1>4 DEF ListsInv
<1>6. BlockagesCoverMetal'
  BY <1>2, <1>3 DEF BlockagesCoverMetal
<1> QED
  BY <1>5, <1>6

\* What kept two vertices apart still does.
LEMMA CollisionsStay ==
    ASSUME TrackInv, NEW m \in Metal, NEW margin \in Nat, margin >= min_separation_between_edges,
           blockages' = Merge(blockages, m.start, m.end, margin, m.net).list,
           UNCHANGED <<edges_only_to_neighbours, vertices, edges>>
    PROVE  VerticesAreJoined'
<1> DEFINE merged == Merge(blockages, m.start, m.end, margin, m.net)
           new == merged.new
           met == Met(blockages, m.start, m.end, margin, m.net)
           r == min_separation_to_new_blockages
<1>1. /\ Proper(blockages) /\ Apart(blockages)
      /\ m.start \in Int /\ m.end \in Int /\ m.start < m.end /\ m.net \in Nets \cup {NoName}
  BY DEF TrackInv, ListsInv, Metal
<1>2. /\ new \in Spanning /\ merged.list = (blockages \ met) \cup {new}
      /\ \A b \in met : b \in blockages /\ new.start <= b.start /\ b.end <= new.end
  BY <1>1, Merging
<1> HIDE DEF merged, met
<1>3. ASSUME NEW e \in Pairs, Collisions(e) # {} PROVE Collisions(e)' # {}
  <2>1. PICK b \in blockages : BlocksEdge(b, e, r)
    BY <1>3 DEF Collisions
  <2>2. CASE b \in met
    <3>1. /\ b.start \in Int /\ b.end \in Int /\ b.start <= b.end
          /\ new.start \in Int /\ new.end \in Int /\ new.start <= b.start /\ b.end <= new.end
      BY <1>1, <1>2, <2>2 DEF Proper, Spanning
    <3>2. e[1] - (r - 1) \in Int /\ e[2] + (r - 1) \in Int
      BY OffsetsOfPairs, MarginsArePositive
    <3>3. BlocksEdge(new, e, r)
      BY <2>1, <3>1, <3>2, WiderBlocksToo DEF BlocksEdge
    <3> QED
      BY <1>2, <3>3 DEF Collisions, merged
  <2>3. CASE b \notin met
    <3>1. b \in blockages'
      BY <1>2, <2>3 DEF merged
    <3> QED
      BY <2>1, <3>1 DEF Collisions
  <2> QED
    BY <2>2, <2>3
<1> QED
  BY <1>3 DEF VerticesAreJoined, TrackInv

LEMMA AddBlockageKeeps ==
    ASSUME TrackInv, NEW s \in Shapes, NEW padding \in Paddings, NEW net \in Nets \cup {NoName},
           AddBlockage(s[1], s[2], padding, net, s[3])
    PROVE  TrackInv'
<1> DEFINE m == [start |-> s[1], end |-> s[2], net |-> net, reach |-> s[3]]
           margin == min_separation_between_edges + padding
           merged == Merge(blockages, m.start, m.end, margin, m.net)
           met == Met(blockages, m.start, m.end, margin, m.net)
<1>1. m \in Metal
  <2>1. s[1] \in Int /\ s[2] \in Int /\ s[1] < s[2] /\ s[3] \in SUBSET {"vertices", "edges"}
    BY TrackAssumption
  <2> QED
    BY <2>1 DEF Metal
<1>2. margin \in Nat /\ margin >= min_separation_between_edges
  BY MarginsArePositive, TrackAssumption
<1>3. /\ metal' = metal \cup {m}
      /\ vertex_blockages' = IF "vertices" \in m.reach
                             THEN Merge(vertex_blockages, m.start, m.end, margin, m.net).list
                             ELSE vertex_blockages
      /\ UNCHANGED <<edges_only_to_neighbours, vertices, edges>>
      /\ IF "edges" \in m.reach
         THEN blockages' = merged.list /\ ApplyEdgeBlockage(merged.new, net)
         ELSE UNCHANGED <<blockages, blocked, netOf>>
  BY DEF AddBlockage
<1>4. m.net = net
  OBVIOUS
<1>5. EdgesInv /\ Proper(blockages) /\ Apart(blockages) /\ OpenEdgesAreClear /\ VerticesAreJoined
  BY DEF TrackInv, ListsInv
<1> HIDE DEF m, margin
<1>6. ListsInv' /\ BlockagesCoverMetal'
  BY <1>1, <1>2, <1>3, LayingMetal
<1>7. CASE "edges" \notin m.reach
  <2>1. UNCHANGED <<edges_only_to_neighbours, vertices, edges, blockages, blocked, netOf>>
    BY <1>3, <1>7
  <2>2. EdgesInv' /\ OpenEdgesAreClear' /\ VerticesAreJoined'
    BY <1>5, <2>1 DEF EdgesInv, OpenEdgesAreClear, VerticesAreJoined, Collisions
  <2> QED
    BY <1>6, <2>2 DEF TrackInv
<1>8. CASE "edges" \in m.reach
  <2>1. blockages' = merged.list /\ ApplyEdgeBlockage(merged.new, net)
    BY <1>3, <1>8
  <2>2. /\ m.start \in Int /\ m.end \in Int /\ m.start < m.end /\ m.net \in Nets \cup {NoName}
    BY <1>1 DEF Metal
  <2>3. /\ merged.new \in Spanning /\ merged.list = (blockages \ met) \cup {merged.new}
        /\ Proper(merged.list)
    BY <1>2, <1>5, <2>2, Merging
  <2> HIDE DEF merged, met
  <2> DEFINE open == EdgesBlockedByBlockage(merged.new) \ blocked
  <2>4. /\ blocked' = blocked \cup open /\ open \subseteq edges
        /\ \A e \in Pairs \ open : netOf'[e] = netOf[e]
        /\ netOf' \in [Pairs -> Nets \cup {NoNet}]
    <3>1. /\ blocked' = blocked \cup open
          /\ netOf' = [e \in Pairs |->
                 IF e \in open /\ netOf[e] = NoNet /\ net # NoName THEN net ELSE netOf[e]]
      BY <2>1 DEF ApplyEdgeBlockage
    <3>2. open \subseteq edges
      BY DEF EdgesBlockedByBlockage
    <3>3. netOf \in [Pairs -> Nets \cup {NoNet}]
      BY <1>5 DEF EdgesInv
    <3> HIDE DEF open
    <3> QED
      BY <3>1, <3>2, <3>3
  <2>5. EdgesInv'
    BY <1>3, <1>5, <2>4 DEF EdgesInv
  <2>6. ASSUME NEW e \in edges' \ blocked', NEW b \in blockages', BlocksEdge(b, e, 0)
        PROVE  netOf'[e] = b.net
    <3>1. e \in edges /\ e \notin blocked /\ e \notin open /\ e \in Pairs
      BY <1>3, <1>5, <2>4 DEF EdgesInv
    <3>2. b # merged.new
      <4>1. merged.new.start < merged.new.end
        BY <2>3 DEF Proper
      <4> QED
        BY <2>3, <2>6, <3>1, <4>1, TouchingIsClose DEF EdgesBlockedByBlockage
    <3>3. b \in blockages
      BY <2>1, <2>3, <3>2
    <3> QED
      BY <1>5, <2>4, <2>6, <3>1, <3>3 DEF OpenEdgesAreClear
  <2>7. OpenEdgesAreClear'
    BY <2>6 DEF OpenEdgesAreClear
  <2>8. VerticesAreJoined'
    BY <1>1, <1>2, <1>3, <2>1, CollisionsStay DEF merged
  <2> QED
    BY <1>6, <2>5, <2>7, <2>8 DEF TrackInv
<1> QED
  BY <1>7, <1>8

LEMMA MarkEdgeAsUsedKeeps ==
    ASSUME TrackInv, NEW e \in edges, NEW net \in Nets, MarkEdgeAsUsed(e, net)
    PROVE  TrackInv'
<1> DEFINE m == [start |-> e[1], end |-> e[2], net |-> net, reach |-> {"vertices", "edges"}]
           margin == min_separation_between_edges
           merged == Merge(blockages, m.start, m.end, margin, m.net)
           met == Met(blockages, m.start, m.end, margin, m.net)
           touched == {f \in edges \ (blocked \cup {e}) : BlocksEdge(merged.new, f, 0)}
           taken == {f \in touched : netOf[f] \notin {NoNet, net}}
<1>1. /\ EdgesInv /\ Proper(blockages) /\ Apart(blockages) /\ OpenEdgesAreClear
      /\ VerticesAreJoined /\ edges \subseteq Pairs /\ netOf \in [Pairs -> Nets \cup {NoNet}]
  BY DEF TrackInv, ListsInv, EdgesInv
<1>2. m \in Metal /\ m.reach = {"vertices", "edges"} /\ m.net = net
  BY <1>1, OffsetsOfPairs DEF Metal
<1>3. margin \in Nat /\ margin >= min_separation_between_edges
  BY MarginsArePositive
<1>4. /\ e \notin blocked /\ netOf[e] \in {NoNet, net}
      /\ metal' = metal \cup {m}
      /\ blockages' = merged.list
      /\ vertex_blockages' = Merge(vertex_blockages, m.start, m.end, margin, m.net).list
      /\ blocked' = blocked \cup taken
      /\ netOf' = [f \in Pairs |-> IF f \in taken THEN NoNet
                                   ELSE IF f \in touched \cup {e} THEN net ELSE netOf[f]]
      /\ UNCHANGED <<edges_only_to_neighbours, vertices, edges>>
  BY DEF MarkEdgeAsUsed, Offered
<1>5. taken \subseteq touched /\ touched \subseteq edges
  OBVIOUS
<1>6. /\ m.start \in Int /\ m.end \in Int /\ m.start < m.end /\ m.net \in Nets \cup {NoName}
  BY <1>2 DEF Metal
<1>7. merged.new.net = net /\ merged.list = (blockages \ met) \cup {merged.new}
  BY <1>1, <1>2, <1>3, <1>6, Merging
<1>8. \A f \in edges \ (blocked \cup {e}) : BlocksEdge(merged.new, f, 0) => f \in touched
  OBVIOUS
<1>9. \A f \in touched : f \in taken \/ netOf[f] \in {NoNet, net}
  OBVIOUS
<1> HIDE DEF m, margin, merged, met, touched, taken
<1>10. ListsInv' /\ BlockagesCoverMetal'
  BY <1>2, <1>3, <1>4, LayingMetal DEF merged
<1>11. netOf' \in [Pairs -> Nets \cup {NoNet}]
  BY <1>1, <1>4
<1>12. EdgesInv'
  BY <1>1, <1>4, <1>5, <1>11 DEF EdgesInv
<1>13. ASSUME NEW f \in edges' \ blocked', NEW b \in blockages', BlocksEdge(b, f, 0)
       PROVE  netOf'[f] = b.net
  <2>1. f \in edges /\ f \in Pairs /\ f \notin blocked /\ f \notin taken
    BY <1>1, <1>4
  <2>2. netOf'[f] = IF f \in touched \cup {e} THEN net ELSE netOf[f]
    BY <1>4, <2>1
  <2>3. f \in touched \cup {e} => netOf[f] \in {NoNet, net}
    BY <1>4, <1>9, <2>1
  <2>4. CASE b = merged.new
    BY <1>7, <1>8, <1>13, <2>1, <2>2, <2>4
  <2>5. CASE b \in blockages
    <3>1. netOf[f] = b.net
      BY <1>1, <1>13, <2>1, <2>5 DEF OpenEdgesAreClear
    <3>2. b.net # NoNet
      BY <1>1, <2>5, TrackAssumption DEF Proper, Spanning
    <3> QED
      BY <2>2, <2>3, <3>1, <3>2
  <2> QED
    BY <1>4, <1>7, <2>4, <2>5
<1>14. OpenEdgesAreClear'
  BY <1>13 DEF OpenEdgesAreClear
<1>15. VerticesAreJoined'
  BY <1>2, <1>3, <1>4, CollisionsStay DEF merged
<1> QED
  BY <1>10, <1>12, <1>14, <1>15 DEF TrackInv

LEMMA NextKeeps == TrackInv /\ [Next]_vars => TrackInv'
<1> SUFFICES ASSUME TrackInv, [Next]_vars PROVE TrackInv'
  OBVIOUS
<1>1. ASSUME NEW v \in Offsets, NEW for_nets \in SUBSET Nets, AddVertex(v, for_nets) PROVE TrackInv'
  BY <1>1, AddVertexKeeps
<1>2. ASSUME NEW v \in Offsets, NEW n \in Nets, CreateNearestVertexAndConnect(v, n) PROVE TrackInv'
  BY <1>2, AddVertexKeeps DEF CreateNearestVertexAndConnect
<1>3. ASSUME NEW v \in Offsets, RemoveVertex(v) \/ HealAroundBlockedVertex(v) PROVE TrackInv'
  BY <1>3, RemoveVertexKeeps, HealKeeps
<1>4. ASSUME NEW s \in Shapes, NEW p \in Paddings, NEW n \in Nets \cup {NoName},
             AddBlockage(s[1], s[2], p, n, s[3])
      PROVE  TrackInv'
  BY <1>4, AddBlockageKeeps
<1>5. ASSUME NEW e \in edges, NEW n \in Nets, MarkEdgeAsUsed(e, n) PROVE TrackInv'
  BY <1>5, MarkEdgeAsUsedKeeps
<1>6. CASE UNCHANGED vars
  <2>1. ListsInv' /\ BlockagesCoverMetal'
    BY <1>6, NothingLaid DEF vars
  <2>2. EdgesInv' /\ OpenEdgesAreClear' /\ VerticesAreJoined'
    BY <1>6 DEF vars, TrackInv, EdgesInv, OpenEdgesAreClear, VerticesAreJoined, Collisions
  <2> QED
    BY <2>1, <2>2 DEF TrackInv
<1> QED
  BY <1>1, <1>2, <1>3, <1>4, <1>5, <1>6 DEF Next

LEMMA TrackInvariant == Spec => []TrackInv
BY InitInv, NextKeeps, PTL DEF Spec

-----------------------------------------------------------------------------
\* The theorems.

\* Every variable of the track holds what its C++ member can hold, and no
\* blockage is empty.
THEOREM TrackTyping == Spec => []TypeOK
<1>1. TrackInv => TypeOK
  BY DEF TrackInv, EdgesInv, ListsInv, Proper, Spanning, TypeOK
<1> QED
  BY <1>1, TrackInvariant, PTL

\* MergeNewBlockage keeps the blockages of a net as far apart as it merges,
\* whatever the order of shapes, paddings and wires.
THEOREM MergedBlockagesAreApart == Spec => []BlockagesAreApart
<1>1. TrackInv => BlockagesAreApart
  BY DEF TrackInv, ListsInv, Apart, BlockagesAreApart
<1> QED
  BY <1>1, TrackInvariant, PTL

\* AddBlockage and MarkEdgeAsUsed forget no metal and invent none.
THEOREM MergingForgetsNothing == Spec => []BlockagesCoverMetal
<1>1. TrackInv => BlockagesCoverMetal
  BY DEF TrackInv
<1> QED
  BY <1>1, TrackInvariant, PTL

\* Metal that an edge touches lies in a blockage that the edge touches.
LEMMA CoveringBlockage ==
    ASSUME TrackInv, NEW m \in Reaching("edges"), NEW low \in Int, NEW high \in Int,
           Blocks(m, low, high)
    PROVE  \E b \in blockages : b.net = m.net /\ Blocks(b, low, high)
<1>1. PICK b \in blockages : b.net = m.net /\ b.start <= m.start /\ m.end <= b.end
  BY DEF TrackInv, BlockagesCoverMetal, Covers
<1>2. m.start \in Int /\ m.end \in Int /\ m.start < m.end /\ b.start \in Int /\ b.end \in Int
  BY DEF TrackInv, ListsInv, Reaching, Proper, Spanning, Metal
<1>3. Blocks(b, low, high)
  BY <1>1, <1>2, WiderBlocksToo
<1> QED
  BY <1>1, <1>3

\* EdgeAvailable offers a net no edge that touches metal of another net.
THEOREM OfferedEdgesAreClear == Spec => []OffersAreClear
<1>1. ASSUME TrackInv, NEW e \in edges, NEW n \in Nets, Offered(e, n),
             NEW m \in Reaching("edges"), BlocksEdge(m, e, 0)
      PROVE  m.net = n
  <2>1. e \in Pairs /\ e[1] - (0 - 1) \in Int /\ e[2] + (0 - 1) \in Int
    BY <1>1, OffsetsOfPairs DEF TrackInv, EdgesInv
  <2>2. PICK b \in blockages : b.net = m.net /\ BlocksEdge(b, e, 0)
    BY <1>1, <2>1, CoveringBlockage DEF BlocksEdge
  <2>3. netOf[e] = b.net /\ netOf[e] \in {NoNet, n}
    BY <1>1, <2>2 DEF TrackInv, OpenEdgesAreClear, Offered
  <2>4. m.net # NoNet
    BY <1>1, TrackAssumption DEF TrackInv, ListsInv, Reaching, Metal
  <2> QED
    BY <2>2, <2>3, <2>4
<1>2. TrackInv => OffersAreClear
  BY <1>1 DEF OffersAreClear
<1> QED
  BY <1>2, TrackInvariant, PTL

\* AddVertex, RemoveVertex and HealAroundBlockedVertex leave no two vertices
\* apart that should be joined, unless a blockage is in the way.
THEOREM TrackVerticesAreJoined == Spec => []VerticesAreJoined
<1>1. TrackInv => VerticesAreJoined
  BY DEF TrackInv
<1> QED
  BY <1>1, TrackInvariant, PTL

\* CreateNearestVertexAndConnect makes no vertex under metal of another net.
THEOREM NewAccessIsClear == Spec => AccessIsClear
<1>1. ASSUME TrackInv, NEW v \in Offsets, NEW n \in Nets,
             CreateNearestVertexAndConnect(v, n), vertices # {},
             NEW m \in metal, m.net # n, "vertices" \in m.reach, m.start <= v, v <= m.end
      PROVE  FALSE
  <2>1. m.start \in Int /\ m.end \in Int /\ v \in Int
    BY <1>1, TrackAssumption DEF TrackInv, ListsInv, Metal
  <2>2. m \in Reaching("vertices")
    BY <1>1 DEF Reaching
  <2>3. PICK b \in vertex_blockages : b.net = m.net /\ b.start <= m.start /\ m.end <= b.end
    BY <1>1, <2>2 DEF TrackInv, BlockagesCoverMetal, Covers
  <2>4. b.start \in Int /\ b.end \in Int /\ b.start < b.end
    BY <1>1 DEF TrackInv, ListsInv, Proper, Spanning
  <2>5. b.start <= v /\ v <= b.end
    BY <1>1, <2>1, <2>3, <2>4
  <2>6. BlocksEdge(b, <<v, v>>, 0)
    BY <2>1, <2>4, <2>5 DEF BlocksEdge, Blocks
  <2>7. ~IsBlocked(v, n)
    BY <1>1 DEF CreateNearestVertexAndConnect
  <2> QED
    BY <1>1, <2>3, <2>6, <2>7 DEF IsBlocked
<1>2. ASSUME TrackInv, NEW v \in Offsets, NEW n \in Nets,
             CreateNearestVertexAndConnect(v, n), vertices # {},
             NEW m \in metal, m.net # n, "edges" \in m.reach,
             BlocksEdge(m, <<v, v>>, min_separation_to_new_blockages)
      PROVE  FALSE
  <2> DEFINE r == min_separation_to_new_blockages
  <2>1. v \in Int /\ v - (r - 1) \in Int /\ v + (r - 1) \in Int
    BY <1>2, TrackAssumption, MarginsArePositive
  <2>2. m \in Reaching("edges") /\ Blocks(m, v - (r - 1), v + (r - 1))
    BY <1>2 DEF Reaching, BlocksEdge
  <2>3. PICK b \in blockages : b.net = m.net /\ Blocks(b, v - (r - 1), v + (r - 1))
    BY <1>2, <2>1, <2>2, CoveringBlockage
  <2>4. b \in Spanning /\ b.start < b.end /\ BlocksEdge(b, <<v, v>>, r)
    BY <1>2, <2>3 DEF TrackInv, ListsInv, Proper, BlocksEdge
  <2>5. v \notin vertices /\ EdgesInv
    BY <1>2 DEF CreateNearestVertexAndConnect, AddVertex, TrackInv
  <2>6. PICK u \in vertices : MayAdd(Edge(u, v), {n})
    <3>1. PICK others \in SUBSET vertices :
              \E e \in {Edge(u, v) : u \in others} : MayAdd(e, {n})
      <4> DEFINE others == IF edges_only_to_neighbours THEN Neighbours(v, vertices) ELSE vertices
      <4>1. others \in SUBSET vertices
        BY DEF Neighbours
      <4>2. {e \in {Edge(u, v) : u \in others} : MayAdd(e, {n})} # {}
        BY <1>2 DEF CreateNearestVertexAndConnect, AddVertex
      <4> QED
        BY <4>1, <4>2
    <3> QED
      BY <3>1
  <2>7. Edge(u, v) \in Pairs /\ v \in {Edge(u, v)[1], Edge(u, v)[2]}
    BY <1>2, <2>5, EdgesToNewVertices
  <2>8. b \in Collisions(Edge(u, v))
    BY <2>4, <2>7, EndIsClose DEF Collisions
  <2> QED
    BY <1>2, <2>3, <2>6, <2>8 DEF MayAdd
<1>3. TrackInv /\ [Next]_vars =>
          [\A v \in Offsets, n \in Nets :
               CreateNearestVertexAndConnect(v, n) /\ vertices # {} =>
                   \A m \in metal : m.net # n =>
                       /\ "vertices" \in m.reach => ~(m.start <= v /\ v <= m.end)
                       /\ "edges" \in m.reach =>
                              ~BlocksEdge(m, <<v, v>>, min_separation_to_new_blockages)]_vars
  BY <1>1, <1>2
<1> QED
  BY <1>3, TrackInvariant, PTL DEF Spec, AccessIsClear
====
