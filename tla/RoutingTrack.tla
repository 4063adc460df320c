---- MODULE RoutingTrack ----
(***************************************************************************)
(* One RoutingTrack while vertices come and go, shapes block it and wires  *)
(* are laid along it: the edges it offers, and the list of blockages from  *)
(* which it decides which edges to create and in which state.              *)
(*                                                                         *)
(* Blockages are permanent ones; nothing in the repository adds any other. *)
(* The RoutingBlockageCache refuses no edge here; it has a module of its   *)
(* own.  What a shape does to the vertices that are there already is part  *)
(* of the grid, which does it for all tracks.                              *)
(*                                                                         *)
(* SortBlockages sorts a list whenever a blockage is added to it, so a     *)
(* list is the set of what is on it, and its order is that of Before.      *)
(***************************************************************************)
EXTENDS Integers, FiniteSets

CONSTANTS
    Offsets,      \* positions along the track at which vertices may lie
    Nets,
    NoNet,        \* std::nullopt as the net of an edge
    Shapes,       \* shapes over or beside the track: <<start, end, reach>>
    Paddings,
    vertex_via_length,
    min_separation,
    Modes,        \* the values of edges_only_to_neighbours to look at
    MaxMetal      \* bound: shapes and wires in all

NoName == "none"  \* the net of a shape without a label

ASSUME TrackAssumption ==
    /\ Offsets \subseteq Int /\ Shapes \subseteq Int \X Int \X SUBSET {"vertices", "edges"}
    /\ Paddings \subseteq Nat
    /\ \A s \in Shapes : s[1] < s[2]
    /\ vertex_via_length \in Nat /\ min_separation \in Nat \ {0}
    /\ NoNet \notin Nets \cup {NoName} /\ NoName \notin Nets
    /\ Modes \subseteq BOOLEAN /\ MaxMetal \in Nat

min_separation_between_edges == vertex_via_length + min_separation
min_separation_to_new_blockages == vertex_via_length \div 2 + min_separation

VARIABLES
    edges_only_to_neighbours,  \* set when the track is built
    vertices,     \* vertices_by_offset_
    edges,        \* edges_, each as <<low, high>>; two between the same ends
                  \* are always in the same state and count as one
    blocked,      \* the edges that are blocked_
    netOf,        \* edge -> in_use_by_net_
    blockages,    \* blockages_.edge_blockages
    vertex_blockages,  \* blockages_.vertex_blockages
    metal         \* the shapes and wires so far, and what they reach (history)

vars == <<edges_only_to_neighbours, vertices, edges, blocked, netOf,
          blockages, vertex_blockages, metal>>

Pairs == {e \in Offsets \X Offsets : e[1] < e[2]}

Init ==
    /\ edges_only_to_neighbours \in Modes
    /\ vertices = {} /\ edges = {} /\ blocked = {}
    /\ netOf = [e \in Pairs |-> NoNet]
    /\ blockages = {} /\ vertex_blockages = {} /\ metal = {}

-----------------------------------------------------------------------------
\* RoutingTrackBlockage::Blocks.
Blocks(b, low, high) ==
    \/ b.start <= low /\ low <= b.end
    \/ b.start <= high /\ high <= b.end
    \/ low <= b.start /\ b.end <= high

\* BlockageBlocks; its default margin is 0, so that wires end to end touch
\* nothing but their own ends.
BlocksEdge(b, e, margin) == Blocks(b, e[1] - (margin - 1), e[2] + (margin - 1))

\* The order of SortBlockages.
Before(a, b) == a.start < b.start \/ (a.start = b.start /\ a.end < b.end)

\* What of a list comes before the rest of it, and after.
First(B) == CHOOSE b \in B : \A c \in B : ~Before(c, b)
Last(B) == CHOOSE b \in B : \A c \in B : ~Before(b, c)

\* Mutants: the merged blockage ends where the first of them does, or only what
\* overlaps is merged.
MergeFirst(list, start, end, margin, net) ==
    LET met == {b \in list : b.net = net /\ Blocks(b, start - (margin - 1), end + (margin - 1))}
        new == IF met = {} THEN [start |-> start, end |-> end, net |-> net]
               ELSE [First(met) EXCEPT !.end = IF @ > end THEN @ ELSE end]
    IN  [new |-> new, list |-> (list \ met) \cup {new}]

MergeOverlapping(list, start, end, margin, net) ==
    LET met == {b \in list : b.net = net /\ Blocks(b, start, end)}
        new == IF met = {} THEN [start |-> start, end |-> end, net |-> net]
               ELSE [start |-> IF First(met).start < start THEN First(met).start ELSE start,
                     end |-> IF Last(met).end > end THEN Last(met).end ELSE end,
                     net |-> net]
    IN  [new |-> new, list |-> (list \ met) \cup {new}]

\* MergeNewBlockage: what is within the margin of the new blockage and of its
\* net is replaced by one blockage from the first start to the last end.
Merge(list, start, end, margin, net) ==
    LET met == {b \in list : b.net = net /\ Blocks(b, start - (margin - 1), end + (margin - 1))}
        new == IF met = {} THEN [start |-> start, end |-> end, net |-> net]
               ELSE [start |-> IF First(met).start < start THEN First(met).start ELSE start,
                     end |-> IF Last(met).end > end THEN Last(met).end ELSE end,
                     net |-> net]
    IN  [new |-> new, list |-> (list \ met) \cup {new}]

\* Where MaybeAddEdgeBetween meets a blockage.
Collisions(e) == {b \in blockages : BlocksEdge(b, e, min_separation_to_new_blockages)}

\* IsEdgeBlockedBetween: without nets every blockage counts, and with nets
\* those of other nets.
MayAdd(e, for_nets) == \A b \in Collisions(e) : b.net \in for_nets

\* Mutant and definition: a new edge that meets blockages of its own nets is
\* blocked, in the name of the first; which of two that lie alike is first,
\* std::sort may choose.
AddUnmarked(added) == edges' = edges \cup added /\ UNCHANGED <<blocked, netOf>>

AddEdges(added) ==
    LET met == {e \in added \ edges : Collisions(e) # {}}
        Names(e) == {b.net : b \in {c \in Collisions(e) : \A d \in Collisions(e) : ~Before(d, c)}}
    IN  /\ edges' = edges \cup added
        /\ blocked' = blocked \cup met
        /\ \E name \in [met -> Nets] :
              /\ \A e \in met : name[e] \in Names(e)
              /\ netOf' = [e \in Pairs |-> IF e \in met THEN name[e] ELSE netOf[e]]

Edge(u, v) == IF u < v THEN <<u, v>> ELSE <<v, u>>

\* GetImmediateNeighbours, among the vertices of S.
Neighbours(v, S) ==
    {u \in S \ {v} : ~\E w \in S \ {u, v} : (u < w /\ w < v) \/ (v < w /\ w < u)}

-----------------------------------------------------------------------------
\* AddVertex: the vertex joins the track when some edge to it is possible, or
\* when it is the first one.
AddVertex(v, for_nets) ==
    /\ v \notin vertices
    /\ LET others == IF edges_only_to_neighbours THEN Neighbours(v, vertices) ELSE vertices
           added == {e \in {Edge(u, v) : u \in others} : MayAdd(e, for_nets)}
       IN  /\ vertices = {} \/ added # {}
           /\ AddEdges(added)
    /\ vertices' = vertices \cup {v}
    /\ UNCHANGED <<edges_only_to_neighbours, blockages, vertex_blockages, metal>>

\* IsBlocked at a point and without a margin, and a mutant: only the blockages
\* of edges are asked.
IsBlockedForEdges(v, net) ==
    \E b \in blockages : b.net # net /\ BlocksEdge(b, <<v, v>>, 0)

IsBlocked(v, net) ==
    \E b \in blockages \cup vertex_blockages :
        b.net # net /\ BlocksEdge(b, <<v, v>>, 0)

\* CreateNearestVertexAndConnect: a port asks for a vertex across from it.  It
\* was looked at under the shared lock of the grid, which has been given up
\* since, so nothing is known of the place.
CreateNearestVertexAndConnect(v, net) ==
    ~IsBlocked(v, net) /\ AddVertex(v, {net})

\* The edge that takes the place of vertex v, if it has two neighbours.
Bridge(v) ==
    {e \in Pairs : /\ {e[1], e[2]} = Neighbours(v, vertices)
                   /\ e[1] < v /\ v < e[2]
                   /\ MayAdd(e, {})}

\* Mutants: the edges of the vertex stay, or its neighbours are left apart.
RemoveFromMap(v) ==
    /\ v \in vertices
    /\ vertices' = vertices \ {v}
    /\ UNCHANGED <<edges_only_to_neighbours, edges, blocked, netOf, blockages,
                   vertex_blockages, metal>>

RemoveVertexOnly(v) ==
    /\ v \in vertices
    /\ vertices' = vertices \ {v}
    /\ edges' = {e \in edges : v \notin {e[1], e[2]}}
    /\ blocked' = blocked \cap edges'
    /\ netOf' = [e \in Pairs |-> IF e \in edges' THEN netOf[e] ELSE NoNet]
    /\ UNCHANGED <<edges_only_to_neighbours, blockages, vertex_blockages, metal>>

RemoveVertex(v) ==
    /\ v \in vertices
    /\ vertices' = vertices \ {v}
    /\ edges' = {e \in edges : v \notin {e[1], e[2]}}
                    \cup (IF edges_only_to_neighbours THEN Bridge(v) ELSE {})
    /\ blocked' = blocked \cap edges'
    /\ netOf' = [e \in Pairs |-> IF e \in edges' THEN netOf[e] ELSE NoNet]
    /\ UNCHANGED <<edges_only_to_neighbours, blockages, vertex_blockages, metal>>

\* A vertex that has been blocked (any may be) asks for an edge over it.
HealAroundBlockedVertex(v) ==
    /\ edges_only_to_neighbours /\ v \in vertices
    /\ AddEdges(Bridge(v))
    /\ UNCHANGED <<edges_only_to_neighbours, vertices, blockages, vertex_blockages, metal>>

\* The edges that come too close to a blockage.
EdgesBlockedByBlockage(b) ==
    {e \in edges : BlocksEdge(b, e, min_separation_to_new_blockages)}

\* Those that are open are blocked, and named after the blockage unless they
\* have a net.
ApplyEdgeBlockage(b, net) ==
    LET open == EdgesBlockedByBlockage(b) \ blocked
    IN  /\ blocked' = blocked \cup open
        /\ netOf' = [e \in Pairs |->
               IF e \in open /\ netOf[e] = NoNet /\ net # NoName THEN net ELSE netOf[e]]

\* AddBlockage: the shape is merged, and what it is merged into is applied.  A
\* shape beside the track may reach vertices, whose vias are wider than wires,
\* and no edges (IntersectsVertices, IntersectsEdges).
AddBlockage(start, end, padding, net, reach) ==
    LET margin == min_separation_between_edges + padding
        merged == Merge(blockages, start, end, margin, net)
    IN  /\ vertex_blockages' =
               IF "vertices" \in reach
               THEN Merge(vertex_blockages, start, end, margin, net).list
               ELSE vertex_blockages
        /\ IF "edges" \in reach
           THEN blockages' = merged.list /\ ApplyEdgeBlockage(merged.new, net)
           ELSE UNCHANGED <<blockages, blocked, netOf>>
        /\ metal' = metal \cup {[start |-> start, end |-> end, net |-> net, reach |-> reach]}
        /\ UNCHANGED <<edges_only_to_neighbours, vertices, edges>>

\* EdgeAvailable, of RoutingEdge::AvailableForNets.
Offered(e, net) == e \notin blocked /\ netOf[e] \in {NoNet, net}

\* MarkEdgeAsUsed, of an edge that a search was offered.
MarkEdgeAsUsed(e, net) ==
    /\ Offered(e, net)
    /\ LET merged == Merge(blockages, e[1], e[2], min_separation_between_edges, net)
           touched == {f \in edges \ (blocked \cup {e}) : BlocksEdge(merged.new, f, 0)}
           taken == {f \in touched : netOf[f] \notin {NoNet, net}}
       IN  /\ blockages' = merged.list
           /\ vertex_blockages' =
                  Merge(vertex_blockages, e[1], e[2], min_separation_between_edges, net).list
           /\ blocked' = blocked \cup taken
           /\ netOf' = [f \in Pairs |-> IF f \in taken THEN NoNet
                                        ELSE IF f \in touched \cup {e} THEN net ELSE netOf[f]]
    /\ metal' = metal \cup {[start |-> e[1], end |-> e[2], net |-> net,
                              reach |-> {"vertices", "edges"}]}
    /\ UNCHANGED <<edges_only_to_neighbours, vertices, edges>>

Next ==
    \/ \E v \in Offsets, for_nets \in SUBSET Nets : AddVertex(v, for_nets)
    \/ \E v \in Offsets, n \in Nets : CreateNearestVertexAndConnect(v, n)
    \/ \E v \in Offsets : RemoveVertex(v) \/ HealAroundBlockedVertex(v)
    \/ /\ Cardinality(metal) < MaxMetal
       /\ \/ \E s \in Shapes, p \in Paddings, n \in Nets \cup {NoName} :
                AddBlockage(s[1], s[2], p, n, s[3])
          \/ \E e \in edges, n \in Nets : MarkEdgeAsUsed(e, n)

Spec == Init /\ [][Next]_vars
-----------------------------------------------------------------------------
\* Properties.

\* Every variable holds what the C++ members can hold.
TypeOK ==
    /\ edges_only_to_neighbours \in BOOLEAN
    /\ vertices \subseteq Offsets
    /\ edges \subseteq {e \in Pairs : e[1] \in vertices /\ e[2] \in vertices}
    /\ blocked \subseteq edges
    /\ netOf \in [Pairs -> Nets \cup {NoNet}]
    /\ \A list \in {blockages, vertex_blockages} :
           /\ list \subseteq [start : Int, end : Int, net : Nets \cup {NoName}]
           /\ \A b \in list : b.start < b.end

\* What MergeNewBlockage relies on and says it guarantees: blockages of one net
\* are further apart than they would be merged.
BlockagesAreApart ==
    \A list \in {blockages, vertex_blockages} : \A b, c \in list :
        b.net = c.net => \/ b = c
                         \/ b.end + min_separation_between_edges <= c.start
                         \/ c.end + min_separation_between_edges <= b.start

Reaching(what) == {m \in metal : what \in m.reach}

Covers(list, laid) ==
    /\ \A m \in laid : \E b \in list :
           b.net = m.net /\ b.start <= m.start /\ m.end <= b.end
    /\ \A b \in list :
           \E m, k \in laid : /\ m.net = b.net /\ m.start = b.start
                              /\ k.net = b.net /\ k.end = b.end

\* The lists forget no metal and invent none: every shape and wire lies in a
\* blockage of its net, which begins and ends where some of them do.
BlockagesCoverMetal ==
    /\ Covers(blockages, Reaching("edges"))
    /\ Covers(vertex_blockages, Reaching("vertices"))

\* An edge that is offered to a net touches no metal of another, whether the
\* edge was there before the metal or was created after it.
OffersAreClear ==
    \A e \in edges, n \in Nets : Offered(e, n) =>
        \A m \in Reaching("edges") : BlocksEdge(m, e, 0) => m.net = n

\* Vertices that should be joined are, unless a blockage is in the way: all of
\* them, or on a track of neighbours those next to each other.
VerticesAreJoined ==
    \A e \in Pairs :
        /\ {e[1], e[2]} \subseteq vertices
        /\ edges_only_to_neighbours => e[1] \in Neighbours(e[2], vertices)
        => e \in edges \/ Collisions(e) # {}

\* A port that is given a new vertex is given a good one, whatever was laid over
\* the track since it looked: not under what reaches vertices, and where its
\* via has room beside the wires, as long as there is another vertex to go to.
AccessIsClear ==
    [][\A v \in Offsets, n \in Nets :
           CreateNearestVertexAndConnect(v, n) /\ vertices # {} =>
               \A m \in metal : m.net # n =>
                   /\ "vertices" \in m.reach => ~(m.start <= v /\ v <= m.end)
                   /\ "edges" \in m.reach =>
                          ~BlocksEdge(m, <<v, v>>, min_separation_to_new_blockages)]_vars
====
