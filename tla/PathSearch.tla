---- MODULE PathSearch ----
(***************************************************************************)
(* What a search may return: RoutingGrid::FindRouteBetween and             *)
(* FindRouteToNet, which read the grid under its shared lock, together     *)
(* with the root RoutingBlockageCache, in which RouteManager stages the    *)
(* pins of every net.                                                      *)
(*                                                                         *)
(* Ports lie on grid vertices, so ConnectToGrid returns those vertices.    *)
(* ShortestPath is modelled by its result, a cheapest usable path; the     *)
(* queue is in module ShortestPath, and RouteSearches puts it in its place. *)
(***************************************************************************)
EXTENDS RoutingGrid

CONSTANT PortLayer  \* the layer of the port shapes, from which they are accessed

ASSUME PortAssumption == PortLayer \in Layers

VARIABLES
    nodes,        \* net -> nodes_ of its order, each a set of port vertices
    staged        \* the nets whose pins the root blockage cache still holds

Pins(n) == UNION {nodes[n][i] : i \in DOMAIN nodes[n]}

\* The pins that block net n: its own are cancelled in its child cache.
ForeignPins(n) == UNION {Pins(m) : m \in staged \ {n}}

\* AvailableForAll, of the vertex and of the cache, over the layers in S.
VertexAvailable(v, n, S) ==
    /\ blocking[v] \subseteq {n}
    /\ \A use \in using[v] : use[2] \in S => use[1] = n
    /\ PortLayer \in S => v \notin ForeignPins(n)

AvailableForVia(v, n) == VertexAvailable(v, n, Layers)
AvailableOnAnyLayer(v, n) == \E l \in layers[v] : VertexAvailable(v, n, {l})

EdgeAvailable(e, n) == ~edgeBlocked[e] /\ edgeNet[e] \in {NoNet, n}

\* A mutant: only pins at the ends of an edge stand in its way.
EndsAtForeignPin(e, n) ==
    e.dir = PortLayer /\ \E v \in ForeignPins(n) : Spans(e, v) /\ v[e.dir] \in {e.lo, e.hi}

\* RoutingBlockageCache::IsEdgeBlocked, as far as staged pins go.
CrossesForeignPin(e, n) ==
    e.dir = PortLayer /\ \E v \in ForeignPins(n) : Spans(e, v)

\* The edges each kind of search may use: the one to a net does not look them
\* up in the blockage cache.
EdgeUsable(e, n) == EdgeAvailable(e, n) /\ ~CrossesForeignPin(e, n)
EdgeUsableToNet(e, n) == EdgeAvailable(e, n)

\* The conditions ShortestPath puts on vertices: every one must be available
\* on some layer, and on all of them where the path changes layer.
VerticesUsable(r, n) ==
    \A i \in DOMAIN r :
        /\ AvailableOnAnyLayer(r[i], n)
        /\ i \in 2..Len(r) - 1 /\ edgeLayer[Edge(r, i - 1)] # edgeLayer[Edge(r, i)]
               => AvailableForVia(r[i], n)

\* The sum of the lengths of the edges; vertices cost nothing.
Cost(r) ==
    LET upTo[i \in 1..Len(r)] ==
            IF i = 1 THEN 0
            ELSE upTo[i - 1] + Edge(r, i - 1).hi - Edge(r, i - 1).lo
    IN  upTo[Len(r)]

Cheapest(S) ==
    LET costs == {Cost(r) : r \in S}
    IN  {r \in S : \A cost \in costs : Cost(r) <= cost}

RoutesFrom == [v \in Vertices |-> {r \in Routes : r[1] = v}]

\* FindRouteBetween.  A port that lies on both ends has no route: the search
\* fails on an empty list of edges.
RoutesBetween(n, begin, end) ==
    Cheapest({r \in RoutesFrom[begin] :
        /\ r[Len(r)] = end
        /\ VerticesUsable(r, n)
        /\ \A e \in EdgesOf(r) : EdgeUsable(e, n)})

\* A vertex where some path begins, turns or ends.
ChangesEdge(v) == \E p \in paths : v \in VerticesOf(p.route)

\* A mutant: a vertex next to the net will do.
IsNear(v, n) == blocking[v] = {n} /\ AvailableOnAnyLayer(v, n)

\* The vertices that count as net n for a search that ends anywhere on it.
IsTarget(v, n) ==
    /\ InUseBySingleNet(v, n)
    /\ AvailableOnAnyLayer(v, n)
    /\ \A u \in Vertices :
           AreNeighbours(v, u) /\ ChangesEdge(u) => AvailableOnAnyLayer(u, n)

\* ShortestPath to a net, which fails when it begins on its own target.  The
\* bound on the vertices of a path leaves room for one more.
ShortestToNet(n, begin) ==
    IF IsTarget(begin, n) THEN {}
    ELSE Cheapest({r \in RoutesFrom[begin] :
        /\ Len(r) < MaxCorners
        /\ IsTarget(r[Len(r)], n)
        /\ VerticesUsable(r, n)
        /\ \A e \in EdgesOf(r) : EdgeUsableToNet(e, n)})

\* LikelyHostsVia: an installed path changes its layer where it turns at v.
HostsVia(v) ==
    \E p \in paths : \E i \in 2..Len(p.route) - 1 :
        p.route[i] = v /\ edgeLayer[Edge(p.route, i - 1)] # edgeLayer[Edge(p.route, i)]

\* The vias of net n beside the end of a path.
NearbyVias(r, n) ==
    {v \in Vertices :
        /\ AreNeighbours(r[Len(r)], v)
        /\ InUseBySingleNet(v, n)
        /\ HostsVia(v)
        /\ \A e \in EdgesOf(r) : ~Spans(e, v)}

\* MaybeExtendToNearbyVia: a path to its net goes on to one of these vias, the
\* first in the order of their addresses.  Nothing is asked about the edge.
Extended(r, n) ==
    IF NearbyVias(r, n) = {} THEN {r}
    ELSE {Append(r, v) : v \in {u \in NearbyVias(r, n) : InLine(r[Len(r)], u)}}

\* That via may as well lie across from the end: LOG(FATAL).
CannotExtend(r, n) == \E v \in NearbyVias(r, n) : ~InLine(r[Len(r)], v)

\* The layers through which the end of a path to its own net is reached:
\* those on which the net already uses that vertex.
NetLayersAt(v, n) == {l \in Layers : <<n, l>> \in using[v]}

\* What FindRouteBetween or FindRouteToNet may make of the path r they found.
OptionsOf(r, n, toNet) ==
    IF toNet THEN {[path |-> q, access |-> NetLayersAt(q[Len(q)], n)] : q \in Extended(r, n)}
             ELSE {[path |-> r, access |-> {PortLayer}]}
====
