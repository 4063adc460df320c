# A TLA+ model of bfg

bfg generates the layout of FPGA fabric: cells are drawn by generators, placed in
rows, and the nets between their pins are routed on a grid of tracks. Almost all
of the state that several actors share, and all of the concurrency, is in the router
(`src/src/routing`) and in the gRPC service around it
(`src/src/router_service_impl.cc`). This project models those, the arithmetic of the
grid under them, the placement of cells in rows, the geometry and the layouts that
everything is drawn with, and the circuits that the generators connect beside: TLA+ modules, TLC runs on small
instances, and TLAPS proofs of what holds for every instance.

    tlc -config Serial.cfg MCRouteOrders     # any run: the table in section 4
    tlapm RoutingProofs.tla                  # the proofs of a module

Line numbers below are those of the repository at the commit in `src/`.

## 1. Inventory

What the system consists of, what each part keeps, how the parts interact, what is
hard about them and what makes them correct.

### Routing grid, paths, vertices, edges (`routing_grid.cc`, `routing_path.cc`, `routing_vertex.cc`, `routing_edge.cc`)

*State.* Per edge the net that uses it, whether it is blocked, and its layer; per
vertex the layers it connects, the nets that use it on each layer and the nets that
block it from nearby; the installed paths. One `shared_mutex` guards all of it.

*Operations.* `ConnectLayers` builds the grid. `FindRouteBetween` and
`FindRouteToNet` search under the shared lock and change nothing.
`InstallPath` takes the unique lock, asks the path `CheckStillAvailable`,
legalises it (`Flatten`) and marks edges and vertices.

*Hard.* A path is found under one lock and installed under another; what may have
happened in between is looked at only in part. Edges of one track overlap (every two
vertices of a track have an edge), so every wire must take all the edges that share
metal with it out of use. The two kinds of search use different conditions. The queue
of a search orders its vertices by costs that change while they wait.
`Flatten` changes layers *after* the path was checked.

*Correct when* no two nets share metal, no vertex has two nets on one layer, vias of
different nets keep apart, and nobody runs over the pin of another; a search returns a
path where there is one, and one of the cheapest.

### Routing tracks (`routing_track.cc`, `routing_track_blockage.cc`)

*State.* The vertices and edges of one track, and two sorted lists of blockages
(one for edges, one for vertices), each with permanent and temporary members.

*Operations.* `AddVertex`, `RemoveVertex`, `HealAroundBlockedVertex`,
`AddBlockage`, `MarkEdgeAsUsed`, `CreateNearestVertexAndConnect` for a port between the
vertices, and `MergeNewBlockage` beneath.

*Hard.* Edges and metal arrive in any order, so the same protection has to be built in
two ways: by marking the edges that exist, and by remembering the metal for those
that do not yet. On a track with edges to neighbours only, every vertex that comes
or goes changes which edges there should be.

*Correct when* the lists stay sorted and disjoint per net and cover exactly the metal,
no edge is offered over another net's metal, vertices are joined wherever
nothing stands in the way, and a port gets no vertex too near to another net.

### Routing grid geometry (`routing_grid_geometry.cc`)

*State.* Start, pitch and end of the tracks on both axes.

*Operations.* From a position to the indices of the tracks around it, rounded up and
down, clipped to the grid, with more tracks on either side if asked for.

*Hard.* Rounding at, between and beyond tracks; two different margins around a shape,
worked out apart from the tests that they are to cover.

*Correct when* no track, edge or vertex that a shape affects is missed.

### Blockage cache (`routing_blockage_cache.cc`)

*State.* The shapes that are staged as blockages, and for each what vertices and edges
it affects; the list of cancelled blockages. Caches form a tree: a root in
`RouteManager`, one child per running order.

*Operations.* Staging, `CancelBlockages` by shape and by net, and the questions a
search asks (`IsEdgeBlocked`, `IsVertexBlocked`).

*Hard.* Cancellations come from three places, blockages are found by their shape, and
what is left is determined by *counting*. The root changes while other threads
search with its children.

*Correct when* what is cancelled blocks nobody, what is not keeps the metal of
everybody else at its distance, and the view of a running order never closes.

### Route manager (`route_manager.cc`, `equivalent_nets.cc`)

*State.* The requested orders and their ids, groups of equivalent nets by port, the
results by id.

*Operations.* `Connect`, `ConnectMultiplePorts` and `ConnectToNet` append orders.
`Solve` merges orders that share ports (`CollectConnectedNets`,
`ConsolidateOrders`) and runs them: `RunAllSerial`, or `RunAllParallel` in batches
of as many threads as the machine has, each of which is joined before the next.
`RunOrder` joins the first two nodes, then each further node to the net, and tries
each up to `kNumRetries` times. At its end `MaybeAutoCancelBlockages` may
give up the staged pins of the net.

*Hard.* Threads that take from one another what they have found; orders that fail in
part; groups that are merged and deleted while other tables point to them.

*Correct when* every order ends, an order without an error has connected its nodes,
and each requested node is in exactly one merged order with everything it was asked
to be connected with.

### Router service (`router_service_impl.cc`, `router_session.cc`)

*State.* A map from ids to sessions, with no lock; each session owns a grid and a
route manager's worth of routes.

*Operations.* `CreateRoutingGrid`, `AddRoutes`, `QueryRoutingGrid` and
`DeleteRoutingGrid`, called by gRPC on its own threads.

*Hard.* An id is chosen, a session looked up, and an entry erased in separate steps;
a delete erases twice; pointers to a session are kept while it may go.

*Correct when* no session leaks or dangles, ids lead to the grid that was built for
them, and a reply reports the routes of its own call.

### Placement guides (`row_guide.cc`, `memory_bank.cc`)

*State.* A row: its instances, the blank space left at either end, how far the last
tap cell is from either end. A bank: rows, stacked, every other one turned around.

*Operations.* Placing an instance or blank space at either end, with a tap cell before
it if one is due; moving; in a bank also a new row below, and the alignment of all
rows after each placement.

*Hard.* A row grows at both ends and by insertion, and three counters are kept for each
end; rows are used through the bank and behind its back.

*Correct when* instances never overlap, nothing is too far from a tap, and rows that
touch are turned against each other.

### Access to the grid (`ConnectToGrid` in `routing_grid.cc`)

*State.* No state of its own: it adds vertices to tracks and to the grid, and edges that
lead off the grid to a port. A call owns the vertex at its port until the grid takes it over.

*Operations.* `AddAccessVerticesForPoint` joins a new vertex to all tracks around the port;
if that fails, `ConnectToNearestAvailableVertex` joins one to a track of one grid vertex,
candidate by candidate.

*Hard.* Threads do this at once. Each looks under the shared lock, gives it up and takes
the unique one, and takes back what it has built when an edge turns out to be blocked.

*Correct when* only who holds the lock looks or changes, nothing is left pointing to a
vertex that was deleted, what is returned is joined to a track, and what was tried in vain
leaves no trace.

### Cells and tiles (`atoms/`, `tiles/`)

*State.* Beside the layout each generator builds a circuit: transistors in a cell, and
in a tile instances of cells joined net by net. What the fabric keeps is in flip-flops
on a scan chain; everything else only settles.

*Operations.* Generation is one pass. The circuit that comes out is driven from outside:
`SCAN_IN` and the clock change, and the nets settle.

*Hard.* One place in the scan order means a row and a column, a cell of a bank, and
an input of a multiplexer, worked out in three functions from alternating and mirrored rows.
Every flip-flop hands its output to the next one on the same edge. Complements are
swapped freely, so that a control may be active at 0.

*Correct when* a chain of any length holds the word that was clocked into it, a word
selects the input it was meant to, and the table gives the bit it was addressed for.

### Drawn cells (`atoms/sky130_dfxtp.cc`, `_hd_mux2_1`, `_buf`, `_xor2`, `_decap`, `_tap`)

*State.* A `Layout`: shapes by layer, the bounds by which a cell is placed, pins.

*Operations.* Each generator adds shapes one after another, at places that are literal, relative
to other shapes or to the height of the cell, and spreads contacts over what room there is;
beside that, it makes a circuit, which nothing compares with the layout.

*Hard.* A shape that is a little off joins two nets or parts one, and the
program goes on; options add, drop and move groups of shapes; cells share rails and wells
with whatever is placed next to them, turned around in every other row.

*Correct when* what the shapes join is the circuit, transistor by transistor, cuts lie on what
they join, and shapes that are not one net keep their distance, within a cell and between any
two that a bank puts together.

### Geometry and layouts (`geometry/`, `layout.cc`, `poly_line_inflator.cc`)

*State.* Shapes are values: points, lines, rectangles, rounded rectangles, polygons,
poly-lines. A `Layout` keeps collections of them by layer, the layer that is drawn on, its
ports (also by net), its instances of other layouts, named points and tiling bounds. An
instance keeps its origin, rotation, reflection and, once asked for, its ports.

*Operations.* Overlap, distance, padding, and where lines, rectangles and polygons meet; bulges
and notches of poly-lines and their inflation; mirroring, moving and turning everything in a
layout; flattening, copying shapes out of a hierarchy, rows of vias, wires with vias at their
turns, export.

*Hard.* The same transformation is written several times: for shapes, for points, for the
bounds of instances and for their ports. Overlap is decided by cases that must neither leave a gap nor
reach too far. Counts and spaces of vias come from integer division.

*Correct when* overlap agrees with distance, keep-outs keep the distance they are made for,
an instance shows its shapes, ports and bounds in the same place, and what is distributed stays apart.

### Everything else

The k-d tree and the vertex collector (geometric search), databases, the drawings of the other generators, and the command line: see
section 8 for why each is left out, and `PROJECT.json` for the list by file.

## 2. Modules

| module | models | used by |
|---|---|---|
| `RoutingGrid` | `InstallPath` and all it does to edges, vertices and paths | `PathSearch` |
| `PathSearch` | what the two searches may return, and the staged pins | `RouteOrders` |
| `ShortestPath` | `RoutingGrid::ShortestPath` with its priority queue, step by step | `RouteSearches` |
| `RouteOrders` | `RunAllSerial`, `RunAllParallel`, `RunOrder` | `RouteSearches` |
| `RouteSearches` | the same with searches taken apart, under the shared lock | - |
| `RoutedNets` | what the route manager promises, without a grid | `RouteOrders` |
| `EquivalentNets` | a set of names with a primary | `NetMerging` |
| `NetMerging` | requests, merging of orders, `Solve`, results | - |
| `RoutingTrack` | vertices, edges, blockages and port vertices of one track | - |
| `GridGeometry` | positions and indices of tracks | `StagedShapes` |
| `StagedShapes` | which edges and vertices a staged shape affects | `StagedCache` |
| `BlockageCache` | root and child caches, cancellation, counting | `StagedCache` |
| `StagedCache` | the cache over the grid: both of the above | - |
| `RouterSessions` | the handlers of the service | - |
| `RowGuide` | one row of instances | `MemoryBank` |
| `MemoryBank` | rows stacked in a bank | - |
| `GridAccess` | `ConnectToGrid` by several threads | - |
| `Cells` | transistors, and the cells made of them, as relations between settled nets | the three below |
| `Register` | what a flip-flop promises | `ScanChain` |
| `ScanChain` | flip-flops in a row under one clock | - |
| `InterconnectMux` | the stacks of gates and the scan orders of the interconnect multiplexers | - |
| `LutB` | the look-up table: banks, multiplexers, select lines, outputs | - |
| `Mask` | boxes, polygons and drawings, and the nets and transistors extracted from them | the four below |
| `DfxtpDrawing` | the flip-flop as drawn, and as a circuit | `CellDrawings` |
| `Mux21Drawing` | the 2:1 multiplexer of the standard library | `CellDrawings` |
| `GateDrawings` | buffer and exclusive or | `CellDrawings` |
| `FillDrawings` | decoupling capacitors and taps, and the spreading of contacts | `CellDrawings` |
| `CellDrawings` | all of them, and any two next to each other | - |
| `Geometry` | points, lines, rectangles, rounded rectangles and polygons | `PolyLines` |
| `PolyLines` | wires with bulges and notches, and their inflation | `Layouts` |
| `Layouts` | shapes by layer, ports, instances, and what is done to a layout | - |
| `...Proofs` | theorems, see section 6 | - |
| `MC...` | instances for TLC | - |

`RouteOrders` composes the routing modules: it extends `PathSearch`, which extends
`RoutingGrid`, so that every step of a thread acts on the one shared grid.
`RouteSearches` refines it, and it refines `RoutedNets`.
`NetMerging` hands `RouteOrders` what the latter assumes (`OrderAssumption`): that a
port belongs to one order. `OrdersPartitionNodes` is that assumption as a property.
`RoutingTrack` is the detail under `MarkEdgesAsUsed` of `RoutingGrid`, and
`StagedCache` the detail under `CrossesForeignPin` and `VertexAvailable` of
`PathSearch`; it composes the bookkeeping of cancellations with the geometry of what
is cancelled.

## 3. How state and actions correspond to the code

**RoutingGrid.** `edgeNet`, `edgeBlocked` and `edgeLayer` are the members of
`RoutingEdge`; `layers`, `using` and `blocking` those of `RoutingVertex`; `paths` is
`RoutingGrid::paths_`. The only action is `InstallPath`, one step because the code
holds the unique lock throughout: `CheckStillAvailable`, `MarkEdgeAsUsed` for each
edge, `InstallVertexInPath` for each vertex, and the part of `Legalise` that changes
the grid, `Flatten`. On its own the module lets *any* path be presented at any time
(`GridSpec`), which covers every path found now or earlier.

What is abstracted:

- The grid is the default one (an edge between every two vertices of a track) with
  one horizontal and one vertical layer; vertices are the on-grid ones.
- A net stands for an electrical net: aliases were merged before.
- A path turns at each inner vertex. An edge that spans two others costs the same and
  is relaxed first, so a path along one track is a single edge. Only a path to its net may end
  otherwise: `MaybeExtendToNearbyVia` may append an edge to a via beside its end, straight on
  or not (`FoundPaths`), and `MergeConsecutiveEdgesOnSameTrack` then makes the last two
  edges one if they lie on one track (`Merged`).
- `Abbreviate` does nothing when the outer vertices are on the grid
  (`routing_path.cc:114`).
- Whether an end that needs a via has room for it (`CheckAndForceEncapDirections`) is
  a choice of the model; it only affects which layers of a vertex stay connected.
- Tracks are at least `min_separation_between_edges` apart, so the merged blockage in
  `MarkEdgeAsUsed` adds only wires that touch and marking by the edge alone comes to
  the same. `RoutingTrack` does not make this assumption.

**PathSearch.** `RoutesBetween` and `ShortestToNet` are the sets of paths that the two
kinds of `ShortestPath` may return: the cheapest among the usable
routes, where "usable" is the code's conditions on vertices and edges. `OptionsOf` is what
`FindRouteBetween` and `FindRouteToNet` make of one. The second goes on to a via of its net among
the eight neighbours of the path's end (`MaybeExtendToNearbyVia`, `routing_grid.cc:2065` and
2112): `Extended` has the paths with the edge that is appended, about which nothing is
asked, and `CannotExtend` says that such a via may lie across from the end, with no track in
common, which is `LOG(FATAL)` at line 2143. The first via in a set of pointers is taken, so both may
be possible for one path. The search to a
net does not ask the blockage cache about edges (`routing_grid.cc:2599`), and neither
does the model. `staged` holds the nets whose pins the root cache still blocks. Ports
lie on grid vertices, so `ConnectToGrid` returns those (`routing_grid.cc:861`).

**ShortestPath, RouteSearches.** A search is a record: costs, back-pointers, the queue,
the vertex whose edges are being relaxed, the targets found. `Pop` takes the top off the
queue, `Relax` lowers the cost of one neighbour; edges are relaxed in any order, since
the code keeps them in a set of pointers. The queue is libstdc++'s binary heap, its
comparisons made with the costs *of the moment*: the code lowers the cost of a vertex
that waits and never moves it. `RouteSearches` gives every thread its search; the
shared lock is held from its first step to its last, so `InstallNext` and
`DropUnavailable` wait until no thread searches (`NobodySearches`), while others search
at the same time.

**RouteOrders.** Per net: the node its order is at (`node`), whether the first pair
is routed (`linked`), the attempt (`attempts`), the searches left in it (`todo`), the
paths found and not yet tried (`options`) and whether an error was kept (`failed`).
`FindRoute` is one search under the shared lock; `InstallNext` and `DropUnavailable`
are one attempt to install under the unique lock; `RetryNode` and `GiveUpNode` are
the two ends of `retry_fn`; `RefuseOrder` is an order of fewer than two nodes. `Abort` is the search
that ends the process (`CannotExtend`); `aborted` says that it has happened, and nothing
happens after it. The order
of searches within an attempt and among equally
cheap options is left open (the code iterates over sets of pointers). Batches are
modelled as the code runs them: `Turn[n] \div Jobs` is the batch of an order, and
`Jobs = 1` is the serial run. Orders with an explicit target (`ConnectToNet`, as in
`lut_b.cc:1112`) are not modelled.

**RoutedNets.** The abstract specification: routes are added to nets, one at a time,
each meeting what its net has; each net is settled once, and as "connected" only if its
nodes are joined and its routes hang together; every net is settled in the end, unless the
process ends itself before (`Abort`). `Promise`
in `RouteOrders` is the refinement mapping: the routes are the installed paths, and the
outcome is what `Outcome` reads off the state of an order.

**NetMerging.** One step per round of each loop, `phase` saying which. A group of
nets is named after the order for which it was allocated; `groups` is the set of
those that exist. Nodes are sets of equivalent ports that are equal or disjoint, so a
node is an atom here.

**RoutingTrack.** `vertices`, `edges`, `blocked`, `netOf`, `blockages` and
`vertex_blockages` are the members of the same purpose; `metal` is a history variable,
everything that was ever
laid over or beside the track. A list of blockages is a set, since `SortBlockages` sorts the
list after every addition; `Before` is that order, and `First` and `Last` look where the
loop of `MergeNewBlockage` does. One action per public operation, on both kinds of track
(`edges_only_to_neighbours`). Left out: temporary blockages (nothing in the
repository sets any up), what a blockage does to the vertices that exist when it is
added (that is in `BlockageCache`), and the blockage cache. Parallel edges between the
same ends
are always in the same state and count as one. Any vertex may be the unavailable one
that `HealAroundBlockedVertex` is called for, and `MarkEdgeAsUsed` is called for
edges that the track offers to the net. `CreateNearestVertexAndConnect` looks at the
vertex blockages (`IsBlocked`) before it makes a vertex for a port.

**GridGeometry.** The code treats both axes alike; an `Axis` is the start, pitch, end
and number of tracks of one. Division of doubles followed by `floor` or `ceil` is
integer division, division of integers truncates toward zero (`Truncated`).

**StagedShapes.** `AddBlockage` for rectangles and ports: the candidates
(`NearestTracks`, `PossiblyAffected`) and the test of each (`TrackMeets`, `EdgeMeets`,
`Footprint`). Polygons are left out, and so are off-grid edges and vertices, which come
into being after staging.

**BlockageCache, StagedCache.** `staged` is the list of blockages in order of staging,
`cancelled` the list of each cache. `BeginOrder` cancels, in the child, the shapes on
the nets of the order and on the global nets, and `EndOrder` is
`MaybeAutoCancelBlockages`. Any number of orders may be on one net, as in the look-up table,
and what two of them cancel is counted twice (`CancelledTwice`), as the code
counts entries. Which vertices and edges a shape affects is a constant of
`BlockageCache` that `StagedCache` binds to what `StagedShapes` computes
(`StagedAssumption`, which TLC evaluates). A count of `size_t` that wraps below zero is
a number other than zero here, which is all the code compares it with.

**RouterSessions.** One step per access to the map of sessions; `doing` is the place
of each handler. `alive` holds the sessions that exist in memory. `handlers` is the
number of calls that are in hand at a time; it is chosen at the start and never
changes. Setting up a grid succeeds or fails in one step, and an order is installed
or not. What a call does after its session was deleted is undefined; the model ends
such a call without a known reply.

**GridAccess.** `grid` is what `ConnectToGrid` changes of the grid: the vertices it owns,
the vertex at each point of each track, the edges of tracks and those off the grid. `writer`
and `readers` are the two sides of `lock_`. `pc` says where a call is, one step between two
changes of the lock and, while a thread has it alone, one step per track. An address that
nobody owns may be given to a new vertex. Whether a shape or path is in the way is chosen at
each test, so the theorems hold whatever the blockages are, and options and candidates come
in any order. A thread that has rolled a candidate back chooses the next one without a
lock, as the code does, at a place of its own (`rechoosing`). `stranded` is a history variable: the
vertices that were deleted while a track pointed to them. `Nearest` is where a track is met across from a point, and
`AccessDirections` what `ValidAccessDirectionsForVertex` may come to. The grid is not linear.

**RowGuide, MemoryBank.** A row is a value: `instances_` is a function from an interval
of integers, so that it grows at both ends, and the blank space and tap distances are the
members of the same names. `gapped` is a history: whether blank space was ever left in the
row, or a cell put in while its tap cell was cleared or that is wider than a tap reaches (`Noted`).
Each operation of a row is an operator, with the tap cell it
may put in first. `MemoryBank` has the rows as its state, one action per operation of the
bank, and `UseRow` for what generators do to a row that they got from `Row`. `FixAlignments`
is part of every placement. Positions are drawn from the set `Positions`, so that the
module can also be evaluated; the proofs take any set of integers for it.

**Mask, DfxtpDrawing, Mux21Drawing, GateDrawings, FillDrawings, CellDrawings.** A drawing is a function
from layers to boxes, with the coordinates of the code; polygons are cut into boxes (`Outline`).
Shapes that the code places relative to others are so in the modules too. `Nets` are the conducting shapes
that touch or that a cut joins, with poly dividing the diffusion it crosses, and `Fets` the
places where it does. A cell names its nets by its ports and, inside, by points where each is seen
(`marks`). `CellDrawings` draws one cell and puts another beside it or, turned, above it.

**Geometry, PolyLines, Layouts.** One operator per function of the library: the object that
a method changes is its first argument and the changed one its value. Angles are quarter turns
and lines mostly along the axes, as everything that is drawn; where the code goes through a
double, the operator takes the exact quotient and then truncates or rounds as the code does.
Layouts that instances refer to are found by name in a library. Sets ordered by
address are taken in any order, optional values are sets. What the code leaves unset is named
where it is (`Origin` for a point that no hit is written to). The operators of all three modules were compared with the
compiled functions on several thousand random inputs each.


**Cells.** A net is a bit once it has settled, and a transistor that conducts makes two
nets equal, so a cell is the relation that its `GenerateCircuit` connects. A net that
nothing drives may have either value, and where two supplies are joined the relation is
empty: floating outputs and shorts are visible without being states. Sizes and
bodies of transistors and the time they take are left out. The flip-flop adds that the
latch that is shut keeps what is at its entry (`Keeps`).

**ScanChain.** One step is a change of `SCAN_IN` or of the clock, after which all nets of
all memories settle together. It is assumed that a memory's first latch is shut before
the output of the one before it moves; the two clock buffers of a multiplexer have to
be near enough for that, and the code does not say how near. `sent` is a history variable.

**InterconnectMux, LutB.** Nets are named as the code names them. Which memory controls or
feeds what is computed as in the code, from the rows that memories are placed in. A
circuit is connected as its wires are routed, and the connection is left out when no route
is found (`RoutePortKeyCollection`): the modules have the circuit with every route found.

## 4. Runs

| run | module, cfg | what it asks | bounds |
|---|---|---|---|
| `grid` | MCRoutingGrid, Grid | marking by `InstallPath`, for any paths in any order, stale or not | one track of 6 vertices, 3 nets, 4 paths |
| `serial` | MCRouteOrders, Serial | metal, layers, vias and pins, one order after the other | 6 x 3 grid; first net in one of 4 places, second anywhere, or of one node and refused |
| `serial_trees` | MCRouteSearches, Trees | orders of three and four nodes joined to their own net by searches vertex by vertex, and on to a via beside the end: they end, connect, keep the promise, and search as if in one step | 3 x 3 grid of uneven pitch, a node of two ports, an order that is refused, one whose path is extended and one that ends the process |
| `threads` | MCRouteOrders, Threads | two concurrent orders | 6 x 3 grid, first net along a row or over a corner |
| `merging` | MCNetMerging, Merging | orders become a partition of the nodes; results stand | 4 nodes, 4 orders, any number of `Solve`s |
| `track` | MCRoutingTrack, Track | blockage lists, offered edges, healing, vertices for ports | 4 vertices, 3 shapes or wires over and beside the track, both kinds of track |
| `sessions` | MCRouterSessions, Sessions | handlers one at a time and three at once | 4 calls, 2 orders each |
| `cache` | MCStagedCache, Cache | what cancellation does to availability, and what stays of it in space | 6 shapes in every order, 4 orders, two of them on one net, 3 x 3 grid |
| `threads_short` | MCRouteOrders, ThreadsShort | *violation*: `NoShorts` with three threads | 6 vertices in a row |
| `tree_pins` | MCRouteOrders, TreePins | *violation*: `PinsAreRespected` for the search to a net | 3 x 3 |
| `cancel_used_ports` | MCRouteOrders, CancelUsedPorts | *violation*: `LayersAreDisjoint` with automatic cancellation | 6 x 3 |
| `cells` | CellDrawings, CellDrawings | the drawings of the cells against their circuits and the rules of the process, alone and beside each other | every option, some sizes (six widths of capacitors, two heights); pairs side by side and in a row above at a few offsets |

Why the bounds are enough:

- *Grid.* What `MarkEdgeAsUsed` does happens on one track. Six vertices give wires
  that are nested, overlap at either end, are equal and touch; three nets and four
  paths let an edge be taken by one net, touched by a second, and presented again by
  either or by a third.
- *Orders.* Six columns and three rows are the least on which wires cross, pass over
  each other's turns and leave room to keep their vias apart. `MaxCorners` bounds the
  vertices of a path: 4 (two turns inside) lets a path go around an obstacle, 3 is used
  with threads for their number of states, and 5 with orders to a net, whose searches
  leave one vertex for the extension. `kNumRetries` is 2 as in
  the code (`route_manager.h:194`); the proofs do not depend on the number.
- *Extensions.* In `serial_trees` one order has turned around (10, 0) and has its last path end
  beside that corner or across from it, so that a path is extended in one behaviour and the
  process ends in another.
- *Searches.* On an even grid costs are multiples of one number and the queue stays in
  order. The offsets 0, 10 and 50 are uneven enough that waiting vertices are lowered
  past each other.
- *Merging.* Four orders on four nodes can chain, close a cycle, repeat and bridge two
  groups that are already merged.
- *Track.* The shapes lie 3 and 4 apart at a separation of 4, so one pair is merged
  and one is not; the one beside the track reaches vertices only; the last covers the
  others.
- *Cache.* Pins lie beside, between and over tracks and off the border of the grid; one
  is drawn twice. Columns are as close as a wire allows, so that vias of neighbouring
  columns are in each other's way, and rows leave room for a via.
  Two orders are on net B, as `lut_b.cc:1027` and 1112 have it, and one on A and one on A and C: pins are
  cancelled twice, by orders that ended and by one that runs, with counts that wrap and counts that
  come to zero.
- *Cells.* All the options that a generator tells apart are there, so each of its branches
  is drawn; sizes are a few of the many. Capacitors of 3 to 12 units and cells of two heights change how many contacts there is
  room for; a taller cell is checked on its own, since a bank has one height. Offsets of a turned neighbour by whole
  units give every way in which two of these cells can meet across a rail.
- *Sessions.* Four calls are a create, an operation on its grid, a delete and one
  more create, in any interleaving.

`CHECK_DEADLOCK FALSE` stands in `Grid.cfg` and `Merging.cfg`, whose models stop at
their bounds, and in `CellDrawings.cfg`, which stops when both cells are drawn; the others have a final stuttering step or none is needed.
Symmetry is declared over nets or calls where every definition treats them alike and
no liveness property is checked.

## 5. Fairness

`FairSpec` has weak fairness of each order's `Step`, and `FairSearchSpec` of each
`SearchStep`. In a batch each order is a
`std::thread` and the operating system schedules it again and again; in `FairSpec` a
lock is never
held across a step, so a thread that can take a step keeps being able to until it
does, or another step changes what it can do. In `FairSearchSpec` a thread with a path
to install waits for the readers. That run is serial, where there are none; with
threads, weak fairness would let readers that take turns keep a writer waiting, as a
`shared_mutex` may, and nothing is claimed there. Batches are joined in order, which is a
guard (`MayStart`) and not an assumption. Nothing is assumed about clients of
the service or callers of the manager, and no liveness is claimed there. `EveryOrderEnds` says "ends, or the process does" (`aborted`), since a search
may reach `LOG(FATAL)`.

## 6. Proofs

The theorems hold for every value of the constants that meets the named assumptions;
TLC evaluates those on every run that extends the module.

| theorem | in | says |
|---|---|---|
| `GridTyping` | RoutingProofs | the types of the grid's variables, for any paths presented |
| `GridShadows` | RoutingProofs | what shares metal with an installed wire carries its net or is out of use (`WiresCastShadows`) |
| `GridShortsFlagged` | RoutingProofs | metal of two nets is out of use on both sides (`ShortsAreFlagged`) |
| `GridNoSilentHandover` | RoutingProofs | an edge in use never passes from one net to another: a second one can only take it out of use |
| `OrdersTyping` | RoutingProofs | types of the orders' variables: no more than `kNumRetries` attempts |
| `OrdersShortsFlagged` | RoutingProofs | `ShortsAreFlagged` with any number of threads |
| `SerialNoShorts` | RoutingProofs | in a serial run no two nets share metal, though nothing is asked about the edge that extends a path |
| `OrdersConnect` | RoutingProofs | with any number of threads, an order that ends without an error has joined all its nodes, and its paths hang together |
| `OrdersKeepPromise` | RoutingProofs | `RouteOrders` implements the safety part of `RoutedNets`, extended paths included and up to the step that ends the process |
| `SerialViasKeepApart` | RoutingProofs | in a serial run ends and turns of different nets are never neighbours |
| `PairsRespectPins` | RoutingProofs | orders of two nodes, without automatic cancellation, never run over another's staged pin |
| `SerialLayersAreDisjoint` | RoutingProofs | in a serial run of such orders no vertex has two nets on one layer |
| `SearchesLeadBack` | RoutingProofs | back-pointers descend in cost, whatever order vertices leave the queue in |
| `CollectedGroupsAreOwned` | MergingProofs | while orders are merged, each group is held by the orders that collected it and no two overlap |
| `NodesArePartitioned` | MergingProofs | every node is in exactly one merged order |
| `LinkedOrdersMerge` | MergingProofs | orders that share nodes, directly or through others, become one |
| `MergedNetsAreCollected` | MergingProofs | the net of a merged order has every alias of those merged into it |
| `MergedResultsStand` | MergingProofs | the results of an order that was run are never taken back |
| `TrackTyping` | TrackProofs | edges run between vertices of the track; lists are well formed |
| `MergedBlockagesAreApart` | TrackProofs | blockages of one net are never left within the margin of each other |
| `MergingForgetsNothing` | TrackProofs | the lists cover all metal that ever came, whatever was merged |
| `OfferedEdgesAreClear` | TrackProofs | an edge offered to a net meets no metal of another |
| `TrackVerticesAreJoined` | TrackProofs | vertices are joined wherever nothing stands between them |
| `NewAccessIsClear` | TrackProofs | a vertex made for a port is clear of the metal of others |
| `SessionsOwned` | SessionProofs | with any number of handlers, a session in the table belongs to one call alone |
| `RoutesReported` | SessionProofs | a call that succeeds reports every route of its session |
| `SerialGridsExist` | SessionProofs | handlers that run one at a time work on grids that exist |
| `SerialRepliesNameGrids` | SessionProofs | their replies name the grid that was made for the call |
| `NearTracksAreFound` | CacheProofs | every track less than a pitch from a shape is returned |
| `NearWiresAreEntered` | CacheProofs | every on-grid edge whose wire would be too close to a staged rectangle is affected by it |
| `NearViasAreEntered` | CacheProofs | every vertex at which a via would be too close is entered as crowded |
| `VerticesAroundAVertex` | CacheProofs | the indices that envelop a vertex |
| `TracksRunThroughAlignedPoints` | CacheProofs | after alignment a track runs through the point given |
| `CancelledBlockagesAreIgnored` | CacheProofs | however often nets are ordered, what blocks a search is a blockage that nobody cancelled for it, or one that was cancelled twice |
| `StandingBlockagesBlock` | CacheProofs | what nobody cancelled blocks everybody else at its vertices, and at its edges but where a shape of its net on another layer was cancelled twice |
| `ViewsOfSearchesOnlyOpen` | CacheProofs | what a running order may use stays usable to it, but where a blockage was cancelled twice |
| `WiresOfSearchesAreClear` | CacheProofs | wires on offered edges keep their distance from the rectangles and ports of other nets that stand, with the same exception |
| `ViasOfSearchesAreClear` | CacheProofs | so do vias at offered vertices, unless a blockage on that layer that is in their way was cancelled twice |
| `RowsStayInOrder` | PlacementProofs | the instances of a row never overlap and stay in order |
| `RowsStayInReach` | PlacementProofs | nothing in a row is too far from a tap, for as long as no space is left blank in it and its cells come while it has taps; whatever is done to other rows |
| `BlankSpaceIsForgotten` | PlacementProofs | after blank space, the distance to the tap is kept too small by all of it |
| `RowsStayAlternate` | PlacementProofs | rows that touch stay turned against each other |
| `PlacingKeepsApart` | PlacementProofs | after the bank places an instance of the common height no two of its instances overlap |
| `LocksAreKept` | GridAccessProofs | nobody changes the grid while others look; who looks or changes holds the lock, and who chooses again after a candidate was rolled back never does |
| `NothingIsLeftDangling` | GridAccessProofs | whenever nobody is changing the grid, all that is in it or was handed out is owned by it, until a vertex is deleted under a track |
| `OnlyLandingsInVainStrand` | GridAccessProofs | the first vertex deleted under a track was that of a port on a track along which it may not be entered |
| `AccessIsJoined` | GridAccessProofs | a vertex that was handed out is on a track, or next to one that is, until then |
| `CandidatesRollBack` | GridAccessProofs | a candidate that is given up leaves the grid as it was |
| `TriesRollBack` | GridAccessProofs | so does a track that is tried in vain, unless the port or its jog may not run that way; whatever directions are offered |
| `LandingInVainDangles` | GridAccessProofs | a vertex that landed in a forbidden direction and is joined to nothing else is deleted under the track |
| `BuffersRepeat` | GeneratorProofs | both ways of building a buffer give the input and its complement |
| `MuxSelects` | GeneratorProofs | the 8:1 multiplexer settles, on the input that the select lines number |
| `CarryAdds` | GeneratorProofs | the carry cell adds, with carries active low and P where operands agree |
| `PropagateDoesNotAdd` | GeneratorProofs | with P and G as its header describes them it does not |
| `ChainSettles` | GeneratorProofs | after any change of its inputs a chain has a settled state |
| `MemoriesAreRegisters` | GeneratorProofs | each memory of `ScanChain` implements `Register` |
| `ChainHoldsTheWord` | GeneratorProofs | a chain of any length holds what was clocked into it |
| `EveryGateHasOneMemory` | GeneratorProofs | memories in scan order and gates are one to one, for any number of inputs |
| `Mux1Selects` | GeneratorProofs | one memory at 0 selects; none lets the output float; two join the supplies |
| `WordSelectsInput` | GeneratorProofs | chain and stack together: the word that was sent selects the input |
| `Mux2ReachesBoth` | GeneratorProofs | inner inputs have a gate to either output, and every gate its own control |
| `ScanOrderFolds` | GeneratorProofs | the scan order runs along a row and back along the next |
| `EveryMemoryIsRead` | GeneratorProofs | each memory of the table is at one input of one multiplexer |
| `ThirdInputLosesAMemory` | GeneratorProofs | with a third input to the output muxes, one memory is not |
| `TableReads` | GeneratorProofs | the table settles on the bit stored where the select lines address |
| `OutputsChoose` | GeneratorProofs | each output is the table or port X, as its own memory says |
| `WordProgramsTheTable` | GeneratorProofs | chain, table and outputs together: the word that was sent is the truth table |
| `BoxesCarryTheirPoints` | GeneratorProofs | turning, mirroring and moving a rectangle moves its points along and no others |
| `DistanceIsOfTheClosest` | GeneratorProofs | the distance of rectangles is the least of their points', the same from both sides, and 0 only if they overlap |
| `OverlapAndBounds` | GeneratorProofs | the overlap holds the points of both, the expanded bounds are the least that hold both |
| `KeepoutsKeepApart` | GeneratorProofs | what misses a keep-out keeps the separation, corners included |
| `RoundedRectanglesMeet` | GeneratorProofs | rounded rectangles overlap exactly when the distance of what they are rounded about is at most the sum of the radii |
| `LowerRightCornersAreMissed` | GeneratorProofs | a rounded rectangle and a rectangle do too, but for one to the lower right |
| `OpposedSegmentsAreMissed` | GeneratorProofs | segments meet as found, but for those of one line that run in opposite directions |
| `NestedOutlinesAreMissed` | GeneratorProofs | outlines overlap as found, but for one inside the other |
| `ReflectedShapesAreOutside` | GeneratorProofs | an instance shows its shapes in its bounds, and outside when it is reflected |
| `TurnedPortsAreOutside` | GeneratorProofs | its ports turn the other way than the bounds |
| `InstancesMirrorOneWay` | GeneratorProofs | mirroring a layout moves its instances rightly about one axis and wrongly about the other |
| `DistributedViasKeepApart` | GeneratorProofs | vias distributed between two points lie between them and keep apart |

*The grid.* `WiresCastShadows` is inductive given the types: when a
path is installed, an edge that touches it either is out of use, takes the net, or
is blocked, and an edge that carries a net and loses it is blocked by the same step.
`SharesMetal` is symmetric (a lemma on intervals, the one place where the pitch is
needed). `ShortsAreFlagged` follows from it twice: metal shared by two nets
would have to carry both.

*Orders.* `TypeOK` is not inductive as it stands: that
a search looks at the node before requires that an order at work is past its
first, so `TypeInv == TypeOK /\ PastFirst`. For the serial run the invariant
`SerialInv` adds `WiresCastShadows`, that at most one order is at work
(`OneAtATime`), and that every path it has found, as it will be installed, shares no metal
with wires of other nets (`FoundIsClear`). For the edges that the search chose this is because they
are free, by `WiresCastShadows`. Nothing is asked about the edge that extends a path to a via of its
net: there a wire of another net would have to run over that via, or end at it, and then it would be
in use by that net too (`WiresUse`), which the search for the via excludes
(`LastEdgeIsClear`). Merging the last two edges adds no metal (`MergedTouches`).
With threads `FoundIsClear` fails, and with it `NoShorts`: this is run
`threads_short`.

*Connection.* `JoinInv` says how searches, options and paths of an order belong together:
a vertex that a net uses is reached by one of its paths (`UsedIsReached`), searches still
to be made begin at the node in hand, options join that node to the one before or to the
net, every node that the order is past without an error is reached, and the paths hang
together. It needs no assumption on threads, since a step of one order
touches no other net's part (`StepIsLocal`). `OrdersKeepPromise` then maps each step: installing
extends a net by a route that meets it, and the last step of an order settles it.

*Keeping apart.* In a serial run corners of installed paths have their neighbours blocked
(`CornersBlock`) and the corners of what was found are apart from them still
(`FoundIsApart`), added to `SerialInv`. An extended path ends at a corner of its own net, which is
apart from the others' by `ViasKeepApart` itself (`NearbyViaIsApart`). For pins, orders of two nodes never
use the search to a net, and a path between ports asks the cache about each edge; the
restriction is needed, as run `tree_pins` shows.

*Layers.* `LayersInv` joins `JoinInv`, `SerialInv` and `PairInv` and adds why a vertex is
used: for every net on a layer of a vertex there is a path of that net that has a wire of that
layer there, or whose end lies there (`Explains`, `UsesAreExplained`). Ends are pins of
the net (`EndsArePins`), which the searches of others keep off; an edge whose layer is not that of its
track was moved by a path that is installed (`MovedAreInstalled`); and every vertex of a path
that was found is free on one layer still (`FoundIsOpen`). `Flatten` moves an edge only to a layer
that the path has at both of its ends, so it takes no layer of an inner vertex
that the path would not use (`FlattenedStaysInPlace`). `Flattened` is a recursive function:
that its equation has a solution is proved by the smallest counterexample
(`FlatteningIsDefined`), on the order of positions in a path. The theorem asks for orders of two
nodes, no automatic cancellation and one thread. The first two matter, as run
`cancel_used_ports` and run `tree_pins` show.

*Merging.* `Basics` (types, orders that were gone through have a group, ids of orders are new)
is inductive as it stands and gives `MergedResultsStand`. `MergingInv` adds that no order names a
node twice (`RepeatsInv`), which orders are in each group and that these are linked
(`GroupsInv`), and where consolidation has put the nodes it has seen (`PlacesInv`). Orders are
linked if no split into two parts goes without a shared node, which says without paths or
induction what `ConnectedOrdersMerge` needs (`Linked`). `NoRepeats` is needed: an order that names a node
twice deletes its own group (section 7).

*Tracks.* `TrackInv` is the types, the two lists with blockages of one net apart
(`ListsInv`), `BlockagesCoverMetal`, `VerticesAreJoined`, and `OpenEdgesAreClear`: an edge that
is not blocked carries the net of every blockage it meets. The last is what
makes both protections the same, since it is kept by marking what exists and by looking at the
list for what is new; `OffersAreClear` is its consequence for metal, by
`BlockagesCoverMetal`. The lemma that carries the proof is about `Merge`: what it
removes lies within what it adds, and what stays is farther away than the margin
(`First` and `Last` of a finite set exist by a well-founded argument). Assumed are shapes that
have a length and a separation of at least 1, since blockages that touch would otherwise not meet.

*Sessions.* `SessionsAreOwned` is inductive with what a handler knows at each stage and with
`StoredAreDone`: a session comes into the table when its own call ends, so no later step of that
call stores it again (`OwnedInv`). `ReportedInv` adds that a call which ended well has a session.
For handlers one at a time `SerialInv` says that at most one call is in hand and that the id it
has looked up is still free, or its session gone, when it acts on that (`LookedUp`).

*Searches.* The queue is only asked to hand back vertices it was given (`MoveUpKeeps`,
`PopHeapKeeps`), never the cheapest; `Relax` lowers a cost below what it was, so each
vertex costs at least its predecessor's *present* cost plus the edge between them.

*Geometry and cache.* Each geometric theorem bounds a quotient by the product it stands
for and then compares intervals. Its assumptions are what the code takes for granted of
its technology files: a pitch wide enough for a wire and its separation, even widths
(`TechnologyAssumption`), shapes whose rule reaches no farther than the search window
(`ShapesFitWindow`), and the via largest on the layer that is tested
(`LowestViaIsLargest`). For the bookkeeping `CacheInv` says who left which entry: entries
in the root come from orders that have ended, a child has one for each shape on its
nets, made out to the first blockage drawn alike. Counting then compares two finite
sets: there is an injection from the entries that count for an order to the blockages
they name, as long as none is cancelled twice, and then the two numbers are equal exactly when
all are cancelled. A blockage that is cancelled twice (`CancelledTwice`) breaks the injection, and so
the exceptions in the theorems are exactly these: a set without one never has more entries than
blockages (`CountsFit`), so what blocks a search beyond the standing blockages is one of those
(`CountsHaveCauses`). In the other direction a blockage that was given up does not stand
(`GivenUpDoesNotStand`), so where a standing blockage is counted with none that was cancelled twice,
it tips the count (`StandingIsAlone`, `StandingCounts`); vertices count one layer at a time, which is why
only edges have an exception there. No assumption is made on how often a net is ordered. Shapes drawn
alike by different nets break the naming, hence `DrawnAlike`, and an order of the net without a
name would give up what nobody named, hence `OrdersAreNamed`. The last two theorems put
the geometry and the counting together.

*Placement.* `BankInv` says of every row that it is in order, that its tiles are level
when cells have one height, and that the counters toward the taps are what they claim
(`InOrder`, `Level` and `Tapped`, together `Good`): a counter is the distance from the
last tap to that end, or to the other end before there is one. It is inductive over every
operation of a row and of the bank, and alignment moves rows as a whole.
`RowsStayInReach` is the last of them for the rows that are not `gapped`, and nothing is assumed of the
calls; that blank space is what breaks it is `BlankSpaceIsForgotten`, a computation of one
step.
`PlacingKeepsApart` adds that alignment stacks rows by their heights; that needs
`OneHeight`, since tiles of mixed heights are centred and the code stacks origins.

*Access.* `AccessInv` says that the grid is sound but for vertices of the thread that holds
the lock alone: whatever is on a track or in an edge is owned by the grid, or is the vertex of
that thread, which has landed. Vertices of different calls are never the same, nor are they
the grid's (`Apart`), so rolling one back takes nothing from others; and a vertex that was
handed out is never taken back, because only new vertices are. All of this holds until a vertex is
deleted under a track (`stranded`), and it takes a port on a track along which it may not be entered
to come to that (`OnlyLandingsInVainStrand`); `LandingInVainDangles` shows that such a port
does come to it. Nothing is assumed of access directions or of ports.

*Circuits.* Each cell theorem has two halves: whatever the nets settle on has the value
claimed, and there is something to settle on. Without the second half a cell with a short
would satisfy the first. For a flip-flop the state is what is at the entries of its two
latches (`LatchesSettle`, `FlipFlopSettles`), and `Sound` says that every memory is settled with
its neighbours; it is inductive by construction of `Settle`, and `ChainSettles` shows that
`Settle` is never impossible. The refinement to `Register` then needs only what the latch that was
shut held before the edge. `HoldsTheWord` follows by one step of shifting. A multiplexer is
a bijection from memories to gates (`GateNumber`, arithmetic of odd and even) and the
lemma that gates that are on join their input to Z. The table is `MuxSelects` twice and
the wiring by cases.

*Geometry and layouts.* Everything is reduced to gaps: along each axis two rectangles are 0 or
more apart (`GapX`, `GapY`), their squared distance is the sum of the squares of these (`DistanceByGaps`),
and overlap of padded rectangles compares one gap with the padding (`ExtendedOverlap`). The regions of a
rounded rectangle that are easy to compare stay within two such paddings (`RegionsStayInside`), and what
they leave over is a corner against a corner. `Boxes` are rectangles whose corners are in order, as the code assumes
throughout. What an instance shows of a box is, for each of the four turns, a box with
coordinates that can be compared (`RotatedBox`, `InstanceShows`); the theorems on reflection and ports then compare the three
definitions that the code has of it. They assume that the template stands on the horizon or
at the origin and say so. For vias in a row a quotient is bounded by the product that it stands for, from both sides
(`Quotient`, `QuotientIsAtLeast`), so the space that is left over is never less than the
separation (`EvenSpacing`). For segments products are compared by the sign of one factor (`Products`); two segments across each
other meet in one point, which `Intersect` finds exactly (`ExactQuotient`), and two
along each other by their ends (`Overlaps`). That a border meets a border can therefore always be shown by two edges
across each other, so opposed edges, which are missed, do no harm to outlines.

*Only model-checked.* `SearchesAreAtomic`, `EveryOrderEnds` and the
liveness in `KeepsPromise` (liveness is out of the prover's reach); the drawings of cells
(`DrawingsKeepTheirCircuits`, `CutsLandAndChannelsEnd`, `ShapesKeepApart`), which are concrete coordinates
without a parameter to prove anything for, so that the run is exhaustive, and whose nets are found by recursive operators; the negative results. `SearchesAreAtomic` is not provable as it stands: where
usable edges of both layers meet at a vertex that has no room for a via, a search that
keeps one cost per vertex may miss a route or return a dearer one. What recursive
functions (`Cost`, `MoveUp`, `Backtrack`) compute for every input is not
proved (no induction over data with the installed provers); where a proof needs them, it
uses what holds of any result. For `Flattened` the smallest counterexample stands in for induction.

*Only proved.* `GridAccess`, the placement modules, geometry and layouts, and the circuits have no run in this
directory. All but the first are functions of rows, shapes, words and nets whose interesting parameters are
sizes and places. The invariants and relations of them all were evaluated on small instances while the
proofs were made: those of `GridAccess` with two threads at a crossing of two tracks, for a
port beside both and for one on a track, which showed how a vertex comes to be `stranded`,
as `LandingInVainDangles` states.

## 7. What the runs found

Three runs show a disagreement between the code and what its comments say:

1. **`threads_short`** - `CheckStillAvailable` (`routing_path.cc:757`) looks at the
   nets of edges, not at whether they are blocked. Two threads install overlapping wires and
   so take a longer edge out of use, which clears its net; a third thread that had found
   it earlier then passes the check and installs it over both.
2. **`tree_pins`** - the search to a net never asks the blockage cache about an
   edge (`routing_grid.cc:2599`), so a wire may run over a staged pin of another net.
3. **`cancel_used_ports`** - `MaybeAutoCancelBlockages` (`route_manager.cc:527`)
   cancels the pins of *all* ports of a net, and an installed via blocks no edge that
   passes over it, so a later wire may.

Other things seen while reading and modelling, for which no run is kept.

*Circuits.*

- With `add_third_input_to_output_muxes` the offset for the row that was put in below
  applies to one bank only (`lut_b.cc:1081`), though both get such a row: an address of the
  table reads the configuration of an output mux, and one memory is never read
  (`ThirdInputLosesAMemory`). `tiles/s44.cc:67` builds a table with that option.
- In the same mode the collection that joins port X to the output muxes joins a
  terminal that is already on the table's output, so X stays unconnected.
- The header of the carry cell calls its inputs propagate and generate
  (`sky130_carry1.h:27`); the circuit adds only if P is the complement of propagate and
  G of an operand (`CarryAdds`, `PropagateDoesNotAdd`).
- The two-output multiplexer connects its controls under names that its stack has no ports
  for (`sky130_interconnect_mux2.cc:675` and `:59`), so the gates float in the net-list though they are
  wired in the layout; its `SCAN_OUT` is connected to nothing. `InterconnectMux` therefore
  has no settled relation for it.
- `MakeOutputNames` counts inputs (`sky130_interconnect_mux1.cc:103`).
- A net stays unconnected in the circuit of a tile when its wire could not be
  routed, with a log message only; `RouteMuxInputs` connects whatever `Solve` says.

*Service.*

- With several handlers at once, `AddRoutes` may be left with a session that another
  call deleted, and two `Create`s may be given the same id: `GridsInUseExist` and
  `RepliesNameOwnGrid` are therefore stated for one handler at a time. The other two
  properties of the service hold at any number.

*Paths and searches.*

- `CheckStillAvailable` does not repeat the question about nets that block a vertex
  from nearby, so with threads vias of two nets may come to lie side by side.
  `ViasKeepApart` is checked in serial runs only. It may also refuse a path that was just
  found in a serial run, because a wire of
  another net passes its port on another layer (`routing_path.cc:749`).
- A path to its net is extended to any via of the net among the eight neighbours of its end.
  One that lies across ends the process (`routing_grid.cc:2143`): "If this fails, as it might for off_grid
  edges", says the comment, but one turn of the net on the grid is enough. In run
  `serial_trees` it happens to the fourth node of an order. The comment at 2062, "This should only ever
  extend to another previously-installed vertex", is right of the vertex; the edge to it is
  not asked about at all, and what keeps it clear in a serial run is a property of the whole grid
  (section 6, *Orders*).
- The top of the search's queue is not always the cheapest vertex waiting
  (`routing_grid.cc:2657`). On the grids checked the results are the cheapest all the same.
- `staged` may change during another thread's search when pins are cancelled
  automatically: the root cache has no lock (`route_manager.cc:534`).

*Orders and merging.*

- Failed orders cancel their pins too (`route_manager.cc:340`).
- `EquivalentNets::Delete` may delete the primary (`equivalent_nets.cc:58`); it has no
  callers.
- An order that names a port twice finds its own group and deletes it
  (`route_manager.cc:510`).
- A merged order takes the explicit target of the last order merged into it
  (`route_manager.cc:474`), and an order whose nodes are all placed already does
  not appear in `pre_consolidation_ids_` (`route_manager.cc:451`).
- `Solve` copies the orders it has run, clears them, and returns the cleared list
  (`route_manager.cc:425-428`); its callers look at the status only.
- Orders that ask for the same net but share no port stay separate orders. Two of them in one `Solve`, or
  in `Solve`s of one manager as in `lut_b.cc:1027` and 1112, cancel the blockages of the net twice.

*Tracks and off-grid access.*

- An edge that is created over a wire of its own net is blocked for good
  (`routing_track.cc:198`), though `MarkEdgeAsUsed` says such edges "can still be used
  to connect to the given net"; a port that lands on its own net's wire gets only such edges.
- `AddVertex` accepts the first vertex of an empty track wherever it is, and
  `Abbreviate` takes it as fatal when one particular edge is missing
  (`routing_path.cc:402`).
- A shape without a net that is laid over a vertex which a net already uses or blocks does
  not close it to that net (`ApplyVertexBlockageToSingleVertex`, `routing_grid.cc:3016`).
- When `ConnectToNearestAvailableVertex` has undone a candidate (`routing_grid.cc:1174`), it
  lets go of the unique lock and does not take the shared one again: it reads the next
  candidate without a lock, and throws when it unlocks what it does not hold (`rechoosing`,
  `TakeCandidate`). `LocksAreKept` says that it never holds the lock there.
- A vertex that `ConnectToSurroundingTracks` puts on a track of a forbidden direction stays
  there (`:682`); if nothing else succeeds it is deleted and the track keeps pointing to it
  (`LandingInVainDangles`), and that is the only way in which it comes to do so
  (`OnlyLandingsInVainStrand`). A new bridging vertex also stays in the grid when its jog runs in
  a forbidden direction (`:726`).
- Access directions are not validated again after the lock changes
  hands (`:882`), though the track's own check is (`AccessIsClear`).

*Drawings.*

- With the clock's input buffer, the implant of the flip-flop's p-diffusion starts above the
  lower end of the buffer's (`sky130_dfxtp.cc:1046`), and the contact on the buffer's gate has 50 nm
  of poly on all sides, where `dev_pdk_setup.cc:160` asks for 80 along one axis; the
  comment near line 1107 says "Magic complains about this and I can't figure out why".
  `CutsLandAndChannelsEnd` therefore claims the overhang below contacts only of cells without that
  buffer.
- Implants are drawn in the modules and nothing is claimed of them: `dev_pdk_setup.cc:265` asks them to enclose
  diffusion by 180, which the exclusive or, the tap and the capacitor do and the multiplexer,
  the buffer and the flip-flop do not (120 where it is least).
- The exclusive or is drawn with its series pair of n-transistors in the opposite order to the
  circuit and to the diagram above it (`sky130_xor2.cc:26`): the same gate, another net-list.
  Only at the height of 2720 is it right, as its contacts stand at absolute places.
- `Sky130Decap::Make` ignores the base parameters, and `pwell_pin` is shadowed
  (`sky130_decap.cc:461`), so the implant always starts at 0.

*Geometry and cache.*

- "Cancelled blockages should be treated as non-existent" (`routing_blockage_cache.h:348`), but entries of
  the list are subtracted and not blockages (`routing_blockage_cache.cc:36`), so one that is cancelled twice
  counts twice. Two orders on one net do that when blockages are cancelled automatically, as
  the look-up table's are (`lut_b.cc:782`, 1027 and 1112). Alone it makes the difference wrap, and what
  should be free is blocked, also to an order that is running. Beside a second blockage that stands, two
  less two is nothing, and the second is free. Nets share the via inhibitors of a vertex
  (`routing_blockage_cache.cc:337`), so that may be another net's pin; edges and vertices are counted net by
  net, and vertices layer by layer, so an edge is freed only if a layer was chosen to cancel, such as
  `li.pin`, and the standing shape is on another. Run `cache` has both cases, and the exceptions
  of its properties name them.
- `FromCentralAxis` gives wires of odd width one unit more on the high side; the test for
  intersection does not.
- On-grid candidates are looked up without padding, so the pitch must be at least half
  a wire plus separation plus padding; nothing checks that it is.
- The search window for vertices uses the rules of the routing layers only, which a pin
  layer's may exceed (`ShapesFitWindow`); `ViaWouldIntersect` tests the lowest blocked layer
  only, as a FIXME there says.
- Off-grid edges are tested with `padding` but without the separation
  (`routing_blockage_cache.cc:617`); `EdgeWireFootprint` adds the padding to the width as a
  whole; the overloads of `EnvelopingVertexIndices` for polygons and padded points drop the
  number of layers.
- A pin that is drawn twice, as a rectangle and as a port, has its rectangle cancelled
  twice and its port never, because blockages are found by shape: the search for its
  place in the list stops at the first.

*Shapes.*

- A rectangle to the lower right of a rounded one is measured from the upper right corner
  (`rounded_rectangle.cc:138`), so overlaps there are missed unless the radius is no more than the height
  (`LowerRightCornersAreMissed`). The corners of a rounded rectangle are not compared with a polygon at all.
- `IntersectsInMutualBounds` never sets the point it was given unless the lines are incident, and misses overlaps
  of opposed segments (`OpposedSegmentsAreMissed`). `IntersectsInBounds` takes all segments of one line for
  meeting, also ones apart.
- A polygon inside another does not overlap it (`NestedOutlinesAreMissed`).
- `Point::CrossProduct(other)` subtracts where its formula multiplies. `Line::AppendIntersections` wraps its index
  around in `size_t` before it takes the remainder, which finds the line before the first only if the number of lines is a power of
  two; `Polygon::Fatten` uses it.
- A positive extension of the start in `Shifted` moves the start inwards, the one of the end outwards.
- `ExtendToNearestIntersection` dereferences a point that was not found when all intersections lie behind.
- A copy of a `PolyLine` loses its layer, net and separation; the overhangs of an inflated one
  lengthen only one of its sides; `PolyLineCell`'s bounds skip its second line.
- `Polygon::WithKeepout` is declared and not defined.

*Layouts.*

- Shapes of a reflected instance are not reflected, though its bounds are
  (`ReflectedShapesAreOutside`); ports turn the other way (`TurnedPortsAreOutside`); mirroring a layout
  about the horizontal axis leaves its instances behind (`InstancesMirrorOneWay`), and turning it
  leaves them as they were. `Translate` (`geometry/instance.cc:42`), mirrors and flips of an instance leave ports
  that were generated before where they are.
- Flips of collections, instances and layouts are in place only on the axis.
- A set of ports drops all but one of those with the same lower left corner. `DeletePorts`
  (`layout.cc:427`) and `sky130_interconnect_mux1.cc:1070` make such a set without its comparison.
- `GetMidwayPortNamed` ignores the name; `ResolveEdgeSpec` sets `from` twice and never `to`;
  `FindEmptySpaceAround` always returns nothing.
- A layout of ports only has an empty box, and the box of an empty collection ends the program.
- `CopyConnectableShapes` at depth 0 copies the shapes of instances all the same.
- `EraseLayer` leaves pointers to the ports that it deletes; `MakeVerticalSpineWithFingers` sets the layer of `this` and
  draws on `layout`.
- In the export, counter-clockwise degrees go into a clockwise field, annotations keep internal units,
  and abstract views hold one layer only.

*Placement.*

- A tap that follows blank space does not use it up: the next instance leaves it once
  more (`row_guide.cc:212`), and the distance to it is too small by as much (`BlankSpaceIsForgotten`):
  `RowsInReach` speaks of rows without blank space.
- `InsertFront` never resets the blank space on the left; `Width` forgets blank space
  inside a row, so the space said to be available is too large.
- `Row` creates all rows up to the one asked for at the same height; `InsertRowZero`
  puts its row at height 0 when the first is empty, and does not give it the default tap
  connections.
- `CheckerboardGuide` advances its template for empty cells too, which gives wrong widths
  with several templates, and draws stripes when the number of columns is odd.

## 8. What is not modelled, and why

- *The k-d tree and the vertex collector* (`routing_vertex_kd_tree.cc`,
  `routing_vertex_collector.cc`): geometric search for vertices near a shape. `GridAccess`
  leaves out via costs, which decide the order of options and candidates.
- *Orders with an explicit target*: `ConnectToNet`, which `lut_b.cc:1112` calls to join a port to a net
  that is routed already. They reach the grid by the same `AddBestRouteToNet` as a third node does.
- *The overload of `ShortestPath` without nets*, which only unused callers reach.
- *Linear mode* (`edges_only_to_neighbours`) of the grid as a whole; one track is modelled
  in both modes.
- *Temporary blockages*: nothing in the repository sets any up.
- *Polygons and padded points* in the geometry of the grid and the cache.
- *Circuits and net-lists*: construction and export of data without a protocol.
- *Drawings of the remaining cells and of tiles*: the cells of run `cells` are those whose shapes
  are placed one by one. Ports that overlap the pads, labels, pin layers and the pseudo-layers of
  tools are left out of them, and the rules are those of the layers that are drawn.
- *Arcs, angles other than quarter turns, labels, look-ups by name* of geometry and layouts: nothing that is drawn has
  the first two, and the others are wording. `Cell`, which ties a layout to a circuit, only keeps both.
- *Via and layer tables, databases beyond the rules used here, the remaining drawings of generators, command line, explorer,
  scripts and protos*: data without a protocol, straight-line drawing, or input and
  output.
- *Data races as such*: two threads at one vector at the same moment have no defined
  outcome; where the code lacks a lock (the list of cancellations, the map of
  sessions) the model interleaves whole accesses.

## 9. Plan

Done: the grid and its marking; searches by result and step by step; orders in serial and
in threads, and what they promise; merging; one track; geometry, staging and
cancellation; the service; access to the grid; rows and banks; cells as drawn; circuits of cells, scan chains, multiplexers and the look-up table; the drawings of six cells; geometry, poly-lines and layouts; the theorems of section 6.

Next, in this order:

1. *Proofs*: that `RouteSearches` implements `RouteOrders` where every crossing has room for
   a via; that `RoutingTrack` implements the marking of `RoutingGrid`.
2. *Explicit targets* in `RouteOrders`; orders composed with `NetMerging`.
3. *Access to the grid* composed with `RouteOrders`, and a run of it.
4. *Off-grid edges* in `StagedShapes`, which appear after staging.
