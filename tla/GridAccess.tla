---- MODULE GridAccess ----
(***************************************************************************)
(* How ports that lie beside the grid are joined to it, by several threads: *)
(* RoutingGrid::ConnectToGrid with its two methods.  The first              *)
(* (AddAccessVerticesForPoint) makes a vertex at the port and joins it to   *)
(* all tracks around it; the second (ConnectToNearestAvailableVertex), to   *)
(* which it falls back, joins it to a track of one grid vertex.  Both look  *)
(* under the shared lock, give it up, and change the grid under the unique  *)
(* one.                                                                    *)
(*                                                                         *)
(* What blockages and installed paths do not permit is a choice of the      *)
(* model, made anew at each test; edges of tracks are those of a grid with  *)
(* an edge between every two vertices of a track.  Via costs, which decide  *)
(* the order of options and candidates, are left out.                       *)
(***************************************************************************)
EXTENDS Naturals

CONSTANTS
    Threads, NoThread,
    Vertices, NoVertex,  \* what a pointer to a vertex may be
    Points, PortCentres, \* where vertices may lie, and where ports do
    Tracks,
    DirectionOf,         \* track -> its direction
    Nearest,             \* track -> point -> the point of the track across from it
    Options,             \* grid geometries with the layer they are entered from
    TracksOf,            \* option -> the tracks of its geometry
    AccessDirections     \* what ValidAccessDirectionsForVertex may come to

Directions == {"horizontal", "vertical"}

VARIABLES
    grid,     \* the part of the RoutingGrid that ConnectToGrid changes
    writer,   \* who holds lock_ alone
    readers,  \* who holds it shared
    access,   \* thread -> its call of ConnectToGrid
    handed,   \* the vertices that calls have returned (history)
    stranded  \* those that were deleted although a track points to them (history)

vars == <<grid, writer, readers, access, handed, stranded>>

\* vertices_, the vertices_by_offset_ and edges_ of the tracks, off_grid_edges_.
Grids == [vertices : SUBSET Vertices,
          at : [Tracks -> [Points -> Vertices \cup {NoVertex}]],
          edges : SUBSET (Tracks \X Vertices \X Vertices),
          off_grid_edges : SUBSET (Vertices \X Vertices)]

Calls == [pc : {"idle", "looking", "waiting", "connecting", "resharing", "fallback",
                "choosing", "claiming", "attaching", "reclaiming", "rechoosing", "thrown"},
          point : PortCentres, options : SUBSET Options, off_grid : Vertices,
          directions : SUBSET Directions, todo : SUBSET Tracks,
          any_success : BOOLEAN, new_edges : SUBSET (Vertices \X Vertices)]

IsOn(G, v, t) == \E p \in Points : G.at[t][p] = v
IsPointedTo(G, v) == (\E t \in Tracks : IsOn(G, v, t)) \/ \E e \in G.edges : v \in {e[2], e[3]}

\* A vertex is allocated while the grid or a call owns it; an address that is not may
\* be used again.
OffGrid(th) ==
    IF access[th].pc \in {"waiting", "connecting", "claiming", "attaching"}
        THEN {access[th].off_grid} ELSE {}
Allocated == grid.vertices \cup UNION {OffGrid(th) : th \in Threads}

\* The grid as ConnectLayers builds it.
Init ==
    /\ grid \in Grids
    /\ \A v \in grid.vertices : \E t, u \in Tracks : t # u /\ IsOn(grid, v, t) /\ IsOn(grid, v, u)
    /\ \A t \in Tracks, p \in Points : grid.at[t][p] \in grid.vertices \cup {NoVertex}
    /\ \A e \in grid.edges : IsOn(grid, e[2], e[1]) /\ IsOn(grid, e[3], e[1])
    /\ grid.off_grid_edges = {}
    /\ writer = NoThread /\ readers = {} /\ handed = {} /\ stranded = {}
    /\ access \in [Threads -> Calls] /\ \A th \in Threads : access[th].pc = "idle"

-----------------------------------------------------------------------------
(* What is done to the grid.                                                *)

AddOffGridVertex(G, v) == [G EXCEPT !.vertices = @ \cup {v}]

\* RoutingTrack::AddVertex: with edges to those of the others that it can reach, which
\* are some unless there are none.
ReachableSets(G, t) ==
    LET others == {u \in Vertices : IsOn(G, u, t)}
    IN {S \in SUBSET others : S # {} \/ others = {}}

Join(G, t, p, v, reached) ==
    [G EXCEPT !.at[t][p] = v, !.edges = @ \cup {<<t, v, u>> : u \in reached}]

\* RoutingTrack::RemoveVertex of some tracks, RoutingGrid::RemoveVertex of all.
RemoveFromTracks(G, T, v) ==
    [G EXCEPT !.at = [t \in Tracks |-> [p \in Points |->
                          IF t \in T /\ G.at[t][p] = v THEN NoVertex ELSE G.at[t][p]]],
              !.edges = {e \in @ : e[1] \notin T \/ v \notin {e[2], e[3]}}]

RemoveVertex(G, v) ==
    [RemoveFromTracks(G, Tracks, v) EXCEPT
         !.vertices = @ \ {v}, !.off_grid_edges = {e \in @ : v \notin {e[1], e[2]}}]

\* RoutingTrack::CreateNearestVertexAndConnect, when it succeeds: target is on the track
\* itself, or a vertex that is there takes its edge, or a new one does.
NearestVertices(G, t, p, target, new) ==
    LET c == Nearest[t][p]
        found == G.at[t][c]
        v == IF c = p THEN target ELSE new
    IN IF found # NoVertex
           THEN {[grid |-> G, vertex |-> found, is_new |-> FALSE, target_exists |-> c = p]}
           ELSE {[grid |-> Join(G, t, c, v, S), vertex |-> v, is_new |-> c # p,
                  target_exists |-> FALSE] : S \in ReachableSets(G, t)}

\* RoutingEdge::Direction of an edge that joins a track with a point beside it.
JogDirection(t) == IF DirectionOf[t] = "horizontal" THEN "vertical" ELSE "horizontal"

-----------------------------------------------------------------------------
(* ConnectToGrid and AddAccessVerticesForPoint.                             *)

\* RoutingGridGeometry::VertexAt: where tracks cross.
VertexAt(o, p) ==
    {v \in Vertices : \E t, u \in TracksOf[o] : t # u /\ grid.at[t][p] = v /\ grid.at[u][p] = v}

Begin(th) ==
    /\ access[th].pc = "idle" /\ writer = NoThread
    /\ readers' = readers \cup {th}
    /\ \E p \in PortCentres, options \in SUBSET Options :
           access' = [access EXCEPT ![th].pc = "looking", ![th].point = p, ![th].options = options]
    /\ UNCHANGED <<grid, writer, handed, stranded>>

ReturnExisting(th) ==
    /\ access[th].pc = "looking"
    /\ \E o \in access[th].options : \E v \in VertexAt(o, access[th].point) :
           handed' = handed \cup {v}
    /\ readers' = readers \ {th}
    /\ access' = [access EXCEPT ![th].pc = "idle"]
    /\ UNCHANGED <<grid, writer, stranded>>

\* Without a direction to enter from, the option is dropped; with one, the shared lock is.
TryOption(th) ==
    /\ access[th].pc = "looking"
    /\ \E o \in access[th].options, directions \in AccessDirections :
           /\ VertexAt(o, access[th].point) = {}
           /\ \/ /\ directions = {}
                 /\ access' = [access EXCEPT ![th].options = @ \ {o}]
                 /\ UNCHANGED readers
              \/ /\ directions # {}
                 /\ \E v \in Vertices \ Allocated, nearest_tracks \in SUBSET TracksOf[o] :
                        access' = [access EXCEPT ![th].pc = "waiting", ![th].options = @ \ {o},
                                                 ![th].off_grid = v, ![th].directions = directions,
                                                 ![th].todo = nearest_tracks]
                 /\ readers' = readers \ {th}
    /\ UNCHANGED <<grid, writer, handed, stranded>>

Lock(th) ==
    /\ writer = NoThread /\ readers = {}
    /\ writer' = th
    /\ \/ /\ access[th].pc = "waiting"
          /\ access' = [access EXCEPT ![th].pc = "connecting",
                                      ![th].any_success = FALSE, ![th].new_edges = {}]
       \/ access[th].pc = "claiming" /\ access' = [access EXCEPT ![th].pc = "attaching"]
    /\ UNCHANGED <<grid, readers, handed, stranded>>

\* ConnectToSurroundingTracks, for one track.
ConnectToTrack(th, t) ==
    LET off_grid == access[th].off_grid
        done == [access EXCEPT ![th].todo = @ \ {t}]
        succeeded == [done EXCEPT ![th].any_success = TRUE]
    IN /\ access[th].pc = "connecting" /\ t \in access[th].todo
       /\ \/ UNCHANGED grid /\ access' = done
          \/ \E new \in Vertices \ Allocated :
             \E o \in NearestVertices(grid, t, access[th].point, off_grid, new) :
                LET bridging == o.vertex
                    added == IF o.is_new THEN AddOffGridVertex(o.grid, bridging) ELSE o.grid
                IN \/ /\ bridging = off_grid
                      /\ grid' = o.grid
                      /\ access' = IF DirectionOf[t] \in access[th].directions
                                       THEN succeeded ELSE done
                   \/ o.target_exists /\ bridging # off_grid /\ UNCHANGED grid /\ access' = done
                   \/ \* The new vertex is not valid.
                      /\ o.is_new
                      /\ grid' = RemoveFromTracks(o.grid, {t}, new)
                      /\ access' = done
                   \/ /\ bridging # off_grid /\ ~o.target_exists
                      /\ \/ /\ JogDirection(t) \notin access[th].directions
                            /\ grid' = added /\ access' = done
                         \/ \* The edge is not valid.
                            /\ JogDirection(t) \in access[th].directions
                            /\ grid' = IF o.is_new THEN RemoveVertex(added, bridging) ELSE added
                            /\ access' = done
                         \/ /\ JogDirection(t) \in access[th].directions
                            /\ grid' = added
                            /\ access' = [succeeded EXCEPT ![th].new_edges =
                                              @ \cup {<<bridging, off_grid>>}]
       /\ UNCHANGED <<writer, readers, handed, stranded>>

\* With any success the grid takes the vertex over; otherwise it is deleted.
Finish(th) ==
    LET off_grid == access[th].off_grid
    IN /\ access[th].pc = "connecting" /\ access[th].todo = {}
       /\ writer' = NoThread
       /\ IF access[th].any_success
              THEN /\ grid' = [AddOffGridVertex(grid, off_grid) EXCEPT
                                   !.off_grid_edges = @ \cup access[th].new_edges]
                   /\ handed' = handed \cup {off_grid}
                   /\ access' = [access EXCEPT ![th].pc = "idle"]
                   /\ UNCHANGED stranded
              ELSE /\ access' = [access EXCEPT ![th].pc = "resharing"]
                   /\ stranded' = stranded \cup {v \in {off_grid} : IsPointedTo(grid, v)}
                   /\ UNCHANGED <<grid, handed>>
       /\ UNCHANGED readers

\* No workable options.
FallBack(th) ==
    /\ access[th].pc = "looking" /\ access[th].options = {}
    /\ readers' = readers \ {th}
    /\ access' = [access EXCEPT ![th].pc = "fallback"]
    /\ UNCHANGED <<grid, writer, handed, stranded>>

\* The shared lock is taken, for the first time in the second method or again.
Share(th) ==
    /\ writer = NoThread /\ readers' = readers \cup {th}
    /\ \/ access[th].pc = "resharing" /\ access' = [access EXCEPT ![th].pc = "looking"]
       \/ /\ access[th].pc \in {"fallback", "reclaiming"}
          /\ access' = [access EXCEPT ![th].pc = "choosing"]
    /\ UNCHANGED <<grid, writer, handed, stranded>>

-----------------------------------------------------------------------------
(* ConnectToNearestAvailableVertex.                                         *)

\* A candidate is a vertex on two tracks.  A shared_lock that is not held throws when
\* it is unlocked.
TakeCandidate(th) ==
    /\ access[th].pc \in {"choosing", "rechoosing"}
    /\ \E v \in grid.vertices, new \in Vertices \ Allocated :
           LET tracks == {t \in Tracks : IsOn(grid, v, t)}
           IN /\ \E t, u \in tracks : t # u
              /\ access' = IF th \in readers
                               THEN [access EXCEPT ![th].pc = "claiming", ![th].off_grid = new,
                                                   ![th].todo = tracks]
                               ELSE [access EXCEPT ![th].pc = "thrown"]
    /\ readers' = readers \ {th}
    /\ UNCHANGED <<grid, writer, handed, stranded>>

NoCandidate(th) ==
    /\ access[th].pc \in {"choosing", "rechoosing"}
    /\ readers' = readers \ {th}
    /\ access' = [access EXCEPT ![th].pc = "idle"]
    /\ UNCHANGED <<grid, writer, handed, stranded>>

\* One track of the candidate, the horizontal one first.
AttachTo(th, t) ==
    LET off_grid == access[th].off_grid
    IN /\ access[th].pc = "attaching" /\ t \in access[th].todo
       /\ DirectionOf[t] = "vertical" =>
              \A u \in access[th].todo : DirectionOf[u] = "vertical"
       /\ \/ /\ access' = [access EXCEPT ![th].todo = @ \ {t}]
             /\ UNCHANGED <<grid, writer, handed>>
          \/ /\ writer' = NoThread
             /\ \E new \in Vertices \ Allocated :
                \E o \in NearestVertices(grid, t, access[th].point, off_grid, new) :
                   LET bridging == o.vertex
                       owned == AddOffGridVertex(o.grid, off_grid)
                       added == IF o.is_new THEN AddOffGridVertex(owned, bridging) ELSE owned
                       returned == /\ access' = [access EXCEPT ![th].pc = "idle"]
                                   /\ handed' = handed \cup
                                          {IF o.target_exists THEN bridging ELSE off_grid}
                   IN \/ o.target_exists /\ returned /\ UNCHANGED grid
                      \/ ~o.target_exists /\ bridging = off_grid /\ returned /\ grid' = owned
                      \/ /\ ~o.target_exists /\ bridging # off_grid /\ returned
                         /\ grid' = [added EXCEPT !.off_grid_edges = @ \cup {<<bridging, off_grid>>}]
                      \/ \* The edge is not valid, and the shared lock is not taken again.
                         /\ ~o.target_exists /\ bridging # off_grid
                         /\ grid' = RemoveVertex(IF o.is_new THEN RemoveVertex(added, bridging)
                                                             ELSE added, off_grid)
                         /\ access' = [access EXCEPT ![th].pc = "rechoosing"]
                         /\ UNCHANGED handed
       /\ UNCHANGED <<readers, stranded>>

\* Neither track would do.
GiveUpCandidate(th) ==
    /\ access[th].pc = "attaching" /\ access[th].todo = {}
    /\ writer' = NoThread
    /\ access' = [access EXCEPT ![th].pc = "reclaiming"]
    /\ UNCHANGED <<grid, readers, handed, stranded>>

-----------------------------------------------------------------------------
Next ==
    \E th \in Threads :
        \/ Begin(th) \/ ReturnExisting(th) \/ TryOption(th) \/ Lock(th) \/ Finish(th)
        \/ FallBack(th) \/ Share(th) \/ TakeCandidate(th) \/ NoCandidate(th)
        \/ GiveUpCandidate(th)
        \/ \E t \in Tracks : ConnectToTrack(th, t) \/ AttachTo(th, t)

Spec == Init /\ [][Next]_vars

-----------------------------------------------------------------------------
\* Nobody changes the grid while others look, and whoever looks or changes holds the
\* lock; but after a candidate was rolled back the next is chosen without it.
LocksExclude ==
    /\ writer # NoThread => readers = {}
    /\ \A th \in Threads :
           /\ access[th].pc \in {"looking", "choosing"} => th \in readers
           /\ access[th].pc = "rechoosing" => th \notin readers
           /\ access[th].pc \in {"connecting", "attaching"} <=> writer = th

\* When nobody changes the grid, it owns all that its tracks and edges point to, and all
\* that was handed out, until a vertex that has landed on a track is deleted.
NothingDangles ==
    writer = NoThread /\ stranded = {} =>
        /\ \A t \in Tracks, p \in Points : grid.at[t][p] \in grid.vertices \cup {NoVertex}
        /\ \A e \in grid.edges : {e[2], e[3]} \subseteq grid.vertices
        /\ \A e \in grid.off_grid_edges : {e[1], e[2]} \subseteq grid.vertices
        /\ handed \subseteq grid.vertices

\* The port lies on a track along which it may not be entered.
LandsInVain(th) ==
    \E t \in Tracks : /\ Nearest[t][access[th].point] = access[th].point
                      /\ DirectionOf[t] \notin access[th].directions

\* Nothing but that makes the first vertex be deleted under a track.
StrandedInVain ==
    [][stranded = {} /\ stranded' # {} =>
           \E th \in Threads : /\ access[th].pc = "connecting" /\ LandsInVain(th)
                               /\ stranded' = {access[th].off_grid}]_vars

\* A vertex that was handed out is on a track, or next to one that is.
Reached(G, jogs, v) ==
    \E t \in Tracks : IsOn(G, v, t) \/ \E b \in Vertices : <<b, v>> \in jogs /\ IsOn(G, b, t)
AccessIsReal == stranded = {} => \A v \in handed : Reached(grid, grid.off_grid_edges, v)

\* A track that is tried leaves no trace in the grid but the access it gives, unless the
\* port may not be entered that way: then its vertex, or one beside it that the grid
\* owns, stays on the track.
TriesLeaveNoTrace ==
    [][\A th \in Threads :
           LET off_grid == access[th].off_grid
               landed(t) == IsOn(grid', off_grid, t) /\ ~IsOn(grid, off_grid, t)
           IN stranded = {} /\ access[th].pc = "connecting" /\ access'[th].pc = "connecting"
              /\ grid' # grid =>
                  \E t \in access[th].todo \ access'[th].todo :
                      \/ /\ access'[th].any_success
                         /\ access'[th].new_edges # access[th].new_edges \/ landed(t)
                      \/ DirectionOf[t] \notin access[th].directions /\ landed(t)
                      \/ /\ JogDirection(t) \notin access[th].directions
                         /\ \E b \in grid'.vertices \ grid.vertices : IsOn(grid', b, t)]_vars

\* A candidate leaves none unless it gives the vertex that is returned.
CandidatesLeaveNoTrace ==
    [][\A th \in Threads :
           stranded = {} /\ access[th].pc = "attaching" /\ grid' # grid =>
               access[th].off_grid \in handed' \ handed]_vars
====
