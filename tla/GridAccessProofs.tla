---- MODULE GridAccessProofs ----
(***************************************************************************)
(* Theorems about GridAccess, for every grid and every number of threads    *)
(* and ports.                                                               *)
(***************************************************************************)
EXTENDS GridAccess, TLAPS

\* What the parameters are.
Parameters ==
    /\ NoThread \notin Threads /\ NoVertex \notin Vertices /\ PortCentres \subseteq Points
    /\ DirectionOf \in [Tracks -> Directions]
    /\ Nearest \in [Tracks -> [Points -> Points]]
    /\ TracksOf \in [Options -> SUBSET Tracks]
    /\ AccessDirections \subseteq SUBSET Directions

-----------------------------------------------------------------------------
\* Operations on the grid.

LEMMA RemovalsAreTyped ==
    ASSUME NEW G \in Grids, NEW v \in Vertices
    PROVE  /\ AddOffGridVertex(G, v) \in Grids
           /\ \A T : RemoveFromTracks(G, T, v) \in Grids
           /\ RemoveVertex(G, v) \in Grids
  <1>1. AddOffGridVertex(G, v) \in Grids
    BY DEF Grids, AddOffGridVertex
  <1>2. ASSUME NEW T PROVE RemoveFromTracks(G, T, v) \in Grids
    <2> DEFINE at == [u \in Tracks |-> [q \in Points |->
                         IF u \in T /\ G.at[u][q] = v THEN NoVertex ELSE G.at[u][q]]]
               edges == {e \in G.edges : e[1] \notin T \/ v \notin {e[2], e[3]}}
    <2>1. at \in [Tracks -> [Points -> Vertices \cup {NoVertex}]]
      BY DEF Grids
    <2>2. edges \in SUBSET (Tracks \X Vertices \X Vertices)
      BY DEF Grids
    <2>3. RemoveFromTracks(G, T, v) = [G EXCEPT !.at = at, !.edges = edges]
      BY DEF RemoveFromTracks
    <2> HIDE DEF at, edges
    <2> QED
      BY <2>1, <2>2, <2>3 DEF Grids
  <1>3. RemoveVertex(G, v) \in Grids
    <2>1. RemoveFromTracks(G, Tracks, v) \in Grids
      BY <1>2
    <2> QED
      BY <2>1 DEF Grids, RemoveVertex
  <1> QED
    BY <1>1, <1>2, <1>3

LEMMA JoinIsTyped ==
    ASSUME NEW G \in Grids, NEW v \in Vertices, NEW t \in Tracks, NEW p \in Points,
           NEW S \in SUBSET Vertices
    PROVE  Join(G, t, p, v, S) \in Grids
  <1>1. {<<t, v, u>> : u \in S} \subseteq Tracks \X Vertices \X Vertices
    OBVIOUS
  <1> QED
    BY <1>1 DEF Grids, Join

\* All that G points to is in it or among the vertices X.
Sound(G, X) ==
    /\ \A t \in Tracks, p \in Points : G.at[t][p] \in G.vertices \cup X \cup {NoVertex}
    /\ \A e \in G.edges : e[2] \in G.vertices \cup X /\ e[3] \in G.vertices \cup X
    /\ \A e \in G.off_grid_edges : e[1] \in G.vertices /\ e[2] \in G.vertices

LEMMA SoundWithMore ==
    ASSUME NEW G, NEW X, NEW Y, X \subseteq Y, Sound(G, X)
    PROVE  Sound(G, Y)
  BY DEF Sound

LEMMA JoinIsSound ==
    ASSUME Parameters, NEW G \in Grids, NEW X \in SUBSET Vertices, Sound(G, X),
           NEW v \in Vertices, NEW t \in Tracks, NEW p \in Points, NEW S \in ReachableSets(G, t)
    PROVE  Sound(Join(G, t, p, v, S), X \cup {v})
  <1>1. \A u \in S : u \in G.vertices \cup X
    BY DEF ReachableSets, IsOn, Sound, Parameters
  <1>2. \A u \in Tracks, q \in Points :
            Join(G, t, p, v, S).at[u][q] = IF u = t /\ q = p THEN v ELSE G.at[u][q]
    BY DEF Grids, Join
  <1>3. /\ Join(G, t, p, v, S).vertices = G.vertices
        /\ Join(G, t, p, v, S).edges = G.edges \cup {<<t, v, u>> : u \in S}
        /\ Join(G, t, p, v, S).off_grid_edges = G.off_grid_edges
    BY DEF Grids, Join
  <1>4. ASSUME NEW e \in Join(G, t, p, v, S).edges
        PROVE  e[2] \in G.vertices \cup X \cup {v} /\ e[3] \in G.vertices \cup X \cup {v}
    BY <1>1, <1>3 DEF Sound
  <1> QED
    BY <1>2, <1>3, <1>4 DEF Sound

LEMMA AddedIsSound ==
    ASSUME NEW G \in Grids, NEW X \in SUBSET Vertices, NEW v \in Vertices, Sound(G, X \cup {v})
    PROVE  Sound(AddOffGridVertex(G, v), X)
  <1>1. /\ AddOffGridVertex(G, v).at = G.at /\ AddOffGridVertex(G, v).edges = G.edges
        /\ AddOffGridVertex(G, v).off_grid_edges = G.off_grid_edges
        /\ AddOffGridVertex(G, v).vertices = G.vertices \cup {v}
    BY DEF Grids, AddOffGridVertex
  <1> QED
    BY <1>1 DEF Sound

LEMMA SameGrid ==
    ASSUME NEW G \in Grids, NEW H \in Grids, G.vertices = H.vertices, G.at = H.at,
           G.edges = H.edges, G.off_grid_edges = H.off_grid_edges
    PROVE  G = H
  BY DEF Grids

\* What removal does to each part.
Without(F, T, v) ==
    [t \in Tracks |-> [p \in Points |-> IF t \in T /\ F[t][p] = v THEN NoVertex ELSE F[t][p]]]
OtherEdges(E, T, v) == {e \in E : e[1] \notin T \/ v \notin {e[2], e[3]}}
OtherJogs(E, v) == {e \in E : v \notin {e[1], e[2]}}

LEMMA PartsOfRemoval ==
    ASSUME NEW G \in Grids, NEW v \in Vertices, NEW T
    PROVE  /\ RemoveFromTracks(G, T, v).vertices = G.vertices
           /\ RemoveFromTracks(G, T, v).off_grid_edges = G.off_grid_edges
           /\ RemoveFromTracks(G, T, v).at = Without(G.at, T, v)
           /\ RemoveFromTracks(G, T, v).edges = OtherEdges(G.edges, T, v)
  BY DEF Grids, RemoveFromTracks, Without, OtherEdges

LEMMA PartsOfVertexRemoval ==
    ASSUME NEW G \in Grids, NEW v \in Vertices
    PROVE  /\ RemoveVertex(G, v).vertices = G.vertices \ {v}
           /\ RemoveVertex(G, v).off_grid_edges = OtherJogs(G.off_grid_edges, v)
           /\ RemoveVertex(G, v).at = Without(G.at, Tracks, v)
           /\ RemoveVertex(G, v).edges = OtherEdges(G.edges, Tracks, v)
  BY DEF Grids, RemoveFromTracks, RemoveVertex, Without, OtherEdges, OtherJogs

\* To take a vertex off again undoes that it was put on.
LEMMA WithoutRestores ==
    ASSUME NEW G \in Grids, NEW v, NEW T, NEW K,
           \A u \in Tracks, q \in Points :
               /\ G.at[u][q] # v
               /\ K[u][q] = G.at[u][q] \/ (u \in T /\ K[u][q] = v /\ G.at[u][q] = NoVertex)
    PROVE  Without(K, T, v) = G.at
  <1> DEFINE F == G.at
             W == Without(K, T, v)
  <1>1. F \in [Tracks -> [Points -> Vertices \cup {NoVertex}]]
    BY DEF Grids
  <1>2. ASSUME NEW u \in Tracks PROVE W[u] = F[u]
    <2>1. W[u] = [q \in Points |-> IF u \in T /\ K[u][q] = v THEN NoVertex ELSE K[u][q]]
      BY DEF Without
    <2>2. \A q \in Points : W[u][q] = F[u][q]
      BY <2>1
    <2>3. F[u] \in [Points -> Vertices \cup {NoVertex}]
      BY <1>1
    <2> HIDE DEF W, F
    <2> QED
      BY <2>1, <2>2, <2>3
  <1>3. W = [u \in Tracks |-> W[u]]
    BY DEF Without
  <1>4. F = [u \in Tracks |-> F[u]]
    BY <1>1
  <1>5. [u \in Tracks |-> W[u]] = [u \in Tracks |-> F[u]]
    <2> HIDE DEF W, F
    <2> QED
      BY <1>2
  <1> QED
    BY <1>3, <1>4, <1>5, Zenon

LEMMA WithoutUndoesJoin ==
    ASSUME NEW G \in Grids, NEW v \in Vertices, NEW T,
           \A u \in Tracks, q \in Points : G.at[u][q] # v,
           NEW t \in Tracks, NEW p \in Points, G.at[t][p] = NoVertex, t \in T, NEW S
    PROVE  Without(Join(G, t, p, v, S).at, T, v) = G.at
  <1> DEFINE K == Join(G, t, p, v, S).at
  <1>1. \A u \in Tracks, q \in Points :
            /\ G.at[u][q] # v
            /\ K[u][q] = G.at[u][q] \/ (u \in T /\ K[u][q] = v /\ G.at[u][q] = NoVertex)
    BY DEF Grids, Join
  <1> HIDE DEF K
  <1>2. Without(K, T, v) = G.at
    BY <1>1, WithoutRestores
  <1> QED
    BY <1>2 DEF K

\* Rolling a vertex back leaves the grid as it was before the vertex was made.
LEMMA RollbackRestores ==
    ASSUME Parameters, NEW G \in Grids, NEW X \in SUBSET Vertices, Sound(G, X),
           NEW v \in Vertices, v \notin G.vertices, v \notin X,
           NEW t \in Tracks, NEW p \in Points, G.at[t][p] = NoVertex, NEW S \in ReachableSets(G, t)
    PROVE  /\ RemoveFromTracks(Join(G, t, p, v, S), {t}, v) = G
           /\ RemoveVertex(AddOffGridVertex(Join(G, t, p, v, S), v), v) = G
  <1> DEFINE J == Join(G, t, p, v, S)
             A == AddOffGridVertex(J, v)
  <1>0. v # NoVertex /\ \A u \in Tracks, q \in Points : G.at[u][q] # v
    BY DEF Parameters, Sound
  <1>1. G.at \in [Tracks -> [Points -> Vertices \cup {NoVertex}]]
        /\ G.edges \in SUBSET (Tracks \X Vertices \X Vertices)
    BY DEF Grids
  <1>2. /\ \A e \in G.edges : v # e[2] /\ v # e[3]
        /\ \A e \in G.off_grid_edges : v # e[1] /\ v # e[2]
    BY DEF Sound
  <1>3. S \in SUBSET Vertices
    BY DEF ReachableSets
  <1>4. J \in Grids /\ A \in Grids
    BY <1>3, JoinIsTyped, RemovalsAreTyped
  <1>5. /\ J.vertices = G.vertices /\ J.off_grid_edges = G.off_grid_edges
        /\ J.edges = G.edges \cup {<<t, v, u>> : u \in S}
        /\ J.at = [G.at EXCEPT ![t][p] = v]
    BY DEF Grids, Join
  <1>6. /\ A.vertices = G.vertices \cup {v} /\ A.off_grid_edges = G.off_grid_edges
        /\ A.edges = J.edges /\ A.at = J.at
    BY <1>4, <1>5 DEF Grids, AddOffGridVertex
  <1> HIDE DEF J, A
  <1>8. Without(J.at, {t}, v) = G.at /\ Without(J.at, Tracks, v) = G.at
    <2>1. t \in {t}
      OBVIOUS
    <2> QED
      BY <1>0, <2>1, WithoutUndoesJoin DEF J
  <1>9. OtherEdges(J.edges, {t}, v) = G.edges /\ OtherEdges(J.edges, Tracks, v) = G.edges
    <2>1. \A e \in {<<t, v, u>> : u \in S} : e[1] = t /\ e[2] = v
      OBVIOUS
    <2> QED
      BY <1>2, <1>5, <2>1 DEF OtherEdges
  <1>10. /\ OtherJogs(G.off_grid_edges, v) = G.off_grid_edges
         /\ (G.vertices \cup {v}) \ {v} = G.vertices
    BY <1>2 DEF OtherJogs
  <1>11. RemoveFromTracks(J, {t}, v) = G
    <2>1. RemoveFromTracks(J, {t}, v) \in Grids
      BY <1>4, RemovalsAreTyped
    <2>2. /\ RemoveFromTracks(J, {t}, v).vertices = G.vertices
          /\ RemoveFromTracks(J, {t}, v).off_grid_edges = G.off_grid_edges
          /\ RemoveFromTracks(J, {t}, v).at = G.at
          /\ RemoveFromTracks(J, {t}, v).edges = G.edges
      <3>1. /\ RemoveFromTracks(J, {t}, v).vertices = J.vertices
            /\ RemoveFromTracks(J, {t}, v).off_grid_edges = J.off_grid_edges
            /\ RemoveFromTracks(J, {t}, v).at = Without(J.at, {t}, v)
            /\ RemoveFromTracks(J, {t}, v).edges = OtherEdges(J.edges, {t}, v)
        BY <1>4, PartsOfRemoval, Zenon
      <3> QED
        BY <1>5, <1>8, <1>9, <3>1, Zenon
    <2> QED
      BY <2>1, <2>2, SameGrid
  <1>12. RemoveVertex(A, v) = G
    <2>1. RemoveVertex(A, v) \in Grids
      BY <1>4, RemovalsAreTyped
    <2>2. /\ RemoveVertex(A, v).vertices = G.vertices
          /\ RemoveVertex(A, v).off_grid_edges = G.off_grid_edges
          /\ RemoveVertex(A, v).at = G.at
          /\ RemoveVertex(A, v).edges = G.edges
      <3>1. /\ RemoveVertex(A, v).vertices = A.vertices \ {v}
            /\ RemoveVertex(A, v).off_grid_edges = OtherJogs(A.off_grid_edges, v)
            /\ RemoveVertex(A, v).at = Without(A.at, Tracks, v)
            /\ RemoveVertex(A, v).edges = OtherEdges(A.edges, Tracks, v)
        BY <1>4, PartsOfVertexRemoval, Zenon
      <3> QED
        BY <1>5, <1>6, <1>8, <1>9, <1>10, <3>1
    <2> QED
      BY <2>1, <2>2, SameGrid
  <1> QED
    BY <1>11, <1>12 DEF J, A

LEMMA VertexRollsBack ==
    ASSUME Parameters, NEW G \in Grids, NEW X \in SUBSET Vertices, Sound(G, X),
           NEW v \in Vertices, v \notin G.vertices, v \notin X
    PROVE  RemoveVertex(AddOffGridVertex(G, v), v) = G
  <1> DEFINE B == AddOffGridVertex(G, v)
  <1>1. \A u \in Tracks, q \in Points : G.at[u][q] # v
    BY DEF Parameters, Sound
  <1>2. /\ B \in Grids /\ RemoveVertex(B, v) \in Grids
        /\ B.vertices = G.vertices \cup {v} /\ B.off_grid_edges = G.off_grid_edges
        /\ B.edges = G.edges /\ B.at = G.at
    <2>1. B \in Grids
      BY RemovalsAreTyped
    <2> HIDE DEF B
    <2>2. RemoveVertex(B, v) \in Grids
      BY <2>1, RemovalsAreTyped
    <2> QED
      BY <2>1, <2>2 DEF Grids, AddOffGridVertex, B
  <1> HIDE DEF B
  <1>3. Without(G.at, Tracks, v) = G.at
    BY <1>1, WithoutRestores
  <1>4. OtherEdges(G.edges, Tracks, v) = G.edges
    BY DEF OtherEdges, Sound
  <1>5. OtherJogs(G.off_grid_edges, v) = G.off_grid_edges
    BY DEF OtherJogs, Sound
  <1>6. /\ RemoveVertex(B, v).vertices = B.vertices \ {v}
        /\ RemoveVertex(B, v).off_grid_edges = OtherJogs(B.off_grid_edges, v)
        /\ RemoveVertex(B, v).at = Without(B.at, Tracks, v)
        /\ RemoveVertex(B, v).edges = OtherEdges(B.edges, Tracks, v)
    BY <1>2, PartsOfVertexRemoval, Zenon
  <1>7. /\ RemoveVertex(B, v).vertices = G.vertices
        /\ RemoveVertex(B, v).off_grid_edges = G.off_grid_edges
        /\ RemoveVertex(B, v).at = G.at
        /\ RemoveVertex(B, v).edges = G.edges
    BY <1>2, <1>3, <1>4, <1>5, <1>6
  <1>8. RemoveVertex(B, v) = G
    BY <1>2, <1>7, SameGrid
  <1> QED
    BY <1>8 DEF B

\* All that is on the tracks of G is there in H.
Keeps(G, H) ==
    \A t \in Tracks, p \in Points : G.at[t][p] # NoVertex => H.at[t][p] = G.at[t][p]

LEMMA JoinKeeps ==
    ASSUME NEW G \in Grids, NEW v \in Vertices, NEW t \in Tracks, NEW p \in Points,
           G.at[t][p] = NoVertex, NEW S
    PROVE  /\ Keeps(G, Join(G, t, p, v, S))
           /\ IsOn(Join(G, t, p, v, S), v, t)
           /\ \A u \in Tracks : \A w : IsOn(Join(G, t, p, v, S), w, u) =>
                                           IsOn(G, w, u) \/ (u = t /\ w = v)
  BY DEF Grids, Join, IsOn, Keeps

LEMMA ReachedStays ==
    ASSUME NEW G \in Grids, NEW H \in Grids, NoVertex \notin Vertices, Keeps(G, H),
           NEW E, NEW F, E \subseteq F, NEW v \in Vertices, Reached(G, E, v)
    PROVE  Reached(H, F, v)
  <1>1. \A t \in Tracks, w \in Vertices : IsOn(G, w, t) => IsOn(H, w, t)
    BY DEF IsOn, Keeps
  <1>2. PICK t \in Tracks : IsOn(G, v, t) \/ \E b \in Vertices : <<b, v>> \in E /\ IsOn(G, b, t)
    BY DEF Reached
  <1>3. IsOn(H, v, t) \/ \E b \in Vertices : <<b, v>> \in F /\ IsOn(H, b, t)
    BY <1>1, <1>2
  <1> QED
    BY <1>3 DEF Reached

-----------------------------------------------------------------------------
\* The types of the variables.
Types ==
    /\ grid \in Grids /\ writer \in Threads \cup {NoThread} /\ readers \subseteq Threads
    /\ access \in [Threads -> Calls] /\ handed \subseteq Vertices /\ stranded \subseteq Vertices

\* What becomes of the grid on the nearest point of a track.
LEMMA NearestAreTyped ==
    ASSUME Parameters, NEW G \in Grids, NEW t \in Tracks, NEW p \in Points,
           NEW target \in Vertices, NEW new \in Vertices,
           NEW o \in NearestVertices(G, t, p, target, new)
    PROVE  o.grid \in Grids /\ o.vertex \in Vertices
  <1> DEFINE c == Nearest[t][p]
             found == G.at[t][c]
             v == IF c = p THEN target ELSE new
  <1>1. c \in Points /\ found \in Vertices \cup {NoVertex} /\ v \in Vertices
    BY DEF Parameters, Grids
  <1>2. CASE found # NoVertex
    BY <1>1, <1>2 DEF NearestVertices
  <1>3. CASE found = NoVertex
    <2>1. PICK S \in ReachableSets(G, t) :
              o = [grid |-> Join(G, t, c, v, S), vertex |-> v, is_new |-> c # p,
                   target_exists |-> FALSE]
      BY <1>3 DEF NearestVertices
    <2>2. S \in SUBSET Vertices
      BY DEF ReachableSets
    <2>3. Join(G, t, c, v, S) \in Grids
      BY <1>1, <2>2, JoinIsTyped, RemovalsAreTyped
    <2> QED
      BY <1>1, <2>1, <2>3
  <1> QED
    BY <1>2, <1>3

LEMMA StepKeepsTypes ==
    ASSUME Parameters, Types, [Next]_vars
    PROVE  Types'
  <1> USE DEF Types
  <1>1. CASE UNCHANGED vars
    BY <1>1 DEF vars
  <1>2. ASSUME NEW th \in Threads,
               \/ Begin(th) \/ ReturnExisting(th) \/ TryOption(th) \/ Lock(th)
               \/ FallBack(th) \/ Share(th) \/ TakeCandidate(th) \/ NoCandidate(th)
               \/ GiveUpCandidate(th)
        PROVE  Types'
    <2>1. access[th] \in Calls
      OBVIOUS
    <2>2. CASE Begin(th)
      <3>1. PICK p \in PortCentres, options \in SUBSET Options :
                access' = [access EXCEPT ![th].pc = "looking", ![th].point = p,
                                         ![th].options = options]
        BY <2>2 DEF Begin
      <3>2. access' \in [Threads -> Calls]
        BY <2>1, <3>1 DEF Calls
      <3> QED
        BY <2>2, <3>2 DEF Begin
    <2>3. CASE ReturnExisting(th)
      BY <2>1, <2>3 DEF ReturnExisting, VertexAt, Calls
    <2>4. CASE TryOption(th)
      <3>1. PICK o \in access[th].options, directions \in AccessDirections :
                \/ access' = [access EXCEPT ![th].options = @ \ {o}]
                \/ \E v \in Vertices \ Allocated, nearest_tracks \in SUBSET TracksOf[o] :
                        access' = [access EXCEPT ![th].pc = "waiting", ![th].options = @ \ {o},
                                                 ![th].off_grid = v, ![th].directions = directions,
                                                 ![th].todo = nearest_tracks]
        BY <2>4 DEF TryOption
      <3>2. o \in Options /\ directions \in SUBSET Directions
        BY <2>1 DEF Calls, Parameters
      <3>3. CASE access' = [access EXCEPT ![th].options = @ \ {o}]
        <4>1. access' \in [Threads -> Calls]
          BY <2>1, <3>3 DEF Calls
        <4> QED
          BY <2>4, <4>1 DEF TryOption
      <3>4. ASSUME NEW v \in Vertices, NEW nearest_tracks \in SUBSET TracksOf[o],
                   access' = [access EXCEPT ![th].pc = "waiting", ![th].options = @ \ {o},
                                            ![th].off_grid = v, ![th].directions = directions,
                                            ![th].todo = nearest_tracks]
            PROVE  Types'
        <4>1. nearest_tracks \in SUBSET Tracks
          BY <3>2 DEF Parameters
        <4>2. access' \in [Threads -> Calls]
          BY <2>1, <3>2, <3>4, <4>1 DEF Calls
        <4> QED
          BY <2>4, <4>2 DEF TryOption
      <3> QED
        BY <3>1, <3>3, <3>4
    <2>5. CASE Lock(th)
      BY <2>1, <2>5 DEF Lock, Calls
    <2>6. CASE FallBack(th)
      BY <2>1, <2>6 DEF FallBack, Calls
    <2>7. CASE Share(th)
      BY <2>1, <2>7 DEF Share, Calls
    <2>8. CASE TakeCandidate(th)
      <3>1. PICK v \in grid.vertices, new \in Vertices :
                access' = IF th \in readers
                              THEN [access EXCEPT ![th].pc = "claiming", ![th].off_grid = new,
                                                  ![th].todo = {t \in Tracks : IsOn(grid, v, t)}]
                              ELSE [access EXCEPT ![th].pc = "thrown"]
        BY <2>8 DEF TakeCandidate
      <3>2. access' \in [Threads -> Calls]
        BY <2>1, <3>1 DEF Calls
      <3> QED
        BY <2>8, <3>2 DEF TakeCandidate
    <2>9. CASE NoCandidate(th)
      BY <2>1, <2>9 DEF NoCandidate, Calls
    <2>10. CASE GiveUpCandidate(th)
      BY <2>1, <2>10 DEF GiveUpCandidate, Calls
    <2> QED
      BY <1>2, <2>2, <2>3, <2>4, <2>5, <2>6, <2>7, <2>8, <2>9, <2>10
  <1>3. ASSUME NEW th \in Threads, Finish(th) PROVE Types'
    <2>1. access[th] \in Calls
      OBVIOUS
    <2>2. CASE access[th].any_success
      <3> DEFINE A == AddOffGridVertex(grid, access[th].off_grid)
      <3>1. A \in Grids
        BY <2>1, <2>2 DEF Calls, Grids, AddOffGridVertex
      <3>2. grid' = [A EXCEPT !.off_grid_edges = @ \cup access[th].new_edges]
        BY <1>3, <2>2 DEF Finish
      <3>3. access[th].new_edges \in SUBSET (Vertices \X Vertices)
        BY <2>1 DEF Calls
      <3>4. grid' \in Grids
        <4> HIDE DEF A
        <4> QED
          BY <3>1, <3>2, <3>3 DEF Grids
      <3> QED
        BY <1>3, <2>1, <2>2, <3>4 DEF Finish, Calls
    <2>3. CASE ~access[th].any_success
      BY <1>3, <2>1, <2>3 DEF Finish, Calls
    <2> QED
      BY <2>2, <2>3
  <1>4. ASSUME NEW th \in Threads, NEW t \in Tracks, ConnectToTrack(th, t) PROVE Types'
    <2> DEFINE off_grid == access[th].off_grid
               done == [access EXCEPT ![th].todo = @ \ {t}]
               succeeded == [done EXCEPT ![th].any_success = TRUE]
    <2>1. access[th] \in Calls /\ off_grid \in Vertices /\ access[th].point \in Points
      BY DEF Calls, Parameters
    <2>2. done \in [Threads -> Calls] /\ succeeded \in [Threads -> Calls]
      BY <2>1 DEF Calls
    <2>3. ASSUME NEW b \in Vertices
          PROVE  [succeeded EXCEPT ![th].new_edges = @ \cup {<<b, off_grid>>}]
                     \in [Threads -> Calls]
      <3> HIDE DEF succeeded, off_grid
      <3>1. succeeded[th] \in Calls /\ {<<b, off_grid>>} \subseteq Vertices \X Vertices
        BY <2>1, <2>2
      <3> QED
        BY <2>2, <3>1 DEF Calls
    <2>4. ASSUME NEW new \in Vertices,
                 NEW o \in NearestVertices(grid, t, access[th].point, off_grid, new)
          PROVE  /\ o.grid \in Grids /\ o.vertex \in Vertices
                 /\ AddOffGridVertex(o.grid, o.vertex) \in Grids
                 /\ RemoveFromTracks(o.grid, {t}, new) \in Grids
                 /\ RemoveVertex(AddOffGridVertex(o.grid, o.vertex), o.vertex) \in Grids
      <3>1. o.grid \in Grids /\ o.vertex \in Vertices
        BY <2>1, NearestAreTyped
      <3>2. access[th].point \in Points /\ {} \in SUBSET Vertices
        BY <2>1
      <3>3. AddOffGridVertex(o.grid, o.vertex) \in Grids
        BY <3>1, <3>2, JoinIsTyped, RemovalsAreTyped
      <3> QED
        BY <3>1, <3>2, <3>3, JoinIsTyped, RemovalsAreTyped
    <2> HIDE DEF done, succeeded, off_grid
    <2>5. ASSUME NEW new \in Vertices,
                 NEW o \in NearestVertices(grid, t, access[th].point, off_grid, new)
          PROVE  (IF o.is_new THEN AddOffGridVertex(o.grid, o.vertex) ELSE o.grid) \in Grids
      BY <2>4
    <2>6. CASE UNCHANGED grid /\ access' = done
      BY <1>4, <2>2, <2>6 DEF ConnectToTrack
    <2>7. ASSUME NEW new \in Vertices,
                 NEW o \in NearestVertices(grid, t, access[th].point, off_grid, new),
                 grid' \in {grid, o.grid, IF o.is_new THEN AddOffGridVertex(o.grid, o.vertex)
                                                      ELSE o.grid,
                            RemoveFromTracks(o.grid, {t}, new),
                            RemoveVertex(AddOffGridVertex(o.grid, o.vertex), o.vertex)},
                 access' \in {done, succeeded, [succeeded EXCEPT ![th].new_edges =
                                                    @ \cup {<<o.vertex, off_grid>>}]}
          PROVE  Types'
      <3>1. grid' \in Grids
        BY <2>4, <2>5, <2>7
      <3>2. access' \in [Threads -> Calls]
        BY <2>2, <2>3, <2>4, <2>7
      <3> QED
        BY <1>4, <3>1, <3>2 DEF ConnectToTrack
    <2>8. CASE ~(UNCHANGED grid /\ access' = done)
      <3>1. PICK new \in Vertices \ Allocated :
                \E o \in NearestVertices(grid, t, access[th].point, off_grid, new) :
                LET added == IF o.is_new THEN AddOffGridVertex(o.grid, o.vertex) ELSE o.grid
                IN \/ /\ grid' = o.grid
                      /\ access' = IF DirectionOf[t] \in access[th].directions
                                       THEN succeeded ELSE done
                   \/ grid' = RemoveFromTracks(o.grid, {t}, new) /\ access' = done
                   \/ grid' = added /\ access' = done
                   \/ /\ grid' = IF o.is_new THEN RemoveVertex(added, o.vertex) ELSE added
                      /\ access' = done
                   \/ /\ grid' = added
                      /\ access' = [succeeded EXCEPT ![th].new_edges =
                                        @ \cup {<<o.vertex, off_grid>>}]
        BY <1>4, <2>8, Zenon DEF ConnectToTrack, done, succeeded, off_grid
      <3> QED
        BY <2>7, <3>1
    <2> QED
      BY <2>6, <2>8
  <1>5. ASSUME NEW th \in Threads, NEW t \in Tracks, AttachTo(th, t) PROVE Types'
    <2> DEFINE off_grid == access[th].off_grid
    <2>1. access[th] \in Calls /\ off_grid \in Vertices /\ access[th].point \in Points
      BY DEF Calls, Parameters
    <2>2. access' \in [Threads -> Calls]
      <3>1. \/ access' = [access EXCEPT ![th].todo = @ \ {t}]
            \/ access' = [access EXCEPT ![th].pc = "idle"]
            \/ access' = [access EXCEPT ![th].pc = "rechoosing"]
        BY <1>5 DEF AttachTo
      <3> QED
        BY <2>1, <3>1 DEF Calls
    <2>3. ASSUME NEW new \in Vertices,
                 NEW o \in NearestVertices(grid, t, access[th].point, off_grid, new)
          PROVE  o.grid \in Grids /\ o.vertex \in Vertices
      BY <2>1, NearestAreTyped
    <2>4. {} \in SUBSET Vertices
      OBVIOUS
    <2>5. \A G \in Grids, v \in Vertices :
              AddOffGridVertex(G, v) \in Grids /\ RemoveVertex(G, v) \in Grids
      BY <2>1, <2>4, JoinIsTyped, RemovalsAreTyped
    <2>6. ASSUME NEW G \in Grids, NEW v \in Vertices, NEW w \in Vertices
          PROVE  [G EXCEPT !.off_grid_edges = @ \cup {<<v, w>>}] \in Grids
      <3>1. {<<v, w>>} \subseteq Vertices \X Vertices
        OBVIOUS
      <3> QED
        BY <3>1 DEF Grids
    <2> HIDE DEF off_grid
    <2>7. CASE UNCHANGED <<grid, writer, handed>>
      BY <1>5, <2>2, <2>7 DEF AttachTo
    <2>8. CASE ~UNCHANGED <<grid, writer, handed>>
      <3>1. PICK new \in Vertices \ Allocated :
                \E o \in NearestVertices(grid, t, access[th].point, off_grid, new) :
                LET owned == AddOffGridVertex(o.grid, off_grid)
                    added == IF o.is_new THEN AddOffGridVertex(owned, o.vertex) ELSE owned
                IN /\ \/ grid' = grid
                      \/ grid' = owned
                      \/ grid' = [added EXCEPT !.off_grid_edges = @ \cup {<<o.vertex, off_grid>>}]
                      \/ grid' = RemoveVertex(IF o.is_new THEN RemoveVertex(added, o.vertex)
                                                          ELSE added, off_grid)
                   /\ \/ handed' = handed
                      \/ handed' = handed \cup {IF o.target_exists THEN o.vertex ELSE off_grid}
        BY <1>5, <2>8 DEF AttachTo, off_grid
      <3>a. PICK o \in NearestVertices(grid, t, access[th].point, off_grid, new) :
                LET owned == AddOffGridVertex(o.grid, off_grid)
                    added == IF o.is_new THEN AddOffGridVertex(owned, o.vertex) ELSE owned
                IN /\ \/ grid' = grid
                      \/ grid' = owned
                      \/ grid' = [added EXCEPT !.off_grid_edges = @ \cup {<<o.vertex, off_grid>>}]
                      \/ grid' = RemoveVertex(IF o.is_new THEN RemoveVertex(added, o.vertex)
                                                          ELSE added, off_grid)
                   /\ \/ handed' = handed
                      \/ handed' = handed \cup {IF o.target_exists THEN o.vertex ELSE off_grid}
        BY <3>1
      <3> DEFINE owned == AddOffGridVertex(o.grid, off_grid)
                 added == IF o.is_new THEN AddOffGridVertex(owned, o.vertex) ELSE owned
      <3>2. o.vertex \in Vertices /\ owned \in Grids
        BY <2>1, <2>3, <2>5
      <3>3. added \in Grids
        BY <2>5, <3>2
      <3>4. (IF o.is_new THEN RemoveVertex(added, o.vertex) ELSE added) \in Grids
        BY <2>5, <3>2, <3>3
      <3> HIDE DEF added, owned
      <3>5. grid' \in Grids
        <4>1. RemoveVertex(IF o.is_new THEN RemoveVertex(added, o.vertex) ELSE added, off_grid)
                  \in Grids
          BY <2>1, <2>5, <3>4
        <4>2. [added EXCEPT !.off_grid_edges = @ \cup {<<o.vertex, off_grid>>}] \in Grids
          BY <2>1, <2>6, <3>2, <3>3
        <4> QED
          BY <3>2, <3>a, <4>1, <4>2 DEF added, owned
      <3>6. handed' \subseteq Vertices
        BY <2>1, <3>2, <3>a
      <3>7. writer' = NoThread /\ readers' = readers /\ stranded' = stranded
        BY <1>5, <2>8 DEF AttachTo
      <3> QED
        BY <2>2, <3>5, <3>6, <3>7
    <2> QED
      BY <2>7, <2>8
  <1> QED
    BY <1>1, <1>2, <1>3, <1>4, <1>5 DEF Next

-----------------------------------------------------------------------------
\* The locks.

\* A step is of one thread; the calls of the others stay as they are.
LEMMA OthersStay ==
    ASSUME Parameters, Types, NEW th \in Threads,
           \/ Begin(th) \/ ReturnExisting(th) \/ TryOption(th) \/ Lock(th) \/ Finish(th)
           \/ FallBack(th) \/ Share(th) \/ TakeCandidate(th) \/ NoCandidate(th)
           \/ GiveUpCandidate(th)
           \/ \E t \in Tracks : ConnectToTrack(th, t) \/ AttachTo(th, t)
    PROVE  \A u \in Threads \ {th} : access'[u] = access[u]
  <1>1. CASE Begin(th) \/ ReturnExisting(th) \/ TryOption(th) \/ Lock(th) \/ Finish(th)
    BY <1>1 DEF Begin, ReturnExisting, TryOption, Lock, Finish, Types
  <1>2. CASE FallBack(th) \/ Share(th) \/ TakeCandidate(th) \/ NoCandidate(th) \/ GiveUpCandidate(th)
    BY <1>2 DEF FallBack, Share, TakeCandidate, NoCandidate, GiveUpCandidate, Types
  <1>3. ASSUME NEW t \in Tracks, ConnectToTrack(th, t)
        PROVE  \A u \in Threads \ {th} : access'[u] = access[u]
    BY <1>3 DEF ConnectToTrack, Types
  <1>4. ASSUME NEW t \in Tracks, AttachTo(th, t)
        PROVE  \A u \in Threads \ {th} : access'[u] = access[u]
    BY <1>4 DEF AttachTo, Types
  <1> QED
    BY <1>1, <1>2, <1>3, <1>4

LEMMA StepKeepsLocks ==
    ASSUME Parameters, Types, LocksExclude, [Next]_vars
    PROVE  LocksExclude'
  <1>1. CASE UNCHANGED vars
    BY <1>1 DEF vars, LocksExclude
  <1>2. ASSUME NEW th \in Threads, \A u \in Threads \ {th} : access'[u] = access[u],
               \/ Begin(th) \/ ReturnExisting(th) \/ TryOption(th) \/ Lock(th) \/ Finish(th)
               \/ FallBack(th) \/ Share(th) \/ TakeCandidate(th) \/ NoCandidate(th)
               \/ GiveUpCandidate(th)
        PROVE  LocksExclude'
    <2>1. access[th] \in Calls /\ NoThread \notin Threads
      BY DEF Types, Parameters
    <2>2. CASE Begin(th)
      <3>1. access'[th].pc = "looking"
        BY <2>1, <2>2 DEF Begin, Calls, Types
      <3> QED
        BY <1>2, <2>1, <2>2, <3>1 DEF Begin, LocksExclude
    <2>3. CASE ReturnExisting(th)
      <3>1. access'[th].pc = "idle"
        BY <2>1, <2>3 DEF ReturnExisting, Calls, Types
      <3> QED
        BY <1>2, <2>1, <2>3, <3>1 DEF ReturnExisting, LocksExclude
    <2>4. CASE TryOption(th)
      <3>1. access'[th].pc = "waiting" \/ (access'[th].pc = "looking" /\ readers' = readers)
        <4>1. access[th].pc = "looking"
          BY <2>4 DEF TryOption
        <4>2. PICK o \in access[th].options, directions \in AccessDirections :
                  \/ access' = [access EXCEPT ![th].options = @ \ {o}] /\ readers' = readers
                  \/ \E v \in Vertices \ Allocated, nearest_tracks \in SUBSET TracksOf[o] :
                        access' = [access EXCEPT ![th].pc = "waiting", ![th].options = @ \ {o},
                                                 ![th].off_grid = v, ![th].directions = directions,
                                                 ![th].todo = nearest_tracks]
          BY <2>4 DEF TryOption
        <4>3. ASSUME NEW v, NEW nearest_tracks,
                     access' = [access EXCEPT ![th].pc = "waiting", ![th].options = @ \ {o},
                                              ![th].off_grid = v, ![th].directions = directions,
                                              ![th].todo = nearest_tracks]
              PROVE  access'[th].pc = "waiting"
          BY <2>1, <4>3 DEF Calls, Types
        <4>4. CASE access' = [access EXCEPT ![th].options = @ \ {o}] /\ readers' = readers
          BY <2>1, <4>1, <4>4 DEF Calls, Types
        <4> QED
          BY <4>2, <4>3, <4>4
      <3>2. readers' = readers \/ readers' = readers \ {th}
        BY <2>4 DEF TryOption
      <3> QED
        BY <1>2, <2>1, <2>4, <3>1, <3>2 DEF TryOption, LocksExclude
    <2>5. CASE Lock(th)
      <3>1. access'[th].pc \in {"connecting", "attaching"}
        BY <2>1, <2>5 DEF Lock, Calls, Types
      <3> QED
        BY <1>2, <2>1, <2>5, <3>1 DEF Lock, LocksExclude
    <2>6. CASE Finish(th)
      <3>1. access'[th].pc \in {"idle", "resharing"}
        BY <2>1, <2>6 DEF Finish, Calls, Types
      <3> QED
        BY <1>2, <2>1, <2>6, <3>1 DEF Finish, LocksExclude
    <2>7. CASE FallBack(th)
      <3>1. access'[th].pc = "fallback"
        BY <2>1, <2>7 DEF FallBack, Calls, Types
      <3> QED
        BY <1>2, <2>1, <2>7, <3>1 DEF FallBack, LocksExclude
    <2>8. CASE Share(th)
      <3>1. access'[th].pc \in {"looking", "choosing"}
        BY <2>1, <2>8 DEF Share, Calls, Types
      <3> QED
        BY <1>2, <2>1, <2>8, <3>1 DEF Share, LocksExclude
    <2>9. CASE TakeCandidate(th)
      <3>1. access'[th].pc \in {"claiming", "thrown"}
        BY <2>1, <2>9 DEF TakeCandidate, Calls, Types
      <3> QED
        BY <1>2, <2>1, <2>9, <3>1 DEF TakeCandidate, LocksExclude
    <2>10. CASE NoCandidate(th)
      <3>1. access'[th].pc = "idle"
        BY <2>1, <2>10 DEF NoCandidate, Calls, Types
      <3> QED
        BY <1>2, <2>1, <2>10, <3>1 DEF NoCandidate, LocksExclude
    <2>11. CASE GiveUpCandidate(th)
      <3>1. access'[th].pc = "reclaiming"
        BY <2>1, <2>11 DEF GiveUpCandidate, Calls, Types
      <3> QED
        BY <1>2, <2>1, <2>11, <3>1 DEF GiveUpCandidate, LocksExclude
    <2> QED
      BY <1>2, <2>2, <2>3, <2>4, <2>5, <2>6, <2>7, <2>8, <2>9, <2>10, <2>11
  <1>3. ASSUME NEW th \in Threads, \A u \in Threads \ {th} : access'[u] = access[u],
               NEW t \in Tracks, ConnectToTrack(th, t)
        PROVE  LocksExclude'
    <2>1. access[th] \in Calls
      BY DEF Types
    <2>2. access'[th].pc = "connecting"
      <3> DEFINE done == [access EXCEPT ![th].todo = @ \ {t}]
                 succeeded == [done EXCEPT ![th].any_success = TRUE]
      <3>1. /\ done[th].pc = "connecting" /\ succeeded[th].pc = "connecting"
            /\ \A E : [succeeded EXCEPT ![th].new_edges = E][th].pc = "connecting"
        BY <1>3, <2>1 DEF ConnectToTrack, Calls, Types
      <3>2. \/ access' = done \/ access' = succeeded
            \/ \E E : access' = [succeeded EXCEPT ![th].new_edges = E]
        BY <1>3 DEF ConnectToTrack
      <3> QED
        BY <3>1, <3>2
    <2>3. access[th].pc = "connecting" /\ writer' = writer /\ readers' = readers
      BY <1>3 DEF ConnectToTrack
    <2> QED
      BY <1>3, <2>2, <2>3 DEF LocksExclude
  <1>4. ASSUME NEW th \in Threads, \A u \in Threads \ {th} : access'[u] = access[u],
               NEW t \in Tracks, AttachTo(th, t)
        PROVE  LocksExclude'
    <2>1. access[th] \in Calls /\ NoThread \notin Threads
      BY DEF Types, Parameters
    <2>2. access[th].pc = "attaching" /\ readers' = readers
      BY <1>4 DEF AttachTo
    <2>3. \/ access'[th].pc = "attaching" /\ writer' = writer
          \/ access'[th].pc \in {"idle", "rechoosing"} /\ writer' = NoThread
      BY <1>4, <2>1 DEF AttachTo, Calls, Types
    <2> QED
      BY <1>4, <2>1, <2>2, <2>3 DEF LocksExclude
  <1> QED
    BY <1>1, <1>2, <1>3, <1>4, OthersStay DEF Next

\* Whoever changes the grid, or looks at it to join a port to it, holds the lock as he has
\* to, whatever the order in which threads take and give up the two kinds of it; but for
\* the one place where the code reads the next candidate after it rolled one back: there
\* the thread never holds it, on any path.
THEOREM LocksAreKept ==
    ASSUME Parameters
    PROVE  Spec => []LocksExclude
  <1>1. Init => Types /\ LocksExclude
    BY DEF Init, Types, LocksExclude, Parameters
  <1>2. Types /\ LocksExclude /\ [Next]_vars => Types' /\ LocksExclude'
    BY StepKeepsTypes, StepKeepsLocks
  <1> QED
    BY <1>1, <1>2, PTL DEF Spec

-----------------------------------------------------------------------------
(* What is true between the steps, until a vertex that has landed on a      *)
(* track is deleted.                                                        *)

\* The vertices that may be joined to a track and are not yet the grid's.
Landed == {access[th].off_grid : th \in {u \in Threads : access[u].pc = "connecting"}}

\* The vertex of a call is its own.
Apart ==
    \A th \in Threads : \A v \in OffGrid(th) :
        v \notin grid.vertices /\ \A u \in Threads : u # th => v \notin OffGrid(u)

Going(th) ==
    /\ access[th].pc \in {"waiting", "connecting"} =>
           access[th].directions \in AccessDirections \ {{}}
    /\ access[th].pc = "connecting" =>
           /\ \A e \in access[th].new_edges :
                  e[1] \in grid.vertices /\ e[2] = access[th].off_grid
           /\ access[th].any_success =>
                  Reached(grid, access[th].new_edges, access[th].off_grid)
           /\ IsPointedTo(grid, access[th].off_grid) =>
                  access[th].any_success \/ LandsInVain(th)
           /\ \A t \in access[th].todo : ~IsOn(grid, access[th].off_grid, t)

AccessInv ==
    /\ Types /\ LocksExclude /\ Apart /\ Sound(grid, Landed)
    /\ \A th \in Threads : Going(th)
    /\ stranded = {} /\ handed \subseteq grid.vertices /\ AccessIsReal

\* A step that leaves the grid alone and is not of a call that holds the unique lock.
LEMMA QuietSteps ==
    ASSUME Parameters, AccessInv, Types', NEW th \in Threads, grid' = grid,
           \A u \in Threads \ {th} : access'[u] = access[u],
           \A v \in OffGrid(th)' : v \in OffGrid(th) \/ v \notin Allocated,
           access[th].pc # "connecting",
           access'[th].pc = "connecting" =>
               ~access'[th].any_success /\ access'[th].new_edges = {},
           access'[th].pc \in {"waiting", "connecting"} =>
               access'[th].directions \in AccessDirections \ {{}}
    PROVE  Apart' /\ Sound(grid, Landed)' /\ \A u \in Threads : Going(u)'
  <1>1. \A u \in Threads \ {th} : OffGrid(u)' = OffGrid(u)
    BY DEF OffGrid
  <1>2. \A u \in Threads \ {th} : \A v \in OffGrid(th)' : v \notin OffGrid(u)
    BY DEF AccessInv, Apart, Allocated
  <1>3. \A v \in OffGrid(th)' : v \notin grid.vertices
    BY DEF AccessInv, Apart, Allocated
  <1>4. Apart'
    BY <1>1, <1>2, <1>3 DEF Apart, AccessInv
  <1>5. Sound(grid, Landed)'
    <2>1. Landed \subseteq Landed'
      BY DEF Landed
    <2>2. Sound(grid, Landed')
      BY <2>1, SoundWithMore DEF AccessInv
    <2> QED
      BY <2>2
  <1>6. ASSUME NEW u \in Threads \ {th} PROVE Going(u)'
    <2>1. access'[u] = access[u] /\ Going(u)
      BY DEF AccessInv
    <2> QED
      BY <2>1 DEF Going, LandsInVain
  <1>7. Going(th)'
    <2>1. ASSUME access'[th].pc = "connecting" PROVE ~IsPointedTo(grid, access'[th].off_grid)
      <3> DEFINE v == access'[th].off_grid
      <3>1. v \in OffGrid(th)'
        BY <2>1 DEF OffGrid
      <3>2. v \in Vertices /\ v # NoVertex
        BY DEF Types, Calls, Parameters
      <3>3. v \notin Landed
        <4>1. ASSUME NEW u \in Threads, access[u].pc = "connecting"
              PROVE  v # access[u].off_grid
          <5>1. u # th /\ access[u].off_grid \in OffGrid(u)
            BY <4>1 DEF OffGrid
          <5> QED
            BY <1>2, <3>1, <5>1
        <4> QED
          BY <4>1 DEF Landed
      <3>4. v \notin grid.vertices
        BY <1>3, <3>1
      <3> QED
        BY <3>2, <3>3, <3>4 DEF AccessInv, Sound, IsOn, IsPointedTo
    <2>2. ASSUME access'[th].pc = "connecting", NEW t \in access'[th].todo
          PROVE  ~IsOn(grid, access'[th].off_grid, t)
      <3>1. t \in Tracks
        BY DEF Types, Calls
      <3> QED
        BY <2>1, <2>2, <3>1 DEF IsPointedTo
    <2> QED
      BY <2>1, <2>2 DEF Going
  <1> QED
    BY <1>4, <1>5, <1>6, <1>7

\* What may be on the tracks while a call connects or attaches its vertex.
LEMMA OnTracks ==
    ASSUME Parameters, AccessInv, NEW th \in Threads, access[th].pc \in {"connecting", "attaching"}
    PROVE  /\ access[th].off_grid \in Vertices /\ access[th].point \in Points
           /\ access[th].off_grid \in OffGrid(th)
           /\ access[th].off_grid \notin grid.vertices
           /\ Landed \subseteq {access[th].off_grid}
           /\ access[th].pc = "attaching" => Landed = {}
           /\ \A u \in Tracks, q \in Points :
                  grid.at[u][q] \in grid.vertices \cup Landed \cup {NoVertex}
           /\ \A new \in Vertices \ Allocated :
                  new # access[th].off_grid /\ new \notin grid.vertices /\ new \notin Landed
  <1>1. access[th] \in Calls
    BY DEF AccessInv, Types
  <1>2. access[th].off_grid \in OffGrid(th)
    BY DEF OffGrid
  <1>3. writer = th /\ \A u \in Threads : access[u].pc = "connecting" => u = th
    BY DEF AccessInv, LocksExclude
  <1>4. Landed \subseteq {access[th].off_grid} /\ (access[th].pc = "attaching" => Landed = {})
    BY <1>3 DEF Landed
  <1> QED
    BY <1>1, <1>2, <1>4 DEF AccessInv, Apart, Sound, Allocated, Calls, Parameters

\* What the nearest point of a track comes to.
LEMMA NearestOutcomes ==
    ASSUME Parameters, AccessInv, NEW th \in Threads, access[th].pc \in {"connecting", "attaching"},
           NEW t \in Tracks, NEW new \in Vertices \ Allocated,
           NEW o \in NearestVertices(grid, t, access[th].point, access[th].off_grid, new),
           ~IsOn(grid, access[th].off_grid, t)
    PROVE  LET p == access[th].point
               off_grid == access[th].off_grid
               c == Nearest[t][p]
           IN /\ c \in Points /\ o.vertex \in Vertices
              /\ o.vertex = off_grid <=> grid.at[t][c] = NoVertex /\ c = p
              /\ o.target_exists <=> grid.at[t][c] # NoVertex /\ c = p
              /\ o.is_new <=> grid.at[t][c] = NoVertex /\ c # p
              /\ grid.at[t][c] # NoVertex =>
                     /\ o.grid = grid /\ o.vertex \in grid.vertices /\ IsOn(grid, o.vertex, t)
              /\ grid.at[t][c] = NoVertex =>
                     /\ o.vertex = IF c = p THEN off_grid ELSE new
                     /\ \E S \in ReachableSets(grid, t) : o.grid = Join(grid, t, c, o.vertex, S)
  <1> DEFINE p == access[th].point
             off_grid == access[th].off_grid
             c == Nearest[t][p]
             found == grid.at[t][c]
             v == IF c = p THEN off_grid ELSE new
  <1>1. p \in Points /\ off_grid \in Vertices /\ c \in Points /\ NoVertex \notin Vertices
    BY OnTracks DEF Parameters
  <1>2. new # off_grid /\ v \in Vertices /\ v # NoVertex
    BY <1>1, OnTracks
  <1>3. found # off_grid
    BY <1>1 DEF IsOn
  <1>4. CASE found # NoVertex
    <2>1. o = [grid |-> grid, vertex |-> found, is_new |-> FALSE, target_exists |-> c = p]
      BY <1>4 DEF NearestVertices
    <2>2. found \in grid.vertices
      BY <1>1, <1>3, <1>4, OnTracks
    <2>3. found \in Vertices /\ IsOn(grid, found, t)
      BY <1>1, <2>2 DEF IsOn, AccessInv, Types, Grids
    <2> QED
      BY <1>1, <1>2, <1>3, <1>4, <2>1, <2>2, <2>3
  <1>5. CASE found = NoVertex
    <2>1. PICK S \in ReachableSets(grid, t) :
              o = [grid |-> Join(grid, t, c, v, S), vertex |-> v, is_new |-> c # p,
                   target_exists |-> FALSE]
      BY <1>5 DEF NearestVertices
    <2> QED
      BY <1>1, <1>2, <1>5, <2>1
  <1> QED
    BY <1>4, <1>5

\* The calls after a track was tried: in vain, with success, with an edge from b.
Done(th, t) == [access EXCEPT ![th].todo = @ \ {t}]
Succeeded(th, t) == [Done(th, t) EXCEPT ![th].any_success = TRUE]
Jogged(th, t, b) ==
    [Succeeded(th, t) EXCEPT ![th].new_edges = @ \cup {<<b, access[th].off_grid>>}]

\* The choices of ConnectToTrack for an outcome o.
TryCases(th, t, new, o) ==
    LET bridging == o.vertex
        added == IF o.is_new THEN AddOffGridVertex(o.grid, bridging) ELSE o.grid
    IN \/ /\ bridging = access[th].off_grid
          /\ grid' = o.grid
          /\ access' = IF DirectionOf[t] \in access[th].directions
                           THEN Succeeded(th, t) ELSE Done(th, t)
       \/ /\ o.target_exists /\ bridging # access[th].off_grid /\ UNCHANGED grid
          /\ access' = Done(th, t)
       \/ /\ o.is_new
          /\ grid' = RemoveFromTracks(o.grid, {t}, new)
          /\ access' = Done(th, t)
       \/ /\ bridging # access[th].off_grid /\ ~o.target_exists
          /\ \/ /\ JogDirection(t) \notin access[th].directions
                /\ grid' = added /\ access' = Done(th, t)
             \/ /\ JogDirection(t) \in access[th].directions
                /\ grid' = IF o.is_new THEN RemoveVertex(added, bridging) ELSE added
                /\ access' = Done(th, t)
             \/ /\ JogDirection(t) \in access[th].directions
                /\ grid' = added
                /\ access' = Jogged(th, t, bridging)

LEMMA TryOutcomes ==
    ASSUME Parameters, AccessInv, NEW th \in Threads, NEW t \in Tracks, ConnectToTrack(th, t)
    PROVE  LET p == access[th].point
               off_grid == access[th].off_grid
           IN \/ grid' = grid /\ access' = Done(th, t)
              \/ \E b \in grid.vertices :
                     IsOn(grid, b, t) /\ grid' = grid /\ access' = Jogged(th, t, b)
              \/ /\ grid.at[t][p] = NoVertex
                 /\ \/ access' = Succeeded(th, t)
                    \/ /\ Nearest[t][p] = p /\ DirectionOf[t] \notin access[th].directions
                       /\ access' = Done(th, t)
                 /\ \E S \in ReachableSets(grid, t) : grid' = Join(grid, t, p, off_grid, S)
              \/ \E c \in Points, new \in Vertices \ Allocated :
                     /\ grid.at[t][c] = NoVertex
                     /\ \E S \in ReachableSets(grid, t) :
                            grid' = AddOffGridVertex(Join(grid, t, c, new, S), new)
                     /\ \/ access' = Jogged(th, t, new)
                        \/ JogDirection(t) \notin access[th].directions /\ access' = Done(th, t)
  <1> DEFINE p == access[th].point
             off_grid == access[th].off_grid
             c == Nearest[t][p]
  <1>1. access[th].pc = "connecting" /\ t \in access[th].todo
    BY DEF ConnectToTrack
  <1>2. ~IsOn(grid, off_grid, t)
    BY <1>1 DEF AccessInv, Going
  <1>4. CASE UNCHANGED grid /\ access' = Done(th, t)
    BY <1>4
  <1>5. CASE ~(UNCHANGED grid /\ access' = Done(th, t))
    <2>1. PICK new \in Vertices \ Allocated :
              \E o \in NearestVertices(grid, t, p, off_grid, new) : TryCases(th, t, new, o)
      BY <1>5, Zenon DEF ConnectToTrack, TryCases, Done, Succeeded, Jogged
    <2>2. PICK o \in NearestVertices(grid, t, p, off_grid, new) : TryCases(th, t, new, o)
      BY <2>1
    <2> USE DEF TryCases
    <2> DEFINE v == o.vertex
    <2>3. /\ c \in Points /\ v \in Vertices
          /\ v = off_grid <=> grid.at[t][c] = NoVertex /\ c = p
          /\ o.target_exists <=> grid.at[t][c] # NoVertex /\ c = p
          /\ o.is_new <=> grid.at[t][c] = NoVertex /\ c # p
          /\ grid.at[t][c] # NoVertex => o.grid = grid /\ v \in grid.vertices /\ IsOn(grid, v, t)
          /\ grid.at[t][c] = NoVertex =>
                 /\ v = IF c = p THEN off_grid ELSE new
                 /\ \E S \in ReachableSets(grid, t) : o.grid = Join(grid, t, c, v, S)
      BY <1>1, <1>2, NearestOutcomes
    <2>4. CASE v = off_grid
      <3>1. c = p /\ grid.at[t][p] = NoVertex /\ ~o.target_exists /\ ~o.is_new
        BY <2>3, <2>4
      <3>2. /\ grid' = o.grid
            /\ access' = IF DirectionOf[t] \in access[th].directions
                             THEN Succeeded(th, t) ELSE Done(th, t)
        BY <2>2, <2>4, <3>1
      <3> QED
        BY <2>3, <2>4, <3>1, <3>2
    <2>5. CASE v # off_grid /\ ~o.is_new
      BY <2>2, <2>3, <2>5
    <2>6. CASE o.is_new
      <3>1. PICK S \in ReachableSets(grid, t) : o.grid = Join(grid, t, c, new, S)
        BY <2>3, <2>6
      <3>2. v = new /\ v # off_grid /\ grid.at[t][c] = NoVertex
        BY <2>3, <2>6
      <3>3. /\ RemoveFromTracks(o.grid, {t}, new) = grid
            /\ RemoveVertex(AddOffGridVertex(o.grid, new), new) = grid
        <4>1. new \notin grid.vertices /\ new \notin Landed /\ Landed \in SUBSET Vertices
          BY <1>1, OnTracks
        <4>2. grid \in Grids /\ Sound(grid, Landed)
          BY DEF AccessInv, Types
        <4> QED
          BY <2>3, <3>1, <3>2, <4>1, <4>2, RollbackRestores
      <3> QED
        BY <2>2, <2>3, <2>6, <3>1, <3>2, <3>3
    <2> QED
      BY <2>4, <2>5, <2>6
  <1> QED
    BY <1>4, <1>5

LEMMA TryKeeps ==
    ASSUME Parameters, AccessInv, Types', LocksExclude',
           NEW th \in Threads, NEW t \in Tracks, ConnectToTrack(th, t),
           \A u \in Threads \ {th} : access'[u] = access[u]
    PROVE  AccessInv'
  <1> DEFINE p == access[th].point
             off_grid == access[th].off_grid
  <1>1. /\ access[th].pc = "connecting" /\ t \in access[th].todo /\ access[th] \in Calls
        /\ handed' = handed /\ grid \in Grids /\ grid' \in Grids
        /\ access \in [Threads -> Calls] /\ NoVertex \notin Vertices /\ stranded' = {}
    BY DEF ConnectToTrack, AccessInv, Types, Parameters
  <1>2. /\ off_grid \in Vertices /\ p \in Points /\ off_grid \in OffGrid(th)
        /\ off_grid \notin grid.vertices /\ Landed \subseteq {off_grid}
        /\ Landed \in SUBSET Vertices
        /\ \A new \in Vertices \ Allocated :
               new # off_grid /\ new \notin grid.vertices /\ new \notin Landed
    BY <1>1, OnTracks
  <1>3. /\ Done(th, t)[th].any_success = access[th].any_success
        /\ Done(th, t)[th].new_edges = access[th].new_edges
        /\ Succeeded(th, t)[th].any_success
        /\ Succeeded(th, t)[th].new_edges = access[th].new_edges
        /\ \A b : /\ Jogged(th, t, b)[th].any_success
                  /\ Jogged(th, t, b)[th].new_edges = access[th].new_edges \cup {<<b, off_grid>>}
    BY <1>1 DEF Done, Succeeded, Jogged, Calls
  <1>4. /\ access'[th].pc = "connecting" /\ access'[th].off_grid = off_grid
        /\ access'[th].directions = access[th].directions /\ access'[th].point = p
        /\ access'[th].todo = access[th].todo \ {t}
    <2>1. \/ access' = Done(th, t) \/ access' = Succeeded(th, t)
          \/ \E b : access' = Jogged(th, t, b)
      BY TryOutcomes
    <2> QED
      BY <1>1, <2>1 DEF Done, Succeeded, Jogged, Calls
  <1>5. \A u \in Threads : /\ access[u].pc = "connecting" <=> u = th
                           /\ access'[u].pc = "connecting" <=> u = th
    BY <1>1, <1>4 DEF LocksExclude, AccessInv
  <1>6. Landed' = {off_grid} /\ Landed = {off_grid}
    BY <1>4, <1>5 DEF Landed
  <1>7. \A u \in Threads : OffGrid(u)' = OffGrid(u)
    BY <1>1, <1>4 DEF OffGrid
  <1>8. /\ \A e \in access[th].new_edges : e[1] \in grid.vertices /\ e[2] = off_grid
        /\ access[th].any_success => Reached(grid, access[th].new_edges, off_grid)
        /\ IsPointedTo(grid, off_grid) => access[th].any_success \/ LandsInVain(th)
        /\ \A u \in access[th].todo : ~IsOn(grid, off_grid, u)
    BY <1>1 DEF AccessInv, Going
  <1>9. Sound(grid, Landed)
    BY DEF AccessInv
  \* The rest follows from what the outcomes have in common.
  <1>10. ASSUME Keeps(grid, grid'), grid'.off_grid_edges = grid.off_grid_edges,
                grid.vertices \subseteq grid'.vertices,
                \A v \in grid'.vertices : v \in grid.vertices \/ v \notin Allocated,
                Sound(grid', Landed'),
                \A u \in Tracks \ {t} : IsOn(grid', off_grid, u) => IsOn(grid, off_grid, u),
                access'[th].any_success => Reached(grid', access'[th].new_edges, off_grid),
                IsPointedTo(grid', off_grid) => access'[th].any_success \/ LandsInVain(th),
                \A e \in access'[th].new_edges : e[1] \in grid'.vertices /\ e[2] = off_grid
         PROVE  AccessInv'
    <2>1. Apart'
      BY <1>7, <1>10 DEF Apart, AccessInv, Allocated
    <2>2. Going(th)'
      <3>1. access[th].todo \subseteq Tracks
        BY <1>1 DEF Calls
      <3>2. LandsInVain(th)' <=> LandsInVain(th)
        BY <1>4 DEF LandsInVain
      <3> QED
        BY <1>1, <1>4, <1>8, <1>10, <3>1, <3>2 DEF Going, AccessInv
    <2>3. ASSUME NEW u \in Threads \ {th} PROVE Going(u)'
      <3>1. access'[u].pc # "connecting" /\ access'[u] = access[u]
        BY <1>1 DEF AccessInv, LocksExclude
      <3> QED
        BY <3>1 DEF Going, AccessInv
    <2>4. AccessIsReal'
      <3>1. ASSUME NEW v \in handed PROVE Reached(grid', grid'.off_grid_edges, v)
        <4>1. v \in Vertices /\ Reached(grid, grid.off_grid_edges, v)
          BY DEF AccessInv, AccessIsReal, Types
        <4> QED
          BY <1>1, <1>10, <4>1, ReachedStays
      <3> QED
        BY <1>1, <3>1 DEF AccessIsReal
    <2>5. handed' \subseteq grid'.vertices
      BY <1>1, <1>10 DEF AccessInv
    <2>6. Sound(grid, Landed)'
      BY <1>10
    <2> QED
      BY <1>1, <2>1, <2>2, <2>3, <2>4, <2>5, <2>6 DEF AccessInv
  <1>11. CASE grid' = grid /\ access' = Done(th, t)
    <2>1. Keeps(grid, grid') /\ Sound(grid', Landed')
      BY <1>6, <1>9, <1>11 DEF Keeps
    <2>2. /\ access'[th].any_success = access[th].any_success
          /\ access'[th].new_edges = access[th].new_edges
      BY <1>3, <1>11
    <2>3. /\ access'[th].any_success => Reached(grid', access'[th].new_edges, off_grid)
          /\ IsPointedTo(grid', off_grid) => access'[th].any_success \/ LandsInVain(th)
          /\ \A e \in access'[th].new_edges : e[1] \in grid'.vertices /\ e[2] = off_grid
      BY <1>8, <1>11, <2>2
    <2> QED
      BY <1>10, <1>11, <2>1, <2>3
  <1>12. ASSUME NEW b \in grid.vertices, IsOn(grid, b, t), grid' = grid,
                access' = Jogged(th, t, b)
         PROVE  AccessInv'
    <2>1. Keeps(grid, grid')
      BY <1>12 DEF Keeps
    <2>2. Sound(grid', Landed')
      BY <1>6, <1>9, <1>12
    <2>3. Reached(grid', access'[th].new_edges, off_grid)
      <3>1. b \in Vertices
        BY <1>1 DEF Grids
      <3> QED
        BY <1>3, <1>12, <3>1 DEF Reached
    <2> QED
      BY <1>3, <1>8, <1>10, <1>12, <2>1, <2>2, <2>3
  <1>13. ASSUME grid.at[t][p] = NoVertex,
                \/ access' = Succeeded(th, t)
                \/ /\ Nearest[t][p] = p /\ DirectionOf[t] \notin access[th].directions
                   /\ access' = Done(th, t),
                NEW S \in ReachableSets(grid, t), grid' = Join(grid, t, p, off_grid, S)
         PROVE  AccessInv'
    <2>1. /\ grid'.vertices = grid.vertices /\ grid'.off_grid_edges = grid.off_grid_edges
      BY <1>1, <1>13 DEF Join, Grids
    <2>2. /\ Keeps(grid, grid') /\ IsOn(grid', off_grid, t)
          /\ \A u \in Tracks : \A w : IsOn(grid', w, u) => IsOn(grid, w, u) \/ (u = t /\ w = off_grid)
      BY <1>1, <1>2, <1>13, JoinKeeps
    <2>3. Sound(grid', Landed')
      <3>1. Sound(grid', Landed \cup {off_grid})
        BY <1>1, <1>2, <1>9, <1>13, JoinIsSound
      <3> QED
        BY <1>6, <3>1, SoundWithMore
    <2>4. Reached(grid', access'[th].new_edges, off_grid)
      BY <2>2 DEF Reached
    <2>5. access'[th].any_success \/ LandsInVain(th)
      BY <1>3, <1>13 DEF LandsInVain
    <2>6. \A e \in access'[th].new_edges : e[1] \in grid'.vertices /\ e[2] = off_grid
      BY <1>3, <1>8, <1>13, <2>1
    <2> QED
      BY <1>10, <2>1, <2>2, <2>3, <2>4, <2>5, <2>6
  <1>14. ASSUME NEW c \in Points, NEW new \in Vertices \ Allocated, grid.at[t][c] = NoVertex,
                NEW S \in ReachableSets(grid, t),
                grid' = AddOffGridVertex(Join(grid, t, c, new, S), new),
                access' = Jogged(th, t, new) \/ access' = Done(th, t)
         PROVE  AccessInv'
    <2> DEFINE J == Join(grid, t, c, new, S)
    <2>1. J \in Grids
      <3>1. S \in SUBSET Vertices
        BY DEF ReachableSets
      <3> QED
        BY <1>1, <3>1, JoinIsTyped, RemovalsAreTyped
    <2>2. /\ J.vertices = grid.vertices /\ J.off_grid_edges = grid.off_grid_edges
      BY <1>1 DEF Join, Grids
    <2>3. /\ grid'.vertices = grid.vertices \cup {new} /\ grid'.at = J.at
          /\ grid'.off_grid_edges = grid.off_grid_edges
      <3> HIDE DEF J
      <3> QED
        BY <1>14, <2>1, <2>2 DEF AddOffGridVertex, Grids, J
    <2>4. /\ Keeps(grid, J) /\ IsOn(J, new, t)
          /\ \A u \in Tracks : \A w : IsOn(J, w, u) => IsOn(grid, w, u) \/ (u = t /\ w = new)
      BY <1>1, <1>14, JoinKeeps
    <2>5. /\ Keeps(grid, grid') /\ IsOn(grid', new, t)
          /\ \A u \in Tracks : \A w : IsOn(grid', w, u) => IsOn(grid, w, u) \/ (u = t /\ w = new)
      BY <2>3, <2>4 DEF Keeps, IsOn
    <2>6. Sound(grid', Landed)
      <3>1. Sound(J, Landed \cup {new})
        BY <1>1, <1>2, <1>9, <1>14, JoinIsSound
      <3> QED
        BY <1>2, <1>14, <2>1, <3>1, AddedIsSound
    <2>8. Sound(grid', Landed')
      BY <1>6, <2>6
    <2>9. ASSUME access'[th].any_success
          PROVE  Reached(grid', access'[th].new_edges, off_grid)
      <3>1. CASE access' = Jogged(th, t, new)
        BY <1>3, <2>5, <3>1 DEF Reached
      <3>2. CASE access' = Done(th, t)
        BY <1>1, <1>2, <1>3, <1>8, <2>5, <2>9, <3>2, ReachedStays
      <3> QED
        BY <1>14, <3>1, <3>2
    <2>10. IsPointedTo(grid', off_grid) => access'[th].any_success \/ LandsInVain(th)
      <3>1. grid'.edges = grid.edges \cup {<<t, new, u>> : u \in S}
        <4>1. J.edges = grid.edges \cup {<<t, new, u>> : u \in S}
          BY <1>1 DEF Join, Grids
        <4> HIDE DEF J
        <4> QED
          BY <1>14, <2>1, <4>1 DEF AddOffGridVertex, Grids, J
      <3>2. off_grid \notin S /\ new # off_grid
        BY <1>1, <1>2, <1>8 DEF ReachableSets
      <3>3. IsPointedTo(grid', off_grid) => IsPointedTo(grid, off_grid)
        BY <2>5, <3>1, <3>2 DEF IsPointedTo
      <3> QED
        BY <1>3, <1>8, <1>14, <3>3
    <2>11. \A e \in access'[th].new_edges : e[1] \in grid'.vertices /\ e[2] = off_grid
      BY <1>3, <1>8, <1>14, <2>3
    <2> HIDE DEF J
    <2> QED
      BY <1>2, <1>10, <1>14, <2>3, <2>5, <2>8, <2>9, <2>10, <2>11
  <1> QED
    BY <1>11, <1>12, <1>13, <1>14, TryOutcomes

\* A candidate comes to nothing, or gives a vertex that is there or the one of the call:
\* on the track, next to a vertex that is there, or next to a new one.
AttachedOnTrack(th, t) ==
    \E S \in ReachableSets(grid, t) :
        /\ grid.at[t][access[th].point] = NoVertex
        /\ grid' = AddOffGridVertex(Join(grid, t, access[th].point, access[th].off_grid, S),
                                    access[th].off_grid)

WithJog(G, b, v) == [G EXCEPT !.off_grid_edges = @ \cup {<<b, v>>}]

AttachedByJog(th, t) ==
    \/ \E b \in grid.vertices :
           /\ IsOn(grid, b, t)
           /\ grid' = WithJog(AddOffGridVertex(grid, access[th].off_grid), b, access[th].off_grid)
    \/ \E c \in Points, new \in Vertices \ Allocated : \E S \in ReachableSets(grid, t) :
           /\ grid.at[t][c] = NoVertex
           /\ grid' = WithJog(AddOffGridVertex(AddOffGridVertex(Join(grid, t, c, new, S),
                                                                access[th].off_grid), new),
                              new, access[th].off_grid)

\* Both vertices of a candidate are rolled back.
LEMMA BothRollBack ==
    ASSUME Parameters, NEW G \in Grids, Sound(G, {}),
           NEW v \in Vertices, v \notin G.vertices, NEW w \in Vertices, w \notin G.vertices, w # v,
           NEW t \in Tracks, NEW p \in Points, G.at[t][p] = NoVertex, NEW S \in ReachableSets(G, t)
    PROVE  /\ RemoveVertex(AddOffGridVertex(G, v), v) = G
           /\ RemoveVertex(RemoveVertex(AddOffGridVertex(AddOffGridVertex(
                  Join(G, t, p, w, S), v), w), w), v) = G
  <1> DEFINE H == AddOffGridVertex(G, v)
             J == Join(G, t, p, w, S)
  <1>1. {} \in SUBSET Vertices /\ S \in SUBSET Vertices
    BY DEF ReachableSets
  <1>2. H \in Grids /\ H.vertices = G.vertices \cup {v} /\ H.at = G.at
    BY DEF AddOffGridVertex, Grids
  <1>3. Sound(H, {})
    <2>1. Sound(G, {} \cup {v})
      BY SoundWithMore
    <2> QED
      BY <1>1, <2>1, AddedIsSound
  <1>4. RemoveVertex(H, v) = G
    BY <1>1, VertexRollsBack
  <1>5. S \in ReachableSets(H, t)
    BY <1>2 DEF ReachableSets, IsOn
  <1>6. AddOffGridVertex(J, v) = Join(H, t, p, w, S)
    BY DEF AddOffGridVertex, Join, Grids
  <1> HIDE DEF H, J
  <1>7. RemoveVertex(AddOffGridVertex(Join(H, t, p, w, S), w), w) = H
    <2> DEFINE none == {}
    <2>1. w \notin H.vertices /\ w \notin none /\ H.at[t][p] = NoVertex
      BY <1>2
    <2>2. none \in SUBSET Vertices /\ Sound(H, none) /\ H \in Grids
      BY <1>2, <1>3
    <2> HIDE DEF none
    <2> QED
      BY <1>5, <2>1, <2>2, RollbackRestores
  <1> QED
    BY <1>4, <1>6, <1>7 DEF H, J

\* The choices of AttachTo for an outcome o.
AttachCases(th, o) ==
    LET bridging == o.vertex
        off_grid == access[th].off_grid
        owned == AddOffGridVertex(o.grid, off_grid)
        added == IF o.is_new THEN AddOffGridVertex(owned, bridging) ELSE owned
        returned == /\ access' = [access EXCEPT ![th].pc = "idle"]
                    /\ handed' = handed \cup {IF o.target_exists THEN bridging ELSE off_grid}
    IN \/ o.target_exists /\ returned /\ UNCHANGED grid
       \/ ~o.target_exists /\ bridging = off_grid /\ returned /\ grid' = owned
       \/ /\ ~o.target_exists /\ bridging # off_grid /\ returned
          /\ grid' = WithJog(added, bridging, off_grid)
       \/ /\ ~o.target_exists /\ bridging # off_grid
          /\ grid' = RemoveVertex(IF o.is_new THEN RemoveVertex(added, bridging)
                                              ELSE added, off_grid)
          /\ access' = [access EXCEPT ![th].pc = "rechoosing"]
          /\ UNCHANGED handed

LEMMA AttachOutcomes ==
    ASSUME Parameters, AccessInv, NEW th \in Threads, NEW t \in Tracks, AttachTo(th, t)
    PROVE  \/ /\ grid' = grid /\ handed' = handed
              /\ access' = [access EXCEPT ![th].todo = @ \ {t}]
           \/ grid' = grid /\ handed' = handed /\ access' = [access EXCEPT ![th].pc = "rechoosing"]
           \/ /\ grid' = grid /\ access' = [access EXCEPT ![th].pc = "idle"]
              /\ \E b \in grid.vertices : IsOn(grid, b, t) /\ handed' = handed \cup {b}
           \/ /\ AttachedOnTrack(th, t) \/ AttachedByJog(th, t)
              /\ access' = [access EXCEPT ![th].pc = "idle"]
              /\ handed' = handed \cup {access[th].off_grid}
  <1> DEFINE p == access[th].point
             off_grid == access[th].off_grid
             c == Nearest[t][p]
             idle == [access EXCEPT ![th].pc = "idle"]
             rolledBack == [access EXCEPT ![th].pc = "rechoosing"]
  <1>1. access[th].pc = "attaching" /\ grid \in Grids /\ access[th] \in Calls
    BY DEF AttachTo, AccessInv, Types
  <1>2. /\ off_grid \in Vertices /\ off_grid \notin grid.vertices /\ Landed = {}
        /\ \A new \in Vertices \ Allocated : new # off_grid /\ new \notin grid.vertices
    BY <1>1, OnTracks
  <1>3. Sound(grid, {})
    BY <1>2 DEF AccessInv
  <1>4. ~IsOn(grid, off_grid, t)
    BY <1>2, <1>3 DEF Sound, IsOn, Parameters
  <1>5. CASE access' = [access EXCEPT ![th].todo = @ \ {t}] /\ UNCHANGED <<grid, writer, handed>>
    BY <1>5
  <1>6. CASE ~(access' = [access EXCEPT ![th].todo = @ \ {t}]
               /\ UNCHANGED <<grid, writer, handed>>)
    <2>1. PICK new \in Vertices \ Allocated :
              \E o \in NearestVertices(grid, t, p, off_grid, new) : AttachCases(th, o)
      BY <1>6, Zenon DEF AttachTo, AttachCases, WithJog
    <2>2. PICK o \in NearestVertices(grid, t, p, off_grid, new) : AttachCases(th, o)
      BY <2>1
    <2> USE DEF AttachCases
    <2> DEFINE v == o.vertex
    <2>3. /\ c \in Points /\ v \in Vertices
          /\ v = off_grid <=> grid.at[t][c] = NoVertex /\ c = p
          /\ o.target_exists <=> grid.at[t][c] # NoVertex /\ c = p
          /\ o.is_new <=> grid.at[t][c] = NoVertex /\ c # p
          /\ grid.at[t][c] # NoVertex => o.grid = grid /\ v \in grid.vertices /\ IsOn(grid, v, t)
          /\ grid.at[t][c] = NoVertex =>
                 /\ v = IF c = p THEN off_grid ELSE new
                 /\ \E S \in ReachableSets(grid, t) : o.grid = Join(grid, t, c, v, S)
      BY <1>1, <1>4, NearestOutcomes
    <2> HIDE DEF idle, rolledBack
    <2>4. CASE o.target_exists
      BY <2>2, <2>3, <2>4 DEF idle
    <2>5. CASE v = off_grid
      <3>1. grid.at[t][p] = NoVertex /\ c = p /\ ~o.target_exists
        BY <2>3, <2>5
      <3>2. access' = idle /\ handed' = handed \cup {off_grid}
            /\ grid' = AddOffGridVertex(o.grid, off_grid)
        BY <2>2, <2>5, <3>1 DEF idle
      <3>3. AttachedOnTrack(th, t)
        BY <2>3, <2>5, <3>1, <3>2 DEF AttachedOnTrack
      <3> QED
        BY <3>2, <3>3 DEF idle
    <2>6. CASE ~o.target_exists /\ v # off_grid /\ ~o.is_new
      <3>1. o.grid = grid /\ v \in grid.vertices /\ IsOn(grid, v, t)
        BY <2>3, <2>6
      <3>2. RemoveVertex(AddOffGridVertex(grid, off_grid), off_grid) = grid
        BY <1>1, <1>2, <1>3, VertexRollsBack
      <3>3. CASE /\ access' = rolledBack /\ handed' = handed
                 /\ grid' = RemoveVertex(AddOffGridVertex(grid, off_grid), off_grid)
        BY <3>2, <3>3 DEF rolledBack
      <3>4. CASE /\ access' = idle /\ handed' = handed \cup {off_grid}
                 /\ grid' = WithJog(AddOffGridVertex(grid, off_grid), v, off_grid)
        BY <3>1, <3>4 DEF AttachedByJog, idle
      <3> QED
        BY <2>2, <2>6, <3>1, <3>3, <3>4 DEF idle, rolledBack
    <2>7. CASE o.is_new
      <3>1. PICK S \in ReachableSets(grid, t) : o.grid = Join(grid, t, c, new, S)
        BY <2>3, <2>7
      <3>2. v = new /\ v # off_grid /\ grid.at[t][c] = NoVertex /\ ~o.target_exists
        BY <2>3, <2>7
      <3>3. RemoveVertex(RemoveVertex(AddOffGridVertex(AddOffGridVertex(
                o.grid, off_grid), new), new), off_grid) = grid
        BY <1>1, <1>2, <1>3, <2>3, <3>1, <3>2, BothRollBack
      <3>4. CASE /\ access' = idle /\ handed' = handed \cup {off_grid}
                 /\ grid' = WithJog(AddOffGridVertex(AddOffGridVertex(o.grid, off_grid), new),
                                    new, off_grid)
        BY <2>3, <3>1, <3>2, <3>4 DEF AttachedByJog, idle
      <3> QED
        BY <2>2, <2>7, <3>2, <3>3, <3>4 DEF idle, rolledBack
    <2> QED
      BY <2>4, <2>5, <2>6, <2>7
  <1> QED
    BY <1>5, <1>6

LEMMA AttachKeeps ==
    ASSUME Parameters, AccessInv, Types', LocksExclude',
           NEW th \in Threads, NEW t \in Tracks, AttachTo(th, t),
           \A u \in Threads \ {th} : access'[u] = access[u]
    PROVE  AccessInv'
  <1> DEFINE p == access[th].point
             off_grid == access[th].off_grid
  <1>1. /\ access[th].pc = "attaching" /\ access[th] \in Calls
        /\ grid \in Grids /\ grid' \in Grids /\ access \in [Threads -> Calls]
        /\ NoVertex \notin Vertices /\ handed \subseteq grid.vertices /\ stranded' = {}
    BY DEF AttachTo, AccessInv, Types, Parameters
  <1>2. /\ off_grid \in Vertices /\ p \in Points /\ off_grid \in OffGrid(th)
        /\ off_grid \notin grid.vertices /\ Landed = {}
        /\ \A new \in Vertices \ Allocated : new # off_grid /\ new \notin grid.vertices
    BY <1>1, OnTracks
  <1>3. Sound(grid, {})
    BY <1>2 DEF AccessInv
  <1>4. access'[th].pc \in {"attaching", "rechoosing", "idle"}
    BY <1>1, AttachOutcomes DEF Calls
  <1>5. /\ \A u \in Threads : access[u].pc # "connecting" /\ access'[u].pc # "connecting"
        /\ Landed' = {}
    <2>1. \A u \in Threads : access[u].pc # "connecting" /\ access'[u].pc # "connecting"
      BY <1>1, <1>4 DEF AccessInv, LocksExclude
    <2> QED
      BY <2>1 DEF Landed
  <1>6. \A u \in Threads : Going(u)'
    BY <1>4, <1>5 DEF Going, AccessInv
  <1>7. \A u \in Threads \ {th} : OffGrid(u)' = OffGrid(u)
    BY DEF OffGrid
  \* The rest follows from what the outcomes have in common.
  <1>8. ASSUME Keeps(grid, grid'), grid.off_grid_edges \subseteq grid'.off_grid_edges,
               grid.vertices \subseteq grid'.vertices, Sound(grid', {}),
               \A v \in grid'.vertices :
                   v \in grid.vertices \/ v \notin Allocated \/ v = off_grid,
               \A v \in OffGrid(th)' : v \in OffGrid(th) /\ v \notin grid'.vertices,
               \A v \in handed' : v \in handed \/ (v \in grid'.vertices
                                                   /\ Reached(grid', grid'.off_grid_edges, v))
        PROVE  AccessInv'
    <2>1. Apart'
      BY <1>2, <1>7, <1>8 DEF Apart, AccessInv, Allocated
    <2>2. AccessIsReal'
      <3>1. ASSUME NEW v \in handed PROVE Reached(grid', grid'.off_grid_edges, v)
        <4>1. v \in Vertices /\ Reached(grid, grid.off_grid_edges, v)
          BY DEF AccessInv, AccessIsReal, Types
        <4> QED
          BY <1>1, <1>8, <4>1, ReachedStays
      <3> QED
        BY <1>8, <3>1 DEF AccessIsReal
    <2>3. handed' \subseteq grid'.vertices
      BY <1>1, <1>8
    <2>4. Sound(grid, Landed)'
      BY <1>5, <1>8
    <2> QED
      BY <1>1, <1>6, <2>1, <2>2, <2>3, <2>4 DEF AccessInv
  <1>9. ASSUME grid' = grid,
               \A v \in handed' : v \in handed \/ \E u \in Tracks :
                                      v \in grid.vertices /\ IsOn(grid, v, u)
        PROVE  AccessInv'
    <2>1. Keeps(grid, grid')
      BY <1>9 DEF Keeps
    <2>2. \A v \in OffGrid(th)' : v \in OffGrid(th) /\ v \notin grid'.vertices
      <3>1. access'[th].pc = "attaching" => access'[th].off_grid = off_grid
        BY <1>1, AttachOutcomes DEF Calls
      <3> QED
        BY <1>2, <1>4, <1>9, <3>1 DEF OffGrid
    <2>3. \A v \in handed' : v \in handed \/ (v \in grid'.vertices
                                              /\ Reached(grid', grid'.off_grid_edges, v))
      BY <1>9 DEF Reached
    <2> QED
      BY <1>3, <1>8, <1>9, <2>1, <2>2, <2>3
  <1>10. ASSUME access' = [access EXCEPT ![th].pc = "idle"], handed' = handed \cup {off_grid},
                AttachedOnTrack(th, t)
         PROVE  AccessInv'
    <2>1. PICK S \in ReachableSets(grid, t) :
              /\ grid.at[t][p] = NoVertex
              /\ grid' = AddOffGridVertex(Join(grid, t, p, off_grid, S), off_grid)
      BY <1>10 DEF AttachedOnTrack
    <2> DEFINE J == Join(grid, t, p, off_grid, S)
    <2>2. J \in Grids /\ J.vertices = grid.vertices /\ J.off_grid_edges = grid.off_grid_edges
      <3>1. S \in SUBSET Vertices
        BY DEF ReachableSets
      <3>2. J \in Grids
        BY <1>1, <1>2, <3>1, JoinIsTyped
      <3> QED
        BY <1>1, <3>2 DEF Join, Grids
    <2>3. Sound(grid', {})
      <3>1. Sound(J, {} \cup {off_grid})
        BY <1>1, <1>2, <1>3, JoinIsSound
      <3> QED
        BY <1>2, <2>1, <2>2, <3>1, AddedIsSound
    <2>4. Keeps(grid, J) /\ IsOn(J, off_grid, t)
      BY <1>1, <1>2, <2>1, JoinKeeps
    <2>5. /\ grid'.vertices = grid.vertices \cup {off_grid} /\ grid'.at = J.at
          /\ grid'.off_grid_edges = grid.off_grid_edges
      <3> HIDE DEF J
      <3> QED
        BY <2>1, <2>2 DEF AddOffGridVertex, Grids, J
    <2>6. Keeps(grid, grid') /\ IsOn(grid', off_grid, t)
      BY <2>4, <2>5 DEF Keeps, IsOn
    <2>7. Reached(grid', grid'.off_grid_edges, off_grid)
      BY <2>6 DEF Reached
    <2>8. OffGrid(th)' = {}
      BY <1>1, <1>10 DEF OffGrid, Calls
    <2> HIDE DEF J
    <2> QED
      BY <1>8, <1>10, <2>3, <2>5, <2>6, <2>7, <2>8
  <1>11. ASSUME access' = [access EXCEPT ![th].pc = "idle"], handed' = handed \cup {off_grid},
                AttachedByJog(th, t)
         PROVE  AccessInv'
    <2>1. OffGrid(th)' = {}
      BY <1>1, <1>11 DEF OffGrid, Calls
    \* K is the grid with the vertex that the jog begins at.
    <2>2. ASSUME NEW K \in Grids, NEW b \in K.vertices, Sound(K, {}), Keeps(grid, K),
                 IsOn(K, b, t), K.off_grid_edges = grid.off_grid_edges,
                 grid.vertices \subseteq K.vertices,
                 \A v \in K.vertices : v \in grid.vertices \/ v \notin Allocated,
                 grid' = WithJog(AddOffGridVertex(K, off_grid), b, off_grid)
          PROVE  AccessInv'
      <3> DEFINE H == AddOffGridVertex(K, off_grid)
      <3>1. H \in Grids /\ Sound(H, {})
        <4>1. Sound(K, {} \cup {off_grid})
          BY <2>2, SoundWithMore
        <4> QED
          BY <1>2, <4>1, RemovalsAreTyped, AddedIsSound
      <3>2. /\ H.vertices = K.vertices \cup {off_grid} /\ H.at = K.at
            /\ H.off_grid_edges = K.off_grid_edges
        BY DEF AddOffGridVertex, Grids
      <3> HIDE DEF H
      <3>3. /\ grid'.vertices = H.vertices /\ grid'.at = H.at /\ grid'.edges = H.edges
            /\ grid'.off_grid_edges = H.off_grid_edges \cup {<<b, off_grid>>}
        BY <2>2, <3>1 DEF WithJog, Grids, H
      <3>4. Sound(grid', {})
        BY <3>1, <3>2, <3>3 DEF Sound
      <3>5. Keeps(grid, grid') /\ IsOn(grid', b, t)
        BY <2>2, <3>2, <3>3 DEF Keeps, IsOn
      <3>6. Reached(grid', grid'.off_grid_edges, off_grid)
        <4>1. b \in Vertices
          BY DEF Grids
        <4> QED
          BY <3>3, <3>5, <4>1 DEF Reached
      <3> QED
        BY <1>8, <1>11, <2>1, <2>2, <3>2, <3>3, <3>4, <3>5, <3>6
    <2>3. ASSUME NEW b \in grid.vertices, IsOn(grid, b, t),
                 grid' = WithJog(AddOffGridVertex(grid, off_grid), b, off_grid)
          PROVE  AccessInv'
      <3>1. Keeps(grid, grid)
        BY DEF Keeps
      <3> QED
        BY <1>1, <1>3, <2>2, <2>3, <3>1
    <2>4. ASSUME NEW c \in Points, NEW new \in Vertices \ Allocated,
                 NEW S \in ReachableSets(grid, t), grid.at[t][c] = NoVertex,
                 grid' = WithJog(AddOffGridVertex(AddOffGridVertex(
                             Join(grid, t, c, new, S), off_grid), new), new, off_grid)
          PROVE  AccessInv'
      <3> DEFINE J == Join(grid, t, c, new, S)
                 K == AddOffGridVertex(J, new)
      <3>1. J \in Grids /\ J.vertices = grid.vertices /\ J.off_grid_edges = grid.off_grid_edges
        <4>1. S \in SUBSET Vertices
          BY DEF ReachableSets
        <4>2. J \in Grids
          BY <1>1, <4>1, JoinIsTyped
        <4> QED
          BY <1>1, <4>2 DEF Join, Grids
      <3>2. Keeps(grid, J) /\ IsOn(J, new, t)
        BY <1>1, <2>4, JoinKeeps
      <3>3. Sound(J, {} \cup {new})
        BY <1>1, <1>3, <2>4, JoinIsSound
      <3> HIDE DEF J
      <3>4. K \in Grids /\ Sound(K, {})
        BY <3>1, <3>3, RemovalsAreTyped, AddedIsSound
      <3>5. /\ K.vertices = grid.vertices \cup {new} /\ K.at = J.at
            /\ K.off_grid_edges = grid.off_grid_edges
        BY <3>1 DEF AddOffGridVertex, Grids
      <3>6. AddOffGridVertex(AddOffGridVertex(J, off_grid), new) = AddOffGridVertex(K, off_grid)
        BY <3>1 DEF AddOffGridVertex, Grids
      <3>7. Keeps(grid, K) /\ IsOn(K, new, t)
        BY <3>2, <3>5 DEF Keeps, IsOn
      <3> HIDE DEF K
      <3>8. grid' = WithJog(AddOffGridVertex(K, off_grid), new, off_grid)
        BY <2>4, <3>6 DEF J
      <3> QED
        BY <2>2, <3>4, <3>5, <3>7, <3>8
    <2> QED
      BY <1>11, <2>3, <2>4 DEF AttachedByJog
  <1> QED
    BY <1>9, <1>10, <1>11, AttachOutcomes

LEMMA FinishKeeps ==
    ASSUME Parameters, AccessInv, Types', LocksExclude', NEW th \in Threads, Finish(th),
           access[th].any_success, \A u \in Threads \ {th} : access'[u] = access[u]
    PROVE  AccessInv'
  <1> DEFINE off_grid == access[th].off_grid
             H == AddOffGridVertex(grid, off_grid)
  <1>1. /\ access[th].pc = "connecting" /\ access[th] \in Calls
        /\ grid \in Grids /\ grid' \in Grids /\ access \in [Threads -> Calls]
        /\ NoVertex \notin Vertices /\ handed' = handed \cup {off_grid} /\ stranded' = {}
        /\ access' = [access EXCEPT ![th].pc = "idle"]
        /\ grid' = [H EXCEPT !.off_grid_edges = @ \cup access[th].new_edges]
    BY DEF Finish, AccessInv, Types, Parameters
  <1>2. /\ off_grid \in Vertices /\ off_grid \in OffGrid(th) /\ Landed = {off_grid}
    <2>1. off_grid \in Landed
      BY <1>1 DEF Landed
    <2> QED
      BY <1>1, <2>1, OnTracks
  <1>3. /\ \A e \in access[th].new_edges : e[1] \in grid.vertices /\ e[2] = off_grid
        /\ Reached(grid, access[th].new_edges, off_grid)
    BY <1>1 DEF AccessInv, Going
  <1>4. H \in Grids /\ Sound(H, {})
    <2>1. Sound(grid, {} \cup {off_grid})
      BY <1>2 DEF AccessInv
    <2> QED
      BY <1>1, <1>2, <2>1, RemovalsAreTyped, AddedIsSound
  <1>5. /\ H.vertices = grid.vertices \cup {off_grid} /\ H.at = grid.at
        /\ H.off_grid_edges = grid.off_grid_edges
    BY <1>1 DEF AddOffGridVertex, Grids
  <1> HIDE DEF H
  <1>6. /\ grid'.vertices = H.vertices /\ grid'.at = H.at /\ grid'.edges = H.edges
        /\ grid'.off_grid_edges = H.off_grid_edges \cup access[th].new_edges
    BY <1>1, <1>4 DEF Grids
  <1>7. Sound(grid', {})
    BY <1>3, <1>4, <1>5, <1>6 DEF Sound
  <1>8. Keeps(grid, grid')
    BY <1>5, <1>6 DEF Keeps
  <1>9. access'[th].pc = "idle"
    BY <1>1 DEF Calls
  <1>10. Landed' = {} /\ \A u \in Threads : Going(u)'
    <2>1. \A u \in Threads : access'[u].pc # "connecting"
      BY <1>1, <1>9 DEF AccessInv, LocksExclude
    <2> QED
      BY <1>9, <2>1 DEF Landed, Going, AccessInv
  <1>11. Apart'
    <2>1. OffGrid(th)' = {} /\ \A u \in Threads \ {th} : OffGrid(u)' = OffGrid(u)
      BY <1>9 DEF OffGrid
    <2> QED
      BY <1>2, <1>5, <1>6, <2>1 DEF Apart, AccessInv
  <1>12. AccessIsReal'
    <2>1. ASSUME NEW v \in handed PROVE Reached(grid', grid'.off_grid_edges, v)
      <3>1. v \in Vertices /\ Reached(grid, grid.off_grid_edges, v)
        BY DEF AccessInv, AccessIsReal, Types
      <3>2. grid.off_grid_edges \subseteq grid'.off_grid_edges
        BY <1>5, <1>6
      <3> QED
        BY <1>1, <1>8, <3>1, <3>2, ReachedStays
    <2>2. Reached(grid', grid'.off_grid_edges, off_grid)
      <3>1. access[th].new_edges \subseteq grid'.off_grid_edges
        BY <1>6
      <3> QED
        BY <1>1, <1>2, <1>3, <1>8, <3>1, ReachedStays
    <2> QED
      BY <1>1, <2>1, <2>2 DEF AccessIsReal
  <1>13. handed' \subseteq grid'.vertices
    BY <1>1, <1>5, <1>6 DEF AccessInv
  <1> QED
    BY <1>1, <1>7, <1>10, <1>11, <1>12, <1>13 DEF AccessInv

\* A call that failed has its vertex deleted, which no track points to.
LEMMA FailureKeeps ==
    ASSUME Parameters, AccessInv, Types', LocksExclude', NEW th \in Threads, Finish(th),
           ~access[th].any_success, \A u \in Threads \ {th} : access'[u] = access[u],
           stranded' = {}
    PROVE  AccessInv'
  <1> DEFINE off_grid == access[th].off_grid
  <1>1. /\ access[th].pc = "connecting" /\ access[th] \in Calls /\ access \in [Threads -> Calls]
        /\ grid' = grid /\ handed' = handed /\ ~IsPointedTo(grid, off_grid)
        /\ access'[th].pc = "resharing"
    BY DEF Finish, AccessInv, Types, Calls
  <1>2. Landed \subseteq {off_grid}
    BY <1>1, OnTracks
  <1>3. Sound(grid, {})
    BY <1>1, <1>2 DEF AccessInv, Sound, IsPointedTo, IsOn
  <1>4. \A u \in Threads : access'[u].pc # "connecting"
    BY <1>1 DEF AccessInv, LocksExclude
  <1>5. Landed' = {} /\ \A u \in Threads : Going(u)'
    BY <1>1, <1>4 DEF Landed, Going, AccessInv
  <1>6. Apart'
    <2>1. OffGrid(th)' = {} /\ \A u \in Threads \ {th} : OffGrid(u)' = OffGrid(u)
      BY <1>1 DEF OffGrid
    <2> QED
      BY <1>1, <2>1 DEF Apart, AccessInv
  <1> QED
    BY <1>1, <1>3, <1>5, <1>6 DEF AccessInv, AccessIsReal

LEMMA StrandedStays ==
    ASSUME [Next]_vars PROVE stranded \subseteq stranded'
  <1>1. CASE UNCHANGED vars
    BY <1>1 DEF vars
  <1>2. ASSUME NEW th \in Threads, Finish(th) PROVE stranded \subseteq stranded'
    BY <1>2 DEF Finish
  <1>3. ASSUME NEW th \in Threads,
               \/ Begin(th) \/ ReturnExisting(th) \/ TryOption(th) \/ Lock(th)
               \/ FallBack(th) \/ Share(th) \/ TakeCandidate(th) \/ NoCandidate(th)
               \/ GiveUpCandidate(th)
               \/ \E t \in Tracks : ConnectToTrack(th, t) \/ AttachTo(th, t)
        PROVE  stranded' = stranded
    BY <1>3 DEF Begin, ReturnExisting, TryOption, Lock, FallBack, Share, TakeCandidate,
                NoCandidate, GiveUpCandidate, ConnectToTrack, AttachTo
  <1> QED
    BY <1>1, <1>2, <1>3 DEF Next

\* What holds until a vertex is deleted under a track.
Kept == stranded = {} => AccessInv

LEMMA StepKeepsAccess ==
    ASSUME Parameters, AccessInv, [Next]_vars, stranded' = {}
    PROVE  AccessInv'
  <1>1. Types' /\ LocksExclude'
    BY StepKeepsTypes, StepKeepsLocks DEF AccessInv
  <1>2. CASE UNCHANGED vars
    BY <1>1, <1>2 DEF vars, AccessInv, Types, LocksExclude, Apart, OffGrid, Landed, Going,
                      LandsInVain, AccessIsReal
  <1>3. ASSUME NEW th \in Threads, \A u \in Threads \ {th} : access'[u] = access[u], grid' = grid,
               \/ Begin(th) \/ TryOption(th) \/ Lock(th) \/ FallBack(th) \/ Share(th)
               \/ TakeCandidate(th) \/ NoCandidate(th) \/ GiveUpCandidate(th)
               \/ ReturnExisting(th)
        PROVE  Apart' /\ Sound(grid, Landed)' /\ \A u \in Threads : Going(u)'
    <2>1. access[th] \in Calls /\ access \in [Threads -> Calls]
      BY DEF AccessInv, Types
    \* What QuietSteps asks for.
    <2> DEFINE Quiet ==
            /\ \A v \in OffGrid(th)' : v \in OffGrid(th) \/ v \notin Allocated
            /\ access[th].pc # "connecting"
            /\ access'[th].pc = "connecting" =>
                   ~access'[th].any_success /\ access'[th].new_edges = {}
            /\ access'[th].pc \in {"waiting", "connecting"} =>
                   access'[th].directions \in AccessDirections \ {{}}
    <2> SUFFICES Quiet
      BY <1>1, <1>3, QuietSteps
    <2>2. CASE access'[th].pc \notin {"waiting", "connecting", "claiming", "attaching"}
               /\ access[th].pc # "connecting"
      BY <2>2 DEF OffGrid
    <2>3. CASE Begin(th)
      <3>1. access'[th].pc = "looking" /\ access[th].pc = "idle"
        BY <2>1, <2>3 DEF Begin, Calls
      <3> QED
        BY <2>2, <3>1
    <2>4. CASE ReturnExisting(th) \/ NoCandidate(th) \/ FallBack(th) \/ GiveUpCandidate(th)
               \/ Share(th)
      <3>1. /\ access'[th].pc \in {"idle", "fallback", "reclaiming", "looking", "choosing",
                                   "rechoosing"}
            /\ access[th].pc # "connecting"
        BY <2>1, <2>4 DEF ReturnExisting, NoCandidate, FallBack, GiveUpCandidate, Share, Calls
      <3> QED
        BY <2>2, <3>1
    <2>5. CASE TryOption(th)
      <3>1. access[th].pc = "looking"
        BY <2>5 DEF TryOption
      <3>2. PICK o \in access[th].options : \E directions \in AccessDirections :
                \/ access' = [access EXCEPT ![th].options = @ \ {o}]
                \/ /\ directions # {}
                   /\ \E v \in Vertices \ Allocated, nearest_tracks \in SUBSET TracksOf[o] :
                        access' = [access EXCEPT ![th].pc = "waiting", ![th].options = @ \ {o},
                                                 ![th].off_grid = v, ![th].directions = directions,
                                                 ![th].todo = nearest_tracks]
        BY <2>5 DEF TryOption
      <3>3. CASE access' = [access EXCEPT ![th].options = @ \ {o}]
        <4>1. access'[th].pc = "looking"
          BY <2>1, <3>1, <3>3 DEF Calls
        <4> QED
          BY <2>2, <3>1, <4>1
      <3>4. ASSUME NEW directions \in AccessDirections \ {{}}, NEW v \in Vertices \ Allocated,
                   NEW nearest_tracks,
                   access' = [access EXCEPT ![th].pc = "waiting", ![th].options = @ \ {o},
                                            ![th].off_grid = v, ![th].directions = directions,
                                            ![th].todo = nearest_tracks]
            PROVE  Quiet
        <4>1. access'[th].pc = "waiting" /\ access'[th].off_grid = v
              /\ access'[th].directions = directions
          BY <2>1, <3>4 DEF Calls
        <4> QED
          BY <3>1, <4>1 DEF OffGrid
      <3> QED
        BY <2>2, <3>2, <3>3, <3>4
    <2>6. CASE Lock(th)
      <3>1. CASE access[th].pc = "waiting"
        <4>1. /\ access'[th].pc = "connecting" /\ ~access'[th].any_success
              /\ access'[th].new_edges = {} /\ access'[th].off_grid = access[th].off_grid
              /\ access'[th].directions = access[th].directions
          BY <2>1, <2>6, <3>1 DEF Lock, Calls
        <4>2. access[th].directions \in AccessDirections \ {{}}
          BY <3>1 DEF AccessInv, Going
        <4> QED
          BY <3>1, <4>1, <4>2 DEF OffGrid
      <3>2. CASE access[th].pc = "claiming"
        <4>1. access'[th].pc = "attaching" /\ access'[th].off_grid = access[th].off_grid
          BY <2>1, <2>6, <3>2 DEF Lock, Calls
        <4> QED
          BY <3>2, <4>1 DEF OffGrid
      <3> QED
        BY <2>6, <3>1, <3>2 DEF Lock
    <2>7. CASE TakeCandidate(th)
      <3>1. PICK v \in grid.vertices, new \in Vertices \ Allocated :
                access' = IF th \in readers
                              THEN [access EXCEPT ![th].pc = "claiming", ![th].off_grid = new,
                                                  ![th].todo = {t \in Tracks : IsOn(grid, v, t)}]
                              ELSE [access EXCEPT ![th].pc = "thrown"]
        BY <2>7 DEF TakeCandidate
      <3>2. /\ access[th].pc \in {"choosing", "rechoosing"}
            /\ \/ access'[th].pc = "claiming" /\ access'[th].off_grid = new
               \/ access'[th].pc = "thrown"
        BY <2>1, <2>7, <3>1 DEF TakeCandidate, Calls
      <3> QED
        BY <3>2 DEF OffGrid
    <2> QED
      BY <1>3, <2>3, <2>4, <2>5, <2>6, <2>7
  <1>4. ASSUME NEW th \in Threads, \A u \in Threads \ {th} : access'[u] = access[u],
               \/ Begin(th) \/ TryOption(th) \/ Lock(th) \/ FallBack(th) \/ Share(th)
               \/ TakeCandidate(th) \/ NoCandidate(th) \/ GiveUpCandidate(th)
        PROVE  AccessInv'
    <2>1. grid' = grid /\ handed' = handed
      BY <1>4 DEF Begin, TryOption, Lock, FallBack, Share, TakeCandidate, NoCandidate,
                  GiveUpCandidate
    <2> QED
      BY <1>1, <1>3, <1>4, <2>1 DEF AccessInv, AccessIsReal
  <1>5. ASSUME NEW th \in Threads, \A u \in Threads \ {th} : access'[u] = access[u],
               ReturnExisting(th)
        PROVE  AccessInv'
    <2>1. grid' = grid /\ Apart' /\ Sound(grid, Landed)' /\ \A u \in Threads : Going(u)'
      BY <1>3, <1>5 DEF ReturnExisting
    <2>2. PICK o \in access[th].options : \E v \in VertexAt(o, access[th].point) :
              handed' = handed \cup {v}
      BY <1>5 DEF ReturnExisting
    <2>3. PICK v \in VertexAt(o, access[th].point) : handed' = handed \cup {v}
      BY <2>2
    <2>4. /\ access[th].pc = "looking" /\ access[th] \in Calls
          /\ o \in Options /\ access[th].point \in Points
      BY <1>5 DEF ReturnExisting, AccessInv, Types, Calls, Parameters
    <2>5. v \in Vertices /\ \E t \in Tracks : grid.at[t][access[th].point] = v
      BY <2>4 DEF VertexAt, Parameters
    <2>6. Landed = {}
      <3>1. writer = NoThread /\ NoThread \notin Threads
        BY <2>4 DEF AccessInv, Types, LocksExclude, Parameters
      <3> QED
        BY <3>1 DEF AccessInv, LocksExclude, Landed
    <2>7. v \in grid.vertices
      BY <2>4, <2>5, <2>6 DEF AccessInv, Sound, Parameters
    <2>8. Reached(grid, grid.off_grid_edges, v)
      BY <2>4, <2>5 DEF Reached, IsOn
    <2> QED
      BY <1>1, <2>1, <2>3, <2>7, <2>8 DEF AccessInv, AccessIsReal
  <1>6. ASSUME NEW th \in Threads, \A u \in Threads \ {th} : access'[u] = access[u],
               NEW t \in Tracks, ConnectToTrack(th, t) \/ AttachTo(th, t)
        PROVE  AccessInv'
    BY <1>1, <1>6, TryKeeps, AttachKeeps
  <1>7. ASSUME NEW th \in Threads, \A u \in Threads \ {th} : access'[u] = access[u],
               Finish(th)
        PROVE  AccessInv'
    BY <1>1, <1>7, FinishKeeps, FailureKeeps
  <1>8. ASSUME NEW th \in Threads,
               \/ Begin(th) \/ ReturnExisting(th) \/ TryOption(th) \/ Lock(th) \/ Finish(th)
               \/ FallBack(th) \/ Share(th) \/ TakeCandidate(th) \/ NoCandidate(th)
               \/ GiveUpCandidate(th)
               \/ \E t \in Tracks : ConnectToTrack(th, t) \/ AttachTo(th, t)
        PROVE  AccessInv'
    <2>1. \A u \in Threads \ {th} : access'[u] = access[u]
      BY <1>8, OthersStay DEF AccessInv
    <2> QED
      BY <1>4, <1>5, <1>6, <1>7, <1>8, <2>1
  <1> QED
    BY <1>2, <1>8 DEF Next

LEMMA AccessInvHolds ==
    ASSUME Parameters
    PROVE  Spec => [](Types /\ LocksExclude /\ Kept)
  <1>1. Init => AccessInv
    <2> SUFFICES ASSUME Init PROVE AccessInv
      OBVIOUS
    <2>1. Types /\ LocksExclude
      BY DEF Init, Types, LocksExclude, Parameters
    <2>2. \A th \in Threads : access[th].pc = "idle"
      BY DEF Init
    <2>3. Landed = {} /\ \A th \in Threads : OffGrid(th) = {} /\ Going(th)
      BY <2>2 DEF Landed, OffGrid, Going
    <2>4. Sound(grid, {})
      <3>1. ASSUME NEW e \in grid.edges PROVE e[2] \in grid.vertices /\ e[3] \in grid.vertices
        <4>1. e[1] \in Tracks /\ e[2] \in Vertices /\ e[3] \in Vertices
          BY <2>1 DEF Types, Grids
        <4>2. IsOn(grid, e[2], e[1]) /\ IsOn(grid, e[3], e[1])
          BY DEF Init
        <4> QED
          BY <4>1, <4>2 DEF Init, IsOn, Parameters
      <3> QED
        BY <3>1 DEF Init, Sound
    <2> QED
      BY <2>1, <2>3, <2>4 DEF AccessInv, Apart, AccessIsReal, Init
  <1>2. AccessInv => Types /\ LocksExclude /\ Kept
    BY DEF AccessInv, Kept
  <1>3. Types /\ LocksExclude /\ [Next]_vars => Types' /\ LocksExclude'
    BY StepKeepsTypes, StepKeepsLocks
  <1>4. Kept /\ [Next]_vars => Kept'
    <2> SUFFICES ASSUME Kept, [Next]_vars, stranded' = {} PROVE AccessInv'
      BY DEF Kept
    <2>1. stranded = {}
      BY StrandedStays
    <2> QED
      BY <2>1, StepKeepsAccess DEF Kept
  <1> QED
    BY <1>1, <1>2, <1>3, <1>4, PTL DEF Spec

\* When nobody changes the grid, it owns all that its tracks and edges point to, however
\* the calls of several threads fail, roll back and fall back, until a vertex is deleted
\* that has landed on a track.
THEOREM NothingIsLeftDangling ==
    ASSUME Parameters
    PROVE  Spec => []NothingDangles
  <1>1. LocksExclude /\ Kept => NothingDangles
    <2> SUFFICES ASSUME AccessInv, writer = NoThread PROVE NothingDangles
      BY DEF Kept, NothingDangles
    <2>1. Landed = {}
      BY DEF AccessInv, LocksExclude, Landed, Parameters
    <2> QED
      BY <2>1 DEF AccessInv, Sound, NothingDangles
  <1> QED
    BY <1>1, AccessInvHolds, PTL

\* And what deletes the first such vertex is a call for a port that lies on a track along
\* which it may not be entered: nothing else ever leaves a track pointing to what is gone.
THEOREM OnlyLandingsInVainStrand ==
    ASSUME Parameters
    PROVE  Spec => StrandedInVain
  <1>1. ASSUME AccessInv, [Next]_vars, stranded = {}, stranded' # {}
        PROVE  \E th \in Threads : /\ access[th].pc = "connecting" /\ LandsInVain(th)
                                   /\ stranded' = {access[th].off_grid}
    <2>1. PICK th \in Threads : Finish(th)
      <3>1. ASSUME NEW th \in Threads,
                   \/ Begin(th) \/ ReturnExisting(th) \/ TryOption(th) \/ Lock(th)
                   \/ FallBack(th) \/ Share(th) \/ TakeCandidate(th) \/ NoCandidate(th)
                   \/ GiveUpCandidate(th)
                   \/ \E t \in Tracks : ConnectToTrack(th, t) \/ AttachTo(th, t)
            PROVE  stranded' = stranded
        BY <3>1 DEF Begin, ReturnExisting, TryOption, Lock, FallBack, Share, TakeCandidate,
                    NoCandidate, GiveUpCandidate, ConnectToTrack, AttachTo
      <3>2. stranded' # stranded
        BY <1>1
      <3> QED
        BY <1>1, <3>1, <3>2 DEF Next, vars
    <2>2. /\ access[th].pc = "connecting" /\ ~access[th].any_success
          /\ stranded' = {v \in {access[th].off_grid} : IsPointedTo(grid, v)}
      BY <1>1, <2>1 DEF Finish
    <2>3. IsPointedTo(grid, access[th].off_grid) /\ stranded' = {access[th].off_grid}
      BY <1>1, <2>2
    <2>4. LandsInVain(th)
      BY <1>1, <2>2, <2>3 DEF AccessInv, Going
    <2> QED
      BY <2>2, <2>3, <2>4
  <1>2. Kept /\ [Next]_vars =>
            [stranded = {} /\ stranded' # {} =>
                \E th \in Threads : /\ access[th].pc = "connecting" /\ LandsInVain(th)
                                    /\ stranded' = {access[th].off_grid}]_vars
    BY <1>1 DEF Kept
  <1> QED
    BY <1>2, AccessInvHolds, PTL DEF Spec, StrandedInVain

\* The vertex that a call returns is on a track, or next to one that is, and stays so,
\* although the shared lock is given up before the unique one is taken; until a vertex is
\* deleted under a track, after which its address may come to mean another.
THEOREM AccessIsJoined ==
    ASSUME Parameters
    PROVE  Spec => []AccessIsReal
  <1>1. Kept => AccessIsReal
    BY DEF Kept, AccessInv, AccessIsReal
  <1> QED
    BY <1>1, AccessInvHolds, PTL

\* A candidate either gives the vertex that is returned or leaves the grid as it was,
\* with both of its vertices rolled back.
THEOREM CandidatesRollBack ==
    ASSUME Parameters
    PROVE  Spec => CandidatesLeaveNoTrace
  <1>1. ASSUME AccessInv, [Next]_vars, NEW th \in Threads,
               access[th].pc = "attaching", grid' # grid
        PROVE  access[th].off_grid \in handed' \ handed
    <2>1. access[th].off_grid \notin handed
      BY <1>1, OnTracks DEF AccessInv
    <2>2. writer = th
      BY <1>1 DEF AccessInv, LocksExclude
    <2>3. PICK u \in Threads :
              \/ Finish(u) \/ \E t \in Tracks : ConnectToTrack(u, t) \/ AttachTo(u, t)
      BY <1>1 DEF Next, vars, Begin, ReturnExisting, TryOption, Lock, FallBack, Share,
                  TakeCandidate, NoCandidate, GiveUpCandidate
    <2>4. u = th
      BY <1>1, <2>2, <2>3 DEF Finish, ConnectToTrack, AttachTo, AccessInv, LocksExclude
    <2>5. PICK t \in Tracks : AttachTo(th, t)
      BY <1>1, <2>3, <2>4 DEF Finish, ConnectToTrack
    <2> QED
      BY <1>1, <2>1, <2>5, AttachOutcomes
  <1>2. Kept /\ [Next]_vars =>
            [\A th \in Threads :
                stranded = {} /\ access[th].pc = "attaching" /\ grid' # grid =>
                    access[th].off_grid \in handed' \ handed]_vars
    BY <1>1 DEF Kept
  <1> QED
    BY <1>2, AccessInvHolds, PTL DEF Spec, CandidatesLeaveNoTrace

\* A track that is tried in vain leaves no trace in the grid unless the port may not be
\* entered that way, whatever the other directions: then what stays is the vertex of the
\* port, where it has landed, or a vertex on the track that the grid owns.
THEOREM TriesRollBack ==
    ASSUME Parameters
    PROVE  Spec => TriesLeaveNoTrace
  <1> DEFINE landed(th, t) == /\ IsOn(grid', access[th].off_grid, t)
                              /\ ~IsOn(grid, access[th].off_grid, t)
             Trace(th, t) ==
                 \/ /\ access'[th].any_success
                    /\ access'[th].new_edges # access[th].new_edges \/ landed(th, t)
                 \/ DirectionOf[t] \notin access[th].directions /\ landed(th, t)
                 \/ /\ JogDirection(t) \notin access[th].directions
                    /\ \E b \in grid'.vertices \ grid.vertices : IsOn(grid', b, t)
  <1>1. ASSUME AccessInv, [Next]_vars, NEW th \in Threads,
               access[th].pc = "connecting", access'[th].pc = "connecting", grid' # grid
        PROVE  \E t \in access[th].todo \ access'[th].todo : Trace(th, t)
    <2>1. writer = th /\ access[th] \in Calls /\ access \in [Threads -> Calls] /\ grid \in Grids
      BY <1>1 DEF AccessInv, LocksExclude, Types
    <2>2. PICK u \in Threads :
              \/ Finish(u) \/ \E t \in Tracks : ConnectToTrack(u, t) \/ AttachTo(u, t)
      BY <1>1 DEF Next, vars, Begin, ReturnExisting, TryOption, Lock, FallBack, Share,
                  TakeCandidate, NoCandidate, GiveUpCandidate
    <2>3. u = th
      BY <1>1, <2>1, <2>2 DEF Finish, ConnectToTrack, AttachTo, AccessInv, LocksExclude
    <2>4. PICK t \in Tracks : ConnectToTrack(th, t)
      <3>1. ~Finish(th)
        BY <1>1, <2>1 DEF Finish, Calls
      <3> QED
        BY <1>1, <2>2, <2>3, <3>1 DEF AttachTo
    <2> DEFINE off_grid == access[th].off_grid
    <2>5. /\ off_grid \in Vertices /\ access[th].point \in Points
          /\ \A new \in Vertices \ Allocated : new \notin grid.vertices
      BY <1>1, OnTracks
    <2>6. t \in access[th].todo /\ ~IsOn(grid, off_grid, t)
      BY <1>1, <2>4 DEF ConnectToTrack, AccessInv, Going
    <2>7. /\ Done(th, t)[th].todo = access[th].todo \ {t}
          /\ Succeeded(th, t)[th].any_success
          /\ Succeeded(th, t)[th].todo = access[th].todo \ {t}
          /\ \A b : /\ Jogged(th, t, b)[th].any_success
                    /\ Jogged(th, t, b)[th].todo = access[th].todo \ {t}
                    /\ Jogged(th, t, b)[th].new_edges = access[th].new_edges \cup {<<b, off_grid>>}
      BY <2>1 DEF Done, Succeeded, Jogged, Calls
    <2>8. t \in access[th].todo \ access'[th].todo
      <3>1. \/ access' = Done(th, t) \/ access' = Succeeded(th, t)
            \/ \E b : access' = Jogged(th, t, b)
        BY <1>1, <2>4, TryOutcomes
      <3> QED
        BY <2>6, <2>7, <3>1
    <2>9. ASSUME grid.at[t][access[th].point] = NoVertex,
                 \/ access' = Succeeded(th, t)
                 \/ DirectionOf[t] \notin access[th].directions,
                 NEW S \in ReachableSets(grid, t),
                 grid' = Join(grid, t, access[th].point, off_grid, S)
          PROVE  Trace(th, t)
      <3>1. IsOn(grid', off_grid, t)
        BY <2>1, <2>5, <2>9, JoinKeeps
      <3> QED
        BY <2>6, <2>7, <2>9, <3>1
    <2>10. ASSUME NEW new \in Vertices \ Allocated, access' = Jogged(th, t, new)
           PROVE  Trace(th, t)
      <3>1. <<new, off_grid>> \notin access[th].new_edges
        <4>1. \A e \in access[th].new_edges : e[1] \in grid.vertices
          BY <1>1 DEF AccessInv, Going
        <4> QED
          BY <2>5, <4>1
      <3> QED
        BY <2>7, <2>10, <3>1
    <2>11. ASSUME NEW c \in Points, NEW new \in Vertices \ Allocated, grid.at[t][c] = NoVertex,
                  NEW S \in ReachableSets(grid, t),
                  grid' = AddOffGridVertex(Join(grid, t, c, new, S), new),
                  JogDirection(t) \notin access[th].directions
           PROVE  Trace(th, t)
      <3> DEFINE J == Join(grid, t, c, new, S)
      <3>1. IsOn(J, new, t)
        BY <2>1, <2>11, JoinKeeps
      <3>2. J \in Grids
        <4>1. S \in SUBSET Vertices
          BY DEF ReachableSets
        <4> QED
          BY <2>1, <2>11, <4>1, JoinIsTyped
      <3> HIDE DEF J
      <3>3. new \in grid'.vertices /\ grid'.at = J.at
        BY <2>11, <3>2 DEF AddOffGridVertex, Grids, J
      <3>4. IsOn(grid', new, t)
        BY <3>1, <3>3 DEF IsOn
      <3> QED
        BY <2>5, <2>11, <3>3, <3>4
    <2>12. Trace(th, t)
      <3> HIDE DEF Trace
      <3> QED
        BY <1>1, <2>4, <2>9, <2>10, <2>11, TryOutcomes
    <2> QED
      BY <2>8, <2>12
  <1>2. Kept /\ [Next]_vars =>
            [\A th \in Threads :
                LET off_grid == access[th].off_grid
                    arrived(t) == IsOn(grid', off_grid, t) /\ ~IsOn(grid, off_grid, t)
                IN stranded = {} /\ access[th].pc = "connecting" /\ access'[th].pc = "connecting"
                   /\ grid' # grid =>
                       \E t \in access[th].todo \ access'[th].todo :
                           \/ /\ access'[th].any_success
                              /\ access'[th].new_edges # access[th].new_edges \/ arrived(t)
                           \/ DirectionOf[t] \notin access[th].directions /\ arrived(t)
                           \/ /\ JogDirection(t) \notin access[th].directions
                              /\ \E b \in grid'.vertices \ grid.vertices : IsOn(grid', b, t)]_vars
    BY <1>1 DEF Kept
  <1> QED
    BY <1>2, AccessInvHolds, PTL DEF Spec, TriesLeaveNoTrace

\* What happens where a port on a track may not be entered along it and no other track
\* will do: the vertex is deleted, and the track keeps pointing to it.
THEOREM LandingInVainDangles ==
    ASSUME Parameters, Types, NEW th \in Threads, Finish(th), ~access[th].any_success,
           NEW t \in Tracks, IsOn(grid, access[th].off_grid, t),
           access[th].off_grid \notin grid.vertices
    PROVE  /\ access[th].off_grid \in stranded'
           /\ writer' = NoThread
           /\ \E p \in Points : grid'.at[t][p] \notin grid'.vertices \cup {NoVertex}
  <1>1. /\ access[th].off_grid \in Vertices /\ NoVertex \notin Vertices
        /\ writer' = NoThread /\ grid' = grid
    BY DEF Finish, Types, Calls, Parameters
  <1>2. PICK p \in Points : grid.at[t][p] = access[th].off_grid
    BY DEF IsOn
  <1>3. access[th].off_grid \in stranded'
    BY DEF Finish, IsPointedTo
  <1> QED
    BY <1>1, <1>2, <1>3
====
