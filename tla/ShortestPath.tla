---- MODULE ShortestPath ----
(***************************************************************************)
(* RoutingGrid::ShortestPath, step by step: its costs, its back-pointers   *)
(* and its std::priority_queue, whose keys change while vertices wait in   *)
(* it, so that it need not stay a heap.  A search is a record; it is begun,*)
(* takes vertices off the queue and relaxes their edges in any order (they *)
(* are kept in a std::set of pointers), all under the shared lock.         *)
(*                                                                         *)
(* PathSearch says what these steps arrive at; RouteSearches checks that   *)
(* they do.                                                                *)
(***************************************************************************)
EXTENDS PathSearch

CONSTANT NoVertex   \* a null pointer

ASSUME NoVertexAssumption == NoVertex \notin Vertices

-----------------------------------------------------------------------------
\* libstdc++'s binary heap with the cheapest vertex on top, q[1].  "cost" is
\* consulted as it is now, not as it was when the vertices were pushed.

\* The vertex w, held back from place i of q, moves up past dearer ones.
MoveUp(q, i, w, cost) ==
    LET ends[j \in 1..i] ==
            IF j > 1 /\ cost[q[j \div 2]] > cost[w] THEN ends[j \div 2] ELSE j
        passed[j \in 1..i] ==
            IF j <= ends[i] THEN {} ELSE {j} \cup passed[j \div 2]
    IN  [j \in DOMAIN q |-> IF j = ends[i] THEN w
                            ELSE IF j \in passed[i] \ {1} THEN q[j \div 2] ELSE q[j]]

PushHeap(q, v, cost) == MoveUp(Append(q, v), Len(q) + 1, v, cost)

\* The hole at the top moves down past the cheaper child (the right one if
\* they cost the same) to a leaf, and the last vertex moves up from there.
PopHeap(q, cost) ==
    LET last == Len(q) - 1
        child(j) ==
            IF 2 * j < last /\ cost[q[2 * j + 1]] <= cost[q[2 * j]] THEN 2 * j + 1 ELSE 2 * j
        hole[k \in 0..last] ==
            IF k = 0 THEN 1 ELSE IF 2 * hole[k - 1] > last THEN hole[k - 1] ELSE child(hole[k - 1])
        down == {hole[k] : k \in 0..last}
    IN  IF last = 0 THEN <<>>
        ELSE MoveUp([j \in 1..last |->
                        IF j \in down /\ 2 * j <= last THEN q[child(j)] ELSE q[j]],
                    hole[last], q[Len(q)], cost)

-----------------------------------------------------------------------------
\* The state of a search for net n.  Its cost function is defined on the
\* vertices seen; all others still cost numeric_limits<double>::max().

\* Where a search of net n may end; toNet has a vertex in "end" for form only.
IsEnd(s, v, n) == IF s.toNet THEN IsTarget(v, n) ELSE v = s.end

BeginSearch(begin, end, toNet) ==
    [begin |-> begin, end |-> end, toNet |-> toNet,
     cost |-> [v \in {begin} |-> 0],
     prev |-> [v \in {begin} |-> NoVertex],
     queue |-> <<begin>>, current |-> NoVertex, next |-> {}, found |-> {}]

StepCost(u, v) == EdgeBetween(u, v).hi - EdgeBetween(u, v).lo

Put(f, x, y) == [z \in DOMAIN f \cup {x} |-> IF z = x THEN y ELSE f[z]]

\* Mutants: an edge is always followed, or only to a vertex not yet seen.
AlwaysFollow(s, u, v) == TRUE
FollowOnce(s, u, v) == v \notin DOMAIN s.cost

Improves(s, u, v) ==
    v \in DOMAIN s.cost => s.cost[u] + StepCost(u, v) < s.cost[v]

\* May the search leave u for v?  A change of layer at u needs a via there.
CanStep(s, u, v, n) ==
    LET e == EdgeBetween(u, v) IN
    /\ \E d \in Layers : OnTrack(u, v, d)
    /\ IF s.toNet THEN EdgeUsableToNet(e, n) ELSE EdgeUsable(e, n)
    /\ s.prev[u] # NoVertex /\ edgeLayer[EdgeBetween(s.prev[u], u)] # edgeLayer[e]
           => AvailableForVia(u, n)

\* The vertex on top is taken off the queue.  What its edges then change is
\* decided by its own cost and back-pointer, which they leave alone.
Pop(s, n) ==
    LET u == s.queue[1]
        usable == AvailableOnAnyLayer(u, n)
        rest == [s EXCEPT !.queue = PopHeap(s.queue, s.cost)]
    IN  IF ~usable THEN rest
        ELSE IF IsEnd(s, u, n) THEN [rest EXCEPT !.found = @ \cup {u}]
        ELSE [rest EXCEPT !.current = u,
                          !.next = {v \in Vertices : CanStep(s, u, v, n) /\ Improves(s, u, v)}]

\* The edge from the current vertex to v lowers v's cost.  A vertex is queued
\* the first time only, and it is not moved in the queue later.
Relax(s, v) ==
    LET u == s.current
        cost == Put(s.cost, v, s.cost[u] + StepCost(u, v))
    IN  [s EXCEPT !.cost = cost,
                  !.prev = Put(s.prev, v, u),
                  !.queue = IF v \in DOMAIN s.cost THEN @ ELSE PushHeap(@, v, cost),
                  !.next = @ \ {v}]

Searched(s) == s.next = {} /\ s.queue = <<>>

\* The vertices from begin to v, along the back-pointers.
Backtrack(s, v) ==
    LET back[k \in 0..Cardinality(DOMAIN s.prev)] ==
            IF k = 0 THEN <<v>>
            ELSE IF s.prev[back[k - 1][1]] = NoVertex THEN back[k - 1]
            ELSE <<s.prev[back[k - 1][1]]>> \o back[k - 1]
    IN  back[Cardinality(DOMAIN s.prev)]

\* The paths a search may return: to a target of the least final cost.  A path
\* without edges is an error.
Results(s) ==
    {r \in {Backtrack(s, v) : v \in {t \in s.found : \A u \in s.found : s.cost[t] <= s.cost[u]}} :
        Len(r) > 1}
====
