---- MODULE RouteOrders ----
(***************************************************************************)
(* RouteManager::RunAllSerial and RunAllParallel: one NetRouteOrder per    *)
(* net, run in batches of Jobs threads (Jobs = 1 is the serial run), each  *)
(* by RouteManager::RunOrder.                                              *)
(*                                                                         *)
(* A search holds the grid's shared lock and InstallPath its unique lock,  *)
(* so each is one step and threads interleave between them: what a thread  *)
(* installs it may have found in an older state of the grid.               *)
(***************************************************************************)
EXTENDS PathSearch

CONSTANTS
    Problems,     \* the orders the manager may be given: net -> its nodes
    Turn,         \* net -> the position of its order, from 0
    Jobs,         \* GetConcurrency()
    kNumRetries,
    AutoCancel    \* auto_cancel_blockages_

\* A port belongs to one net, and no node is empty.
ASSUME OrderAssumption ==
    /\ \A order \in Problems :
        /\ order \in [Nets -> Seq((SUBSET Vertices) \ {{}})]
        /\ \A m, n \in Nets : m # n =>
               \A i \in DOMAIN order[m], j \in DOMAIN order[n] :
                   order[m][i] \cap order[n][j] = {}
    /\ Turn \in [Nets -> Nat]
    /\ \A m, n \in Nets : Turn[m] = Turn[n] => m = n
ASSUME ManagerAssumption ==
    /\ Jobs \in Nat \ {0} /\ kNumRetries \in Nat \ {0} /\ AutoCancel \in BOOLEAN

VARIABLES
    node,         \* net -> 0 before its order runs, then the node at work,
                  \*        then one more than there are nodes
    linked,       \* net -> first_pair_routed
    attempts,     \* net -> attempts of retry_fn at this node
    todo,         \* net -> the searches left in this attempt
    options,      \* net -> the paths this attempt has found and not tried
    failed,       \* net -> has RunOrder recorded an error?
    aborted       \* has a LOG(FATAL) ended the process?

orderVars == <<node, linked, attempts, todo, options, failed>>
vars == <<gridVars, nodes, staged, orderVars, aborted>>

Running(n) == node[n] \in 1..Len(nodes[n])
Ended(n) == node[n] = Len(nodes[n]) + 1

\* The searches of one AddBestRouteBetween, which tries every pair of ports
\* of this node and the one before, or of one AddBestRouteToNet.
Searches(n, i, toNet) ==
    IF i \notin 1..Len(nodes[n]) THEN {}
    ELSE IF toNet THEN {<<b>> : b \in nodes[n][i]}
    ELSE nodes[n][i] \X nodes[n][i - 1]

Init ==
    /\ GridInit
    /\ nodes \in Problems
    /\ staged = Nets
    /\ node = [n \in Nets |-> 0]
    /\ linked = [n \in Nets |-> FALSE]
    /\ attempts = [n \in Nets |-> 0]
    /\ todo = [n \in Nets |-> {}]
    /\ options = [n \in Nets |-> {}]
    /\ failed = [n \in Nets |-> FALSE]
    /\ aborted = FALSE

\* Go on with node i of n's order; after the last one the pins of the net may
\* leave the root cache (MaybeAutoCancelBlockages).
GoTo(n, i, toNet) ==
    /\ node' = [node EXCEPT ![n] = i]
    /\ linked' = [linked EXCEPT ![n] = toNet]
    /\ attempts' = [attempts EXCEPT ![n] = 0]
    /\ todo' = [todo EXCEPT ![n] = Searches(n, i, toNet)]
    /\ options' = [options EXCEPT ![n] = {}]
    /\ staged' = IF AutoCancel /\ i > Len(nodes[n]) THEN staged \ {n} ELSE staged

\* The thread of n's order starts once every earlier batch has been joined.
MayStart(n) == \A m \in Nets : Turn[m] \div Jobs < Turn[n] \div Jobs => Ended(m)

\* Nothing is routed for the first node: it is the end of the first pair.
StartOrder(n) ==
    /\ node[n] = 0 /\ MayStart(n)
    /\ Len(nodes[n]) >= 2
    /\ GoTo(n, 2, FALSE)
    /\ UNCHANGED <<gridVars, nodes, failed>>

\* An order of fewer than two nodes is refused before anything else happens.
RefuseOrder(n) ==
    /\ node[n] = 0 /\ MayStart(n)
    /\ Len(nodes[n]) < 2
    /\ node' = [node EXCEPT ![n] = Len(nodes[n]) + 1]
    /\ failed' = [failed EXCEPT ![n] = TRUE]
    /\ UNCHANGED <<gridVars, nodes, staged, linked, attempts, todo, options>>

\* The paths that one search may come upon.
Shortest(n, search) ==
    IF linked[n] THEN ShortestToNet(n, search[1]) ELSE RoutesBetween(n, search[1], search[2])

\* One search, under the shared lock.
FindRoute(n) ==
    /\ Running(n)
    /\ \E search \in todo[n] :
        LET found == Shortest(n, search) IN
        /\ todo' = [todo EXCEPT ![n] = @ \ {search}]
        /\ \/ found = {} /\ options' = options
           \/ \E r \in found : \E o \in OptionsOf(r, n, linked[n]) :
                options' = [options EXCEPT ![n] = @ \cup {o}]
    /\ UNCHANGED <<gridVars, nodes, staged, node, linked, attempts, failed>>

\* The via to go on to shares no track with the end of the path.
Abort(n) ==
    /\ Running(n) /\ linked[n]
    /\ \E search \in todo[n] : \E r \in Shortest(n, search) : CannotExtend(r, n)
    /\ aborted' = TRUE
    /\ UNCHANGED <<gridVars, nodes, staged, orderVars>>

\* InstallBestPath tries the options from the cheapest, each under the unique
\* lock, until one is installed.
NextOptions(n) ==
    {o \in options[n] : \A q \in options[n] : Cost(o.path) <= Cost(q.path)}

InstallNext(n) ==
    /\ Running(n) /\ todo[n] = {}
    /\ \E o \in NextOptions(n) : InstallPath(n, o.path, {PortLayer}, o.access)
    /\ GoTo(n, node[n] + 1, TRUE)
    /\ UNCHANGED <<nodes, failed>>

\* A mutant: the path that was refused stays among the options.
KeepUnavailable(n) ==
    /\ Running(n) /\ todo[n] = {}
    /\ \E o \in NextOptions(n) : ~CheckStillAvailable(n, o.path)
    /\ UNCHANGED vars

DropUnavailable(n) ==
    /\ Running(n) /\ todo[n] = {}
    /\ \E o \in NextOptions(n) :
        /\ ~CheckStillAvailable(n, o.path)
        /\ options' = [options EXCEPT ![n] = @ \ {o}]
    /\ UNCHANGED <<gridVars, nodes, staged, node, linked, attempts, todo, failed>>

\* Mutants of RetryNode and GiveUpNode: one attempt too many, attempts that are
\* not counted, an error that is not kept.
RetryOnceMore(n) ==
    /\ Running(n) /\ todo[n] = {} /\ options[n] = {}
    /\ attempts[n] < kNumRetries
    /\ attempts' = [attempts EXCEPT ![n] = @ + 1]
    /\ todo' = [todo EXCEPT ![n] = Searches(n, node[n], linked[n])]
    /\ UNCHANGED <<gridVars, nodes, staged, node, linked, options, failed>>

RetryUncounted(n) ==
    /\ Running(n) /\ todo[n] = {} /\ options[n] = {}
    /\ todo' = [todo EXCEPT ![n] = Searches(n, node[n], linked[n])]
    /\ UNCHANGED <<gridVars, nodes, staged, node, linked, attempts, options, failed>>

GiveUpSilently(n) ==
    /\ Running(n) /\ todo[n] = {} /\ options[n] = {}
    /\ attempts[n] + 1 >= kNumRetries
    /\ GoTo(n, node[n] + 1, linked[n])
    /\ UNCHANGED <<gridVars, nodes, failed>>

\* An attempt that found nothing, or nothing that could be installed, is made
\* again from its searches, kNumRetries times in all; then the error is kept
\* and the order goes on with its next node.
RetryNode(n) ==
    /\ Running(n) /\ todo[n] = {} /\ options[n] = {}
    /\ attempts[n] + 1 < kNumRetries
    /\ attempts' = [attempts EXCEPT ![n] = @ + 1]
    /\ todo' = [todo EXCEPT ![n] = Searches(n, node[n], linked[n])]
    /\ UNCHANGED <<gridVars, nodes, staged, node, linked, options, failed>>

GiveUpNode(n) ==
    /\ Running(n) /\ todo[n] = {} /\ options[n] = {}
    /\ attempts[n] + 1 >= kNumRetries
    /\ failed' = [failed EXCEPT ![n] = TRUE]
    /\ GoTo(n, node[n] + 1, linked[n])
    /\ UNCHANGED <<gridVars, nodes>>

Work(n) ==
    \/ StartOrder(n)
    \/ RefuseOrder(n)
    \/ FindRoute(n)
    \/ InstallNext(n)
    \/ DropUnavailable(n)
    \/ RetryNode(n)
    \/ GiveUpNode(n)

Step(n) ==
    /\ ~aborted
    /\ \/ Work(n) /\ UNCHANGED aborted
       \/ Abort(n)

AllEnded == (aborted \/ \A n \in Nets : Ended(n)) /\ UNCHANGED vars

Next == (\E n \in Nets : Step(n)) \/ AllEnded

Spec == Init /\ [][Next]_vars

\* Every thread that has started is scheduled again and again.
FairSpec == Spec /\ \A n \in Nets : WF_vars(Step(n))
-----------------------------------------------------------------------------
\* Properties.

\* Every variable holds what the thread of an order can hold.
TypeOK ==
    /\ GridTypeOK
    /\ nodes \in Problems
    /\ staged \subseteq Nets
    /\ node \in [Nets -> Nat]
    /\ linked \in [Nets -> BOOLEAN]
    /\ attempts \in [Nets -> 0..kNumRetries - 1]
    /\ todo \in [Nets -> SUBSET UNION {[1..k -> Vertices] : k \in 1..2}]
    /\ options \in [Nets -> SUBSET [path : FoundPaths, access : SUBSET Layers]]
    /\ failed \in [Nets -> BOOLEAN]
    /\ aborted \in BOOLEAN

\* No two nets share metal on a track.
NoShorts ==
    \A p, q \in paths : p.net # q.net =>
        \A e \in EdgesOf(p.route), f \in EdgesOf(q.route) : ~SharesMetal(e, f)

\* No vertex is used by two nets on one layer, be it by a wire that passes, a
\* turn, or the via at the end of a path.
LayersAreDisjoint ==
    \A v \in Vertices : \A use1, use2 \in using[v] :
        use1[2] = use2[2] => use1[1] = use2[1]

\* Where a path begins, turns or ends, the next vertices hold no such point
\* of another net (the keep-out of InstallVertexInPath).
ViasKeepApart ==
    \A p, q \in paths : p.net # q.net =>
        \A u \in VerticesOf(p.route), v \in VerticesOf(q.route) : ~AreNeighbours(u, v)

\* No wire runs over the staged pin of another net, on the layer of the pin.
PinsAreRespected ==
    \A p \in paths, m \in Nets : p.net # m =>
        \A e \in EdgesOf(p.route) :
            e.dir = PortLayer => ~\E v \in Pins(m) : Spans(e, v)

PathsOf(n) == {p \in paths : p.net = n}
Reaches(p, v) == \E e \in EdgesOf(p.route) : Spans(e, v)

\* An order that ends without an error has joined its nodes: a path comes to a
\* port of each of them, and its paths hang together.
OrdersConnectTheirNodes ==
    \A n \in Nets : Ended(n) /\ ~failed[n] =>
        /\ \A i \in DOMAIN nodes[n] : \E v \in nodes[n][i], p \in PathsOf(n) : Reaches(p, v)
        /\ \A S \in SUBSET PathsOf(n) : S \notin {{}, PathsOf(n)} =>
               \E p \in S, q \in PathsOf(n) \ S, v \in Vertices :
                   Reaches(p, v) /\ Reaches(q, v)

\* Every order ends, whatever the others take from it, unless the whole process
\* is ended by a path that cannot be extended.
EveryOrderEnds == \A n \in Nets : <>(Ended(n) \/ aborted)

-----------------------------------------------------------------------------
\* The promise to the caller: of the grid, only the installed paths count, and
\* of an order, only whether it has ended and with an error or without.

Outcome ==
    [n \in Nets |-> IF ~Ended(n) THEN "pending"
                    ELSE IF failed[n] THEN "failed" ELSE "connected"]

Shorts(p, q) == \E e \in EdgesOf(p.route), f \in EdgesOf(q.route) : SharesMetal(e, f)

Promise == INSTANCE RoutedNets
           WITH Points <- Vertices, Wires <- Routes, Exclusive <- Jobs = 1,
                routes <- paths, outcome <- Outcome

\* RunOrder settles every net, joins those it reports no error for and adds
\* only routes that join what their net has; one thread alone makes no shorts.
\* All of this holds up to the step that ends the process, if there is one.
KeepsPromise == Promise!Spec
====
