---- MODULE NetMerging ----
(***************************************************************************)
(* RouteManager before it routes: orders are requested, CollectConnected-  *)
(* Nets joins the nets of orders that share ports, ConsolidateOrders makes *)
(* one order of those, and Solve runs what comes out (see RouteOrders).    *)
(*                                                                         *)
(* A node of an order is a set of equivalent ports; two nodes are equal or *)
(* share no port, so a node stands for its ports here.  All its ports      *)
(* carry one net.                                                          *)
(***************************************************************************)
EXTENDS EquivalentNets, Sequences, SequencesExt

CONSTANTS
    Nodes,
    NetOf,        \* node -> the net of its ports
    Requests,     \* the [net, nodes, target] that callers may ask for
    MaxOrders     \* bound: requests in all

NoTarget == Empty

ASSUME NodesAssumption ==
    /\ NetOf \in [Nodes -> Names]
    /\ Requests \subseteq [net : Aliases, nodes : Seq(Nodes), target : Aliases]
    /\ MaxOrders \in Nat

VARIABLES
    phase,        \* what Solve is at
    orders,       \* orders_
    nextId,       \* next_id_
    at, step,     \* the order and the node of it that a loop is at
    groupOf,      \* routed_nets_by_port_: node -> a group, 0 if it has none
    groups,       \* routed_nets_: the groups that exist
    netsOf,       \* group -> its EquivalentNets
    merged,       \* consolidated, each order with the group it was made for
    included,     \* included_in_order
    results       \* results_: id -> the nodes of the order that ran under it

\* A group is named after the order for which it was allocated.
vars == <<phase, orders, nextId, at, step, groupOf, groups, netsOf, merged,
          included, results>>

NodesOf(order) == {order.nodes[i] : i \in DOMAIN order.nodes}

Init ==
    /\ phase = "request" /\ orders = <<>> /\ nextId = 0
    /\ at = 1 /\ step = 1
    /\ groupOf = [n \in Nodes |-> 0] /\ groups = {}
    /\ netsOf = [g \in 1..MaxOrders |-> Empty]
    /\ merged = <<>> /\ included = {}
    /\ results = <<>>

\* Connect, ConnectMultiplePorts, ConnectToNet.
Request ==
    /\ phase = "request" /\ nextId < MaxOrders
    /\ \E r \in Requests :
        orders' = Append(orders, [id |-> nextId, net |-> r.net, nodes |-> r.nodes,
                                  target |-> r.target, from |-> {}])
    /\ nextId' = nextId + 1
    /\ UNCHANGED <<phase, at, step, groupOf, groups, netsOf, merged, included, results>>

\* Solve begins: CollectConnectedNets forgets the groups of the last time.
StartSolve ==
    /\ phase = "request" /\ orders # <<>>
    /\ phase' = "collect"
    /\ at' = 1 /\ step' = 1
    /\ groupOf' = [n \in Nodes |-> 0] /\ groups' = {}
    /\ merged' = <<>> /\ included' = {}
    /\ UNCHANGED <<orders, nextId, netsOf, results>>

\* A mutant: the nets of the ports are not added.
BroughtByCaller(order) == AddNames(SetPrimary(Empty, order.net.primary), order.net.nets)

\* The nets an order brings: its own, then those of its ports as they are
\* visited, the first of which is the primary if there was none.
Brought(order) ==
    LET own == AddNames(SetPrimary(Empty, order.net.primary), order.net.nets)
    IN  IF order.nodes = <<>> THEN own
        ELSE AddNames(AddNames(own, {NetOf[Head(order.nodes)]}),
                      {NetOf[n] : n \in NodesOf(order)})

\* The groups in which a node of the order is found when it is visited; a node
\* that comes again is found in the order's own.
Existing(order, own) ==
    ({groupOf[n] : n \in NodesOf(order)} \ {0})
        \cup (IF IsInjective(order.nodes) THEN {} ELSE {own})

\* The nets of the order's group once it has taken over the others.
MergedNets(order, existing, own) ==
    AddNames(Brought(order), UNION {netsOf[g].nets : g \in existing \ {own}})

\* A mutant: the nodes of a merged group are left with it.
CollectOwnNodes ==
    /\ phase = "collect" /\ at <= Len(orders)
    /\ LET order == orders[at]
           existing == Existing(order, at)
       IN  /\ groupOf' = [n \in Nodes |-> IF n \in NodesOf(order) THEN at ELSE groupOf[n]]
           /\ netsOf' = [netsOf EXCEPT ![at] = MergedNets(order, existing, at)]
           /\ groups' = (groups \cup {at}) \ existing
    /\ at' = at + 1
    /\ UNCHANGED <<phase, orders, nextId, step, merged, included, results>>

\* One round of CollectConnectedNets: the order's group takes over every group
\* that holds one of its nodes, and those are deleted
\* (MergeAndReplaceEquivalentNets).
CollectOrder ==
    /\ phase = "collect" /\ at <= Len(orders)
    /\ LET order == orders[at]
           existing == Existing(order, at)
       IN  /\ groupOf' = [n \in Nodes |->
                IF n \in NodesOf(order) \/ groupOf[n] \in existing THEN at ELSE groupOf[n]]
           /\ netsOf' = [netsOf EXCEPT ![at] = MergedNets(order, existing, at)]
           /\ groups' = (groups \cup {at}) \ existing
    /\ at' = at + 1
    /\ UNCHANGED <<phase, orders, nextId, step, merged, included, results>>

StartConsolidation ==
    /\ phase = "collect" /\ at > Len(orders)
    /\ phase' = "consolidate" /\ at' = 1
    /\ UNCHANGED <<orders, nextId, step, groupOf, groups, netsOf, merged, included, results>>

\* One node in ConsolidateOrders: it joins the order made for its group, which
\* is made with the id of the order at hand if there is none.
Place(node, order) ==
    LET group == groupOf[node]
        made == {k \in DOMAIN merged : merged[k].group = group}
    IN  IF made = {}
        THEN Append(merged, [id |-> order.id, group |-> group, net |-> netsOf[group],
                             nodes |-> <<node>>, target |-> order.target,
                             from |-> {order.id}])
        ELSE [k \in DOMAIN merged |->
                IF k \notin made THEN merged[k]
                ELSE [merged[k] EXCEPT !.nodes = Append(@, node),
                                       !.target = order.target,
                                       !.from = @ \cup {order.id}]]

\* A mutant: nodes that were placed are placed again.
PlaceAgain ==
    /\ phase = "consolidate" /\ at <= Len(orders)
    /\ step <= Len(orders[at].nodes)
    /\ merged' = Place(orders[at].nodes[step], orders[at])
    /\ step' = step + 1
    /\ UNCHANGED <<phase, orders, nextId, at, groupOf, groups, netsOf, included, results>>

ConsolidateNode ==
    /\ phase = "consolidate" /\ at <= Len(orders)
    /\ step <= Len(orders[at].nodes)
    /\ LET node == orders[at].nodes[step]
       IN  IF node \in included THEN UNCHANGED <<merged, included>>
           ELSE /\ merged' = Place(node, orders[at])
                /\ included' = included \cup {node}
    /\ step' = step + 1
    /\ UNCHANGED <<phase, orders, nextId, at, groupOf, groups, netsOf, results>>

NextOrder ==
    /\ phase = "consolidate" /\ at <= Len(orders)
    /\ step > Len(orders[at].nodes)
    /\ at' = at + 1 /\ step' = 1
    /\ UNCHANGED <<phase, orders, nextId, groupOf, groups, netsOf, merged, included, results>>

ReplaceOrders ==
    /\ phase = "consolidate" /\ at > Len(orders)
    /\ phase' = "run"
    /\ orders' = [k \in DOMAIN merged |->
                    [id |-> merged[k].id, net |-> merged[k].net, nodes |-> merged[k].nodes,
                     target |-> merged[k].target, from |-> merged[k].from]]
    /\ UNCHANGED <<nextId, at, step, groupOf, groups, netsOf, merged, included, results>>

\* A mutant: ids start again with every Solve.
RunAndRestart ==
    /\ phase = "run"
    /\ phase' = "request"
    /\ results' = [id \in DOMAIN results \cup {orders[k].id : k \in DOMAIN orders} |->
                    IF \E k \in DOMAIN orders : orders[k].id = id
                    THEN (CHOOSE o \in ToSet(orders) : o.id = id).nodes
                    ELSE results[id]]
    /\ orders' = <<>> /\ nextId' = 0
    /\ UNCHANGED <<at, step, groupOf, groups, netsOf, merged, included>>

\* The orders are run and their results kept; then Solve forgets the orders.
Run ==
    /\ phase = "run"
    /\ phase' = "request"
    /\ results' = [id \in DOMAIN results \cup {orders[k].id : k \in DOMAIN orders} |->
                    IF \E k \in DOMAIN orders : orders[k].id = id
                    THEN (CHOOSE o \in ToSet(orders) : o.id = id).nodes
                    ELSE results[id]]
    /\ orders' = <<>>
    /\ UNCHANGED <<nextId, at, step, groupOf, groups, netsOf, merged, included>>

Next ==
    \/ Request \/ StartSolve \/ CollectOrder \/ StartConsolidation
    \/ ConsolidateNode \/ NextOrder \/ ReplaceOrders \/ Run

Spec == Init /\ [][Next]_vars
-----------------------------------------------------------------------------
\* Properties.

\* A port of an order that has been collected is in a group that exists: what
\* MergeAndReplaceEquivalentNets deletes nothing refers to any more.
GroupsAreOwned ==
    phase \in {"collect", "consolidate"} =>
        \A i \in DOMAIN orders : i < at \/ phase = "consolidate" =>
            \A n \in NodesOf(orders[i]) : groupOf[n] \in groups

\* The state in which ConsolidateOrders replaces orders_ by what it made.
Placed == phase = "consolidate" /\ at > Len(orders)

\* Every node that was asked for is in exactly one place of one new order:
\* RouteOrders relies on it (a port belongs to one net).
OrdersPartitionNodes ==
    Placed => \A n \in UNION {NodesOf(o) : o \in ToSet(orders)} :
        \E k \in DOMAIN merged : \E i \in DOMAIN merged[k].nodes :
            \A l \in DOMAIN merged : \A j \in DOMAIN merged[l].nodes :
                merged[l].nodes[j] = n <=> l = k /\ j = i

\* The orders that a new order was made of.
Origins(m) == {i \in DOMAIN orders : NodesOf(orders[i]) \cap NodesOf(m) # {}}

\* The nodes of an order stay together, if it has any, and what is put together
\* with them is linked to them by orders that share nodes.
ConnectedOrdersMerge ==
    Placed =>
        /\ \A o \in ToSet(orders) : NodesOf(o) # {} =>
               \E m \in ToSet(merged) : NodesOf(o) \subseteq NodesOf(m)
        /\ \A m \in ToSet(merged) : \A S \in SUBSET Origins(m) :
               S \notin {{}, Origins(m)} =>
                   \E i \in S, j \in Origins(m) \ S :
                       NodesOf(orders[i]) \cap NodesOf(orders[j]) # {}

\* A new order may use the nets of all the orders it was made of and of their
\* ports, and no others; one of them is its primary.
NetsAreCollected ==
    Placed => \A m \in ToSet(merged) :
        /\ m.net.nets = UNION {orders[i].net.nets \cup {NetOf[n] : n \in NodesOf(orders[i])} :
                                i \in Origins(m)}
        /\ m.net.primary \in m.net.nets

\* A result is never replaced by that of a later Solve.
ResultsStand ==
    [][\A id \in DOMAIN results : id \in DOMAIN results' /\ results'[id] = results[id]]_vars
====
