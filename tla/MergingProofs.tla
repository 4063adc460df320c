---- MODULE MergingProofs ----
(***************************************************************************)
(* Proofs about NetMerging for any nodes, nets and requests, however many  *)
(* orders there are and however often Solve is called.                     *)
(***************************************************************************)
EXTENDS NetMerging, SequenceTheorems, WellFoundedInduction, TLAPS

-----------------------------------------------------------------------------
\* EquivalentNets.

LEMMA LeastName ==
    ASSUME NEW S \in SUBSET Nat, S # {}
    PROVE  First(S) \in S
<1> DEFINE R == OpToRel(<, Nat)
<1>1. IsWellFoundedOn(R, Nat)
  BY NatLessThanWellFounded
<1> HIDE DEF R
<1>2. PICK m \in S : \A n \in S : <<n, m>> \notin R
  BY <1>1, WFMin
<1>3. \A n \in S : <<n, m>> \in R <=> n < m
  BY DEF R, OpToRel
<1>4. \A n \in S : n \in Nat /\ m \in Nat /\ ~(n < m)
  BY <1>2, <1>3
<1>5. \A n \in S : m <= n
  BY <1>4
<1> QED
  BY <1>5 DEF First

\* Nets whose primary is one of them, if there are any.
Named(e) == e \in Aliases /\ (e.nets # {} => e.primary \in e.nets)

LEMMA AddingNames ==
    ASSUME NEW e, Named(e), NEW S \in SUBSET (Names \cup {NoName})
    PROVE  Named(AddNames(e, S)) /\ AddNames(e, S).nets = e.nets \cup (S \ {NoName})
<1> DEFINE added == S \ {NoName}
           result == AddNames(e, S)
<1>1. added \in SUBSET Names /\ added \in SUBSET Nat
  BY NamesAssumption
<1>2. result = [primary |-> IF e.nets = {} /\ added # {} THEN First(added) ELSE e.primary,
                nets |-> e.nets \cup added]
  BY DEF AddNames
<1>3. /\ e.primary \in Names \cup {NoName} /\ e.nets \in SUBSET Names
      /\ e.nets # {} => e.primary \in e.nets
      /\ e.nets = {} => e.primary = NoName
  BY DEF Named, Aliases
<1>4. CASE e.nets = {} /\ added # {}
  <2>1. First(added) \in added
    BY <1>1, <1>4, LeastName
  <2> HIDE DEF added, result
  <2> QED
    BY <1>1, <1>2, <1>3, <1>4, <2>1 DEF Aliases, Named, added, result
<1>5. CASE ~(e.nets = {} /\ added # {})
  <2> HIDE DEF added, result
  <2>1. result = [primary |-> e.primary, nets |-> e.nets \cup added]
    BY <1>2, <1>5
  <2>2. result \in Aliases /\ (result.nets # {} => result.primary \in result.nets)
    BY <1>1, <1>3, <1>5, <2>1 DEF Aliases
  <2> QED
    BY <2>1, <2>2 DEF Named, added, result
<1> QED
  BY <1>4, <1>5

LEMMA EmptyIsNamed == Named(Empty) /\ Empty.nets = {}
BY DEF Empty, Aliases, Named

LEMMA NodesOfAreNodes ==
    ASSUME NEW order, order.nodes \in Seq(Nodes)
    PROVE  NodesOf(order) \subseteq Nodes
BY DEF NodesOf

LEMMA FirstPrimary ==
    ASSUME NEW p \in Names \cup {NoName}
    PROVE  Named(SetPrimary(Empty, p)) /\ SetPrimary(Empty, p).nets = {p} \ {NoName}
<1>1. [Empty EXCEPT !.primary = p] = [primary |-> p, nets |-> {}]
  BY DEF Empty
<1>2. CASE p = NoName
  <2>1. [Empty EXCEPT !.primary = p] = Empty
    BY <1>1, <1>2 DEF Empty
  <2> QED
    BY <1>2, <2>1, EmptyIsNamed, AddingNames DEF SetPrimary
<1>3. CASE p # NoName
  <2>1. First({p}) = p
    <3>1. {p} \in SUBSET Nat
      BY <1>3, NamesAssumption
    <3> QED
      BY <3>1, LeastName
  <2>2. {p} \ {NoName} = {p} /\ p \in Names
    BY <1>3
  <2>3. SetPrimary(Empty, p) = [primary |-> p, nets |-> {p}]
    BY <1>1, <2>1, <2>2 DEF SetPrimary, AddNames
  <2> QED
    BY <2>2, <2>3 DEF Named, Aliases
<1> QED
  BY <1>2, <1>3

\* What an order brings are its own nets and those of its nodes.
LEMMA BringingNets ==
    ASSUME NEW order, order.net \in Aliases, order.nodes \in Seq(Nodes)
    PROVE  /\ Named(Brought(order))
           /\ Brought(order).nets = order.net.nets \cup {NetOf[n] : n \in NodesOf(order)}
<1> DEFINE p == order.net.primary
           alone == SetPrimary(Empty, p)
           own == AddNames(alone, order.net.nets)
           theirs == {NetOf[n] : n \in NodesOf(order)}
<1>1. /\ p \in Names \cup {NoName} /\ order.net.nets \in SUBSET Names
      /\ p \in order.net.nets \cup {NoName} /\ NoName \notin Names
  BY NamesAssumption DEF Aliases
<1>2. theirs \in SUBSET Names
  BY NodesOfAreNodes, NodesAssumption
<1>3. Named(alone) /\ alone.nets = {p} \ {NoName}
  BY <1>1, FirstPrimary
<1> HIDE DEF alone
<1>4. Named(own) /\ own.nets = order.net.nets
  <2>1. Named(own) /\ own.nets = alone.nets \cup (order.net.nets \ {NoName})
    <3>1. order.net.nets \in SUBSET (Names \cup {NoName})
      BY <1>1
    <3> HIDE DEF p
    <3> QED
      BY <1>3, <3>1, AddingNames
  <2>2. alone.nets \cup (order.net.nets \ {NoName}) = order.net.nets
    BY <1>1, <1>3
  <2> QED
    BY <2>1, <2>2
<1> HIDE DEF own, theirs
<1>5. CASE order.nodes = <<>>
  <2>1. Brought(order) = own /\ theirs = {}
    BY <1>5 DEF Brought, own, alone, theirs, NodesOf
  <2> QED
    BY <1>4, <2>1 DEF theirs
<1>6. CASE order.nodes # <<>>
  <2> DEFINE first == NetOf[Head(order.nodes)]
  <2>1. first \in theirs
    <3>1. Head(order.nodes) = order.nodes[1] /\ 1 \in DOMAIN order.nodes
      BY <1>6
    <3> QED
      BY <3>1 DEF theirs, NodesOf
  <2> HIDE DEF first
  <2>2. Named(AddNames(own, {first})) /\ AddNames(own, {first}).nets = own.nets \cup {first}
    <3>1. first \in Names /\ first # NoName
      BY <1>1, <1>2, <2>1
    <3>2. {first} \in SUBSET (Names \cup {NoName}) /\ {first} \ {NoName} = {first}
      BY <3>1
    <3> QED
      BY <1>4, <3>2, AddingNames
  <2> DEFINE both == AddNames(own, {first})
  <2> HIDE DEF both
  <2>3. Named(AddNames(both, theirs)) /\ AddNames(both, theirs).nets = both.nets \cup theirs
    <3>1. theirs \in SUBSET (Names \cup {NoName}) /\ theirs \ {NoName} = theirs
      BY <1>1, <1>2
    <3> QED
      BY <2>2, <3>1, AddingNames DEF both
  <2>4. Brought(order) = AddNames(both, theirs)
    BY <1>6 DEF Brought, own, alone, theirs, first, both
  <2>5. both.nets \cup theirs = order.net.nets \cup theirs
    BY <1>4, <2>1, <2>2 DEF both
  <2> QED
    BY <2>3, <2>4, <2>5 DEF theirs
<1> QED
  BY <1>5, <1>6

-----------------------------------------------------------------------------
\* The invariants.

Orders == [id : Nat, net : Aliases, nodes : Seq(Nodes), target : Aliases, from : SUBSET Nat]
NewOrders == [id : Nat, group : 1..MaxOrders, net : Aliases, nodes : Seq(Nodes),
              target : Aliases, from : SUBSET Nat]

Typed ==
    /\ phase \in {"request", "collect", "consolidate", "run"}
    /\ orders \in Seq(Orders) /\ merged \in Seq(NewOrders)
    /\ nextId \in Nat /\ nextId <= MaxOrders
    /\ phase # "run" => Len(orders) <= nextId
    /\ at \in Nat \ {0} /\ step \in Nat \ {0}
    /\ groupOf \in [Nodes -> 0..MaxOrders] /\ groups \subseteq 1..MaxOrders
    /\ netsOf \in [1..MaxOrders -> Aliases]
    /\ phase = "collect" => step = 1 /\ merged = <<>> /\ included = {}

\* Ids are given once, and a result has the id of an order that is gone.
Fresh(list) == \A k \in DOMAIN list : list[k].id < nextId /\ list[k].id \notin DOMAIN results

IdsInv ==
    /\ \A id \in DOMAIN results : id \in Nat /\ id < nextId
    /\ Fresh(orders)
    /\ phase = "consolidate" => Fresh(merged)

\* The orders that CollectConnectedNets has been through; their nodes are in a
\* group, be it one that exists or not.
Finished == IF phase = "collect" THEN {i \in DOMAIN orders : i < at} ELSE DOMAIN orders

GroupedInv ==
    phase \in {"collect", "consolidate"} =>
        \A i \in Finished : \A n \in NodesOf(orders[i]) : groupOf[n] # 0

\* Requests that name no node twice.
NoRepeats == \A r \in Requests : IsInjective(r.nodes)

RepeatsInv == phase # "run" => \A i \in DOMAIN orders : IsInjective(orders[i].nodes)

\* Of the orders in D, those in a group; are they linked to each other?
Members(D, g) == {i \in D : \E n \in NodesOf(orders[i]) : groupOf[n] = g}

Linked(list, M) ==
    \A S \in SUBSET M : S \notin {{}, M} =>
        \E i \in S, j \in M \ S : NodesOf(list[i]) \cap NodesOf(list[j]) # {}

OwnNets(i) == orders[i].net.nets \cup {NetOf[n] : n \in NodesOf(orders[i])}

\* The orders in D have been collected: they are in one group each, a group is of
\* orders that are linked, and has their nets.
Collected(D) ==
    /\ \A i \in D : \A m, n \in NodesOf(orders[i]) :
           groupOf[m] \in groups /\ groupOf[m] = groupOf[n]
    /\ \A n \in Nodes : groupOf[n] # 0 => \E i \in D : n \in NodesOf(orders[i])
    /\ \A g \in groups : Linked(orders, Members(D, g))
    /\ \A g \in groups : Members(D, g) # {} =>
           /\ netsOf[g].nets = UNION {OwnNets(i) : i \in Members(D, g)}
           /\ Named(netsOf[g])

GroupsInv ==
    phase \in {"collect", "consolidate"} =>
        /\ \A D : D = Finished => Collected(D)
        /\ phase = "collect" => \A g \in groups : g < at

\* The nodes up to the one at hand have been placed, each in the order of its
\* group.
PlacesInv ==
    phase = "consolidate" =>
        /\ included \subseteq UNION {NodesOf(orders[i]) : i \in DOMAIN orders}
        /\ \A i \in DOMAIN orders : \A j \in DOMAIN orders[i].nodes :
               i < at \/ (i = at /\ j < step) => orders[i].nodes[j] \in included
        /\ \A n \in included : \E k \in DOMAIN merged : merged[k].group = groupOf[n]
        /\ \A k \in DOMAIN merged :
               /\ NodesOf(merged[k]) = {n \in included : groupOf[n] = merged[k].group}
               /\ NodesOf(merged[k]) # {}
               /\ IsInjective(merged[k].nodes)
               /\ merged[k].net = netsOf[merged[k].group]
        /\ \A k, l \in DOMAIN merged : merged[k].group = merged[l].group => k = l

-----------------------------------------------------------------------------
\* Types.

LEMMA OrderAt ==
    ASSUME Typed, NEW i \in DOMAIN orders
    PROVE  /\ orders[i] \in Orders /\ i \in Nat /\ i >= 1 /\ i <= Len(orders)
           /\ orders[i].id \in Nat /\ orders[i].net \in Aliases /\ orders[i].target \in Aliases
           /\ orders[i].nodes \in Seq(Nodes) /\ NodesOf(orders[i]) \subseteq Nodes
<1>1. orders[i] \in Orders /\ i \in Nat /\ i >= 1 /\ i <= Len(orders)
  BY DEF Typed
<1>2. orders[i].nodes \in Seq(Nodes)
  BY <1>1 DEF Orders
<1> QED
  BY <1>1, <1>2, NodesOfAreNodes DEF Orders

LEMMA MadeAt ==
    ASSUME Typed, NEW k \in DOMAIN merged
    PROVE  /\ merged[k] \in NewOrders /\ k \in Nat /\ k >= 1 /\ k <= Len(merged)
           /\ merged[k].nodes \in Seq(Nodes) /\ NodesOf(merged[k]) \subseteq Nodes
           /\ merged[k].group \in 1..MaxOrders
<1>1. merged[k] \in NewOrders /\ k \in Nat /\ k >= 1 /\ k <= Len(merged)
  BY DEF Typed
<1>2. merged[k].nodes \in Seq(Nodes) /\ merged[k].group \in 1..MaxOrders
  BY <1>1 DEF NewOrders
<1> QED
  BY <1>1, <1>2, NodesOfAreNodes

LEMMA MergingNets ==
    ASSUME Typed, NEW i \in DOMAIN orders, NEW existing \in SUBSET (1..MaxOrders)
    PROVE  /\ Named(MergedNets(orders[i], existing, i))
           /\ MergedNets(orders[i], existing, i).nets =
                  OwnNets(i) \cup UNION {netsOf[g].nets : g \in existing \ {i}}
<1> DEFINE theirs == UNION {netsOf[g].nets : g \in existing \ {i}}
<1>1. orders[i].net \in Aliases /\ orders[i].nodes \in Seq(Nodes)
  BY OrderAt
<1>2. Named(Brought(orders[i])) /\ Brought(orders[i]).nets = OwnNets(i)
  BY <1>1, BringingNets DEF OwnNets
<1>3. theirs \in SUBSET (Names \cup {NoName}) /\ theirs \ {NoName} = theirs
  <2>1. \A g \in existing : netsOf[g].nets \in SUBSET Names
    BY DEF Typed, Aliases
  <2>2. NoName \notin Names
    BY NamesAssumption
  <2> QED
    BY <2>1, <2>2
<1> HIDE DEF theirs
<1>4. /\ Named(AddNames(Brought(orders[i]), theirs))
      /\ AddNames(Brought(orders[i]), theirs).nets = OwnNets(i) \cup theirs
  BY <1>2, <1>3, AddingNames
<1> QED
  BY <1>4 DEF MergedNets, theirs

LEMMA ExistingAreGroups ==
    ASSUME Typed, NEW i \in DOMAIN orders, i \in 1..MaxOrders
    PROVE  Existing(orders[i], i) \in SUBSET (1..MaxOrders)
<1>1. \A n \in NodesOf(orders[i]) : groupOf[n] \in 0..MaxOrders
  BY OrderAt DEF Typed
<1>2. MaxOrders \in Nat
  BY NodesAssumption
<1> QED
  BY <1>1, <1>2 DEF Existing

LEMMA InitTyped == Init => Typed
BY NodesAssumption, EmptyIsNamed DEF Init, Typed, Named

LEMMA RequestTyped == Typed /\ Request => Typed'
<1> SUFFICES ASSUME Typed, Request PROVE Typed'
  OBVIOUS
<1>1. PICK r \in Requests :
          orders' = Append(orders, [id |-> nextId, net |-> r.net, nodes |-> r.nodes,
                                    target |-> r.target, from |-> {}])
  BY DEF Request
<1>2. r.net \in Aliases /\ r.nodes \in Seq(Nodes) /\ r.target \in Aliases
  BY NodesAssumption
<1>3. [id |-> nextId, net |-> r.net, nodes |-> r.nodes,
       target |-> r.target, from |-> {}] \in Orders
  BY <1>2 DEF Orders, Typed
<1>4. orders' \in Seq(Orders) /\ Len(orders') = Len(orders) + 1
  BY <1>1, <1>3 DEF Typed
<1>5. /\ phase = "request" /\ nextId < MaxOrders /\ nextId' = nextId + 1
      /\ UNCHANGED <<phase, at, step, groupOf, groups, netsOf, merged, included, results>>
  BY DEF Request
<1> QED
  BY <1>4, <1>5, NodesAssumption DEF Typed

LEMMA StartSolveTyped == Typed /\ StartSolve => Typed'
BY NodesAssumption DEF Typed, StartSolve

LEMMA CollectOrderTyped == Typed /\ CollectOrder => Typed'
<1> SUFFICES ASSUME Typed, CollectOrder PROVE Typed'
  OBVIOUS
<1> DEFINE existing == Existing(orders[at], at)
<1>1. /\ phase = "collect" /\ at <= Len(orders) /\ at' = at + 1
      /\ groupOf' = [n \in Nodes |->
             IF n \in NodesOf(orders[at]) \/ groupOf[n] \in existing THEN at ELSE groupOf[n]]
      /\ netsOf' = [netsOf EXCEPT ![at] = MergedNets(orders[at], existing, at)]
      /\ groups' = (groups \cup {at}) \ existing
      /\ UNCHANGED <<phase, orders, nextId, step, merged, included, results>>
  BY DEF CollectOrder
<1>2. at \in DOMAIN orders /\ at \in 1..MaxOrders /\ at \in Nat \ {0} /\ MaxOrders \in Nat
  BY <1>1, NodesAssumption DEF Typed
<1>3. MergedNets(orders[at], existing, at) \in Aliases
  BY <1>2, ExistingAreGroups, MergingNets DEF Named
<1> HIDE DEF existing
<1>4. groupOf' \in [Nodes -> 0..MaxOrders]
  BY <1>1, <1>2 DEF Typed
<1>5. netsOf' \in [1..MaxOrders -> Aliases]
  BY <1>1, <1>3 DEF Typed
<1>6. groups' \subseteq 1..MaxOrders
  <2>1. groups \subseteq 1..MaxOrders /\ groups' \subseteq groups \cup {at}
    BY <1>1 DEF Typed
  <2> QED
    BY <1>2, <2>1
<1>7. at' \in Nat \ {0}
  BY <1>1, <1>2
<1>8. UNCHANGED <<phase, orders, nextId, step, merged, included>>
  BY <1>1
<1> QED
  BY <1>4, <1>5, <1>6, <1>7, <1>8 DEF Typed

LEMMA Placing ==
    ASSUME Typed, NEW i \in DOMAIN orders, NEW node \in Nodes, groupOf[node] # 0
    PROVE  LET made == {k \in DOMAIN merged : merged[k].group = groupOf[node]}
               placed == Place(node, orders[i])
           IN  /\ placed \in Seq(NewOrders)
               /\ made = {} =>
                      /\ Len(placed) = Len(merged) + 1
                      /\ \A k \in DOMAIN merged : placed[k] = merged[k]
                      /\ placed[Len(merged) + 1].id = orders[i].id
                      /\ placed[Len(merged) + 1].group = groupOf[node]
                      /\ placed[Len(merged) + 1].net = netsOf[groupOf[node]]
                      /\ placed[Len(merged) + 1].nodes = <<node>>
               /\ made # {} =>
                      /\ DOMAIN placed = DOMAIN merged
                      /\ \A k \in DOMAIN merged :
                             /\ placed[k].id = merged[k].id
                             /\ placed[k].group = merged[k].group
                             /\ placed[k].net = merged[k].net
                             /\ placed[k].nodes = IF k \in made THEN Append(merged[k].nodes, node)
                                                  ELSE merged[k].nodes
<1> DEFINE made == {k \in DOMAIN merged : merged[k].group = groupOf[node]}
           placed == Place(node, orders[i])
           group == groupOf[node]
<1>1. /\ group \in 1..MaxOrders /\ netsOf[group] \in Aliases
      /\ orders[i].id \in Nat /\ orders[i].target \in Aliases
      /\ merged \in Seq(NewOrders) /\ \A k \in DOMAIN merged : merged[k] \in NewOrders
  BY OrderAt, NodesAssumption DEF Typed
<1>2. CASE made = {}
  <2> DEFINE new == [id |-> orders[i].id, group |-> group, net |-> netsOf[group],
                     nodes |-> <<node>>, target |-> orders[i].target, from |-> {orders[i].id}]
  <2>1. placed = Append(merged, new)
    BY <1>2 DEF Place
  <2>2. new \in NewOrders
    BY <1>1 DEF NewOrders
  <2>3. /\ new.id = orders[i].id /\ new.group = group /\ new.net = netsOf[group]
        /\ new.nodes = <<node>>
    OBVIOUS
  <2> HIDE DEF new, placed, made
  <2>4. /\ placed \in Seq(NewOrders) /\ Len(placed) = Len(merged) + 1
        /\ \A k \in 1..Len(merged) : placed[k] = merged[k]
        /\ placed[Len(merged) + 1] = new
    BY <1>1, <2>1, <2>2
  <2>5. DOMAIN merged = 1..Len(merged)
    BY <1>1
  <2> QED
    BY <1>2, <2>3, <2>4, <2>5 DEF made, placed
<1>3. CASE made # {}
  <2> DEFINE Changed(k) == [merged[k] EXCEPT !.nodes = Append(@, node),
                                             !.target = orders[i].target,
                                             !.from = @ \cup {orders[i].id}]
  <2>1. placed = [k \in DOMAIN merged |-> IF k \notin made THEN merged[k] ELSE Changed(k)]
    BY <1>3 DEF Place
  <2>2. ASSUME NEW k \in DOMAIN merged
        PROVE  /\ Changed(k) \in NewOrders /\ Changed(k).id = merged[k].id
               /\ Changed(k).group = merged[k].group /\ Changed(k).net = merged[k].net
               /\ Changed(k).nodes = Append(merged[k].nodes, node)
    <3>1. merged[k] \in NewOrders
      BY <1>1
    <3>2. Append(merged[k].nodes, node) \in Seq(Nodes)
      BY <3>1 DEF NewOrders
    <3> QED
      BY <1>1, <3>1, <3>2 DEF NewOrders
  <2> HIDE DEF Changed, placed, made
  <2>3. /\ DOMAIN placed = DOMAIN merged /\ DOMAIN merged = 1..Len(merged) /\ Len(merged) \in Nat
        /\ \A k \in DOMAIN merged : placed[k] = IF k \notin made THEN merged[k] ELSE Changed(k)
    BY <1>1, <2>1
  <2>4. placed \in Seq(NewOrders)
    <3>1. \A k \in 1..Len(merged) : placed[k] \in NewOrders
      BY <1>1, <2>2, <2>3
    <3>2. placed \in [1..Len(merged) -> NewOrders]
      BY <2>1, <2>3, <3>1
    <3> QED
      BY <2>3, <3>2, SeqDef
  <2> QED
    BY <1>3, <2>2, <2>3, <2>4 DEF made, placed
<1> QED
  BY <1>2, <1>3

\* The node at hand, and its group.
LEMMA NodeAtHand ==
    ASSUME Typed, GroupedInv, phase = "consolidate", at <= Len(orders),
           step <= Len(orders[at].nodes)
    PROVE  /\ at \in DOMAIN orders /\ step \in DOMAIN orders[at].nodes
           /\ orders[at].nodes[step] \in NodesOf(orders[at])
           /\ orders[at].nodes[step] \in Nodes
           /\ groupOf[orders[at].nodes[step]] # 0
<1>1. at \in DOMAIN orders
  BY DEF Typed
<1>2. step \in DOMAIN orders[at].nodes
  BY <1>1, OrderAt DEF Typed
<1>3. orders[at].nodes[step] \in NodesOf(orders[at])
  BY <1>2 DEF NodesOf
<1>4. orders[at].nodes[step] \in Nodes /\ groupOf[orders[at].nodes[step]] # 0
  BY <1>1, <1>3, OrderAt DEF GroupedInv, Finished
<1> QED
  BY <1>1, <1>2, <1>3, <1>4

LEMMA ConsolidateNodeTyped ==
    Typed /\ GroupedInv /\ ConsolidateNode => Typed'
<1> SUFFICES ASSUME Typed, GroupedInv, ConsolidateNode PROVE Typed'
  OBVIOUS
<1> DEFINE node == orders[at].nodes[step]
<1>1. /\ phase = "consolidate" /\ at <= Len(orders) /\ step <= Len(orders[at].nodes)
      /\ step' = step + 1
      /\ merged' = merged \/ merged' = Place(node, orders[at])
      /\ UNCHANGED <<phase, orders, nextId, at, groupOf, groups, netsOf, results>>
  BY DEF ConsolidateNode
<1>2. at \in DOMAIN orders /\ node \in Nodes /\ groupOf[node] # 0
  BY <1>1, NodeAtHand
<1> HIDE DEF node
<1>3. Place(node, orders[at]) \in Seq(NewOrders)
  BY <1>2, Placing
<1>4. merged' \in Seq(NewOrders) /\ step' \in Nat \ {0} /\ phase' # "collect"
  BY <1>1, <1>3 DEF Typed
<1> QED
  BY <1>1, <1>4 DEF Typed

LEMMA ReplaceOrdersTyped == Typed /\ ReplaceOrders => Typed'
<1> SUFFICES ASSUME Typed, ReplaceOrders PROVE Typed'
  OBVIOUS
<1> DEFINE Bare(k) == [id |-> merged[k].id, net |-> merged[k].net, nodes |-> merged[k].nodes,
                       target |-> merged[k].target, from |-> merged[k].from]
<1>1. /\ phase' = "run" /\ orders' = [k \in DOMAIN merged |-> Bare(k)]
      /\ UNCHANGED <<nextId, at, step, groupOf, groups, netsOf, merged, included, results>>
  BY DEF ReplaceOrders
<1>2. ASSUME NEW k \in DOMAIN merged PROVE Bare(k) \in Orders
  <2>1. merged[k] \in NewOrders
    BY MadeAt
  <2> QED
    BY <2>1 DEF NewOrders, Orders
<1> HIDE DEF Bare
<1>3. orders' \in Seq(Orders)
  <2>1. DOMAIN merged = 1..Len(merged) /\ Len(merged) \in Nat
    BY DEF Typed
  <2>2. orders' \in [1..Len(merged) -> Orders]
    BY <1>1, <1>2, <2>1
  <2> QED
    BY <2>1, <2>2, SeqDef
<1> QED
  BY <1>1, <1>3 DEF Typed

LEMMA OthersTyped ==
    Typed /\ (StartConsolidation \/ NextOrder \/ Run \/ UNCHANGED vars) => Typed'
<1> SUFFICES ASSUME Typed, StartConsolidation \/ NextOrder \/ Run \/ UNCHANGED vars
             PROVE  Typed'
  OBVIOUS
<1>1. CASE StartConsolidation
  BY <1>1 DEF Typed, StartConsolidation
<1>2. CASE NextOrder
  BY <1>2 DEF Typed, NextOrder
<1>3. CASE Run
  BY <1>3 DEF Typed, Run
<1>4. CASE UNCHANGED vars
  BY <1>4 DEF Typed, vars
<1> QED
  BY <1>1, <1>2, <1>3, <1>4

LEMMA TypedKept == Typed /\ GroupedInv /\ [Next]_vars => Typed'
BY RequestTyped, StartSolveTyped, CollectOrderTyped, ConsolidateNodeTyped, ReplaceOrdersTyped,
   OthersTyped DEF Next

LEMMA GroupedKept == Typed /\ GroupedInv /\ [Next]_vars => GroupedInv'
<1> SUFFICES ASSUME Typed, GroupedInv, [Next]_vars PROVE GroupedInv'
  OBVIOUS
<1>1. CASE Request \/ ReplaceOrders \/ Run
  BY <1>1 DEF Request, ReplaceOrders, Run, GroupedInv
<1>2. CASE StartSolve
  <2>1. phase' = "collect" /\ at' = 1 /\ orders' = orders
    BY <1>2 DEF StartSolve
  <2>2. Finished' = {}
    BY <2>1, OrderAt DEF Finished
  <2> QED
    BY <2>2 DEF GroupedInv
<1>3. CASE CollectOrder
  <2> DEFINE existing == Existing(orders[at], at)
  <2>1. /\ phase = "collect" /\ phase' = phase /\ at' = at + 1 /\ orders' = orders
        /\ groupOf' = [n \in Nodes |->
               IF n \in NodesOf(orders[at]) \/ groupOf[n] \in existing THEN at ELSE groupOf[n]]
    BY <1>3 DEF CollectOrder
  <2> HIDE DEF existing
  <2>2. ASSUME NEW i \in DOMAIN orders, i < at', NEW n \in NodesOf(orders[i])
        PROVE  groupOf'[n] # 0
    <3>1. n \in Nodes /\ at \in Nat \ {0} /\ i \in Nat
      BY OrderAt DEF Typed
    <3>2. groupOf'[n] = IF n \in NodesOf(orders[at]) \/ groupOf[n] \in existing THEN at
                        ELSE groupOf[n]
      BY <2>1, <3>1
    <3>3. i = at \/ i < at
      BY <2>1, <2>2, <3>1
    <3>4. i < at => groupOf[n] # 0
      BY <2>1 DEF GroupedInv, Finished
    <3> QED
      BY <3>1, <3>2, <3>3, <3>4
  <2> QED
    BY <2>1, <2>2 DEF GroupedInv, Finished
<1>4. CASE StartConsolidation
  <2>1. \A i \in DOMAIN orders : i < at
    BY <1>4, OrderAt DEF Typed, StartConsolidation
  <2> QED
    BY <1>4, <2>1 DEF StartConsolidation, GroupedInv, Finished
<1>5. CASE ConsolidateNode \/ NextOrder
  BY <1>5 DEF ConsolidateNode, NextOrder, GroupedInv, Finished
<1>6. CASE UNCHANGED vars
  BY <1>6 DEF vars, GroupedInv, Finished
<1> QED
  BY <1>1, <1>2, <1>3, <1>4, <1>5, <1>6 DEF Next

-----------------------------------------------------------------------------
\* Ids.

LEMMA InitIds == Init => IdsInv
BY DEF Init, IdsInv, Fresh

LEMMA IdsKept == Typed /\ GroupedInv /\ IdsInv /\ [Next]_vars => IdsInv'
<1> SUFFICES ASSUME Typed, GroupedInv, IdsInv, [Next]_vars PROVE IdsInv'
  OBVIOUS
<1>1. CASE Request
  <2>1. PICK r \in Requests :
            orders' = Append(orders, [id |-> nextId, net |-> r.net, nodes |-> r.nodes,
                                      target |-> r.target, from |-> {}])
    BY <1>1 DEF Request
  <2>2. nextId' = nextId + 1 /\ phase' = "request" /\ results' = results
    BY <1>1 DEF Request
  <2>3. \A k \in DOMAIN orders' : \/ k \in DOMAIN orders /\ orders'[k] = orders[k]
                                  \/ orders'[k].id = nextId
    BY <2>1 DEF Typed
  <2>4. \A k \in DOMAIN orders : orders[k].id \in Nat
    BY OrderAt
  <2>5. Fresh(orders)'
    BY <2>2, <2>3, <2>4 DEF Typed, IdsInv, Fresh
  <2>6. \A id \in DOMAIN results' : id \in Nat /\ id < nextId'
    BY <2>2 DEF Typed, IdsInv
  <2> QED
    BY <2>2, <2>5, <2>6 DEF IdsInv
<1>2. CASE StartSolve
  BY <1>2 DEF StartSolve, IdsInv, Fresh
<1>3. CASE CollectOrder
  BY <1>3 DEF CollectOrder, IdsInv, Fresh
<1>4. CASE StartConsolidation
  BY <1>4 DEF StartConsolidation, IdsInv, Fresh, Typed
<1>5. CASE ConsolidateNode
  <2> DEFINE node == orders[at].nodes[step]
  <2>1. /\ phase = "consolidate" /\ at <= Len(orders) /\ step <= Len(orders[at].nodes)
        /\ merged' = merged \/ merged' = Place(node, orders[at])
        /\ UNCHANGED <<phase, orders, nextId, at, groupOf, groups, netsOf, results>>
    BY <1>5 DEF ConsolidateNode
  <2>2. at \in DOMAIN orders /\ node \in Nodes /\ groupOf[node] # 0
    BY <2>1, NodeAtHand
  <2> HIDE DEF node
  <2> DEFINE placed == Place(node, orders[at])
  <2>3. \A k \in DOMAIN placed : placed[k].id = orders[at].id
                                 \/ (k \in DOMAIN merged /\ placed[k].id = merged[k].id)
    <3> DEFINE made == {k \in DOMAIN merged : merged[k].group = groupOf[node]}
    <3>1. placed \in Seq(NewOrders)
      BY <2>2, Placing
    <3>2. CASE made = {}
      <4>1. Len(placed) = Len(merged) + 1
        BY <2>2, <3>2, Placing
      <4>2. \A k \in DOMAIN merged : placed[k] = merged[k]
        BY <2>2, <3>2, Placing
      <4>3. placed[Len(merged) + 1].id = orders[at].id
        BY <2>2, <3>2, Placing
      <4>4. Len(merged) \in Nat /\ DOMAIN merged = 1..Len(merged)
        BY DEF Typed
      <4> HIDE DEF placed, made
      <4> QED
        BY <3>1, <4>1, <4>2, <4>3, <4>4
    <3>3. CASE made # {}
      BY <2>2, <3>3, Placing
    <3> QED
      BY <3>2, <3>3
  <2> HIDE DEF placed
  <2>4. Fresh(placed)
    BY <2>1, <2>2, <2>3 DEF IdsInv, Fresh
  <2>5. Fresh(merged') /\ Fresh(orders)
    BY <2>1, <2>4 DEF IdsInv, placed
  <2> QED
    BY <2>1, <2>5 DEF IdsInv, Fresh
<1>6. CASE NextOrder
  BY <1>6 DEF NextOrder, IdsInv, Fresh
<1>7. CASE ReplaceOrders
  <2>1. /\ DOMAIN orders' = DOMAIN merged
        /\ \A k \in DOMAIN merged : orders'[k].id = merged[k].id
        /\ phase = "consolidate" /\ phase' = "run" /\ nextId' = nextId /\ results' = results
    BY <1>7 DEF ReplaceOrders
  <2> QED
    BY <2>1 DEF IdsInv, Fresh
<1>8. CASE Run
  <2>1. /\ DOMAIN results' = DOMAIN results \cup {orders[k].id : k \in DOMAIN orders}
        /\ phase' = "request" /\ orders' = <<>> /\ nextId' = nextId
    BY <1>8 DEF Run
  <2>2. \A k \in DOMAIN orders : orders[k].id \in Nat /\ orders[k].id < nextId
    BY OrderAt DEF IdsInv, Fresh
  <2> QED
    BY <2>1, <2>2 DEF IdsInv, Fresh
<1>9. CASE UNCHANGED vars
  BY <1>9 DEF vars, IdsInv, Fresh
<1> QED
  BY <1>1, <1>2, <1>3, <1>4, <1>5, <1>6, <1>7, <1>8, <1>9 DEF Next

LEMMA RepeatsKept ==
    NoRepeats => /\ Init => RepeatsInv
                 /\ Typed /\ RepeatsInv /\ [Next]_vars => RepeatsInv'
<1> SUFFICES ASSUME NoRepeats
             PROVE  /\ Init => RepeatsInv
                    /\ Typed /\ RepeatsInv /\ [Next]_vars => RepeatsInv'
  OBVIOUS
<1>1. Init => RepeatsInv
  BY DEF Init, RepeatsInv
<1>2. ASSUME Typed, RepeatsInv, Request PROVE RepeatsInv'
  <2>1. PICK r \in Requests :
            orders' = Append(orders, [id |-> nextId, net |-> r.net, nodes |-> r.nodes,
                                      target |-> r.target, from |-> {}])
    BY <1>2 DEF Request
  <2>2. phase = "request" /\ phase' = "request" /\ IsInjective(r.nodes)
    BY <1>2 DEF Request, NoRepeats
  <2>3. \A k \in DOMAIN orders' : \/ k \in DOMAIN orders /\ orders'[k] = orders[k]
                                  \/ orders'[k].nodes = r.nodes
    BY <1>2, <2>1 DEF Typed
  <2> QED
    BY <1>2, <2>2, <2>3 DEF RepeatsInv
<1>3. ASSUME RepeatsInv, StartSolve \/ CollectOrder \/ StartConsolidation \/ ConsolidateNode
                         \/ NextOrder \/ ReplaceOrders \/ Run \/ UNCHANGED vars
      PROVE  RepeatsInv'
  BY <1>3 DEF RepeatsInv, StartSolve, CollectOrder, StartConsolidation, ConsolidateNode,
              NextOrder, ReplaceOrders, Run, vars
<1> QED
  BY <1>1, <1>2, <1>3 DEF Next

-----------------------------------------------------------------------------
\* Groups.

\* Linked orders stay linked when another one joins that shares nodes with some
\* of each of the groups it joins.
LEMMA JoiningLinks ==
    ASSUME NEW list, NEW a, NEW Parts, \A P \in Parts : Linked(list, P),
           \A P \in Parts : \E k \in P : NodesOf(list[k]) \cap NodesOf(list[a]) # {}
    PROVE  Linked(list, {a} \cup UNION Parts)
<1> DEFINE M == {a} \cup UNION Parts
           Meet(i, j) == NodesOf(list[i]) \cap NodesOf(list[j]) # {}
<1> SUFFICES ASSUME NEW S \in SUBSET M, S # {}, S # M
             PROVE  \E i \in S, j \in M \ S : Meet(i, j)
  BY DEF Linked
<1>1. ASSUME NEW P \in Parts, S \cap P # {}, ~(P \subseteq S)
      PROVE  \E i \in S, j \in M \ S : Meet(i, j)
  <2>1. S \cap P \in SUBSET P /\ S \cap P \notin {{}, P}
    BY <1>1
  <2>2. PICK i \in S \cap P, j \in P \ (S \cap P) : Meet(i, j)
    <3>1. Linked(list, P)
      BY <1>1
    <3> QED
      BY <2>1, <3>1 DEF Linked
  <2>3. i \in S /\ j \in M \ S
    BY <2>2
  <2> QED
    BY <2>2, <2>3
<1>2. CASE a \in S
  <2>1. PICK P \in Parts : ~(P \subseteq S)
    BY <1>2
  <2>2. CASE S \cap P # {}
    BY <1>1, <2>1, <2>2
  <2>3. CASE S \cap P = {}
    <3>1. PICK k \in P : Meet(k, a)
      OBVIOUS
    <3>2. k \in M \ S /\ Meet(a, k)
      BY <2>3, <3>1
    <3> QED
      BY <1>2, <3>2
  <2> QED
    BY <2>2, <2>3
<1>3. CASE a \notin S
  <2>1. PICK P \in Parts : S \cap P # {}
    BY <1>3
  <2>2. CASE ~(P \subseteq S)
    BY <1>1, <2>1, <2>2
  <2>3. CASE P \subseteq S
    <3>1. PICK k \in P : Meet(k, a)
      OBVIOUS
    <3>2. k \in S /\ a \in M \ S
      BY <1>3, <2>3, <3>1
    <3> QED
      BY <3>1, <3>2
  <2> QED
    BY <2>2, <2>3
<1> QED
  BY <1>2, <1>3

LEMMA NobodyIsLinked == \A list : Linked(list, {})
BY DEF Linked

LEMMA NothingCollected ==
    ASSUME groupOf = [n \in Nodes |-> 0], groups = {}
    PROVE  Collected({})
BY DEF Collected

\* The round of CollectConnectedNets for one order whose nodes are all different.
LEMMA CollectingOne ==
    ASSUME Typed, NEW D \in SUBSET (DOMAIN orders), Collected(D), \A g \in groups : g < at,
           NEW E, E = D \cup {at}, CollectOrder, IsInjective(orders[at].nodes)
    PROVE  Collected(E)' /\ \A g \in groups' : g < at'
<1> DEFINE mine == NodesOf(orders[at])
           existing == {groupOf[n] : n \in mine} \ {0}
<1>1. /\ at \in DOMAIN orders /\ at \in 1..MaxOrders /\ at \in Nat \ {0}
      /\ at' = at + 1 /\ UNCHANGED orders
  BY NodesAssumption DEF CollectOrder, Typed
<1>2. /\ groupOf' = [n \in Nodes |-> IF n \in mine \/ groupOf[n] \in existing THEN at ELSE groupOf[n]]
      /\ netsOf' = [netsOf EXCEPT ![at] = MergedNets(orders[at], existing, at)]
      /\ groups' = (groups \cup {at}) \ existing
  <2>1. Existing(orders[at], at) = existing
    BY DEF Existing
  <2> QED
    BY <2>1 DEF CollectOrder
<1>3. /\ mine \subseteq Nodes /\ \A i \in D : NodesOf(orders[i]) \subseteq Nodes
      /\ groups \subseteq Nat /\ 0 \notin groups
  BY <1>1, OrderAt, NodesAssumption DEF Typed
<1>4. /\ \A n \in mine : groupOf[n] # 0 => groupOf[n] \in existing
      /\ \A g \in existing : g # 0 /\ \E n \in mine : groupOf[n] = g
  OBVIOUS
<1> HIDE DEF existing, mine
<1>5. existing \subseteq groups
  BY <1>3, <1>4 DEF Collected
<1>6. at \notin groups /\ at \notin existing
  BY <1>1, <1>3, <1>5
<1>7. \A n \in Nodes : groupOf'[n] = IF n \in mine \/ groupOf[n] \in existing THEN at ELSE groupOf[n]
  BY <1>2
<1>8. \A g \in groups' : g < at'
  BY <1>1, <1>2, <1>3
<1>9. ASSUME NEW i \in E, NEW m \in NodesOf(orders[i]), NEW n \in NodesOf(orders[i])
      PROVE  groupOf'[m] \in groups' /\ groupOf'[m] = groupOf'[n]
  <2>1. m \in Nodes /\ n \in Nodes
    BY <1>3, <1>9 DEF mine
  <2>2. CASE i = at
    BY <1>2, <1>6, <1>7, <2>1, <2>2 DEF mine
  <2>3. CASE i \in D
    <3>1. groupOf[m] \in groups /\ groupOf[m] = groupOf[n] /\ groupOf[m] # 0
      BY <1>3, <2>3 DEF Collected
    <3>2. CASE groupOf[m] \in existing
      BY <1>2, <1>6, <1>7, <2>1, <3>1, <3>2
    <3>3. CASE groupOf[m] \notin existing
      <4>1. m \notin mine /\ n \notin mine
        BY <1>4, <3>1, <3>3
      <4> QED
        BY <1>2, <1>7, <2>1, <3>1, <3>3, <4>1
    <3> QED
      BY <3>2, <3>3
  <2> QED
    BY <2>2, <2>3
<1>10. ASSUME NEW n \in Nodes, groupOf'[n] # 0 PROVE \E i \in E : n \in NodesOf(orders[i])
  <2>1. CASE n \in mine
    BY <2>1 DEF mine
  <2>2. CASE n \notin mine
    <3>1. groupOf[n] # 0
      BY <1>4, <1>7, <1>10, <2>2
    <3> QED
      BY <3>1 DEF Collected
  <2> QED
    BY <2>1, <2>2
<1>11. \A g : Members(E, g)' = {i \in E : \E n \in NodesOf(orders[i]) : groupOf'[n] = g}
  BY <1>1 DEF Members, NodesOf
<1> PICK c : c = at
  OBVIOUS
<1>12. ASSUME NEW g \in groups', g # at PROVE Members(E, g)' = Members(D, g)
  <2>1. g \in groups /\ g \notin existing /\ g # 0
    BY <1>2, <1>3, <1>12
  <2>2. ASSUME NEW i \in E, NEW n \in NodesOf(orders[i])
        PROVE  groupOf'[n] = g <=> i \in D /\ groupOf[n] = g
    <3>1. n \in Nodes /\ (i \notin D => n \in mine)
      BY <1>3, <2>2 DEF mine
    <3>2. CASE groupOf'[n] = g
      BY <1>7, <1>12, <3>1, <3>2
    <3>3. CASE i \in D /\ groupOf[n] = g
      BY <1>4, <1>7, <2>1, <3>1, <3>3
    <3> QED
      BY <3>2, <3>3
  <2>3. Members(E, g)' = {i \in E : \E n \in NodesOf(orders[i]) : groupOf'[n] = g}
    BY <1>11
  <2> QED
    BY <2>2, <2>3 DEF Members
<1> DEFINE Parts == {Members(D, g) : g \in existing}
           whole == UNION Parts
<1>13. Members(E, c)' = IF mine = {} THEN {} ELSE {at} \cup whole
  <2>1. Members(E, c)' = {i \in E : \E n \in NodesOf(orders[i]) : groupOf'[n] = c}
    BY <1>11
  <2>2. ASSUME NEW i \in D, NEW n \in NodesOf(orders[i])
        PROVE  groupOf'[n] = at <=> groupOf[n] \in existing
    <3>1. n \in Nodes /\ groupOf[n] \in groups /\ groupOf[n] # 0 /\ groupOf[n] # at
      BY <1>3, <1>6, <2>2 DEF Collected
    <3> QED
      BY <1>4, <1>7, <3>1
  <2>3. \A n \in mine : groupOf'[n] = at
    BY <1>3, <1>7
  <2>4. mine = {} => existing = {}
    BY <1>4
  <2>5. \A i \in D : (\E n \in NodesOf(orders[i]) : groupOf'[n] = at) <=> i \in whole
    BY <2>2 DEF Members
  <2>6. whole \subseteq D
    BY DEF Members
  <2> HIDE DEF whole, Parts
  <2>7. (\E n \in NodesOf(orders[at]) : groupOf'[n] = at) <=> mine # {}
    BY <2>3 DEF mine
  <2>8. CASE mine = {}
    <3>1. whole = {}
      BY <2>4, <2>8 DEF whole, Parts
    <3> QED
      BY <2>1, <2>5, <2>7, <2>8, <3>1
  <2>9. CASE mine # {}
    BY <2>1, <2>5, <2>6, <2>7, <2>9
  <2> QED
    BY <2>8, <2>9
<1>14. ASSUME NEW g \in groups' PROVE Linked(orders, Members(E, g)')
  <2>1. CASE g = at
    <3>1. \A P \in Parts : Linked(orders, P)
      BY <1>5 DEF Collected
    <3>2. ASSUME NEW P \in Parts
          PROVE  \E k \in P : NodesOf(orders[k]) \cap NodesOf(orders[at]) # {}
      <4>1. PICK h \in existing : P = Members(D, h)
        OBVIOUS
      <4>2. PICK n \in mine : groupOf[n] = h /\ h # 0
        BY <1>4
      <4>3. PICK i \in D : n \in NodesOf(orders[i])
        BY <1>3, <4>2 DEF Collected
      <4> QED
        BY <4>1, <4>2, <4>3 DEF Members, mine
    <3> HIDE DEF Parts
    <3>3. Linked(orders, {at} \cup whole)
      BY <3>1, <3>2, JoiningLinks
    <3> QED
      BY <1>13, <2>1, <3>3, NobodyIsLinked
  <2>2. CASE g # at
    BY <1>2, <1>12, <2>2 DEF Collected
  <2> QED
    BY <2>1, <2>2
<1>15. \A g \in groups' : Linked(orders', Members(E, g)')
  BY <1>1, <1>14
<1>16. ASSUME NEW g \in groups', Members(E, g)' # {}
       PROVE  /\ netsOf'[g].nets = UNION {OwnNets(i) : i \in Members(E, g)'}
              /\ Named(netsOf'[g])
  <2>1. CASE g = at
    <3>1. existing \in SUBSET (1..MaxOrders)
      BY <1>5 DEF Typed
    <3>2. netsOf'[at] = MergedNets(orders[at], existing, at)
      BY <1>1, <1>2 DEF Typed
    <3>3. /\ Named(netsOf'[at])
          /\ netsOf'[at].nets = OwnNets(at) \cup UNION {netsOf[h].nets : h \in existing \ {at}}
      BY <1>1, <3>1, <3>2, MergingNets
    <3>4. existing \ {at} = existing
      BY <1>6
    <3>5. ASSUME NEW h \in existing
          PROVE  netsOf[h].nets = UNION {OwnNets(i) : i \in Members(D, h)}
      <4>1. PICK n \in mine : groupOf[n] = h /\ h # 0
        BY <1>4
      <4>2. PICK i \in D : n \in NodesOf(orders[i])
        BY <1>3, <4>1 DEF Collected
      <4>3. Members(D, h) # {}
        BY <4>1, <4>2 DEF Members
      <4> QED
        BY <1>5, <4>3 DEF Collected
    <3> HIDE DEF whole, Parts
    <3>6. UNION {netsOf[h].nets : h \in existing} = UNION {OwnNets(i) : i \in whole}
      <4>1. \A h \in existing : \A x : x \in netsOf[h].nets <=> \E i \in Members(D, h) : x \in OwnNets(i)
        BY <3>5
      <4>2. \A i : i \in whole <=> \E h \in existing : i \in Members(D, h)
        BY DEF whole, Parts
      <4> QED
        BY <4>1, <4>2
    <3>7. Members(E, c)' = {at} \cup whole /\ Members(E, g)' = Members(E, c)'
      BY <1>13, <1>16, <2>1
    <3>8. UNION {OwnNets(i) : i \in {at} \cup whole} = OwnNets(at) \cup UNION {OwnNets(i) : i \in whole}
      OBVIOUS
    <3> QED
      BY <2>1, <3>3, <3>4, <3>6, <3>7, <3>8
  <2>2. CASE g # at
    <3>1. g \in groups /\ netsOf'[g] = netsOf[g] /\ Members(E, g)' = Members(D, g)
      BY <1>2, <1>12, <2>2 DEF Typed
    <3> QED
      BY <1>16, <3>1 DEF Collected
  <2> QED
    BY <2>1, <2>2
<1>17. Collected(E)'
  <2>1. \A i \in E : \A m, n \in NodesOf(orders[i])' :
            groupOf'[m] \in groups' /\ groupOf'[m] = groupOf'[n]
    BY <1>1, <1>9 DEF NodesOf
  <2>2. \A n \in Nodes : groupOf'[n] # 0 => \E i \in E : n \in NodesOf(orders[i])'
    BY <1>1, <1>10 DEF NodesOf
  <2>3. \A g \in groups' : Members(E, g)' # {} =>
            /\ netsOf'[g].nets = UNION {OwnNets(i)' : i \in Members(E, g)'}
            /\ Named(netsOf'[g])
    <3>1. \A i : OwnNets(i)' = OwnNets(i)
      BY <1>1 DEF OwnNets, NodesOf
    <3> QED
      BY <1>16, <3>1
  <2> QED
    BY <1>1, <1>15, <2>1, <2>2, <2>3 DEF Collected
<1> QED
  BY <1>8, <1>17

LEMMA CollectedStays ==
    ASSUME UNCHANGED <<orders, groupOf, groups, netsOf>>, NEW D, Collected(D)
    PROVE  Collected(D)'
<1>1. \A g : Members(D, g)' = Members(D, g)
  BY DEF Members, NodesOf
<1>2. \A i : OwnNets(i)' = OwnNets(i)
  BY DEF OwnNets, NodesOf
<1> QED
  BY <1>1, <1>2 DEF Collected

LEMMA GroupsStay ==
    ASSUME GroupsInv, phase \in {"collect", "consolidate"}, Finished' = Finished,
           phase' = "collect" => phase = "collect" /\ at' = at,
           UNCHANGED <<orders, groupOf, groups, netsOf>>
    PROVE  GroupsInv'
<1>1. \A D : D = Finished => Collected(D)'
  BY CollectedStays DEF GroupsInv
<1> QED
  BY <1>1 DEF GroupsInv

LEMMA GroupsKept ==
    Typed /\ RepeatsInv /\ GroupsInv /\ [Next]_vars => GroupsInv'
<1> SUFFICES ASSUME Typed, RepeatsInv, GroupsInv, [Next]_vars PROVE GroupsInv'
  OBVIOUS
<1>1. CASE Request
  BY <1>1 DEF Request, GroupsInv
<1>2. CASE StartSolve
  <2>1. /\ phase' = "collect" /\ at' = 1 /\ groups' = {} /\ orders' = orders
        /\ groupOf' = [n \in Nodes |-> 0]
    BY <1>2 DEF StartSolve
  <2>2. Finished' = {}
    BY <2>1, OrderAt DEF Finished
  <2>3. Collected({})'
    BY <2>1 DEF Collected
  <2> QED
    BY <2>1, <2>2, <2>3 DEF GroupsInv
<1>3. CASE CollectOrder
  <2>1. /\ phase = "collect" /\ phase' = "collect" /\ at <= Len(orders) /\ at' = at + 1
        /\ orders' = orders
    BY <1>3 DEF CollectOrder
  <2>2. PICK D : D = {i \in DOMAIN orders : i < at}
    OBVIOUS
  <2>3. PICK E : E = D \cup {at}
    OBVIOUS
  <2>4. D \in SUBSET (DOMAIN orders) /\ Collected(D) /\ \A g \in groups : g < at
    BY <2>1, <2>2 DEF GroupsInv, Finished
  <2>5. at \in DOMAIN orders /\ at \in Nat
    BY <2>1 DEF Typed
  <2>6. IsInjective(orders[at].nodes)
    BY <2>1, <2>5 DEF RepeatsInv
  <2>7. Collected(E)' /\ \A g \in groups' : g < at'
    BY <1>3, <2>3, <2>4, <2>6, CollectingOne
  <2>8. Finished' = E
    <3>1. Finished' = {i \in DOMAIN orders : i < at + 1}
      BY <2>1 DEF Finished
    <3>2. \A i \in DOMAIN orders : i \in Nat
      BY OrderAt
    <3> QED
      BY <2>2, <2>3, <2>5, <3>1, <3>2
  <2> QED
    BY <2>7, <2>8 DEF GroupsInv
<1>4. CASE StartConsolidation
  <2>1. /\ phase = "collect" /\ phase' = "consolidate" /\ at > Len(orders)
        /\ UNCHANGED <<orders, groupOf, groups, netsOf>>
    BY <1>4 DEF StartConsolidation
  <2>2. Finished' = Finished
    <3>1. \A i \in DOMAIN orders : i < at
      BY <2>1, OrderAt DEF Typed
    <3> QED
      BY <2>1, <3>1 DEF Finished
  <2> QED
    BY <2>1, <2>2, GroupsStay
<1>5. CASE ConsolidateNode
  <2>1. phase = "consolidate" /\ phase' = phase /\ UNCHANGED <<orders, groupOf, groups, netsOf>>
    BY <1>5 DEF ConsolidateNode
  <2>2. Finished' = Finished
    BY <2>1 DEF Finished
  <2> QED
    BY <2>1, <2>2, GroupsStay
<1>6. CASE NextOrder
  <2>1. phase = "consolidate" /\ phase' = phase /\ UNCHANGED <<orders, groupOf, groups, netsOf>>
    BY <1>6 DEF NextOrder
  <2>2. Finished' = Finished
    BY <2>1 DEF Finished
  <2> QED
    BY <2>1, <2>2, GroupsStay
<1>7. CASE ReplaceOrders \/ Run
  BY <1>7 DEF ReplaceOrders, Run, GroupsInv
<1>8. CASE UNCHANGED vars
  <2>1. UNCHANGED <<phase, at, orders, groupOf, groups, netsOf>>
    BY <1>8 DEF vars
  <2>2. CASE phase \in {"collect", "consolidate"}
    <3>1. Finished' = Finished
      BY <2>1 DEF Finished
    <3> QED
      BY <2>1, <2>2, <3>1, GroupsStay
  <2>3. CASE phase \notin {"collect", "consolidate"}
    BY <2>1, <2>3 DEF GroupsInv
  <2> QED
    BY <2>2, <2>3
<1> QED
  BY <1>1, <1>2, <1>3, <1>4, <1>5, <1>6, <1>7, <1>8 DEF Next

-----------------------------------------------------------------------------
\* Places.

Entries(s) == {s[i] : i \in DOMAIN s}

LEMMA EntriesAfterAppend ==
    ASSUME NEW s \in Seq(Nodes), NEW node \in Nodes
    PROVE  /\ Entries(Append(s, node)) = Entries(s) \cup {node}
           /\ IsInjective(s) /\ node \notin Entries(s) => IsInjective(Append(s, node))
<1> DEFINE t == Append(s, node)
<1>1. /\ DOMAIN s = 1..Len(s) /\ Len(s) \in Nat /\ DOMAIN t = 1..(Len(s) + 1)
      /\ \A i \in 1..Len(s) : t[i] = s[i]
      /\ t[Len(s) + 1] = node
  OBVIOUS
<1>2. DOMAIN t = (DOMAIN s) \cup {Len(s) + 1} /\ Len(s) + 1 \notin DOMAIN s
  BY <1>1
<1> HIDE DEF t
<1>3. Entries(t) = Entries(s) \cup {node}
  BY <1>1, <1>2 DEF Entries
<1>4. ASSUME IsInjective(s), node \notin Entries(s) PROVE IsInjective(t)
  <2>1. \A i \in DOMAIN s : s[i] # node
    BY <1>4 DEF Entries
  <2>2. \A i, j \in DOMAIN s : s[i] = s[j] => i = j
    BY <1>4 DEF IsInjective
  <2> QED
    BY <1>1, <1>2, <2>1, <2>2 DEF IsInjective
<1> QED
  BY <1>3, <1>4 DEF t

LEMMA PlacingNode ==
    ASSUME Typed, GroupedInv, PlacesInv, ConsolidateNode, NEW node, node = orders[at].nodes[step],
           node \notin included
    PROVE  /\ \A n \in included \cup {node} : \E k \in DOMAIN merged' : merged'[k].group = groupOf[n]
           /\ \A k \in DOMAIN merged' :
                  /\ NodesOf(merged'[k]) = {n \in included \cup {node} : groupOf[n] = merged'[k].group}
                  /\ NodesOf(merged'[k]) # {}
                  /\ IsInjective(merged'[k].nodes)
                  /\ merged'[k].net = netsOf[merged'[k].group]
           /\ \A k, l \in DOMAIN merged' : merged'[k].group = merged'[l].group => k = l
<1> DEFINE made == {k \in DOMAIN merged : merged[k].group = groupOf[node]}
           placed == Place(node, orders[at])
           new == Len(merged) + 1
<1>1. /\ phase = "consolidate" /\ at <= Len(orders) /\ step <= Len(orders[at].nodes)
      /\ merged' = placed
  BY DEF ConsolidateNode
<1>2. at \in DOMAIN orders /\ node \in Nodes /\ groupOf[node] # 0
  BY <1>1, NodeAtHand
<1>3. ASSUME made = {}
      PROVE  /\ DOMAIN placed = (DOMAIN merged) \cup {new} /\ new \notin DOMAIN merged
             /\ \A k \in DOMAIN merged : placed[k] = merged[k]
             /\ placed[new].group = groupOf[node]
             /\ placed[new].net = netsOf[groupOf[node]]
             /\ placed[new].nodes = <<node>>
  <2>1. DOMAIN placed = (DOMAIN merged) \cup {new} /\ new \notin DOMAIN merged
    <3>1. placed \in Seq(NewOrders)
      BY <1>2, Placing
    <3>2. Len(placed) = Len(merged) + 1
      BY <1>2, <1>3, Placing
    <3>3. Len(merged) \in Nat /\ DOMAIN merged = 1..Len(merged)
      BY DEF Typed
    <3> HIDE DEF placed
    <3> QED
      BY <3>1, <3>2, <3>3
  <2>2. \A k \in DOMAIN merged : placed[k] = merged[k]
    BY <1>2, <1>3, Placing
  <2>3. placed[new].group = groupOf[node] /\ placed[new].net = netsOf[groupOf[node]]
    BY <1>2, <1>3, Placing
  <2>4. placed[new].nodes = <<node>>
    BY <1>2, <1>3, Placing
  <2> QED
    BY <2>1, <2>2, <2>3, <2>4
<1>4. ASSUME made # {}
      PROVE  /\ DOMAIN placed = DOMAIN merged
             /\ \A k \in DOMAIN merged :
                    /\ placed[k].group = merged[k].group
                    /\ placed[k].net = merged[k].net
                    /\ placed[k].nodes = IF k \in made THEN Append(merged[k].nodes, node)
                                         ELSE merged[k].nodes
  BY <1>2, <1>4, Placing
<1>5. \A k \in DOMAIN merged : k \in made <=> merged[k].group = groupOf[node]
  OBVIOUS
<1>6. /\ \A n \in included : \E k \in DOMAIN merged : merged[k].group = groupOf[n]
      /\ \A k \in DOMAIN merged :
             /\ NodesOf(merged[k]) = {n \in included : groupOf[n] = merged[k].group}
             /\ NodesOf(merged[k]) # {}
             /\ IsInjective(merged[k].nodes)
             /\ merged[k].net = netsOf[merged[k].group]
      /\ \A k, l \in DOMAIN merged : merged[k].group = merged[l].group => k = l
  BY <1>1 DEF PlacesInv
<1>7. made \subseteq DOMAIN merged
  OBVIOUS
<1> HIDE DEF made, placed, new
<1>8. ASSUME NEW k \in DOMAIN merged, k \notin made
      PROVE  /\ NodesOf(placed[k]) = {n \in included \cup {node} : groupOf[n] = placed[k].group}
             /\ NodesOf(placed[k]) # {}
             /\ IsInjective(placed[k].nodes)
             /\ placed[k].net = netsOf[placed[k].group]
             /\ placed[k].group = merged[k].group
  <2>1. /\ placed[k].group = merged[k].group /\ placed[k].net = merged[k].net
        /\ placed[k].nodes = merged[k].nodes
    BY <1>3, <1>4, <1>8
  <2>2. NodesOf(placed[k]) = NodesOf(merged[k])
    BY <2>1 DEF NodesOf
  <2>3. merged[k].group # groupOf[node]
    BY <1>5, <1>8
  <2> QED
    BY <1>6, <2>1, <2>2, <2>3
<1>9. CASE made = {}
  <2>1. NodesOf(placed[new]) = {node} /\ IsInjective(placed[new].nodes)
    <3>1. placed[new].nodes = <<node>>
      BY <1>3, <1>9
    <3> QED
      BY <3>1 DEF NodesOf, IsInjective
  <2>2. placed[new].group = groupOf[node] /\ placed[new].net = netsOf[placed[new].group]
    BY <1>3, <1>9
  <2>3. \A n \in included : groupOf[n] # groupOf[node]
    BY <1>5, <1>6, <1>9
  <2>4. NodesOf(placed[new]) = {n \in included \cup {node} : groupOf[n] = placed[new].group}
    BY <2>1, <2>2, <2>3
  <2>5. DOMAIN placed = (DOMAIN merged) \cup {new} /\ new \notin DOMAIN merged
    BY <1>3, <1>9
  <2>6. \A n \in included \cup {node} : \E k \in DOMAIN placed : placed[k].group = groupOf[n]
    BY <1>6, <1>8, <1>9, <2>2, <2>5
  <2>7. \A k, l \in DOMAIN placed : placed[k].group = placed[l].group => k = l
    BY <1>5, <1>6, <1>8, <1>9, <2>2, <2>5
  <2> QED
    BY <1>1, <1>8, <1>9, <2>1, <2>2, <2>4, <2>5, <2>6, <2>7
<1>10. CASE made # {}
  <2>1. /\ DOMAIN placed = DOMAIN merged
        /\ \A k \in DOMAIN merged : placed[k].group = merged[k].group /\ placed[k].net = merged[k].net
    BY <1>4, <1>10
  <2>2. ASSUME NEW k \in made
        PROVE  /\ NodesOf(placed[k]) = {n \in included \cup {node} : groupOf[n] = placed[k].group}
               /\ NodesOf(placed[k]) # {}
               /\ IsInjective(placed[k].nodes)
               /\ placed[k].net = netsOf[placed[k].group]
    <3>1. k \in DOMAIN merged /\ merged[k].group = groupOf[node] /\ placed[k].group = merged[k].group
      BY <1>5, <1>7, <2>1
    <3>2. merged[k].nodes \in Seq(Nodes) /\ placed[k].nodes = Append(merged[k].nodes, node)
      BY <1>4, <1>10, <3>1, MadeAt
    <3>3. /\ NodesOf(placed[k]) = NodesOf(merged[k]) \cup {node}
          /\ IsInjective(merged[k].nodes) /\ node \notin NodesOf(merged[k])
                 => IsInjective(placed[k].nodes)
      <4> DEFINE s == merged[k].nodes
      <4>1. s \in Seq(Nodes) /\ placed[k].nodes = Append(s, node)
        BY <3>2
      <4>2. NodesOf(merged[k]) = Entries(s) /\ NodesOf(placed[k]) = Entries(placed[k].nodes)
        BY DEF NodesOf, Entries
      <4> HIDE DEF s
      <4>3. /\ Entries(Append(s, node)) = Entries(s) \cup {node}
            /\ IsInjective(s) /\ node \notin Entries(s) => IsInjective(Append(s, node))
        BY <1>2, <4>1, EntriesAfterAppend
      <4> QED
        BY <4>1, <4>2, <4>3 DEF s
    <3> QED
      BY <1>6, <2>1, <3>1, <3>3
  <2>3. \A n \in included \cup {node} : \E k \in DOMAIN placed : placed[k].group = groupOf[n]
    BY <1>5, <1>6, <1>7, <1>10, <2>1
  <2>4. \A k, l \in DOMAIN placed : placed[k].group = placed[l].group => k = l
    BY <1>6, <2>1
  <2> QED
    BY <1>1, <1>8, <2>1, <2>2, <2>3, <2>4
<1> QED
  BY <1>9, <1>10

LEMMA PlacesKept == Typed /\ GroupedInv /\ PlacesInv /\ [Next]_vars => PlacesInv'
<1> SUFFICES ASSUME Typed, GroupedInv, PlacesInv, [Next]_vars PROVE PlacesInv'
  OBVIOUS
<1>1. CASE Request \/ StartSolve \/ CollectOrder \/ ReplaceOrders \/ Run
  BY <1>1 DEF Request, StartSolve, CollectOrder, ReplaceOrders, Run, PlacesInv
<1>2. CASE StartConsolidation
  <2>1. /\ phase = "collect" /\ at' = 1 /\ UNCHANGED <<orders, step, merged, included>>
    BY <1>2 DEF StartConsolidation
  <2>2. step = 1 /\ merged = <<>> /\ included = {}
    BY <2>1 DEF Typed
  <2>3. \A i \in DOMAIN orders : \A j \in DOMAIN orders[i].nodes :
            ~(i < at') /\ ~(i = at' /\ j < step')
    BY <2>1, <2>2, OrderAt
  <2> QED
    BY <2>1, <2>2, <2>3 DEF PlacesInv
<1>3. CASE ConsolidateNode
  <2>1. PICK node : node = orders[at].nodes[step]
    OBVIOUS
  <2>2. /\ phase = "consolidate" /\ at <= Len(orders) /\ step <= Len(orders[at].nodes)
        /\ step' = step + 1 /\ UNCHANGED <<phase, orders, nextId, at, groupOf, groups, netsOf>>
        /\ included' = included \cup {node}
        /\ node \in included => merged' = merged
    BY <1>3, <2>1 DEF ConsolidateNode
  <2>3. at \in DOMAIN orders /\ node \in NodesOf(orders[at])
    BY <2>1, <2>2, NodeAtHand
  <2>4. \A i \in DOMAIN orders : \A j \in DOMAIN orders[i].nodes :
            i < at \/ (i = at /\ j < step + 1) => orders[i].nodes[j] \in included'
    <3>1. ASSUME NEW i \in DOMAIN orders, NEW j \in DOMAIN orders[i].nodes,
                 i < at \/ (i = at /\ j < step + 1)
          PROVE  orders[i].nodes[j] \in included'
      <4>1. j \in Nat /\ step \in Nat /\ i \in Nat /\ at \in Nat
        BY OrderAt DEF Typed
      <4>2. (i < at \/ (i = at /\ j < step)) \/ (i = at /\ j = step)
        BY <3>1, <4>1
      <4> QED
        BY <2>1, <2>2, <4>2 DEF PlacesInv
    <3> QED
      BY <3>1
  <2>5. included' \subseteq UNION {NodesOf(orders[i]) : i \in DOMAIN orders}
    BY <2>2, <2>3 DEF PlacesInv
  <2>6. /\ \A n \in included' : \E k \in DOMAIN merged' : merged'[k].group = groupOf[n]
        /\ \A k \in DOMAIN merged' :
               /\ NodesOf(merged'[k]) = {n \in included' : groupOf[n] = merged'[k].group}
               /\ NodesOf(merged'[k]) # {}
               /\ IsInjective(merged'[k].nodes)
               /\ merged'[k].net = netsOf[merged'[k].group]
        /\ \A k, l \in DOMAIN merged' : merged'[k].group = merged'[l].group => k = l
    <3>1. CASE node \in included
      <4>1. included' = included /\ merged' = merged
        BY <2>2, <3>1
      <4> QED
        BY <2>2, <4>1 DEF PlacesInv
    <3>2. CASE node \notin included
      BY <1>3, <2>1, <2>2, <3>2, PlacingNode
    <3> QED
      BY <3>1, <3>2
  <2> QED
    BY <2>2, <2>4, <2>5, <2>6 DEF PlacesInv
<1>4. CASE NextOrder
  <2>1. /\ phase = "consolidate" /\ at <= Len(orders) /\ step > Len(orders[at].nodes)
        /\ at' = at + 1 /\ step' = 1
        /\ UNCHANGED <<phase, orders, groupOf, groups, netsOf, merged, included>>
    BY <1>4 DEF NextOrder
  <2>2. ASSUME NEW i \in DOMAIN orders, NEW j \in DOMAIN orders[i].nodes,
               i < at' \/ (i = at' /\ j < step')
        PROVE  orders[i].nodes[j] \in included
    <3>1. /\ j \in Nat /\ j >= 1 /\ step \in Nat /\ i \in Nat /\ at \in Nat
          /\ j <= Len(orders[i].nodes) /\ Len(orders[i].nodes) \in Nat
      BY OrderAt DEF Typed
    <3>2. i < at \/ (i = at /\ j < step)
      BY <2>1, <2>2, <3>1
    <3> QED
      BY <2>1, <3>2 DEF PlacesInv
  <2> QED
    BY <2>1, <2>2 DEF PlacesInv
<1>5. CASE UNCHANGED vars
  BY <1>5 DEF vars, PlacesInv
<1> QED
  BY <1>1, <1>2, <1>3, <1>4, <1>5 DEF Next

-----------------------------------------------------------------------------
\* The theorems.

Basics == Typed /\ GroupedInv /\ IdsInv

MergingInv == Basics /\ RepeatsInv /\ GroupsInv /\ PlacesInv

LEMMA BasicsInvariant == /\ Init => Basics
                         /\ Basics /\ [Next]_vars => Basics'
<1>1. Init => Basics
  BY InitTyped, InitIds DEF Init, GroupedInv, Basics
<1> QED
  BY <1>1, TypedKept, GroupedKept, IdsKept DEF Basics

LEMMA MergingInvariant == NoRepeats => (Spec => []MergingInv)
<1> SUFFICES ASSUME NoRepeats PROVE Spec => []MergingInv
  OBVIOUS
<1>1. Init => MergingInv
  BY BasicsInvariant, RepeatsKept DEF Init, GroupsInv, PlacesInv, MergingInv
<1>2. MergingInv /\ [Next]_vars => MergingInv'
  BY BasicsInvariant, RepeatsKept, GroupsKept, PlacesKept DEF MergingInv, Basics
<1> QED
  BY <1>1, <1>2, PTL DEF Spec

\* When no request names a node twice, MergeAndReplaceEquivalentNets deletes no
\* group that routed_nets_by_port_ still refers to.
THEOREM CollectedGroupsAreOwned == NoRepeats => (Spec => []GroupsAreOwned)
<1> SUFFICES ASSUME NoRepeats PROVE Spec => []GroupsAreOwned
  OBVIOUS
<1>1. ASSUME MergingInv, phase \in {"collect", "consolidate"}, NEW i \in DOMAIN orders,
             i < at \/ phase = "consolidate", NEW n \in NodesOf(orders[i])
      PROVE  groupOf[n] \in groups
  <2>1. i \in Finished
    BY <1>1 DEF Finished
  <2> QED
    BY <1>1, <2>1 DEF MergingInv, GroupsInv, Collected
<1>2. MergingInv => GroupsAreOwned
  BY <1>1 DEF GroupsAreOwned
<1> QED
  BY <1>2, MergingInvariant, PTL

\* What holds when ConsolidateOrders has placed every node: a new order has the
\* nodes of its group, and was made of the orders of the group.
LEMMA WhenPlaced ==
    ASSUME MergingInv, Placed
    PROVE  /\ included = UNION {NodesOf(orders[i]) : i \in DOMAIN orders}
           /\ \A k \in DOMAIN merged :
                  /\ NodesOf(merged[k]) = {n \in included : groupOf[n] = merged[k].group}
                  /\ merged[k].group \in groups
                  /\ Origins(merged[k]) = Members(DOMAIN orders, merged[k].group)
                  /\ Members(DOMAIN orders, merged[k].group) # {}
<1>1. /\ Typed /\ phase = "consolidate" /\ at > Len(orders) /\ PlacesInv
      /\ Collected(DOMAIN orders)
  BY DEF MergingInv, Basics, GroupsInv, Finished, Placed
<1>2. \A i \in DOMAIN orders : NodesOf(orders[i]) \subseteq included
  <2>1. \A i \in DOMAIN orders : i < at
    BY <1>1, OrderAt DEF Typed
  <2> QED
    BY <1>1, <2>1 DEF PlacesInv, NodesOf
<1>3. included = UNION {NodesOf(orders[i]) : i \in DOMAIN orders}
  BY <1>1, <1>2 DEF PlacesInv
<1>4. ASSUME NEW k \in DOMAIN merged
      PROVE  /\ NodesOf(merged[k]) = {n \in included : groupOf[n] = merged[k].group}
             /\ merged[k].group \in groups
             /\ Origins(merged[k]) = Members(DOMAIN orders, merged[k].group)
             /\ Members(DOMAIN orders, merged[k].group) # {}
  <2>1. /\ NodesOf(merged[k]) = {n \in included : groupOf[n] = merged[k].group}
        /\ NodesOf(merged[k]) # {}
    BY <1>1 DEF PlacesInv
  <2>2. PICK n \in included : groupOf[n] = merged[k].group
    BY <2>1
  <2>3. PICK i \in DOMAIN orders : n \in NodesOf(orders[i])
    BY <1>3
  <2>4. merged[k].group \in groups
    BY <1>1, <2>2, <2>3 DEF Collected
  <2>5. Members(DOMAIN orders, merged[k].group) # {}
    BY <2>2, <2>3 DEF Members
  <2>6. \A j \in DOMAIN orders : \A m \in NodesOf(orders[j]) :
            m \in NodesOf(merged[k]) <=> groupOf[m] = merged[k].group
    BY <1>2, <2>1
  <2>7. Origins(merged[k]) = Members(DOMAIN orders, merged[k].group)
    BY <2>6 DEF Origins, Members
  <2> QED
    BY <2>1, <2>4, <2>5, <2>7
<1> QED
  BY <1>3, <1>4

LEMMA ElementsOfLists ==
    /\ ToSet(orders) = {orders[i] : i \in DOMAIN orders}
    /\ ToSet(merged) = {merged[k] : k \in DOMAIN merged}
BY DEF ToSet

\* ConsolidateOrders puts every node that was asked for in one place of one new
\* order.
THEOREM NodesArePartitioned == NoRepeats => (Spec => []OrdersPartitionNodes)
<1> SUFFICES ASSUME NoRepeats PROVE Spec => []OrdersPartitionNodes
  OBVIOUS
<1>1. ASSUME MergingInv, Placed, NEW n, n \in UNION {NodesOf(o) : o \in ToSet(orders)}
      PROVE  \E k \in DOMAIN merged : \E i \in DOMAIN merged[k].nodes :
                 \A l \in DOMAIN merged : \A j \in DOMAIN merged[l].nodes :
                     merged[l].nodes[j] = n <=> l = k /\ j = i
  <2>1. n \in included
    BY <1>1, WhenPlaced, ElementsOfLists
  <2>2. PlacesInv /\ phase = "consolidate"
    BY <1>1 DEF MergingInv, Placed
  <2>3. PICK k \in DOMAIN merged : merged[k].group = groupOf[n]
    BY <2>1, <2>2 DEF PlacesInv
  <2>4. n \in NodesOf(merged[k])
    BY <2>1, <2>2, <2>3 DEF PlacesInv
  <2>5. PICK i \in DOMAIN merged[k].nodes : merged[k].nodes[i] = n
    BY <2>4 DEF NodesOf
  <2>6. ASSUME NEW l \in DOMAIN merged, NEW j \in DOMAIN merged[l].nodes, merged[l].nodes[j] = n
        PROVE  l = k /\ j = i
    <3>1. n \in NodesOf(merged[l])
      BY <2>6 DEF NodesOf
    <3>2. groupOf[n] = merged[l].group
      BY <2>2, <3>1 DEF PlacesInv
    <3>3. l = k
      BY <2>2, <2>3, <3>2 DEF PlacesInv
    <3>4. IsInjective(merged[k].nodes)
      BY <2>2 DEF PlacesInv
    <3> QED
      BY <2>5, <2>6, <3>3, <3>4 DEF IsInjective
  <2> QED
    BY <2>5, <2>6
<1>2. MergingInv => OrdersPartitionNodes
  BY <1>1 DEF OrdersPartitionNodes
<1> QED
  BY <1>2, MergingInvariant, PTL

\* Orders that share nodes become one order, and nothing else is put together.
THEOREM LinkedOrdersMerge == NoRepeats => (Spec => []ConnectedOrdersMerge)
<1> SUFFICES ASSUME NoRepeats PROVE Spec => []ConnectedOrdersMerge
  OBVIOUS
<1>1. ASSUME MergingInv, Placed, NEW i \in DOMAIN orders, NodesOf(orders[i]) # {}
      PROVE  \E k \in DOMAIN merged : NodesOf(orders[i]) \subseteq NodesOf(merged[k])
  <2>1. PICK n \in NodesOf(orders[i]) : TRUE
    BY <1>1
  <2>2. NodesOf(orders[i]) \subseteq included
    BY <1>1, WhenPlaced
  <2>3. PICK k \in DOMAIN merged : merged[k].group = groupOf[n]
    BY <1>1, <2>1, <2>2 DEF MergingInv, PlacesInv, Placed
  <2>4. \A m \in NodesOf(orders[i]) : groupOf[m] = groupOf[n]
    BY <1>1, <2>1 DEF MergingInv, GroupsInv, Finished, Placed, Collected
  <2> QED
    BY <1>1, <2>2, <2>3, <2>4, WhenPlaced
<1>2. ASSUME MergingInv, Placed, NEW k \in DOMAIN merged
      PROVE  Linked(orders, Origins(merged[k]))
  <2>1. Collected(DOMAIN orders)
    BY <1>2 DEF MergingInv, Basics, GroupsInv, Finished, Placed
  <2> QED
    BY <1>2, <2>1, WhenPlaced DEF Collected
<1>3. ASSUME MergingInv, Placed, NEW o \in ToSet(orders), NodesOf(o) # {}
      PROVE  \E m \in ToSet(merged) : NodesOf(o) \subseteq NodesOf(m)
  BY <1>1, <1>3, ElementsOfLists
<1>4. ASSUME MergingInv, Placed, NEW m \in ToSet(merged), NEW S \in SUBSET Origins(m),
             S \notin {{}, Origins(m)}
      PROVE  \E i \in S, j \in Origins(m) \ S :
                 NodesOf(orders[i]) \cap NodesOf(orders[j]) # {}
  <2>1. Linked(orders, Origins(m))
    BY <1>2, <1>4, ElementsOfLists
  <2> QED
    BY <1>4, <2>1 DEF Linked
<1>5. MergingInv => ConnectedOrdersMerge
  BY <1>3, <1>4 DEF ConnectedOrdersMerge
<1> QED
  BY <1>5, MergingInvariant, PTL

\* A new order carries the nets of all the orders it was made of, of their ports,
\* and no others.
THEOREM MergedNetsAreCollected == NoRepeats => (Spec => []NetsAreCollected)
<1> SUFFICES ASSUME NoRepeats PROVE Spec => []NetsAreCollected
  OBVIOUS
<1>1. ASSUME MergingInv, Placed, NEW k \in DOMAIN merged
      PROVE  /\ merged[k].net.nets = UNION {OwnNets(i) : i \in Origins(merged[k])}
             /\ merged[k].net.primary \in merged[k].net.nets
  <2> DEFINE g == merged[k].group
             made == Origins(merged[k])
  <2>1. Collected(DOMAIN orders) /\ merged[k].net = netsOf[g] /\ Typed
    BY <1>1 DEF MergingInv, Basics, GroupsInv, Finished, PlacesInv, Placed
  <2>2. g \in groups /\ made = Members(DOMAIN orders, g) /\ made # {}
    BY <1>1, WhenPlaced
  <2>3. netsOf[g].nets = UNION {OwnNets(i) : i \in made} /\ Named(netsOf[g])
    BY <2>1, <2>2 DEF Collected
  <2>4. netsOf[g].nets # {}
    <3>1. NodesOf(merged[k]) # {}
      BY <1>1 DEF MergingInv, PlacesInv, Placed
    <3>2. PICK i \in made : TRUE
      BY <2>2
    <3>3. PICK n \in NodesOf(orders[i]) : TRUE
      BY <3>2 DEF Origins
    <3>4. NetOf[n] \in OwnNets(i)
      BY <3>3 DEF OwnNets
    <3> QED
      BY <2>3, <3>2, <3>4
  <2> QED
    BY <2>1, <2>3, <2>4 DEF Named
<1>2. MergingInv => NetsAreCollected
  BY <1>1, ElementsOfLists DEF NetsAreCollected, OwnNets
<1> QED
  BY <1>2, MergingInvariant, PTL

\* Solve keeps the results it has: no later order runs under the id of one.
THEOREM MergedResultsStand == Spec => ResultsStand
<1>1. ASSUME Basics, Run, NEW id \in DOMAIN results
      PROVE  id \in DOMAIN results' /\ results'[id] = results[id]
  <2>1. \A k \in DOMAIN orders : orders[k].id # id
    BY <1>1 DEF Basics, IdsInv, Fresh
  <2>2. results' = [x \in DOMAIN results \cup {orders[k].id : k \in DOMAIN orders} |->
                     IF \E k \in DOMAIN orders : orders[k].id = x
                     THEN (CHOOSE o \in ToSet(orders) : o.id = x).nodes
                     ELSE results[x]]
    BY <1>1 DEF Run
  <2> QED
    BY <2>1, <2>2
<1>2. ASSUME Basics, [Next]_vars, ~Run PROVE results' = results
  BY <1>2 DEF Next, Request, StartSolve, CollectOrder, StartConsolidation, ConsolidateNode,
              NextOrder, ReplaceOrders, vars
<1>3. Basics /\ [Next]_vars =>
          [\A id \in DOMAIN results : id \in DOMAIN results' /\ results'[id] = results[id]]_vars
  BY <1>1, <1>2
<1> QED
  BY <1>3, BasicsInvariant, PTL DEF Spec, ResultsStand
====
