---- MODULE BlockageCache ----
(***************************************************************************)
(* RoutingBlockageCache as RouteManager uses it: one root cache stages     *)
(* every connectable shape of the layout as a blockage, and every order    *)
(* searches with a child cache of its own that stages nothing, cancels the *)
(* shapes on its nets and passes these cancellations on to the root.  What *)
(* a shape overlaps or comes too close to is given; StagedCache takes it   *)
(* from the geometry of the grid.                                          *)
(***************************************************************************)
EXTENDS Integers, Sequences, FiniteSets

CONSTANTS
    Shapes,       \* the connectable shapes of the layout
    Ports,        \* those that are ports; the others are rectangles
    NetOf,        \* shape -> its net
    BoxOf,        \* shape -> its corners
    LayerOf,      \* shape -> its layer
    EdgesAt,      \* shape -> the edges it overlaps
    VerticesAt,   \* shape -> the vertices it overlaps
    Crowds,       \* shape -> the <<vertex, direction>> in which no via fits
    Orders,       \* the orders to run, each in a thread of its own
    NetsOf,       \* order -> usable_nets
    GlobalNets,   \* global_nets() of the layout
    AutoCancel,   \* auto_cancel_blockages_
    CancelLayers  \* auto_cancel_layers_

Root == 0
NoName == "none"   \* the net of a shape without a label

ASSUME OrdersAssumption == Orders \subseteq Nat \ {Root}
ASSUME ShapesAssumption == IsFiniteSet(Shapes) /\ Ports \subseteq Shapes

Directions == {"horizontal", "vertical"}
AllLayers == {LayerOf[s] : s \in Shapes}
AllEdges == UNION {EdgesAt[s] : s \in Shapes}
AllVertices == UNION {VerticesAt[s] \cup {c[1] : c \in Crowds[s]} : s \in Shapes}
AllNets == {NetOf[s] : s \in Shapes}

VARIABLES
    staged,       \* the blockages of the root cache, in the order of staging
    cancelled,    \* cache -> cancelled_blockages_: a set of entries
    phase         \* order -> "waiting", "searching" or "done"

vars == <<staged, cancelled, phase>>

\* An entry <<o, i, b>>: order o cancelled blockage b, for the i-th shape staged.
Blockages == 1..Cardinality(Shapes)
Entries == Orders \X Blockages \X Blockages

\* AddBlockages: rectangles come before ports.
Init ==
    /\ staged \in {f \in [Blockages -> Shapes] : \A i, j \in Blockages : i # j => f[i] # f[j]}
    /\ \A i, j \in Blockages : staged[i] \notin Ports /\ staged[j] \in Ports => i < j
    /\ cancelled = [c \in Orders \cup {Root} |-> {}]
    /\ phase = [o \in Orders |-> "waiting"]

-----------------------------------------------------------------------------
\* The entries of some caches for the blockages of B.
EntriesFor(B, caches) == UNION {{c} \X {x \in cancelled[c] : x[3] \in B} : c \in caches}

\* A mutant: one cancelled blockage stands for the others beside it.
CountIfNone(B, caches) == IF EntriesFor(B, caches) = {} THEN Cardinality(B) ELSE 0

\* CountUncancelledBlockages: entries are counted, not blockages.  (The code
\* wraps at zero, and only ever compares the result with zero.)
CountUncancelled(B, caches) == Cardinality(B) - Cardinality(EntriesFor(B, caches))

BlockedByNet(net, nets) == net = NoName \/ net \notin nets

\* IsEdgeBlocked: the blockages of an edge are kept per net.
EdgeBlockages(e, net) == {b \in Blockages : NetOf[staged[b]] = net /\ e \in EdgesAt[staged[b]]}

EdgeBlocked(o, e) ==
    \E net \in AllNets :
        BlockedByNet(net, NetsOf[o]) /\ CountUncancelled(EdgeBlockages(e, net), {Root, o}) # 0

\* IsBlockedByUsers: the shapes that overlap a vertex, per net and layer.
Users(v, net, l) ==
    {b \in Blockages : /\ NetOf[staged[b]] = net
                       /\ LayerOf[staged[b]] = l
                       /\ v \in VerticesAt[staged[b]]}

BlockedByUsers(o, v, S) ==
    \E net \in AllNets, l \in S :
        BlockedByNet(net, NetsOf[o]) /\ CountUncancelled(Users(v, net, l), {Root, o}) # 0

\* IsInhibitedInDirection: the shapes too near, per direction and layer; no
\* net is excepted here.
Inhibitors(v, d, l) ==
    {b \in Blockages : LayerOf[staged[b]] = l /\ <<v, d>> \in Crowds[staged[b]]}

Inhibited(o, v, D, S) ==
    \E d \in D, l \in S : CountUncancelled(Inhibitors(v, d, l), {Root, o}) # 0

VertexBlocked(o, v, D, S) == BlockedByUsers(o, v, S) \/ Inhibited(o, v, D, S)

-----------------------------------------------------------------------------
Alike(s, t) == BoxOf[s] = BoxOf[t] /\ LayerOf[s] = LayerOf[t]

\* FindBlockageByShape: the first blockage of a shape like the i-th.
FirstLike(i) ==
    CHOOSE b \in Blockages :
        /\ Alike(staged[b], staged[i])
        /\ \A c \in Blockages : Alike(staged[c], staged[i]) => b <= c

\* CancelBlockages, of the shapes on some nets: one entry for each shape.
CancelShapes(o, nets) ==
    {<<o, i, FirstLike(i)>> : i \in {j \in Blockages : NetOf[staged[j]] \in nets}}

\* CancelBlockages, of nets: one entry for each blockage on a layer of S.
MatchingOn(o, nets, S) ==
    {<<o, b, b>> : b \in {c \in Blockages : NetOf[staged[c]] \in nets /\ LayerOf[staged[c]] \in S}}

\* RunOrder, up to the first search: the child cache cancels the shapes on
\* the nets of the order and on the global nets.
BeginOrder(o) ==
    /\ phase[o] = "waiting"
    /\ cancelled' = [cancelled EXCEPT ![o] = CancelShapes(o, NetsOf[o] \cup GlobalNets)]
    /\ phase' = [phase EXCEPT ![o] = "searching"]
    /\ UNCHANGED staged

\* A mutant: all layers are cancelled, and each again on its own.
CancelledLayersTwice(o, nets) ==
    IF AutoCancel
    THEN MatchingOn(o, nets, AllLayers)
            \cup {<<x[1], 0, x[3]>> : x \in MatchingOn(o, nets, CancelLayers)}
    ELSE {}

\* MaybeAutoCancelBlockages: an empty list of layers stands for all of them.
AutoCancelled(o, nets) ==
    IF AutoCancel
    THEN MatchingOn(o, nets, IF CancelLayers = {} THEN AllLayers ELSE CancelLayers)
    ELSE {}

\* A mutant: the global nets are given up as well.
EndWithGlobals(o) ==
    /\ phase[o] = "searching"
    /\ cancelled' = [cancelled EXCEPT ![o] = {},
                                     ![Root] = @ \cup AutoCancelled(o, NetsOf[o] \cup GlobalNets)]
    /\ phase' = [phase EXCEPT ![o] = "done"]
    /\ UNCHANGED staged

\* RunOrder, after the last search: the child cache goes out of scope.
EndOrder(o) ==
    /\ phase[o] = "searching"
    /\ cancelled' = [cancelled EXCEPT ![o] = {}, ![Root] = @ \cup AutoCancelled(o, NetsOf[o])]
    /\ phase' = [phase EXCEPT ![o] = "done"]
    /\ UNCHANGED staged

AllDone == (\A o \in Orders : phase[o] = "done") /\ UNCHANGED vars

Next == (\E o \in Orders : BeginOrder(o) \/ EndOrder(o)) \/ AllDone

Spec == Init /\ [][Next]_vars

-----------------------------------------------------------------------------
\* What the theorems ask of orders and layouts; nothing in the code checks it.

\* No order is on the net of the shapes without a label.
OrdersAreNamed == \A o \in Orders : NoName \notin NetsOf[o]

\* Shapes of one rectangle (a pin is often drawn as a rectangle and as a port)
\* are on one net, not a global one, and too near to the same vertices.
DrawnAlike ==
    \A s, t \in Shapes : s # t /\ Alike(s, t) =>
        NetOf[s] = NetOf[t] /\ NetOf[s] \notin GlobalNets /\ Crowds[s] = Crowds[t]

-----------------------------------------------------------------------------
Searching == {o \in Orders : phase[o] = "searching"}
Done == {o \in Orders : phase[o] = "done"}

\* The blockages that count for an order: those nobody cancelled for it.
Standing(o) == {b \in Blockages : EntriesFor({b}, {Root, o}) = {}}
OnOtherNets(o) == {b \in Blockages : BlockedByNet(NetOf[staged[b]], NetsOf[o])}
Foreign(o) == Standing(o) \cap OnOtherNets(o)

\* The blockages that the root cache no longer wants once an order has ended.
GivenUp(p) ==
    {b \in Blockages : /\ AutoCancel /\ NetOf[staged[b]] \in NetsOf[p]
                       /\ CancelLayers = {} \/ LayerOf[staged[b]] \in CancelLayers}

\* Those that an order which has ended and another one, or o itself, cancelled.
\* Their entries are counted each time: a count may go below zero, and block
\* what should be free, or come to zero although a blockage stands.
CancelledTwice(o) ==
    {b \in Blockages :
        \E p \in Done : /\ b \in GivenUp(p)
                        /\ \/ NetOf[staged[b]] \in NetsOf[o] \cup GlobalNets
                           \/ \E q \in Done \ {p} : b \in GivenUp(q)}

\* The two ways in which a blockage can keep an order off the grid.
Covers(b, o, e) == b \in OnOtherNets(o) /\ e \in EdgesAt[staged[b]]

Bars(b, o, v, d, l) ==
    /\ LayerOf[staged[b]] = l
    /\ \/ b \in OnOtherNets(o) /\ v \in VerticesAt[staged[b]]
       \/ <<v, d>> \in Crowds[staged[b]]

\* "Cancelled blockages should be treated as non-existent": what a search
\* finds blocked is blocked by a blockage that nobody cancelled for it, or by
\* one that was cancelled twice.
CancelledAreIgnored ==
    \A o \in Searching :
        /\ \A e \in AllEdges : EdgeBlocked(o, e) =>
               \E b \in Standing(o) \cup CancelledTwice(o) : Covers(b, o, e)
        /\ \A v \in AllVertices, d \in Directions, l \in AllLayers :
               VertexBlocked(o, v, {d}, {l}) =>
                   \E b \in Standing(o) \cup CancelledTwice(o) : Bars(b, o, v, d, l)

\* A search respects the pins of others: a blockage that was not cancelled for
\* an order keeps it from the vertices the shape lies on, and from the edges
\* unless a shape of the same net on another layer was cancelled twice there.
StandingBlock ==
    \A o \in Searching : \A b \in Foreign(o) :
        /\ \A e \in EdgesAt[staged[b]] :
               \/ EdgeBlocked(o, e)
               \/ \E c \in CancelledTwice(o) :
                      /\ e \in EdgesAt[staged[c]]
                      /\ NetOf[staged[c]] = NetOf[staged[b]]
                      /\ LayerOf[staged[c]] # LayerOf[staged[b]]
        /\ \A v \in VerticesAt[staged[b]], d \in Directions :
               VertexBlocked(o, v, {d}, {LayerOf[staged[b]]})

\* While an order searches its view can only open, whatever other orders cancel
\* when they end: it closes only where a blockage was cancelled twice.
ViewsOnlyOpen ==
    [][\A o \in Searching \cap Searching' :
           /\ \A e \in AllEdges : EdgeBlocked(o, e)' =>
                  EdgeBlocked(o, e) \/ (\E b \in CancelledTwice(o) : Covers(b, o, e))'
           /\ \A v \in AllVertices, d \in Directions, l \in AllLayers :
                  VertexBlocked(o, v, {d}, {l})' =>
                      \/ VertexBlocked(o, v, {d}, {l})
                      \/ (\E b \in CancelledTwice(o) : Bars(b, o, v, d, l))']_vars
====
