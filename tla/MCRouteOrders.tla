---- MODULE MCRouteOrders ----
\* Instances of RouteOrders: small grids of pitch 10 and the orders on them.
EXTENDS RouteOrders, SequencesExt

CONSTANTS a, b, c

At(x, y) == [horizontal |-> x, vertical |-> y]
Before(u, v) ==
    \/ u.horizontal < v.horizontal
    \/ u.horizontal = v.horizontal /\ u.vertical < v.vertical

MCAccesses == {{"horizontal"}}
OneOffset == {0}
ThreeOffsets == {0, 10, 20}
SixOffsets == {0, 10, 20, 30, 40, 50}
TurnAB == (a :> 0) @@ (b :> 1)
TurnABC == (a :> 0) @@ (b :> 1) @@ (c :> 2)

Single(s) == [i \in DOMAIN s |-> {s[i]}]
Distinct(s) == \A i, j \in DOMAIN s : s[i] = s[j] => i = j
Pairs == {w \in Vertices \X Vertices : Before(w[1], w[2])}

\* A first net along a row, across the rows or over a corner, and a second
\* with its ports anywhere else.
Beside(firsts) ==
    {(a :> Single(w[1])) @@ (b :> Single(w[2])) :
        w \in {x \in firsts \X Pairs : Distinct(x[1] \o x[2])}}

Row == <<At(0, 10), At(50, 10)>>
ShortRow == <<At(20, 10), At(30, 10)>>
Column == <<At(20, 0), At(20, 20)>>
Corner == <<At(20, 20), At(40, 0)>>
\* An order of one node, which is refused and leaves its pin where it is.
Lone == {(a :> Single(ShortRow)) @@ (b :> <<{v}>>) : v \in Vertices \ {ShortRow[1], ShortRow[2]}}
Crossings == Beside({Row, ShortRow, Column, Corner}) \cup Lone
RowAndCorner == Beside({Row, Corner})

\* The first net has three nodes, the last of them of two ports in corners or
\* of one in the middle, where a path ends beside vias of its net; the second
\* has two nodes, or one only.
TreesTo(far) ==
    LET others == {<<At(0, 10), At(far, 10)>>, <<At(far, 0), At(far, 10)>>, <<At(10, 10)>>}
        lasts == {<<At(0, 0), At(0, far)>>, <<At(10, 10)>>}
        firsts == {w \in Vertices \X Vertices : w[1] # w[2]}
    IN  {(a :> <<{w[1][1]}, {w[1][2]}, ToSet(w[3])>>) @@ (b :> Single(w[2])) :
            w \in {x \in firsts \X others \X lasts : Distinct(x[1] \o x[2] \o x[3])}}
Trees == TreesTo(20)

\* Three nets of two nodes each along one row.
ThreePairs ==
    LET inRow == {w \in Pairs : w[1].vertical = 0 /\ w[2].vertical = 0}
    IN  {(a :> Single(w[1])) @@ (b :> Single(w[2])) @@ (c :> Single(w[3])) :
            w \in {x \in inRow \X inRow \X inRow :
                /\ Distinct(x[1] \o x[2] \o x[3])
                /\ Before(x[1][1], x[2][1]) /\ Before(x[2][1], x[3][1])}}
====
