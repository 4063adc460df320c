---- MODULE Mask ----
(***************************************************************************)
(* Drawings of cells, as Layout holds them, and what is made of them: the   *)
(* conductors that a drawing joins, and the transistors where poly crosses  *)
(* diffusion.  A drawing is a function from layers to sets of boxes, in     *)
(* nanometres.  The virtual layers are those they stand for: ncon, pcon and *)
(* polycon are licon, ndiff and pdiff are diff.                             *)
(*                                                                         *)
(* Extraction is how such drawings are read, and no part of the program.    *)
(***************************************************************************)
EXTENDS Integers, FiniteSets, Sequences, TLC

Layers == {"diff", "tap", "poly", "licon", "li", "mcon", "met1",
           "nwell", "nsdm", "psdm", "npc"}

Greatest(S) == CHOOSE x \in S : \A y \in S : y <= x
Least(S) == CHOOSE x \in S : \A y \in S : x <= y

-----------------------------------------------------------------------------
(* Shapes.                                                                  *)

Box(x1, y1, x2, y2) == [x1 |-> x1, y1 |-> y1, x2 |-> x2, y2 |-> y2]
Sized(x, y, width, height) == Box(x, y, x + width, y + height)
Padded(b, margin) == Box(b.x1 - margin, b.y1 - margin, b.x2 + margin, b.y2 + margin)
Hull(B) == Box(Least({b.x1 : b \in B}), Least({b.y1 : b \in B}),
               Greatest({b.x2 : b \in B}), Greatest({b.y2 : b \in B}))
Meet(a, b) == Box(Greatest({a.x1, b.x1}), Greatest({a.y1, b.y1}),
                  Least({a.x2, b.x2}), Least({a.y2, b.y2}))

\* AddSquare and MakeVia, about their centres; cuts of 170 nm, from their
\* lower left corners.
Square(p, side) == Sized(p[1] - side \div 2, p[2] - side \div 2, side, side)
Vias(P) == {Square(p, 170) : p \in P}
Cuts(P) == {Sized(p[1], p[2], 170, 170) : p \in P}

\* A polygon whose edges run along x and y in turn, the first along x: what
\* every other vertex is, <<x, y, x, y, ...>>; as the boxes it is made of
\* between neighbouring corners in y.
Outline(s) ==
    LET n == Len(s) \div 2
        Next(k) == (k % n) + 1
        Wall(k) == [x |-> s[2 * Next(k) - 1],
                    low |-> Least({s[2 * k], s[2 * Next(k)]}),
                    high |-> Greatest({s[2 * k], s[2 * Next(k)]})]
        walls == {Wall(k) : k \in 1..n}
        levels == {s[2 * k] : k \in 1..n}
        Slab(y) ==
            LET top == Least({z \in levels : z > y})
                xs == {w.x : w \in {v \in walls : v.low <= y /\ top <= v.high}}
            IN  {Box(x, y, Least({z \in xs : z > x}), top) :
                    x \in {z \in xs : Cardinality({u \in xs : u < z}) % 2 = 0}}
    IN  UNION {Slab(y) : y \in levels \ {Greatest(levels)}}

\* Polygons of a layer.
Outlines(S) == UNION {Outline(s) : s \in S}

\* The same function, which TLC then keeps as a table.
Table(f) == f @@ <<>>

\* A drawing of some layers, and drawings over each other.
Drawing(d) == d @@ [l \in Layers |-> {}]
Over(d, e) == Table([l \in Layers |-> d[l] \cup e[l]])

\* Layout::Translate, and a rotation by 180 degrees about the origin.
Shifted(b, x, y) == Box(b.x1 + x, b.y1 + y, b.x2 + x, b.y2 + y)
Turned(b) == Box(-b.x2, -b.y2, -b.x1, -b.y1)
Translate(d, x, y) == Table([l \in Layers |-> {Shifted(b, x, y) : b \in d[l]}])

\* A cell: its layout, with the bounds by which it is put beside others, its
\* pads, marks where other nets are seen, and its circuit.
Cell(layout, bounds, pads, marks, circuit) ==
    [layout |-> layout, bounds |-> bounds, pads |-> pads, marks |-> marks, circuit |-> circuit]
Moved(c, x, y) ==
    LET Along(P) == {[p EXCEPT !.box = Shifted(p.box, x, y)] : p \in P}
    IN  Cell(Translate(c.layout, x, y), Shifted(c.bounds, x, y), Along(c.pads), Along(c.marks),
             c.circuit)
Pad(net, layer, box) == [net |-> net, layer |-> layer, box |-> box]
Mark(net, layer, x, y) == Pad(net, layer, Square(<<x, y>>, 2))

\* A transistor of a circuit: every generator's length is 150.
Fet(kind, gate, d, s, w) == [kind |-> kind, gate |-> gate, ends |-> {d, s}, w |-> w, l |-> 150]
PFet(gate, d, s, w) == Fet("pfet", gate, d, s, w)
NFet(gate, d, s, w) == Fet("nfet", gate, d, s, w)
Inverter(a, y, p, n) == {PFet(a, y, "VPWR", p), NFet(a, y, "VGND", n)}

-----------------------------------------------------------------------------
(* Extraction.                                                              *)

Hits(a, b) == a.x1 < b.x2 /\ b.x1 < a.x2 /\ a.y1 < b.y2 /\ b.y1 < a.y2
Holds(a, b) == a.x1 <= b.x1 /\ b.x2 <= a.x2 /\ a.y1 <= b.y1 /\ b.y2 <= a.y2

\* Overlapping, or sharing a part of an edge.
Touches(a, b) ==
    /\ a.x1 <= b.x2 /\ b.x1 <= a.x2 /\ a.y1 <= b.y2 /\ b.y1 <= a.y2
    /\ (a.x1 < b.x2 /\ b.x1 < a.x2) \/ (a.y1 < b.y2 /\ b.y1 < a.y2)

\* Nearer to each other than a distance, along the axes or across a corner.
Closer(a, b, distance) ==
    LET Gap(low, high) == Greatest({low, high, 0})
        dx == Gap(a.x1 - b.x2, b.x1 - a.x2)
        dy == Gap(a.y1 - b.y2, b.y1 - a.y2)
    IN  dx * dx + dy * dy < distance * distance

\* What is left of a box where it is not covered.
Uncovered(b, cover) ==
    LET over == {Meet(b, c) : c \in {d \in cover : Hits(b, d)}}
        xs == {b.x1, b.x2} \cup UNION {{c.x1, c.x2} : c \in over}
        ys == {b.y1, b.y2} \cup UNION {{c.y1, c.y2} : c \in over}
        Piece(x, y) == Box(x, y, Least({z \in xs : z > x}), Least({z \in ys : z > y}))
    IN  {p \in {Piece(x, y) : x \in xs \ {b.x2}, y \in ys \ {b.y2}} :
            \A c \in over : ~Holds(c, p)}

Covered(b, cover) == Uncovered(b, cover) = {}

\* What is reached from the rim over links.
RECURSIVE Spread(_, _, _)
Spread(found, rim, links) ==
    IF rim = {} THEN found
    ELSE LET next == UNION {links[n] : n \in rim} \ found
         IN  Spread(found \cup next, next, links)

RECURSIVE Components(_, _)
Components(nodes, links) ==
    IF nodes = {} THEN {}
    ELSE LET n == CHOOSE m \in nodes : TRUE
             found == Spread({n}, {n}, links)
         IN  {found} \cup Components(nodes \ found, links)

On(layer, boxes) == {[layer |-> layer, box |-> b] : b \in boxes}

\* Cuts join the layers above and below them.
Joins == {<<"licon", "li">>, <<"licon", "poly">>, <<"licon", "diff">>, <<"licon", "tap">>,
          <<"mcon", "li">>, <<"mcon", "met1">>}
Joined(a, b) ==
    \/ a.layer = b.layer /\ Touches(a.box, b.box)
    \/ (<<a.layer, b.layer>> \in Joins \/ <<b.layer, a.layer>> \in Joins) /\ Hits(a.box, b.box)

\* Diffusion beside the poly that crosses it.
Sources(d) == UNION {Uncovered(b, d.poly) : b \in d.diff}

\* The sets of conducting shapes that are joined.
Nets(d) ==
    LET nodes == On("diff", Sources(d)) \cup On("tap", d.tap) \cup On("poly", d.poly)
                 \cup On("licon", d.licon) \cup On("li", d.li) \cup On("mcon", d.mcon)
                 \cup On("met1", d.met1)
    IN  Components(nodes, [n \in nodes |-> {m \in nodes : Joined(n, m)}])

\* The channels: where poly lies on diffusion, each a set of boxes.
Channels(d) ==
    LET pieces == {Meet(b, p) : <<b, p>> \in {q \in d.diff \X d.poly : Hits(q[1], q[2])}}
    IN  Components(pieces, [c \in pieces |-> {e \in pieces : Touches(c, e)}])

\* A transistor: its kind by the well it is in, the nets at its gate and its
\* ends, and its size.
Kind(d, b) == IF Covered(b, d.nwell) THEN "pfet"
              ELSE IF \A w \in d.nwell : ~Hits(b, w) THEN "nfet" ELSE "none"

Fets(d, nets) ==
    LET Beside(c, layer) == {n \in nets : \E s \in n : s.layer = layer /\
                                 \E b \in c : IF layer = "poly" THEN Hits(s.box, b)
                                              ELSE Touches(s.box, b)}
    IN  {[kind |-> Kind(d, Hull(c)), gate |-> Beside(c, "poly"), ends |-> Beside(c, "diff"),
          w |-> Hull(c).y2 - Hull(c).y1, l |-> Hull(c).x2 - Hull(c).x1, at |-> Hull(c)] :
            c \in Channels(d)}

====
