---- MODULE CellDrawings ----
(***************************************************************************)
(* The cells that the generators draw, each against the circuit that the    *)
(* same generator gives it, and two of them put against each other as the   *)
(* rows of a MemoryBank are: side by side, or above, where every other row  *)
(* is turned by 180 degrees so that the rails of neighbours coincide.       *)
(***************************************************************************)
EXTENDS GateDrawings, FillDrawings

CONSTANTS
    Widths,     \* of the decoupling capacitors
    Heights,    \* of the cells that can be drawn with any
    Neighbours, \* the kinds that are put against each other
    Offsets     \* of a cell in the row above

Flop == INSTANCE DfxtpDrawing
Mux21 == INSTANCE Mux21Drawing

row_height == 2720

\* The rules of the process: the least distances of the shapes of a layer, and
\* of a well from the diffusion that is not in it.
min_separation == [diff |-> 270, poly |-> 210, licon |-> 170, li |-> 170, mcon |-> 190, met1 |-> 140]
nwell_separation == 340
\* How far layers reach beyond a cut, and poly and diffusion beyond a channel.
via_overhang == [li |-> <<0, 80>>, met1 |-> <<30, 60>>, poly |-> <<50, 80>>, diff |-> <<40, 60>>,
                 tap |-> <<0, 120>>]
npc_enclosure == 100
poly_end == 130
diff_end == 250

ViaChoices == [draw_vgnd_vias : BOOLEAN, draw_vpwr_vias : BOOLEAN]

\* What a generator may be given.
Parameters ==
    [kind : {"dfxtp"}, input_clock_buffer : BOOLEAN, add_inverted_output_port : BOOLEAN, vias : ViaChoices]
    \cup [kind : {"buf", "tap"}, height : Heights, vias : ViaChoices]
    \cup [kind : {"xor2"}, height : {row_height}, vias : ViaChoices]
    \cup [kind : {"mux2_1"}, height : {row_height}]
    \cup [kind : {"decap"}, width : Widths, height : Heights, pins : BOOLEAN, vias : ViaChoices]

Generate(p) ==
    LET q == IF p.kind = "mux2_1" THEN p ELSE p @@ p.vias
    IN  CASE p.kind = "dfxtp" -> Flop!Dfxtp(q)
          [] p.kind = "mux2_1" -> Mux21!HdMux21
          [] p.kind = "buf" -> Buf(q)
          [] p.kind = "xor2" -> Xor2(q)
          [] p.kind = "decap" -> Decap(q)
          [] p.kind = "tap" -> Tap(q @@ [width |-> tap_width])

\* A cell, and what is extracted from it when a neighbour gives the cuts of
\* the rails that it is drawn without.  TLC makes this table once.
Completed(c) ==
    Over(c.layout, Drawing([mcon |-> UNION {StampVias(y, c.bounds.x2, 460) : y \in {0, c.bounds.y2}}]))
Extracted(c) ==
    LET nets == Nets(Completed(c))
    IN  [cell |-> c, nets |-> nets, fets |-> Fets(c.layout, nets)]
Made == Table([p \in Parameters |-> Extracted(Generate(p))])

-----------------------------------------------------------------------------
VARIABLES
    made,     \* what the first cell is made from
    beside,   \* what its neighbour is made from
    place     \* where that is: the corner of its bounds, and whether it is turned

vars == <<made, beside, place>>
None == [kind |-> "none"]

Init == made = None /\ beside = None /\ place = <<0, 0, FALSE>>

\* Cells of the rows: of one height, with their pins and their cuts.
Standing(p) ==
    /\ p.kind \in Neighbours
    /\ "height" \in DOMAIN p => p.height = row_height
    /\ "vias" \in DOMAIN p => p.vias.draw_vgnd_vias /\ p.vias.draw_vpwr_vias
    /\ "pins" \in DOMAIN p => p.pins

Draw(p) == made = None /\ made' = p /\ UNCHANGED <<beside, place>>

\* InstantiateBack.
PutRight(p) ==
    /\ made # None /\ beside = None
    /\ Standing(made) /\ Standing(p)
    /\ beside' = p
    /\ place' = <<Made[made].cell.bounds.x2, 0, FALSE>>
    /\ UNCHANGED made

\* In the row above, which is turned, at a multiple of the unit's width.
PutAbove(p, x) ==
    /\ made # None /\ beside = None
    /\ Standing(made) /\ Standing(p)
    /\ beside' = p
    /\ place' = <<x, row_height, TRUE>>
    /\ UNCHANGED made

Next == \E p \in Parameters :
            \/ Draw(p)
            \/ PutRight(p)
            \/ \E x \in Offsets : PutAbove(p, x)

Spec == Init /\ [][Next]_vars

\* Where a box of the neighbour lies.
Put(n, b) ==
    IF place[3] THEN Shifted(Turned(b), place[1] + n.cell.bounds.x2, place[2] + n.cell.bounds.y2)
    ELSE Shifted(b, place[1], place[2])

-----------------------------------------------------------------------------
(* Properties.                                                              *)

\* The names that are seen on a net, and the net that a shape is of.
Names(c, net) ==
    {q.net : q \in {r \in c.pads \cup c.marks :
                        \E s \in net : s.layer = r.layer /\ Hits(s.box, r.box)}}
NetOf(m, layer, b) == CHOOSE n \in m.nets : [layer |-> layer, box |-> b] \in n

\* Transistors with their nets named.
Named(m) ==
    {[kind |-> f.kind, gate |-> {Names(m.cell, n) : n \in f.gate},
      ends |-> {Names(m.cell, n) : n \in f.ends}, w |-> f.w, l |-> f.l] : f \in m.fets}
Expected(c) ==
    {[kind |-> f.kind, gate |-> {{f.gate}}, ends |-> {{e} : e \in f.ends}, w |-> f.w, l |-> f.l] :
        f \in c.circuit}

\* Two transistors in series, at a net that nothing else is on, may be in
\* either order.
InSeries(F) ==
    LET middles == {n \in UNION {f.ends : f \in F} :
                        /\ Cardinality({f \in F : n \in f.ends}) = 2
                        /\ \A f \in F : n \notin f.gate}
        Pair(n) == {f \in F : n \in f.ends}
    IN  {{f} : f \in {g \in F : g.ends \cap middles = {}}} \cup
        {{[gates |-> {f.gate : f \in Pair(n)}, sizes |-> {<<f.kind, f.w, f.l>> : f \in Pair(n)},
           ends |-> UNION {f.ends : f \in Pair(n)}]} : n \in middles}

\* Every net that is extracted is one net of the circuit, and no two of them
\* are the same one; the transistors that are extracted are the circuit's.
Matches(m) ==
    /\ \A n \in m.nets : Cardinality(Names(m.cell, n)) = 1
    /\ Cardinality({Names(m.cell, n) : n \in m.nets}) = Cardinality(m.nets)
    /\ Cardinality(m.fets) = Cardinality(m.cell.circuit)
    /\ InSeries(Named(m)) = InSeries(Expected(m.cell))

\* A cell's drawing is its circuit: every net that the drawing joins is one
\* net of the circuit, no two of them are the same one, and where poly crosses
\* diffusion there are the transistors of the circuit, with their sizes.
DrawingsKeepTheirCircuits == made # None => Matches(Made[made])

\* Covered with an overhang that is wider along one axis than along the other.
Wider(b, x, y) == Box(b.x1 - x, b.y1 - y, b.x2 + x, b.y2 + y)
Encloses(B, b, overhang) ==
    Covered(Wider(b, overhang[1], overhang[2]), B) \/ Covered(Wider(b, overhang[2], overhang[1]), B)

\* What a contact lies on, and what it stays clear of.
Below == {"poly", "diff", "tap"}
CutsLand(d) ==
    /\ \A c \in d.licon :
         /\ Encloses(d.li, c, via_overhang.li)
         /\ \E layer \in Below :
               /\ Covered(c, d[layer])
               /\ \A other \in Below \ {layer} : \A b \in d[other] : ~Hits(b, c)
               /\ layer = "poly" => Covered(c, d.npc)
    /\ \A c \in d.mcon : Covered(c, d.li) /\ Encloses(d.met1, c, via_overhang.met1)
OverhangsBelow(d) ==
    \A c \in d.licon, layer \in Below :
        Covered(c, d[layer]) =>
            /\ Encloses(d[layer], c, via_overhang[layer])
            /\ layer = "poly" => Covered(Padded(c, npc_enclosure), d.npc)
ChannelsEnd(m) ==
    \A f \in m.fets : /\ Covered(Wider(f.at, 0, poly_end), m.cell.layout.poly)
                      /\ Covered(Wider(f.at, diff_end, 0), m.cell.layout.diff)

\* Every cut joins what it is meant to join: a contact lies whole on one of poly,
\* diffusion and tap, clear of the others, on poly in the nitride cut, and a via in both
\* wirings; local wiring and metal reach beyond it as the process asks.  Poly and
\* diffusion end far enough from a channel.  That poly, diffusion and tap reach beyond a
\* contact as they should is not said of a flip-flop with a clock buffer, whose poly does
\* not.
CutsLandAndChannelsEnd ==
    made # None =>
        /\ CutsLand(Made[made].cell.layout) /\ ChannelsEnd(Made[made])
        /\ (made.kind = "dfxtp" => ~made.input_clock_buffer) => OverhangsBelow(Made[made].cell.layout)

Wiring == {"poly", "li", "met1"}
OffWell(d, wells) ==
    \A b \in d.diff, w \in wells : ~Covered(b, d.nwell) => ~Closer(b, w, nwell_separation)

\* The shapes of one cell, with the cuts of the rails that a neighbour gives.
AllApart(m, cuts) ==
    /\ \A layer \in Wiring : \A a, b \in m.cell.layout[layer] :
          Closer(a, b, min_separation[layer]) => NetOf(m, layer, a) = NetOf(m, layer, b)
    /\ \A layer \in {"licon", "mcon"} : \A a, b \in cuts[layer] :
          a = b \/ ~Closer(a, b, min_separation[layer])
    /\ OffWell(m.cell.layout, m.cell.layout.nwell)

\* The shapes of a cell and its neighbour.
Rail(m, n, layer, a, b) ==
    \E rail \in {"VPWR", "VGND"} :
        rail \in Names(m.cell, NetOf(m, layer, a)) \cap Names(n.cell, NetOf(n, layer, b))
ApartFrom(m, n) ==
    /\ \A layer \in Wiring : \A a \in m.cell.layout[layer], b \in n.cell.layout[layer] :
          Closer(a, Put(n, b), min_separation[layer]) => Rail(m, n, layer, a, b)
    /\ \A layer \in {"licon", "mcon"} : \A a \in m.cell.layout[layer], b \in n.cell.layout[layer] :
          a = Put(n, b) \/ ~Closer(a, Put(n, b), min_separation[layer])
    /\ \A a \in m.cell.layout.diff, b \in n.cell.layout.diff :
          ~Closer(a, Put(n, b), min_separation["diff"])
    /\ OffWell(m.cell.layout, {Put(n, w) : w \in n.cell.layout.nwell})
    /\ \A b \in n.cell.layout.diff, w \in m.cell.layout.nwell :
          ~Covered(b, n.cell.layout.nwell) => ~Closer(Put(n, b), w, nwell_separation)

\* Shapes of a layer that are not of one net keep the distance that the process
\* asks for, cuts coincide or keep theirs, and wells their distance from the
\* diffusion that they are not meant for, in a cell and between neighbours,
\* who share nothing but the rails.
ShapesKeepApart ==
    /\ made # None => \E m \in {Made[made]} : AllApart(m, Completed(m.cell))
    /\ beside # None => ApartFrom(Made[made], Made[beside])
====
