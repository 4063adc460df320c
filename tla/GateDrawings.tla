---- MODULE GateDrawings ----
(***************************************************************************)
(* Sky130Buf and Sky130Xor2: the drawings of a buffer and of an exclusive   *)
(* or, and the circuits that they are said to be.  A cell of another height *)
(* is drawn by moving what belongs to its upper edge; p.height is that      *)
(* height.  Widths of transistors are those that Parameters start with.     *)
(***************************************************************************)
EXTENDS Mask

\* Cuts between the rails of met1 and of li, at each place of X.
RailCuts(p, X) ==
    Vias({<<x, y>> : x \in X,
              y \in (IF p.draw_vgnd_vias THEN {0} ELSE {})
                    \cup (IF p.draw_vpwr_vias THEN {p.height} ELSE {})})
RailBars(p, width) == {Sized(0, -240, width, 480), Sized(0, p.height - 240, width, 480)}

-----------------------------------------------------------------------------
(* Sky130Buf.                                                               *)

BufWires(h) == {Box(105, 985, 445, 1355)} \cup Outlines({
    <<0, 85, 525, 465, 855, 85, 1380, -85>>,
    <<175, 805, 670, 1535, 165, h - 255, 345, 1705, 840, 1390, 945, 1060, 840, 635, 345, 255>>,
    <<1035, 760, 1115, 1560, 1025, h - 255, 1295, 255>>,
    <<525, h - 85, 0, h + 85, 1380, h - 85, 855, h - 845>>})

BufContacts(h) ==
    LET pfet_top == h - 235
    IN  Cuts({<<185, 1075>>, <<775, 1140>>}) \cup
        Vias({<<x, pfet_top - y>> : x \in {260, 690, 1120}, y \in {185, 525}}) \cup
        Vias({<<260, 445>>, <<690, 380>>, <<1120, 530>>})

BufFets(h) == [
    diff |-> {Box(135, 235, 690, 235 + 520), Box(690, 235, 1245, 235 + 520),
              Box(135, h - 235 - 790, 690, h - 235), Box(690, h - 235 - 790, 1245, h - 235)},
    poly |-> Outlines({
        <<395, 830, 365, 995, 135, 1325, 365, 1620, 395, h - 105, 545, 1500, 515, 950, 545, 105>>,
        <<835, 1060, 725, 1390, 835, h - 105, 985, 1390, 995, 1060, 985, 105>>}),
    npc |-> {Box(0, 975, 1380, 1410)},
    psdm |-> {Box(0, h - 1300, 1380, h + 190)},
    nsdm |-> {Box(0, -190, 1380, 1015)},
    nwell |-> {Box(-190, h - 1415, 1570, h + 190)}]

BufPads(h) ==
    {Pad("VPWR", "met1", Square(<<230, h>>, 170)), Pad("VGND", "met1", Square(<<230, 0>>, 170)),
     Pad("A", "li", Box(145, 1105, 315, 1275)), Pad("P", "li", Box(735, 1140, 905, 1310)),
     Pad("X", "li", Box(1055, 425, 1225, 595)),
     Pad("X", "li", Box(1055, h - 935, 1225, h - 765)),
     Pad("X", "li", Box(1055, h - 595, 1225, h - 425))}

BufCircuit == Inverter("A", "P", 790, 520) \cup Inverter("P", "X", 790, 520)

Buf(p) ==
    LET wires == Drawing([li |-> BufWires(p.height), licon |-> BufContacts(p.height),
                          mcon |-> RailCuts(p, {230, 690, 1150}), met1 |-> RailBars(p, 1380)])
    IN  Cell(Over(Drawing(BufFets(p.height)), wires), Box(0, 0, 1380, p.height),
             BufPads(p.height), {}, BufCircuit)

-----------------------------------------------------------------------------
(* Sky130Xor2.                                                              *)

xor2_width == 3220

XorPoly(h) == Outlines({
    <<435, 995, 375, 1325, 435, h - 105, 585, 1325, 645, 995, 585, 105>>,
    <<855, h - 105, 1005, 1325, 1275, h - 105, 1425, 105, 1275, 995, 1005, 105>>,
    <<1695, 995, 1635, 1325, 1695, h - 105, 1845, 1325, 1905, 995, 1845, 105>>,
    <<2615, 995, 2115, 1325, 2635, h - 105, 2785, 1160, 2765, 105>>})

\* Each transistor's diffusion meets its neighbour's between their gates.
XorDiffusion(h) ==
    LET pdiff_top == h - 235
        ndiff_bottom == 235
        P(x1, x2) == Box(x1, pdiff_top - 1000, x2, pdiff_top)
        N(x1, x2) == Box(x1, ndiff_bottom, x2, ndiff_bottom + 650)
        first == (585 + 855) \div 2
        second == (1005 + 1254) \div 2
        third == (1425 + 1695) \div 2
    IN  [pdiff |-> {P(175, first), P(first, second), P(second, third), P(third, 2105),
                    P(2375, 3085)},
         ndiff |-> {N(175, first), N(first, second), N(second, third), N(third, 2105),
                    N(2105, 3085)}]

XorWires(h) ==
    {Box(135, 85, 465, 475), Box(975, 85, 1305, 475), Box(2845, 85, 3135, 920),
     Box(1055, 1785, 1225, 2635), Box(1895, 2125, 2065, 2635), Box(840, 1075, 1390, 1275),
     Box(0, -85, xor2_width, 85), Box(0, h - 85, xor2_width, h + 85)} \cup Outlines({
        <<635, 655, 85, 2465, 465, 1785, 255, 825, 2105, 1325, 2335, 655, 805, 335>>,
        <<425, 1615, 1730, 1245, 1935, 1075, 1560, 1445, 670, 995>>,
        <<1395, 2465, 1725, 1955, 2235, 2465, 2635, 1785>>,
        <<1720, 485, 2505, 1535, 2815, 2465, 3135, 1365, 2675, 315>>})

XorContacts == Vias({
    <<720, 500>>, <<1980, 400>>, <<2480, 400>>, <<2930, 415>>, <<2930, 755>>,
    <<300, 2340>>, <<300, 2000>>, <<1560, 2290>>, <<1560, 1950>>, <<2500, 2290>>, <<2500, 1950>>,
    <<2920, 2300>>, <<2920, 1960>>, <<2920, 1620>>,
    <<510, 1160>>, <<1095, 1160>>, <<1770, 1160>>, <<2250, 1160>>,
    <<300, 390>>, <<1140, 390>>, <<1140, 2290>>, <<1140, 1950>>, <<1980, 2290>>})

\* Implants and the well enclose the diffusion by 180, and go on to the pins in the rails.
XorWells(h) ==
    LET pdiff_cover == Padded(Hull(XorDiffusion(h).pdiff), 180)
        ndiff_cover == Padded(Hull(XorDiffusion(h).ndiff), 180)
        upper == [pdiff_cover EXCEPT !.y2 = h + 85]
    IN  [nwell |-> {upper}, psdm |-> {upper}, nsdm |-> {[ndiff_cover EXCEPT !.y1 = -85]},
         npc |-> {Box(0, 975, xor2_width, 1345)}]

XorPads(h) ==
    {Pad("VPWR", "met1", Square(<<230, h>>, 170)), Pad("VGND", "met1", Square(<<230, 0>>, 170)),
     Pad("B", "li", Square(<<690, 1530>>, 170)), Pad("A", "li", Square(<<1150, 1190>>, 170)),
     Pad("X", "li", Square(<<2990, 1530>>, 170))}

XorMarks == {Mark("i_0", "li", 160, 1200), Mark("i_1", "diff", 780, 2000),
             Mark("i_2", "li", 1560, 2400), Mark("i_3", "diff", 1500, 400)}

XorCircuit ==
    {NFet("B", "i_0", "VGND", 650), NFet("A", "i_0", "VGND", 650),
     PFet("B", "i_1", "i_0", 1000), PFet("A", "VPWR", "i_1", 1000),
     PFet("A", "VPWR", "i_2", 1000), PFet("B", "VPWR", "i_2", 1000),
     NFet("i_0", "X", "VGND", 650), PFet("i_0", "i_2", "X", 1000),
     NFet("A", "X", "i_3", 650), NFet("B", "i_3", "VGND", 650)}

Xor2(p) ==
    LET h == p.height
        diffusion == XorDiffusion(h)
        wires == Drawing([li |-> XorWires(h), licon |-> XorContacts,
                          mcon |-> RailCuts(p, {230 + 460 * k : k \in 0..6}),
                          met1 |-> RailBars(p, xor2_width), poly |-> XorPoly(h),
                          diff |-> diffusion.pdiff \cup diffusion.ndiff])
    IN  Cell(Over(Drawing(XorWells(h)), wires), Box(0, 0, xor2_width, h), XorPads(h), XorMarks,
             XorCircuit)
====
